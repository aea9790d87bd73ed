---------------------------- MODULE TracksProofs ----------------------------
(***************************************************************************)
(* The ball tracker plays with a ball only as long as it was seen, and     *)
(* acquires one only where sightings of three frames lead, for every       *)
(* field, every drop time and any number of sightings in a frame.          *)
(***************************************************************************)
EXTENDS Tracks, SequenceTheorems, WellFoundedInduction, TLAPS

(* Arithmetic of the counters. *)
LEMMA Least ==
  ASSUME NEW T \in SUBSET Nat, T # {}
  PROVE  \E x \in T : \A y \in T : x <= y
<1>1. PICK x \in T : \A y \in T : ~ (<<y, x>> \in OpToRel(<, Nat))
  BY NatLessThanWellFounded, WFMin
<1>2. \A y \in T : ~(y < x)
  BY <1>1 DEF OpToRel
<1> QED BY <1>2

LEMMA MinOfTwo ==
  ASSUME NEW a \in Nat, NEW b \in Nat
  PROVE  Min({a, b}) = IF a <= b THEN a ELSE b
BY DEF Min

LEMMA OlderAge ==
  ASSUME NEW age \in 0 .. Drop, NEW dt \in Steps
  PROVE  /\ Older(age, dt) \in 0 .. Drop /\ Older(age, dt) >= age
         /\ Older(age, dt) = IF age + dt <= Drop THEN age + dt ELSE Drop
BY MinOfTwo, TrackAssumption DEF Older

LEMMA CountedFrames ==
  ASSUME NEW n \in 0 .. Confirmed
  PROVE  Counted(n) = IF n < Confirmed THEN n + 1 ELSE Confirmed
BY MinOfTwo DEF Counted, Confirmed

(* A set of lengths has a greatest one. *)
LEMMA GreatestLength ==
  ASSUME NEW L \in SUBSET (0 .. Confirmed), L # {}
  PROVE  Max(L) \in L /\ \A n \in L : n <= Max(L)
<1>1. \E m \in L : \A n \in L : m >= n
  <2>1. CASE 3 \in L
    BY <2>1 DEF Confirmed
  <2>2. CASE 3 \notin L /\ 2 \in L
    BY <2>2 DEF Confirmed
  <2>3. CASE 3 \notin L /\ 2 \notin L /\ 1 \in L
    BY <2>3 DEF Confirmed
  <2>4. CASE 3 \notin L /\ 2 \notin L /\ 1 \notin L
    <3>1. \A n \in L : n = 0
      BY <2>4 DEF Confirmed
    <3>2. 0 \in L
      BY <3>1
    <3>3. \A n \in L : 0 >= n
      BY <3>1
    <3> QED BY <3>2, <3>3
  <2> QED BY <2>1, <2>2, <2>3, <2>4
<1> QED BY <1>1 DEF Max
-----------------------------------------------------------------------------
(* Sequences of tracks and of sightings. *)
LEMMA FastRemoveType ==
  ASSUME NEW S, NEW s \in Seq(S), NEW i \in 1 .. Len(s)
  PROVE  /\ FastRemove(s, i) \in Seq(S) /\ Len(FastRemove(s, i)) = Len(s) - 1
         /\ \A j \in 1 .. Len(s) - 1 :
              FastRemove(s, i)[j] = IF j = i THEN s[Len(s)] ELSE s[j]
<1>1. Len(s) \in Nat /\ Len(s) - 1 \in Nat /\ \A j \in 1 .. Len(s) : s[j] \in S
  OBVIOUS
<1>2. \A j \in 1 .. Len(s) - 1 : (IF j = i THEN s[Len(s)] ELSE s[j]) \in S
  BY <1>1
<1> QED BY <1>1, <1>2 DEF FastRemove

Replaced(s, i, e) == [j \in DOMAIN s |-> IF j = i THEN e ELSE s[j]]

(* If a track has a sighting in reach, Nearest is one of them. *)
LEMMA NearestInReach ==
  ASSUME NEW t \in Track, NEW obs \in Seq(Sighting), InReach(obs, t) # {}
  PROVE  Nearest(obs, t) \in InReach(obs, t)
<1> DEFINE R == InReach(obs, t)
           d(j) == Distance(obs[j].pos, t.pos)
           D == {d(j) : j \in R}
<1>1. R \in SUBSET Nat /\ \A j \in R : obs[j].pos \in Nat /\ t.pos \in Nat
  <2>1. DOMAIN obs = 1 .. Len(obs) /\ Len(obs) \in Nat
        /\ \A j \in 1 .. Len(obs) : obs[j] \in Sighting
    OBVIOUS
  <2>2. R \subseteq 1 .. Len(obs)
    BY <2>1 DEF InReach
  <2>3. t.pos \in Nat /\ \A j \in 1 .. Len(obs) : obs[j].pos \in Nat
    BY <2>1, TrackAssumption DEF Sighting, Track
  <2> HIDE DEF R
  <2>4. R \in SUBSET Nat
    BY <2>1, <2>2
  <2> QED BY <2>2, <2>3, <2>4
<1>2. \A j \in R : d(j) \in Nat
  BY <1>1 DEF Distance
<1> HIDE DEF R, d
<1>3. D \in SUBSET Nat /\ D # {}
  BY <1>2 DEF R
<1>4. PICK m \in D : \A x \in D : m <= x
  BY <1>3, Least
<1> DEFINE J == {j \in R : d(j) = m}
<1>5. J \in SUBSET Nat /\ J # {}
  BY <1>1, <1>4
<1>6. PICK j \in J : \A k \in J : j <= k
  BY <1>5, Least
<1>7. j \in R /\ \A k \in R : d(j) < d(k) \/ (d(j) = d(k) /\ j <= k)
  <2>1. j \in R /\ d(j) = m /\ \A k \in R : d(k) = m => j <= k
    BY <1>6
  <2>2. \A k \in R : m <= d(k) /\ d(k) \in Nat
    BY <1>2, <1>4
  <2>3. m \in Nat
    BY <1>3, <1>4
  <2> HIDE DEF D, J
  <2> QED BY <2>1, <2>2, <2>3
<1> HIDE DEF D, J
<1> QED BY <1>7 DEF R, d, Nearest
-----------------------------------------------------------------------------
(* The loop over the possible tracks.                                      *)

WalkFrom(tracks, obs) == [i |-> 1, tracks |-> tracks, obs |-> obs]

IsWalk(g, tracks, obs, m) ==
  g = [n \in 0 .. m |-> IF n = 0 THEN WalkFrom(tracks, obs) ELSE Visit(g[n - 1])]

(* The turns of the loop are well defined. *)
LEMMA WalkExists ==
  ASSUME NEW tracks, NEW obs, NEW N \in Nat
  PROVE  \E g : IsWalk(g, tracks, obs, N)
<1> DEFINE Bad == {m \in Nat : ~ \E g : IsWalk(g, tracks, obs, m)}
<1> SUFFICES ASSUME Bad # {} PROVE FALSE
  OBVIOUS
<1>1. PICK m \in Bad : \A k \in Bad : m <= k
  BY Least
<1>2. CASE m = 0
  <2> DEFINE g == [n \in 0 .. 0 |-> WalkFrom(tracks, obs)]
  <2>1. IsWalk(g, tracks, obs, 0)
    BY DEF IsWalk
  <2> QED BY <1>2, <2>1
<1>3. CASE m # 0
  <2>1. m - 1 \in Nat /\ m - 1 \notin Bad
    BY <1>1, <1>3
  <2>2. PICK g : IsWalk(g, tracks, obs, m - 1)
    BY <2>1
  <2> DEFINE h == [n \in 0 .. m |-> IF n = m THEN Visit(g[m - 1]) ELSE g[n]]
  <2>3. \A n \in 0 .. m : h[n] = IF n = 0 THEN WalkFrom(tracks, obs) ELSE Visit(h[n - 1])
    BY <1>3, <2>1, <2>2 DEF IsWalk
  <2>4. h = [n \in 0 .. m |-> h[n]]
    OBVIOUS
  <2> HIDE DEF h
  <2>5. IsWalk(h, tracks, obs, m)
    BY <2>3, <2>4 DEF IsWalk
  <2> QED BY <2>5
<1> QED BY <1>2, <1>3

LEMMA WalkOf ==
  ASSUME NEW S, NEW tracks \in Seq(S), NEW obs
  PROVE  \E g : IsWalk(g, tracks, obs, Len(tracks)) /\ VisitAll(tracks, obs) = g[Len(tracks)]
<1>1. \E g : IsWalk(g, tracks, obs, Len(tracks))
  <2>1. Len(tracks) \in Nat
    OBVIOUS
  <2> QED BY <2>1, WalkExists
<1> QED BY <1>1 DEF VisitAll, IsWalk, WalkFrom

(* The tracks of s before i are good ones, those from i on old ones.       *)
Visited(s, i, Old, Good) ==
  /\ s \in Seq(Old \cup Good)
  /\ \A j \in 1 .. Len(s) : IF j < i THEN s[j] \in Good ELSE s[j] \in Old

(* After n turns of N: the tracks before w.i have been visited and are     *)
(* good, those from w.i on are as they were.                               *)
Walking(w, n, N, Old, Good, Src) ==
  /\ w.obs \in Seq(Src) /\ Visited(w.tracks, w.i, Old, Good)
  /\ w.i \in Nat \ {0} /\ w.i + N = Len(w.tracks) + n + 1

LEMMA RemoveVisited ==
  ASSUME NEW Old, NEW Good, NEW s, NEW i \in 1 .. Len(s), Visited(s, i, Old, Good)
  PROVE  /\ Visited(FastRemove(s, i), i, Old, Good)
         /\ Len(FastRemove(s, i)) = Len(s) - 1
<1> DEFINE r == FastRemove(s, i)
<1>1. s \in Seq(Old \cup Good) /\ Len(s) \in Nat /\ s[Len(s)] \in Old
  BY DEF Visited
<1>2. /\ r \in Seq(Old \cup Good) /\ Len(r) = Len(s) - 1
      /\ \A j \in 1 .. Len(s) - 1 : r[j] = IF j = i THEN s[Len(s)] ELSE s[j]
  BY <1>1, FastRemoveType
<1> HIDE DEF r
<1>3. \A j \in 1 .. Len(r) : IF j < i THEN r[j] \in Good ELSE r[j] \in Old
  BY <1>1, <1>2 DEF Visited
<1> QED BY <1>2, <1>3 DEF r, Visited

LEMMA ReplaceVisited ==
  ASSUME NEW Old, NEW Good, NEW s, NEW i \in 1 .. Len(s), Visited(s, i, Old, Good),
         NEW e \in Good
  PROVE  /\ Visited(Replaced(s, i, e), i + 1, Old, Good)
         /\ Len(Replaced(s, i, e)) = Len(s)
<1> DEFINE r == Replaced(s, i, e)
<1>1. s \in Seq(Old \cup Good) /\ Len(s) \in Nat /\ e \in Old \cup Good
  BY DEF Visited
<1>2. /\ r \in Seq(Old \cup Good) /\ Len(r) = Len(s)
      /\ \A j \in 1 .. Len(s) : r[j] = IF j = i THEN e ELSE s[j]
  <2>1. DOMAIN s = 1 .. Len(s) /\ \A j \in 1 .. Len(s) : s[j] \in Old \cup Good
    BY <1>1
  <2> QED BY <1>1, <2>1 DEF Replaced
<1> HIDE DEF r
<1>3. \A j \in 1 .. Len(r) : IF j < i + 1 THEN r[j] \in Good ELSE r[j] \in Old
  BY <1>1, <1>2 DEF Visited
<1> QED BY <1>2, <1>3 DEF r, Visited

(* Every old track that is not removed becomes a good one. *)
TurnsGood(Old, Good, Src) ==
  \A t \in Old, obs \in Seq(Src) : Follow(t, obs).age >= Drop \/ Follow(t, obs) \in Good

LEMMA WalkingIs ==
  ASSUME NEW Old, NEW Good, NEW Src, NEW N, NEW n, NEW i \in Nat \ {0},
         NEW obs \in Seq(Src), NEW s, Visited(s, i, Old, Good), i + N = Len(s) + n + 1
  PROVE  Walking([i |-> i, obs |-> obs, tracks |-> s], n, N, Old, Good, Src)
BY DEF Walking

LEMMA VisitWalks ==
  ASSUME NEW Old \in SUBSET Track, NEW Good \in SUBSET Track, NEW Src \in SUBSET Sighting,
         TurnsGood(Old, Good, Src), NEW N \in Nat, NEW n \in 1 .. N, NEW w,
         Walking(w, n - 1, N, Old, Good, Src)
  PROVE  Walking(Visit(w), n, N, Old, Good, Src)
<1> DEFINE t    == w.tracks[w.i]
           next == Follow(t, w.obs)
           left == IF next.current THEN FastRemove(w.obs, Nearest(w.obs, t)) ELSE w.obs
           kept == Replaced(w.tracks, w.i, next)
<1>1. /\ Len(w.tracks) \in Nat /\ w.i \in 1 .. Len(w.tracks)
      /\ w.tracks \in Seq(Old \cup Good) /\ w.obs \in Seq(Src)
      /\ t \in Old /\ w.i + N = Len(w.tracks) + n
  BY DEF Walking, Visited
<1>2. left \in Seq(Src)
  <2>1. CASE InReach(w.obs, t) = {}
    <3>1. next = [t EXCEPT !.current = FALSE] /\ t \in Track
      BY <1>1, <2>1 DEF Follow
    <3>2. next.current = FALSE
      BY <3>1 DEF Track
    <3> QED BY <1>1, <3>2
  <2>2. CASE InReach(w.obs, t) # {}
    <3>1. Nearest(w.obs, t) \in InReach(w.obs, t)
      BY <1>1, <2>2, NearestInReach
    <3>2. Nearest(w.obs, t) \in 1 .. Len(w.obs)
      BY <1>1, <3>1 DEF InReach
    <3>3. FastRemove(w.obs, Nearest(w.obs, t)) \in Seq(Src)
      BY <1>1, <3>2, FastRemoveType
    <3> QED BY <1>1, <3>3
  <2> QED BY <2>1, <2>2
<1>3. next.age >= Drop \/ next \in Good
  BY <1>1 DEF TurnsGood
<1>4. Visit(w) = IF next.age >= Drop
                   THEN [i |-> w.i, obs |-> left, tracks |-> FastRemove(w.tracks, w.i)]
                   ELSE [i |-> w.i + 1, obs |-> left, tracks |-> kept]
  BY DEF Visit, Replaced
<1> HIDE DEF t, next, left
<1>5. Visited(w.tracks, w.i, Old, Good)
  BY DEF Walking
<1>6. CASE next.age >= Drop
  <2> DEFINE r == FastRemove(w.tracks, w.i)
  <2>1. Visited(r, w.i, Old, Good) /\ Len(r) = Len(w.tracks) - 1
    BY <1>1, <1>5, RemoveVisited
  <2>2. Visit(w) = [i |-> w.i, obs |-> left, tracks |-> r]
    BY <1>4, <1>6
  <2> HIDE DEF r
  <2>3. w.i \in Nat \ {0} /\ w.i + N = Len(r) + n + 1
    BY <1>1, <2>1
  <2> QED BY <1>2, <2>1, <2>2, <2>3, WalkingIs
<1>7. CASE ~(next.age >= Drop)
  <2>1. next \in Good
    BY <1>3, <1>7
  <2>2. Visited(kept, w.i + 1, Old, Good) /\ Len(kept) = Len(w.tracks)
    BY <1>1, <1>5, <2>1, ReplaceVisited
  <2>3. Visit(w) = [i |-> w.i + 1, obs |-> left, tracks |-> kept]
    BY <1>4, <1>7
  <2> HIDE DEF kept
  <2>4. w.i + 1 \in Nat \ {0} /\ (w.i + 1) + N = Len(kept) + n + 1
    <3>1. w.i \in Nat /\ Len(w.tracks) \in Nat /\ n \in Nat /\ w.i + N = Len(w.tracks) + n
      BY <1>1
    <3>2. Len(kept) = Len(w.tracks)
      BY <2>2
    <3> QED BY <3>1, <3>2
  <2> QED BY <1>2, <2>2, <2>3, <2>4, WalkingIs
<1> QED BY <1>6, <1>7

LEMMA VisitAllGood ==
  ASSUME NEW Old \in SUBSET Track, NEW Good \in SUBSET Track, NEW Src \in SUBSET Sighting,
         TurnsGood(Old, Good, Src), NEW tracks \in Seq(Old), NEW obs \in Seq(Src)
  PROVE  LET w == VisitAll(tracks, obs) IN w.tracks \in Seq(Good) /\ w.obs \in Seq(Src)
<1> DEFINE N == Len(tracks)
<1>1. PICK g : IsWalk(g, tracks, obs, N) /\ VisitAll(tracks, obs) = g[N]
  BY WalkOf
<1>2. N \in Nat
  OBVIOUS
<1> DEFINE Bad == {n \in 0 .. N : ~ Walking(g[n], n, N, Old, Good, Src)}
<1>3. Bad = {}
  <2> SUFFICES ASSUME Bad # {} PROVE FALSE
    OBVIOUS
  <2>1. PICK n \in Bad : \A k \in Bad : n <= k
    <3>1. Bad \in SUBSET Nat
      BY <1>2
    <3> HIDE DEF Bad
    <3> QED BY <3>1, Least
  <2>2. CASE n = 0
    <3>1. g[0] = WalkFrom(tracks, obs)
      BY <1>1, <1>2 DEF IsWalk
    <3>2. tracks \in Seq(Old \cup Good)
      OBVIOUS
    <3>3. Walking(g[0], 0, N, Old, Good, Src)
      BY <3>1, <3>2, <1>2 DEF Walking, WalkFrom, Visited
    <3> QED BY <2>2, <3>3
  <2>3. CASE n # 0
    <3>1. n \in 1 .. N /\ n - 1 \in 0 .. N /\ n - 1 \notin Bad
      BY <1>2, <2>1, <2>3
    <3>2. g[n] = Visit(g[n - 1])
      BY <1>1, <3>1 DEF IsWalk
    <3>3. Walking(g[n - 1], n - 1, N, Old, Good, Src)
      BY <3>1
    <3>4. Walking(g[n], n, N, Old, Good, Src)
      BY <1>2, <3>1, <3>2, <3>3, VisitWalks
    <3> QED BY <3>4
  <2> QED BY <2>2, <2>3
<1> DEFINE w == g[N]
<1>4. Walking(w, N, N, Old, Good, Src)
  BY <1>2, <1>3
<1> HIDE DEF w
<1>5. w.obs \in Seq(Src) /\ Len(w.tracks) \in Nat /\ w.tracks \in Seq(Old \cup Good)
      /\ \A j \in 1 .. Len(w.tracks) : w.tracks[j] \in Good
  BY <1>2, <1>4 DEF Walking, Visited
<1>6. w.tracks \in Seq(Good)
  BY <1>5
<1> QED BY <1>1, <1>5, <1>6 DEF w
-----------------------------------------------------------------------------
(* The tracks that start with what is left.                                *)

StartWith(ts, o) == IF o.pos \in Field THEN Append(ts, NewTrack(o)) ELSE ts

IsStart(g, tracks, obs, m) ==
  g = [n \in 0 .. m |-> IF n = 0 THEN tracks ELSE StartWith(g[n - 1], obs[n])]

LEMMA StartExists ==
  ASSUME NEW tracks, NEW obs, NEW N \in Nat
  PROVE  \E g : IsStart(g, tracks, obs, N)
<1> DEFINE Bad == {m \in Nat : ~ \E g : IsStart(g, tracks, obs, m)}
<1> SUFFICES ASSUME Bad # {} PROVE FALSE
  OBVIOUS
<1>1. PICK m \in Bad : \A k \in Bad : m <= k
  BY Least
<1>2. CASE m = 0
  <2> DEFINE g == [n \in 0 .. 0 |-> tracks]
  <2>1. IsStart(g, tracks, obs, 0)
    BY DEF IsStart
  <2> QED BY <1>2, <2>1
<1>3. CASE m # 0
  <2>1. m - 1 \in Nat /\ m - 1 \notin Bad
    BY <1>1, <1>3
  <2>2. PICK g : IsStart(g, tracks, obs, m - 1)
    BY <2>1
  <2> DEFINE h == [n \in 0 .. m |-> IF n = m THEN StartWith(g[m - 1], obs[m]) ELSE g[n]]
  <2>3. \A n \in 0 .. m : h[n] = IF n = 0 THEN tracks ELSE StartWith(h[n - 1], obs[n])
    BY <1>3, <2>1, <2>2 DEF IsStart
  <2>4. h = [n \in 0 .. m |-> h[n]]
    OBVIOUS
  <2> HIDE DEF h
  <2>5. IsStart(h, tracks, obs, m)
    BY <2>3, <2>4 DEF IsStart
  <2> QED BY <2>5
<1> QED BY <1>2, <1>3

LEMMA StartOf ==
  ASSUME NEW S, NEW tracks, NEW obs \in Seq(S)
  PROVE  \E g : IsStart(g, tracks, obs, Len(obs)) /\ StartTracks(tracks, obs) = g[Len(obs)]
<1>1. \E g : IsStart(g, tracks, obs, Len(obs))
  <2>1. Len(obs) \in Nat
    OBVIOUS
  <2> QED BY <2>1, StartExists
<1> QED BY <1>1 DEF StartTracks, IsStart, StartWith

(* What holds of the tracks there are and of every new one on the field    *)
(* holds of all tracks afterwards.                                         *)
LEMMA StartAllGood ==
  ASSUME NEW Good, NEW Src, NEW tracks \in Seq(Good), NEW obs \in Seq(Src),
         \A o \in Src : o.pos \in Field => NewTrack(o) \in Good
  PROVE  StartTracks(tracks, obs) \in Seq(Good)
<1> DEFINE N == Len(obs)
<1>1. PICK g : IsStart(g, tracks, obs, N) /\ StartTracks(tracks, obs) = g[N]
  BY StartOf
<1>2. N \in Nat /\ \A n \in 1 .. N : obs[n] \in Src
  OBVIOUS
<1> DEFINE Bad == {n \in 0 .. N : g[n] \notin Seq(Good)}
<1>3. Bad = {}
  <2> SUFFICES ASSUME Bad # {} PROVE FALSE
    OBVIOUS
  <2>1. PICK n \in Bad : \A k \in Bad : n <= k
    <3>1. Bad \in SUBSET Nat
      BY <1>2
    <3> HIDE DEF Bad
    <3> QED BY <3>1, Least
  <2>2. CASE n = 0
    <3>1. g[0] = tracks
      BY <1>1, <1>2 DEF IsStart
    <3> QED BY <2>2, <3>1
  <2>3. CASE n # 0
    <3>1. n \in 1 .. N /\ n - 1 \in 0 .. N /\ n - 1 \notin Bad
      BY <1>2, <2>1, <2>3
    <3>2. g[n] = StartWith(g[n - 1], obs[n])
      BY <1>1, <3>1 DEF IsStart
    <3>3. g[n - 1] \in Seq(Good) /\ obs[n] \in Src
      BY <1>2, <3>1
    <3>4. g[n] \in Seq(Good)
      BY <3>2, <3>3 DEF StartWith
    <3> QED BY <3>4
  <2> QED BY <2>2, <2>3
<1> QED BY <1>1, <1>2, <1>3
-----------------------------------------------------------------------------
(* Why the tracks are backed by sightings.                                 *)

(* T holds a way to where the track was last seen that is as long as the   *)
(* track has frames.                                                       *)
Backed(t, T) == \E r \in T : r.pos = t.pos /\ r.age = t.age /\ r.length >= t.frames

OldTracks(dt) ==
  {t \in Track : \E u \in Track : Backed(u, trails) /\ t = [u EXCEPT !.age = Older(u.age, dt)]}

GoodTracks(T) == {t \in Track : t.age < Drop /\ Backed(t, T)}

(* A new track may start with a sighting that is as late as Drop.          *)
KeptTracks(T) == {t \in Track : (t.age < Drop \/ t.frames = 1) /\ Backed(t, T)}

Sources(T) == {o \in Sighting : Extend(o) \in T}

Recorded(T, obs, dt) ==
  T = {r \in {[q EXCEPT !.age = Older(@, dt)] : q \in trails} : r.age < Drop}
        \cup {Extend(obs[j]) : j \in DOMAIN obs}

(* The way that ends in a sighting is longer by one than each that led to  *)
(* its neighbourhood.                                                      *)
LEMMA ExtendLonger ==
  ASSUME trails \subseteq Trail, NEW o \in Sighting, o.pos \in Field
  PROVE  /\ Extend(o).pos = o.pos /\ Extend(o).age = o.age
         /\ Extend(o).length \in 1 .. Confirmed
         /\ \A r \in trails : Near(r.pos, o.pos) => Extend(o).length >= Counted(r.length)
<1> DEFINE L == {0} \cup {r.length : r \in {q \in trails : Near(q.pos, o.pos)}}
<1>1. L \in SUBSET (0 .. Confirmed) /\ L # {}
  BY DEF Trail, Confirmed
<1>2. Extend(o) = [pos |-> o.pos, age |-> o.age, length |-> Counted(Max(L))]
  BY DEF Extend
<1> HIDE DEF L
<1>3. Max(L) \in L /\ \A n \in L : n <= Max(L)
  BY <1>1, GreatestLength
<1>4. Max(L) \in 0 .. Confirmed
  BY <1>1, <1>3
<1>5. Counted(Max(L)) \in 1 .. Confirmed
  BY <1>4, CountedFrames DEF Confirmed
<1>6. ASSUME NEW r \in trails, Near(r.pos, o.pos)
      PROVE  Counted(Max(L)) >= Counted(r.length)
  <2>1. r.length \in L
    BY <1>6 DEF L
  <2>2. r.length \in 0 .. Confirmed /\ r.length <= Max(L)
    BY <1>1, <1>3, <2>1
  <2> QED BY <1>4, <2>2, CountedFrames DEF Confirmed
<1> QED BY <1>2, <1>5, <1>6

LEMMA SeeingType ==
  ASSUME NEW o \in Sighting, NEW n \in 1 .. Confirmed
  PROVE  /\ Seeing(o, n) \in Track /\ Seeing(o, n).pos = o.pos
         /\ Seeing(o, n).age = o.age /\ Seeing(o, n).frames = n
         /\ o.age \in 0 .. Drop /\ Drop \in Nat
<1>1. o.pos \in Cells /\ o.age \in Ages
  BY DEF Sighting
<1>2. o.age \in 0 .. Drop /\ Drop \in Nat
  BY <1>1, TrackAssumption
<1> QED BY <1>1, <1>2 DEF Seeing, Track

LEMMA TracksTurnGood ==
  ASSUME trails \subseteq Trail, NEW dt \in Steps, NEW all, NEW T, Recorded(T, all, dt)
  PROVE  TurnsGood(OldTracks(dt), GoodTracks(T), Sources(T))
<1> SUFFICES ASSUME NEW t \in OldTracks(dt), NEW obs \in Seq(Sources(T)),
                    ~(Follow(t, obs).age >= Drop)
             PROVE  Follow(t, obs) \in GoodTracks(T)
  BY DEF TurnsGood
<1>1. PICK u \in Track : Backed(u, trails) /\ t = [u EXCEPT !.age = Older(u.age, dt)]
  BY DEF OldTracks
<1>2. PICK q \in trails : q.pos = u.pos /\ q.age = u.age /\ q.length >= u.frames
  BY <1>1 DEF Backed
<1>3. /\ t \in Track /\ t.pos = u.pos /\ t.frames = u.frames /\ t.age = Older(q.age, dt)
      /\ q \in Trail
  BY <1>1, <1>2 DEF OldTracks, Track
<1>4. CASE InReach(obs, t) = {}
  <2> DEFINE r == [q EXCEPT !.age = Older(q.age, dt)]
  <2>1. Follow(t, obs) = [t EXCEPT !.current = FALSE]
    BY <1>4 DEF Follow
  <2>2. /\ Follow(t, obs) \in Track /\ Follow(t, obs).pos = t.pos
        /\ Follow(t, obs).age = t.age /\ Follow(t, obs).frames = t.frames
    BY <1>3, <2>1 DEF Track
  <2>3. t.age \in Nat /\ Drop \in Nat
    BY <1>3, TrackAssumption DEF Track
  <2>4. t.age < Drop
    BY <2>2, <2>3
  <2>5. r.pos = t.pos /\ r.age = t.age /\ r.length >= t.frames
    BY <1>2, <1>3 DEF Trail
  <2>6. r \in T
    BY <1>2, <2>4, <2>5 DEF Recorded
  <2> HIDE DEF r
  <2> QED BY <2>2, <2>4, <2>5, <2>6 DEF GoodTracks, Backed
<1>5. CASE InReach(obs, t) # {}
  <2> DEFINE j == Nearest(obs, t)
             o == obs[j]
  <2>1. obs \in Seq(Sighting)
    BY DEF Sources
  <2>2. j \in InReach(obs, t)
    BY <1>3, <1>5, <2>1, NearestInReach
  <2>3. j \in 1 .. Len(obs) /\ o.pos \in Field /\ Near(o.pos, t.pos)
    BY <2>1, <2>2 DEF InReach
  <2>4. o \in Sources(T)
    BY <2>3
  <2>5. Follow(t, obs) = Seeing(o, Counted(t.frames))
    BY <1>5 DEF Follow
  <2> HIDE DEF j, o
  <2>6. o \in Sighting /\ Extend(o) \in T
    BY <2>4 DEF Sources
  <2>7. Near(q.pos, o.pos)
    <3>1. o.pos \in Nat /\ t.pos \in Nat /\ q.pos = t.pos
      BY <1>2, <1>3, <2>6, TrackAssumption DEF Sighting, Track
    <3> QED BY <2>3, <3>1 DEF Near, Distance
  <2>8. /\ Extend(o).pos = o.pos /\ Extend(o).age = o.age
        /\ Extend(o).length \in 1 .. Confirmed /\ Extend(o).length >= Counted(q.length)
    BY <2>3, <2>6, <2>7, ExtendLonger
  <2>9. t.frames \in 1 .. Confirmed /\ q.length \in 0 .. Confirmed /\ q.length >= t.frames
    BY <1>2, <1>3 DEF Track, Trail
  <2>10. Counted(t.frames) \in 1 .. Confirmed /\ Extend(o).length >= Counted(t.frames)
    BY <2>8, <2>9, CountedFrames DEF Confirmed
  <2>11. /\ Follow(t, obs) \in Track /\ Follow(t, obs).pos = o.pos
         /\ Follow(t, obs).age = o.age /\ Follow(t, obs).frames = Counted(t.frames)
         /\ o.age \in 0 .. Drop /\ Drop \in Nat
    BY <2>5, <2>6, <2>10, SeeingType
  <2>12. Follow(t, obs).age < Drop
    BY <2>11
  <2> QED BY <2>6, <2>8, <2>10, <2>11, <2>12 DEF GoodTracks, Backed
<1> QED BY <1>4, <1>5

LEMMA NewTrackKept ==
  ASSUME trails \subseteq Trail, NEW T, NEW o \in Sources(T), o.pos \in Field
  PROVE  NewTrack(o) \in KeptTracks(T)
<1>1. o \in Sighting /\ Extend(o) \in T
  BY DEF Sources
<1>2. /\ Extend(o).pos = o.pos /\ Extend(o).age = o.age
      /\ Extend(o).length \in 1 .. Confirmed
  BY <1>1, ExtendLonger
<1>3. /\ NewTrack(o) \in Track /\ NewTrack(o).pos = o.pos
      /\ NewTrack(o).age = o.age /\ NewTrack(o).frames = 1
  BY <1>1, SeeingType DEF NewTrack, Confirmed
<1>4. Extend(o).length >= NewTrack(o).frames
  BY <1>2, <1>3 DEF Confirmed
<1> QED BY <1>1, <1>2, <1>3, <1>4 DEF KeptTracks, Backed

LEMMA UpdateKeeps ==
  ASSUME trails \subseteq Trail, NEW dt \in Steps, NEW all, NEW T, Recorded(T, all, dt),
         NEW tracks \in Seq(OldTracks(dt)), NEW obs \in Seq(Sources(T))
  PROVE  UpdatePossible(tracks, obs) \in Seq(KeptTracks(T))
<1> DEFINE w == VisitAll(tracks, obs)
<1>1. /\ OldTracks(dt) \in SUBSET Track /\ GoodTracks(T) \in SUBSET Track
      /\ Sources(T) \in SUBSET Sighting
  BY DEF OldTracks, GoodTracks, Sources
<1>2. TurnsGood(OldTracks(dt), GoodTracks(T), Sources(T))
  BY TracksTurnGood
<1>3. w.tracks \in Seq(GoodTracks(T)) /\ w.obs \in Seq(Sources(T))
  BY <1>1, <1>2, VisitAllGood
<1> HIDE DEF w
<1>4. w.tracks \in Seq(KeptTracks(T))
  <2>1. GoodTracks(T) \subseteq KeptTracks(T)
    BY DEF GoodTracks, KeptTracks
  <2> QED BY <1>3, <2>1
<1>5. \A o \in Sources(T) : o.pos \in Field => NewTrack(o) \in KeptTracks(T)
  BY NewTrackKept
<1>6. StartTracks(w.tracks, w.obs) \in Seq(KeptTracks(T))
  BY <1>3, <1>4, <1>5, StartAllGood
<1> QED BY <1>6 DEF UpdatePossible, w
-----------------------------------------------------------------------------
(* The inductive invariant.                                                *)

(* Sightings lead to every possible track: were the tracks not, the one    *)
(* that is acquired would not be.                                          *)
TracksBacked == \A i \in DOMAIN possible : Backed(possible[i], trails)

(* An acquired track is one of the possible ones of that frame.            *)
AcquiredBacked == acquired # NoTrack => acquired.frames = Confirmed /\ Backed(acquired, trails)

IInv == TypeOK /\ ValidIsRecent /\ TracksBacked /\ AcquiredBacked

LEMMA FirstAcquirable ==
  ASSUME NEW S, NEW tracks \in Seq(S), NEW i, i = SelectInSeq(tracks, Acquirable)
  PROVE  i = 0 \/ (i \in 1 .. Len(tracks) /\ Acquirable(tracks[i]))
<1> DEFINE I == {k \in 1 .. Len(tracks) : Acquirable(tracks[k])}
<1>1. Len(tracks) \in Nat /\ I \in SUBSET Nat
  OBVIOUS
<1>2. i = IF I # {} THEN Min(I) ELSE 0
  BY DEF SelectInSeq
<1>3. I # {} => Min(I) \in I
  <2> HIDE DEF I
  <2> SUFFICES ASSUME I # {} PROVE Min(I) \in I
    OBVIOUS
  <2>1. \E x \in I : \A y \in I : x <= y
    BY <1>1, Least
  <2> QED BY <2>1 DEF Min
<1> QED BY <1>2, <1>3

(* What the filters leave: the disjuncts of the new state of a frame.      *)
LEMMA FilterStep ==
  ASSUME IInv, NEW T, T \subseteq Trail, NEW obs, NEW tracks, NEW age \in 0 .. Drop,
         NEW took \in BOOLEAN, FollowReal(tracks, obs, age, took),
         UpdatePossible(tracks, obs) \in Seq(KeptTracks(T))
  PROVE  /\ tracked' \in BOOLEAN /\ valid' \in BOOLEAN /\ lastTrack' \in 0 .. Drop
         /\ possible' \in Seq(KeptTracks(T)) /\ acquired' \in Track \cup {NoTrack}
         /\ valid' = tracked' /\ (valid' => lastTrack' < Drop)
         /\ acquired' # NoTrack => acquired'.frames = Confirmed /\ Backed(acquired', T)
<1> DEFINE updated == UpdatePossible(tracks, obs)
           i == SelectInSeq(updated, Acquirable)
<1>1. updated \in Seq(KeptTracks(T)) /\ Drop \in Nat
  BY TrackAssumption
<1>2. tracked \in BOOLEAN /\ valid = tracked
  BY DEF IInv, TypeOK, ValidIsRecent
<1>3. CASE tracked /\ ~Drops(age)
  <2>1. /\ lastTrack' = age /\ valid' = (valid \/ took) /\ possible' = updated
        /\ acquired' = NoTrack /\ tracked' = tracked
    BY <1>3 DEF FollowReal
  <2>2. age < Drop
    BY <1>1, <1>3 DEF Drops
  <2> HIDE DEF updated
  <2> QED BY <1>1, <1>2, <1>3, <2>1, <2>2
<1>4. CASE ~(tracked /\ ~Drops(age)) /\ i = 0
  <2>1. /\ tracked' = FALSE /\ valid' = FALSE /\ lastTrack' = age
        /\ possible' = updated /\ acquired' = NoTrack
    BY <1>4 DEF FollowReal, Acquire
  <2> HIDE DEF updated
  <2> QED BY <1>1, <2>1
<1>5. CASE ~(tracked /\ ~Drops(age)) /\ i # 0
  <2>1. /\ tracked' = TRUE /\ valid' = TRUE /\ lastTrack' = updated[i].age
        /\ possible' = FastRemove(updated, i) /\ acquired' = updated[i]
    BY <1>5 DEF FollowReal, Acquire
  <2>2. i \in 1 .. Len(updated) /\ Acquirable(updated[i])
    <3>1. i = 0 \/ (i \in 1 .. Len(updated) /\ Acquirable(updated[i]))
      <4> HIDE DEF updated
      <4> QED BY <1>1, FirstAcquirable
    <3> QED BY <1>5, <3>1
  <2> HIDE DEF updated, i
  <2> DEFINE t == updated[i]
  <2>3. t \in KeptTracks(T)
    BY <1>1, <2>2
  <2> HIDE DEF t
  <2>4. /\ t \in Track /\ Backed(t, T) /\ t.age \in 0 .. Drop
        /\ t.frames \in 1 .. Confirmed /\ (t.age < Drop \/ t.frames = 1)
    BY <2>3 DEF KeptTracks, Track
  <2>5. t.frames = Confirmed /\ t.age < Drop
    <3>1. t.frames >= Confirmed
      BY <2>2 DEF Acquirable, t
    <3> QED BY <2>4, <3>1 DEF Confirmed
  <2>6. FastRemove(updated, i) \in Seq(KeptTracks(T))
    BY <1>1, <2>2, FastRemoveType
  <2>7. lastTrack' = t.age /\ acquired' = t
    BY <2>1 DEF t
  <2> QED BY <2>1, <2>4, <2>5, <2>6, <2>7
<1> QED BY <1>3, <1>4, <1>5

LEMMA AgedTracks ==
  ASSUME IInv, NEW dt \in Steps
  PROVE  [i \in DOMAIN possible |-> [possible[i] EXCEPT !.age = Older(@, dt)]]
           \in Seq(OldTracks(dt))
<1> DEFINE aged == [i \in DOMAIN possible |-> [possible[i] EXCEPT !.age = Older(@, dt)]]
<1>1. /\ possible \in Seq(Track) /\ Len(possible) \in Nat
      /\ DOMAIN possible = 1 .. Len(possible)
      /\ \A i \in 1 .. Len(possible) : possible[i] \in Track /\ Backed(possible[i], trails)
  BY DEF IInv, TypeOK, TracksBacked
<1>2. ASSUME NEW u \in Track, Backed(u, trails)
      PROVE  [u EXCEPT !.age = Older(u.age, dt)] \in OldTracks(dt)
  <2>1. Older(u.age, dt) \in 0 .. Drop
    BY OlderAge DEF Track
  <2>2. [u EXCEPT !.age = Older(u.age, dt)] \in Track
    BY <2>1 DEF Track
  <2> QED BY <1>2, <2>2 DEF OldTracks
<1>3. \A i \in 1 .. Len(possible) : [possible[i] EXCEPT !.age = Older(@, dt)] \in OldTracks(dt)
  BY <1>1, <1>2
<1> QED BY <1>1, <1>3

LEMMA RecordType ==
  ASSUME trails \subseteq Trail, NEW dt \in Steps, NEW obs \in Seq(Sighting),
         NEW T, Recorded(T, obs, dt)
  PROVE  T \subseteq Trail /\ obs \in Seq(Sources(T))
<1>1. ASSUME NEW q \in trails PROVE [q EXCEPT !.age = Older(q.age, dt)] \in Trail
  <2>1. q \in Trail /\ Older(q.age, dt) \in 0 .. Drop
    BY OlderAge DEF Trail
  <2> QED BY <2>1 DEF Trail
<1>2. ASSUME NEW o \in Sighting PROVE Extend(o) \in Trail
  <2>1. o.pos \in Cells /\ o.age \in 0 .. Drop
    BY TrackAssumption DEF Sighting
  <2>2. CASE o.pos \in Field
    <3>1. Extend(o).length \in 0 .. Confirmed
      BY <2>2, ExtendLonger DEF Confirmed
    <3> QED BY <2>1, <3>1 DEF Extend, Trail
  <2>3. CASE o.pos \notin Field
    <3>1. Extend(o) = [pos |-> o.pos, age |-> o.age, length |-> 0]
      BY <2>3 DEF Extend
    <3> QED BY <2>1, <3>1 DEF Trail, Confirmed
  <2> QED BY <2>2, <2>3
<1>3. /\ DOMAIN obs = 1 .. Len(obs) /\ Len(obs) \in Nat
      /\ \A j \in 1 .. Len(obs) : obs[j] \in Sighting
  OBVIOUS
<1>4. T \subseteq Trail
  BY <1>1, <1>2, <1>3 DEF Recorded
<1>5. \A j \in 1 .. Len(obs) : obs[j] \in Sources(T)
  BY <1>3 DEF Recorded, Sources
<1> QED BY <1>3, <1>4, <1>5

LEMMA IInvInit == Init => IInv
<1> SUFFICES ASSUME Init PROVE IInv
  OBVIOUS
<1>1. /\ tracked = FALSE /\ lastTrack = Drop /\ possible = <<>> /\ valid = FALSE
      /\ frame = 0 /\ trails = {} /\ acquired = NoTrack
  BY DEF Init
<1>2. TypeOK
  <2>1. lastTrack \in 0 .. Drop
    BY <1>1, TrackAssumption
  <2>2. possible \in Seq(Track)
    BY <1>1
  <2> QED BY <1>1, <2>1, <2>2 DEF TypeOK
<1>3. ValidIsRecent /\ AcquiredBacked
  BY <1>1 DEF ValidIsRecent, AcquiredBacked
<1>4. TracksBacked
  <2>1. DOMAIN possible = {}
    BY <1>1
  <2> QED BY <2>1 DEF TracksBacked
<1> QED BY <1>2, <1>3, <1>4 DEF IInv

LEMMA SightingsOfFrame ==
  ASSUME NEW obs \in BoundedSeq(Sighting, MaxSightings)
  PROVE  obs \in Seq(Sighting)
<1>1. PICK m \in 0 .. MaxSightings : obs \in [1 .. m -> Sighting]
  BY DEF BoundedSeq, SeqOf
<1>2. m \in Nat
  BY <1>1
<1> QED BY <1>1, <1>2

LEMMA RunKeepsIInv ==
  ASSUME IInv, NEW obs \in BoundedSeq(Sighting, MaxSightings), NEW dt \in Steps,
         Run(obs, dt), frame' = 1 - frame
  PROVE  IInv'
<1> DEFINE aged == [i \in DOMAIN possible |-> [possible[i] EXCEPT !.age = Older(@, dt)]]
           before == Older(lastTrack, dt)
<1>1. trails \subseteq Trail /\ lastTrack \in 0 .. Drop /\ frame \in {0, 1}
  BY DEF IInv, TypeOK
<1>2. obs \in Seq(Sighting)
  BY SightingsOfFrame
<1>3. Recorded(trails', obs, dt)
  BY DEF Run, Record, Recorded
<1>4. trails' \subseteq Trail /\ obs \in Seq(Sources(trails'))
  BY <1>1, <1>2, <1>3, RecordType
<1>5. aged \in Seq(OldTracks(dt))
  BY AgedTracks
<1>6. before \in 0 .. Drop
  BY <1>1, OlderAge
<1>7. PICK rest \in Seq(Sources(trails')), age \in 0 .. Drop, took \in BOOLEAN :
        FollowReal(aged, rest, age, took)
  <2>1. CASE FollowReal(aged, obs, before, FALSE)
    BY <1>4, <1>6, <2>1
  <2>2. CASE \E j \in DOMAIN obs : /\ obs[j].age < before
                                   /\ FollowReal(aged, FastRemove(obs, j), obs[j].age, TRUE)
    <3>1. PICK j \in DOMAIN obs : FollowReal(aged, FastRemove(obs, j), obs[j].age, TRUE)
      BY <2>2
    <3>2. j \in 1 .. Len(obs) /\ obs[j] \in Sighting
      BY <1>2, <3>1
    <3>3. FastRemove(obs, j) \in Seq(Sources(trails'))
      BY <1>4, <3>2, FastRemoveType
    <3>4. obs[j].age \in 0 .. Drop
      BY <3>2, TrackAssumption DEF Sighting
    <3> QED BY <3>1, <3>3, <3>4
  <2> QED BY <2>1, <2>2 DEF Run
<1>8. UpdatePossible(aged, rest) \in Seq(KeptTracks(trails'))
  BY <1>1, <1>3, <1>5, <1>7, UpdateKeeps
<1> HIDE DEF aged, before
<1>9. /\ tracked' \in BOOLEAN /\ valid' \in BOOLEAN /\ lastTrack' \in 0 .. Drop
      /\ possible' \in Seq(KeptTracks(trails')) /\ acquired' \in Track \cup {NoTrack}
      /\ valid' = tracked' /\ (valid' => lastTrack' < Drop)
      /\ acquired' # NoTrack => acquired'.frames = Confirmed /\ Backed(acquired', trails')
  BY <1>4, <1>7, <1>8, FilterStep
<1>10. TypeOK'
  <2>1. possible' \in Seq(Track)
    <3>1. KeptTracks(trails') \subseteq Track
      BY DEF KeptTracks
    <3> QED BY <1>9, <3>1
  <2>2. frame' \in {0, 1}
    BY <1>1
  <2> QED BY <1>4, <1>9, <2>1, <2>2 DEF TypeOK
<1>11. TracksBacked'
  <2>1. \A i \in DOMAIN possible' : possible'[i] \in KeptTracks(trails')
    BY <1>9
  <2> QED BY <2>1 DEF TracksBacked, Backed, KeptTracks
<1>12. ValidIsRecent' /\ AcquiredBacked'
  BY <1>9 DEF ValidIsRecent, AcquiredBacked, Backed
<1> QED BY <1>10, <1>11, <1>12 DEF IInv

LEMMA IInvStep == IInv /\ [Frame]_vars => IInv'
<1> SUFFICES ASSUME IInv, [Frame]_vars PROVE IInv'
  OBVIOUS
<1>1. CASE Frame
  BY <1>1, RunKeepsIInv DEF Frame
<1>2. CASE UNCHANGED vars
  BY <1>2 DEF vars, IInv, TypeOK, ValidIsRecent, TracksBacked, AcquiredBacked, Backed
<1> QED BY <1>1, <1>2

THEOREM Inductive == Spec => []IInv
<1>1. Init => IInv
  BY IInvInit
<1>2. IInv /\ [Frame]_vars => IInv'
  BY IInvStep
<1> QED BY <1>1, <1>2, PTL DEF Spec
-----------------------------------------------------------------------------
(* The tracks, the sightings they came from and the state of the filter    *)
(* are always what BallTracker::run() takes them for: a track has been     *)
(* seen in at least one frame and in at most as many as are counted.       *)
THEOREM TypeCorrect == Spec => []TypeOK
<1>1. IInv => TypeOK
  BY DEF IInv
<1> QED BY <1>1, Inductive, PTL

(* The program plays with a ball exactly while the filter follows one, and *)
(* with none that was last seen Drop_Real_Track_Time ago, whatever tracks  *)
(* there are when it is dropped.                                           *)
THEOREM ValidCorrect == Spec => []ValidIsRecent
<1>1. IInv => ValidIsRecent
  BY DEF IInv
<1> QED BY <1>1, Inductive, PTL

(* A ball is acquired only where sightings of three frames lead, however   *)
(* many sightings a frame has and whichever tracks they went to.           *)
THEOREM AcquiredCorrect == Spec => []AcquiredWasSeen
<1>1. IInv => AcquiredWasSeen
  <2> SUFFICES ASSUME IInv, acquired # NoTrack
               PROVE  \E r \in trails : /\ r.pos = acquired.pos /\ r.age = acquired.age
                                        /\ r.length = Confirmed
    BY DEF AcquiredWasSeen
  <2>1. PICK r \in trails : /\ r.pos = acquired.pos /\ r.age = acquired.age
                            /\ r.length >= Confirmed
    BY DEF IInv, AcquiredBacked, Backed
  <2>2. r.length \in 0 .. Confirmed
    BY DEF IInv, TypeOK, Trail
  <2> QED BY <2>1, <2>2 DEF Confirmed
<1> QED BY <1>1, Inductive, PTL
=============================================================================
