------------------------------- MODULE Tracks -------------------------------
(***************************************************************************)
(* The ball tracker (soccer/modeling/BallTracker.cpp): from the sightings  *)
(* of a frame, true or false, of any camera, delayed or missing, it keeps  *)
(* one real track, which the program plays with, and possible tracks that  *)
(* may replace it when it is lost.                                         *)
(*                                                                         *)
(* Positions are cells of half a metre (Acquisition_Match_Distance) along  *)
(* a line; time is kept as ages, in ticks, capped at Drop.  The window in  *)
(* which the filter looks for its ball depends on an estimated velocity,   *)
(* so it is left open which of the new sightings it contains, if any.      *)
(***************************************************************************)
EXTENDS Naturals, Sequences, SequencesExt

CONSTANTS
  Cells,      (* positions                                                 *)
  Field,      (* those on the field                                        *)
  Drop,       (* Drop_Real_Track_Time and Drop_Possible_Track_Time         *)
  Ages,       (* ages at which a sighting reaches the tracker              *)
  Steps,      (* times from one frame to the next                          *)
  MaxSightings(* bound on the sightings of one frame                       *)

ASSUME TrackAssumption ==
  /\ Cells \subseteq Nat /\ Field \subseteq Cells
  /\ Drop \in Nat \ {0} /\ MaxSightings \in Nat
  /\ Ages \subseteq 0 .. Drop /\ Steps \subseteq 1 .. Drop

Confirmed == 3        (* numFrames of a track that may become the real one *)

VARIABLES
  tracked,    (* _ballFilter is set                                        *)
  lastTrack,  (* age of _lastTrackTime                                     *)
  possible,   (* _possibleTracks                                           *)
  valid,      (* state->ball.valid                                         *)
  frame,      (* parity of the frames run so far                           *)
  (* history *)
  trails,     (* the sightings that are not yet Drop old, each with the    *)
              (* number of frames in which a ball may have gone there      *)
  acquired    (* the track that became the real one in this frame          *)

vars == <<tracked, lastTrack, possible, valid, frame, trails, acquired>>

Sighting == [pos : Cells, age : Ages]
Track    == [pos : Cells, age : 0 .. Drop, frames : 1 .. Confirmed, current : BOOLEAN]
Trail    == [pos : Cells, age : 0 .. Drop, length : 0 .. Confirmed]
NoTrack  == [pos |-> 0, age |-> Drop, frames |-> Confirmed, current |-> FALSE]

Older(age, dt) == Min({age + dt, Drop})
Counted(n)     == Min({n + 1, Confirmed})
Distance(a, b) == IF a > b THEN a - b ELSE b - a
Near(a, b)     == Distance(a, b) <= 1

(* The last element takes the place of the one removed. *)
FastRemove(s, i) ==
  [j \in 1 .. Len(s) - 1 |-> IF j = i THEN s[Len(s)] ELSE s[j]]

Init ==
  /\ tracked = FALSE /\ lastTrack = Drop /\ possible = <<>> /\ valid = FALSE
  /\ frame = 0 /\ trails = {} /\ acquired = NoTrack
-----------------------------------------------------------------------------
(* Possible tracks.  The sightings that a track may take: the first of the *)
(* nearest ones within reach.                                              *)
InReach(obs, t) == {j \in DOMAIN obs : obs[j].pos \in Field /\ Near(obs[j].pos, t.pos)}

Nearest(obs, t) ==
  CHOOSE j \in InReach(obs, t) : \A k \in InReach(obs, t) :
    \/ Distance(obs[j].pos, t.pos) < Distance(obs[k].pos, t.pos)
    \/ Distance(obs[j].pos, t.pos) = Distance(obs[k].pos, t.pos) /\ j <= k

(* What a sighting makes of a track that has been seen in n frames. *)
Seeing(o, n) == [pos |-> o.pos, age |-> o.age, frames |-> n, current |-> TRUE]

Follow_Restarts(t, obs) ==
  IF InReach(obs, t) = {}
    THEN [t EXCEPT !.current = FALSE]
    ELSE Seeing(obs[Nearest(obs, t)], 1)

(* A track goes on with its nearest sighting or waits. *)
Follow(t, obs) ==
  IF InReach(obs, t) = {}
    THEN [t EXCEPT !.current = FALSE]
    ELSE Seeing(obs[Nearest(obs, t)], Counted(t.frames))

(* One turn of the loop over the tracks: w is its index, the tracks and    *)
(* the sightings left.  A track that is removed leaves its place to the    *)
(* last one, which is visited next.                                        *)
Visit(w) ==
  LET t    == w.tracks[w.i]
      next == Follow(t, w.obs)
      left == IF next.current THEN FastRemove(w.obs, Nearest(w.obs, t)) ELSE w.obs
  IN  IF next.age >= Drop
        THEN [i |-> w.i, obs |-> left, tracks |-> FastRemove(w.tracks, w.i)]
        ELSE [i |-> w.i + 1, obs |-> left,
              tracks |-> [j \in DOMAIN w.tracks |-> IF j = w.i THEN next ELSE w.tracks[j]]]

(* After as many turns as there are tracks every one was visited. *)
VisitAll(tracks, obs) ==
  LET turn[n \in 0 .. Len(tracks)] ==
        IF n = 0 THEN [i |-> 1, tracks |-> tracks, obs |-> obs] ELSE Visit(turn[n - 1])
  IN  turn[Len(tracks)]

NewTrack_Uncounted(o) == Seeing(o, 0)

NewTrack(o) == Seeing(o, 1)

(* What is left on the field starts new tracks, at the end.                *)
StartTracks(tracks, obs) ==
  LET started[n \in 0 .. Len(obs)] ==
        IF n = 0 THEN tracks
        ELSE IF obs[n].pos \in Field THEN Append(started[n - 1], NewTrack(obs[n]))
        ELSE started[n - 1]
  IN  started[Len(obs)]

UpdatePossible(tracks, obs) ==
  LET w == VisitAll(tracks, obs) IN StartTracks(w.tracks, w.obs)
-----------------------------------------------------------------------------
(* The real track.                                                         *)

Drops_Never(age) == FALSE

Drops(age) == age >= Drop

Acquirable_Twice(t) == t.current /\ t.frames >= Confirmed - 1

Acquirable(t) == t.current /\ t.frames >= Confirmed

(* The first confirmed track becomes the real one. *)
Acquire(tracks, age) ==
  LET i == SelectInSeq(tracks, Acquirable)
  IN  IF i = 0
        THEN /\ tracked' = FALSE /\ valid' = FALSE /\ lastTrack' = age
             /\ possible' = tracks /\ acquired' = NoTrack
        ELSE /\ tracked' = TRUE /\ valid' = TRUE /\ lastTrack' = tracks[i].age
             /\ possible' = FastRemove(tracks, i) /\ acquired' = tracks[i]

(* The real track took a sighting of the given age, or age went by; obs    *)
(* are the sightings it left.                                              *)
FollowReal(tracks, obs, age, took) ==
  LET updated == UpdatePossible(tracks, obs)
  IN  IF tracked /\ ~Drops(age)
        THEN /\ lastTrack' = age /\ valid' = (valid \/ took)
             /\ possible' = updated
             /\ acquired' = NoTrack
             /\ UNCHANGED tracked
        ELSE Acquire(updated, age)

(* The longest way that leads to a sighting, as any observer would count   *)
(* it: one sighting in each frame, on the field, each in reach of the one  *)
(* before.                                                                 *)
Extend(o) ==
  [pos |-> o.pos, age |-> o.age,
   length |-> IF o.pos \in Field
                THEN Counted(Max({0} \cup {r.length : r \in {q \in trails : Near(q.pos, o.pos)}}))
                ELSE 0]

Record(obs, dt) ==
  trails' = {r \in {[q EXCEPT !.age = Older(@, dt)] : q \in trails} : r.age < Drop}
              \cup {Extend(obs[j]) : j \in DOMAIN obs}

(* BallTracker::run() on the sightings of a frame, dt after the last one.  *)
Run(obs, dt) ==
  LET aged   == [i \in DOMAIN possible |-> [possible[i] EXCEPT !.age = Older(@, dt)]]
      before == Older(lastTrack, dt)
  IN  /\ Record(obs, dt)
      /\ \/ FollowReal(aged, obs, before, FALSE)
         \/ /\ tracked
            /\ \E j \in DOMAIN obs : /\ obs[j].age < before
                                     /\ FollowReal(aged, FastRemove(obs, j), obs[j].age, TRUE)

Frame ==
  /\ \E obs \in BoundedSeq(Sighting, MaxSightings), dt \in Steps : Run(obs, dt)
  /\ frame' = 1 - frame

Spec     == Init /\ [][Frame]_vars

(* The processing loop goes on.  A step that changes frame is a Frame, and *)
(* Frame is always possible.                                               *)
FairSpec == Spec /\ WF_frame(frame' = 1 - frame)
-----------------------------------------------------------------------------
TypeOK ==
  /\ tracked \in BOOLEAN /\ valid \in BOOLEAN /\ lastTrack \in 0 .. Drop
  /\ possible \in Seq(Track) /\ acquired \in Track \cup {NoTrack}
  /\ trails \subseteq Trail /\ frame \in {0, 1}

(* The program plays with a ball exactly while the filter follows one,     *)
(* and that one was seen within the time after which it is dropped.        *)
ValidIsRecent == valid = tracked /\ (valid => lastTrack < Drop)

(* A ball is acquired only where sightings of three frames lead, step by   *)
(* step and without a pause in which a track would have been dropped: a    *)
(* false sighting or two, or sightings far from each other, do not make    *)
(* a ball, whatever tracks they were shared among.                         *)
AcquiredWasSeen ==
  acquired # NoTrack =>
    \E r \in trails : r.pos = acquired.pos /\ r.age = acquired.age /\ r.length = Confirmed

Seen(c) == \E r \in trails : r.pos = c /\ r.age = 0

(* A ball that is seen in every frame is played with again and again,      *)
(* although false sightings compete with it for tracks.                    *)
SteadyBallIsFound == \A c \in Field : <>[]Seen(c) => []<>valid
=============================================================================
