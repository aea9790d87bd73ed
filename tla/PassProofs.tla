----------------------------- MODULE PassProofs -----------------------------
(***************************************************************************)
(* Theorems about Pass, for every set of robots and every length of the    *)
(* timers: each state finds its subbehaviors, the robot that aims is the   *)
(* one that captured, and nobody kicks before the pass allows it.          *)
(***************************************************************************)
EXTENDS Pass, TLAPS

KickerType ==
  [state : KickerStates, robot : Robots \cup {None}, enable_kick : BOOLEAN,
   sub : {Absent, "capture", "aim"},
   at : {"start", "course_approach", "fine_approach", "aiming", "aimed"} \cup Done,
   subRobot : Robots \cup {None}, captor : Robots \cup {None}]

ReceiverType ==
  [added : BOOLEAN, state : ReceiverStates, robot : Robots \cup {None},
   ball_kicked : BOOLEAN, capture : BOOLEAN,
   stable_frame : 0..(StabilizationFrames + 1), age : 0..DesperateTimeout]

(* The subbehavior that belongs to a state of the kicker. *)
SubOf(s) ==
  CASE s = "capturing" -> "capture"
    [] s \in {"aiming", "aimed", "kicking"} -> "aim"
    [] OTHER -> Absent

(* A kicker by itself: its subbehavior is on its robot, and the Aim on the *)
(* robot that captured, which is still the kicker's.                       *)
KickerInv(k) ==
  /\ k \in KickerType
  /\ k.sub = SubOf(k.state)
  /\ k.sub # Absent => k.robot # None
  /\ k.subRobot \in {None, k.robot} \/ k.sub = Absent
  /\ k.sub = "capture" /\ k.at = "completed" => k.subRobot = k.robot
  /\ k.sub = "aim" => k.captor = k.robot
  /\ k.state \in {"kicking", "completed"} => k.enable_kick

ReceiverInv(r) ==
  /\ r \in ReceiverType
  /\ r.capture <=> r.state = "receiving"

(* In its first pass a receiver has executed as many frames of `receiving' *)
(* as it has been there, and none before.  One that was restarted there    *)
(* has executed some, but forgets the kick before it aligns.               *)
FirstPass ==
  passes = 1 =>
    /\ pass \in {"start", "preparing", "kicking"} =>
         /\ receiver.stable_frame = 0 /\ ~receiver.ball_kicked
         /\ receiver.state \in {"start", "aligning", "aligned"}
    /\ receiver.state \in {"aligning", "aligned"} /\ receiver.ball_kicked =>
         receiver.stable_frame = 0
    /\ receiver.state = "receiving" => receiver.stable_frame <= receiver.age

(* Both, and what the pass knows of them. *)
PassInv ==
  /\ phase \in {"assign", "pass", "kicker", "receiver"}
  /\ pass \in {"start"} \cup Running \cup Done
  /\ passes \in 1..MaxPasses \cup {1}
  /\ KickerInv(kicker) /\ ReceiverInv(receiver)
  /\ kicker.state # Absent <=> pass \in {"preparing", "kicking"}
  /\ kicker.enable_kick => pass = "kicking"
  /\ receiver.added <=> pass \in Running
  /\ FirstPass
-----------------------------------------------------------------------------
(* What KickerTo does with each field, for each state a kicker may be      *)
(* moved to.                                                               *)
LEMMA KickerToFields ==
  ASSUME NEW k \in KickerType, NEW s \in KickerStates \ {Absent},
         k.sub = SubOf(k.state),
         s \in {"aimed", "kicking"} => k.sub = "aim",
         k.state = "capturing" => s \in {"start", "aiming"}
  PROVE  /\ KickerTo(k, s) \in KickerType
         /\ KickerTo(k, s).state = s
         /\ KickerTo(k, s).robot = k.robot
         /\ KickerTo(k, s).enable_kick = k.enable_kick
         /\ KickerTo(k, s).sub = SubOf(s)
         /\ s = "capturing" => KickerTo(k, s).at = "start" /\ KickerTo(k, s).subRobot = None
         /\ s \in {"aimed", "kicking"} => KickerTo(k, s).subRobot = k.subRobot
         /\ s = "aiming" => KickerTo(k, s).subRobot \in {None, k.subRobot}
         /\ s = "aiming" /\ k.sub # "aim" => KickerTo(k, s).subRobot = None
         /\ KickerTo(k, s).captor
              = IF k.state = "capturing" /\ s = "aiming" THEN k.subRobot ELSE k.captor
<1> DEFINE left == [k EXCEPT !.sub = IF k.state = "capturing" \/ s \notin {"aiming", "aimed", "kicking"}
                                      THEN Absent ELSE k.sub]
           add(sub) == [left EXCEPT !.sub = sub, !.at = "start", !.subRobot = None]
           fresh == CASE s = "capturing"                   -> add("capture")
                      [] s = "aiming" /\ left.sub = Absent -> add("aim")
                      [] OTHER                             -> left
<1>1. left \in KickerType /\ \A sub \in {"capture", "aim"} : add(sub) \in KickerType
  BY DEF KickerType, Done, Absent
<1>2. fresh = IF s = "capturing" THEN add("capture")
              ELSE IF s = "aiming" /\ left.sub = Absent THEN add("aim") ELSE left
  OBVIOUS
<1>3. fresh \in KickerType
  BY <1>1, <1>2
<1>4. KickerTo(k, s) = [fresh EXCEPT !.state = s,
              !.captor = IF k.state = "capturing" /\ s = "aiming" THEN k.subRobot ELSE @]
  BY DEF KickerTo
<1> HIDE DEF fresh
<1>5. /\ KickerTo(k, s) \in KickerType
      /\ KickerTo(k, s).state = s
      /\ KickerTo(k, s).robot = fresh.robot /\ KickerTo(k, s).enable_kick = fresh.enable_kick
      /\ KickerTo(k, s).sub = fresh.sub /\ KickerTo(k, s).at = fresh.at
      /\ KickerTo(k, s).subRobot = fresh.subRobot
      /\ KickerTo(k, s).captor
           = IF k.state = "capturing" /\ s = "aiming" THEN k.subRobot ELSE fresh.captor
  BY <1>3, <1>4 DEF KickerType
<1>6. /\ fresh.robot = k.robot /\ fresh.enable_kick = k.enable_kick /\ fresh.captor = k.captor
      /\ fresh.sub = SubOf(s)
      /\ s = "capturing" => fresh.at = "start" /\ fresh.subRobot = None
      /\ s \in {"aimed", "kicking"} => fresh.subRobot = k.subRobot
      /\ s = "aiming" => fresh.subRobot \in {None, k.subRobot}
      /\ s = "aiming" /\ k.sub # "aim" => fresh.subRobot = None
  <2>1. CASE s = "capturing"
    BY <1>2, <2>1 DEF KickerType, SubOf, Absent
  <2>2. CASE s = "aiming"
    BY <1>2, <2>2 DEF KickerType, SubOf, Absent
  <2>3. CASE s \notin {"capturing", "aiming"}
    BY <1>2, <2>3 DEF KickerType, KickerStates, SubOf, Absent
  <2> QED BY <2>1, <2>2, <2>3
<1> QED BY <1>5, <1>6

(* Being given a robot, the same or another. *)
LEMMA KickerOnKeeps ==
  ASSUME NEW k, KickerInv(k), k.state # Absent, NEW r \in Robots
  PROVE  /\ KickerInv(KickerOn(k, r))
         /\ KickerOn(k, r).state # Absent
         /\ KickerOn(k, r).enable_kick = k.enable_kick
<1> DEFINE moved == [k EXCEPT !.robot = r, !.subRobot = IF k.sub = Absent THEN @ ELSE r]
<1>1. /\ moved \in KickerType
      /\ moved.state = k.state /\ moved.robot = r /\ moved.enable_kick = k.enable_kick
      /\ moved.sub = k.sub /\ moved.at = k.at /\ moved.captor = k.captor
      /\ moved.subRobot = IF k.sub = Absent THEN k.subRobot ELSE r
  BY DEF KickerInv, KickerType
<1>2. KickerOn(k, r) = IF k.robot \in {None, r} THEN moved ELSE KickerTo(moved, "start")
  BY DEF KickerOn
<1> HIDE DEF moved
<1>3. r # None
  BY PassAssumption
<1>4. CASE k.robot \in {None, r}
  BY <1>1, <1>2, <1>3, <1>4 DEF KickerInv, Absent
<1>5. CASE k.robot \notin {None, r}
  <2>1. "start" \in KickerStates \ {Absent} /\ SubOf("start") = Absent
    BY DEF KickerStates, Absent, SubOf
  <2>2. /\ KickerTo(moved, "start") \in KickerType
        /\ KickerTo(moved, "start").state = "start"
        /\ KickerTo(moved, "start").enable_kick = moved.enable_kick
        /\ KickerTo(moved, "start").sub = Absent
    BY <1>1, <2>1, KickerToFields DEF KickerInv
  <2> QED BY <1>1, <1>2, <1>5, <2>1, <2>2 DEF KickerInv, Absent
<1> QED BY <1>4, <1>5

(* A transition of the kicker's own. *)
LEMMA KickerToKeeps ==
  ASSUME NEW k, KickerInv(k), k.robot # None,
         NEW just_kicked \in BOOLEAN, NEW s \in KickerNext(k, just_kicked)
  PROVE  /\ KickerInv(KickerTo(k, s))
         /\ k.state # Absent /\ KickerTo(k, s).state # Absent
         /\ KickerTo(k, s).enable_kick = k.enable_kick
<1>1. k \in KickerType /\ k.sub = SubOf(k.state)
  BY DEF KickerInv
<1>2. /\ s \in {"capturing", "aiming", "aimed", "kicking", "completed"}
      /\ k.state \in {"start", "capturing", "aiming", "aimed", "kicking"}
      /\ k.state = "capturing" => s = "aiming" /\ k.at = "completed"
      /\ s = "aiming" => k.state \in {"capturing", "aimed"}
      /\ s = "aimed" => k.state = "aiming"
      /\ s = "kicking" => k.state = "aimed" /\ k.enable_kick
      /\ s = "completed" => k.state = "kicking"
  BY <1>1 DEF KickerNext, KickerType, KickerStates, Absent
<1>3. /\ s \in KickerStates \ {Absent} /\ k.state # Absent
      /\ s \in {"aimed", "kicking"} => k.sub = "aim"
      /\ k.state = "capturing" => s \in {"start", "aiming"}
  BY <1>1, <1>2 DEF KickerStates, Absent, SubOf
<1> DEFINE j == KickerTo(k, s)
<1>4. /\ j \in KickerType /\ j.state = s /\ j.robot = k.robot
      /\ j.enable_kick = k.enable_kick /\ j.sub = SubOf(s)
      /\ s = "capturing" => j.at = "start" /\ j.subRobot = None
      /\ s \in {"aimed", "kicking"} => j.subRobot = k.subRobot
      /\ s = "aiming" => j.subRobot \in {None, k.subRobot}
      /\ s = "aiming" /\ k.sub # "aim" => j.subRobot = None
      /\ j.captor = IF k.state = "capturing" /\ s = "aiming" THEN k.subRobot ELSE k.captor
  BY <1>1, <1>3, KickerToFields
<1> HIDE DEF j
<1>5. j.subRobot \in {None, j.robot} \/ j.sub = Absent
  BY <1>1, <1>2, <1>3, <1>4 DEF KickerInv, SubOf, Absent
<1>6. j.sub = "capture" => j.at = "start"
  BY <1>2, <1>4 DEF SubOf, Absent
<1>7. j.sub = "aim" => j.captor = j.robot
  BY <1>1, <1>2, <1>3, <1>4 DEF KickerInv, SubOf, Absent
<1>8. j.state \in {"kicking", "completed"} => j.enable_kick
  BY <1>2, <1>4 DEF KickerInv
<1>9. KickerInv(j)
  BY <1>4, <1>5, <1>6, <1>7, <1>8 DEF KickerInv
<1> QED BY <1>3, <1>4, <1>9 DEF j

(* A step of the kicker's subbehavior. *)
LEMMA KickerSettlesKeeps ==
  ASSUME NEW k, KickerInv(k),
         NEW s \in IF k.sub = Absent \/ k.subRobot = None THEN {k.at}
                   ELSE IF k.sub = "capture" THEN CaptureNext(k.at) ELSE AimNext(k.at)
  PROVE  /\ KickerInv([k EXCEPT !.at = s])
         /\ [k EXCEPT !.at = s].state = k.state
         /\ [k EXCEPT !.at = s].enable_kick = k.enable_kick
<1> DEFINE j == [k EXCEPT !.at = s]
<1>1. s \in {"start", "course_approach", "fine_approach", "aiming", "aimed"} \cup Done
  BY DEF KickerInv, KickerType, CaptureNext, AimNext, Done
<1>2. /\ j \in KickerType /\ j.at = s
      /\ j.state = k.state /\ j.robot = k.robot /\ j.enable_kick = k.enable_kick
      /\ j.sub = k.sub /\ j.subRobot = k.subRobot /\ j.captor = k.captor
  BY <1>1 DEF KickerInv, KickerType
<1> HIDE DEF j
<1>3. j.sub = "capture" /\ j.at = "completed" => j.subRobot = j.robot
  BY <1>2 DEF KickerInv, Absent
<1>4. KickerInv(j)
  BY <1>2, <1>3 DEF KickerInv
<1> QED BY <1>2, <1>4 DEF j

(* A transition of the receiver. *)
LEMMA ReceiverToKeeps ==
  ASSUME NEW r \in ReceiverType, NEW s \in ReceiverStates
  PROVE  /\ ReceiverInv(ReceiverTo(r, s))
         /\ ReceiverTo(r, s).state = s
         /\ ReceiverTo(r, s).added = r.added
         /\ ReceiverTo(r, s).stable_frame = r.stable_frame
         /\ ReceiverTo(r, s).age = IF s = "receiving" THEN 0 ELSE r.age
         /\ ReceiverTo(r, s).ball_kicked = (r.ball_kicked /\ ~(r.state = "start" /\ s # "start"))
<1>1. 0 \in 0..DesperateTimeout
  BY PassAssumption
<1> QED BY <1>1 DEF ReceiverInv, ReceiverType, ReceiverTo

LEMMA ReceiverOnKeeps ==
  ASSUME NEW c \in ReceiverType, ReceiverInv(c), NEW r \in Robots
  PROVE  /\ ReceiverInv(ReceiverOn(c, r))
         /\ ReceiverOn(c, r).added = c.added
         /\ ReceiverOn(c, r).stable_frame = c.stable_frame
         /\ \/ ReceiverOn(c, r).state = "start"
            \/ /\ ReceiverOn(c, r).state = c.state
               /\ ReceiverOn(c, r).age = c.age
         /\ ReceiverOn(c, r).ball_kicked = c.ball_kicked
<1> DEFINE moved == [c EXCEPT !.robot = r]
<1>1. /\ moved \in ReceiverType /\ ReceiverInv(moved)
      /\ moved.state = c.state /\ moved.added = c.added /\ moved.age = c.age
      /\ moved.stable_frame = c.stable_frame /\ moved.ball_kicked = c.ball_kicked
  BY DEF ReceiverInv, ReceiverType
<1>2. ReceiverOn(c, r) = IF c.robot \in {None, r} THEN moved ELSE ReceiverTo(moved, "start")
  BY DEF ReceiverOn
<1> HIDE DEF moved
<1>3. CASE c.robot \in {None, r}
  BY <1>1, <1>2, <1>3
<1>4. CASE c.robot \notin {None, r}
  <2>1. "start" \in ReceiverStates
    BY DEF ReceiverStates
  <2>2. c.ball_kicked \in BOOLEAN
    BY DEF ReceiverType
  <2> QED BY <1>1, <1>2, <1>4, <2>1, <2>2, ReceiverToKeeps
<1> QED BY <1>3, <1>4
-----------------------------------------------------------------------------
LEMMA NewMachines ==
  /\ KickerInv(NoKicker) /\ NoKicker.state = Absent /\ NoKicker.enable_kick = FALSE
  /\ KickerInv(NewKicker) /\ NewKicker.state = "start" /\ NewKicker.enable_kick = FALSE
  /\ ReceiverInv(NewReceiver) /\ NewReceiver.added = FALSE /\ NewReceiver.ball_kicked = FALSE
  /\ NewReceiver.state = "start" /\ NewReceiver.stable_frame = 0
<1>1. 0 \in 0..(StabilizationFrames + 1) /\ 0 \in 0..DesperateTimeout
  BY PassAssumption
<1>2. "start" \in KickerStates /\ Absent \in KickerStates /\ "start" \in ReceiverStates
  BY DEF KickerStates, ReceiverStates
<1>3. NewKicker \in KickerType /\ NoKicker \in KickerType
  BY <1>2 DEF NewKicker, NoKicker, KickerType
<1>4. KickerInv(NewKicker) /\ KickerInv(NoKicker)
  BY <1>3 DEF KickerInv, NewKicker, NoKicker, SubOf, Absent
<1>5. ReceiverInv(NewReceiver)
  BY <1>1, <1>2 DEF ReceiverInv, ReceiverType, NewReceiver
<1> QED BY <1>4, <1>5 DEF NewKicker, NoKicker, NewReceiver

(* PassInv holds from the start. *)
LEMMA PassInvInit == Init => PassInv
  BY NewMachines, PassAssumption
     DEF Init, PassInv, FirstPass, Absent, Running, Done

(* Changes of robots. *)
LEMMA RolesKeep == PassInv /\ AssignRoles => PassInv'
<1> SUFFICES ASSUME PassInv, NEW k \in Robots, NEW r \in Robots, phase' = "pass",
                    UNCHANGED <<pass, passes>>,
                    kicker' = IF kicker.state = Absent THEN kicker ELSE KickerOn(kicker, k),
                    receiver' = IF receiver.added THEN ReceiverOn(receiver, r) ELSE receiver
             PROVE  PassInv'
  BY DEF AssignRoles
<1>1. /\ KickerInv(kicker') /\ kicker'.enable_kick = kicker.enable_kick
      /\ kicker'.state # Absent <=> kicker.state # Absent
  BY KickerOnKeeps DEF PassInv
<1>2. /\ ReceiverInv(receiver') /\ receiver'.added = receiver.added
      /\ receiver'.stable_frame = receiver.stable_frame
      /\ receiver'.ball_kicked = receiver.ball_kicked
      /\ \/ receiver'.state = "start"
         \/ receiver'.state = receiver.state /\ receiver'.age = receiver.age
  <2>1. receiver \in ReceiverType /\ ReceiverInv(receiver)
    BY DEF PassInv, ReceiverInv
  <2>2. CASE receiver.added
    BY <2>1, <2>2, ReceiverOnKeeps
  <2>3. CASE ~receiver.added
    BY <2>1, <2>3
  <2> QED BY <2>2, <2>3
<1>3. FirstPass'
  BY <1>2 DEF PassInv, FirstPass
<1> QED BY <1>1, <1>2, <1>3 DEF PassInv

(* Steps of the pass itself. *)
LEMMA PassKeeps ==
  PassInv /\ (Restart \/ Prepare \/ EnableKick \/ Kicked \/ Decide \/ PassWaits) => PassInv'
<1> SUFFICES ASSUME PassInv PROVE Restart \/ Prepare \/ EnableKick \/ Kicked \/ Decide \/ PassWaits => PassInv'
  OBVIOUS
<1>1. CASE Restart
  <2>1. passes' \in 1..MaxPasses /\ passes' # 1
    BY <1>1, PassAssumption DEF Restart, PassInv
  <2>2. ReceiverInv(receiver') /\ receiver'.added = FALSE
    BY <1>1, NewMachines DEF Restart, PassInv, Running, Done, ReceiverInv, ReceiverType
  <2>3. FirstPass'
    BY <2>1 DEF FirstPass
  <2> QED BY <1>1, <2>1, <2>2, <2>3 DEF Restart, PassInv, Running, Done
<1>2. CASE Prepare
  <2> DEFINE r == ReceiverTo(receiver, "start")
  <2>1. /\ ReceiverInv(r) /\ r.state = "start" /\ r.stable_frame = receiver.stable_frame
        /\ r.ball_kicked = receiver.ball_kicked
    <3>1. "start" \in ReceiverStates /\ receiver \in ReceiverType /\ receiver.ball_kicked \in BOOLEAN
      BY DEF ReceiverStates, PassInv, ReceiverInv, ReceiverType
    <3> QED BY <3>1, ReceiverToKeeps
  <2>2. receiver' = [r EXCEPT !.added = TRUE]
    BY <1>2 DEF Prepare
  <2> HIDE DEF r
  <2>3. /\ ReceiverInv(receiver') /\ receiver'.added = TRUE
        /\ receiver'.state = "start" /\ receiver'.stable_frame = receiver.stable_frame
        /\ receiver'.ball_kicked = receiver.ball_kicked
    BY <2>1, <2>2 DEF ReceiverInv, ReceiverType
  <2>4. FirstPass'
    BY <1>2, <2>3 DEF FirstPass, PassInv, Prepare
  <2> QED BY <1>2, <2>3, <2>4, NewMachines DEF Prepare, PassInv, Running, Absent
<1>3. CASE EnableKick
  <2>1. /\ KickerInv(kicker') /\ kicker'.state = kicker.state
    BY <1>3 DEF EnableKick, PassInv, KickerInv, KickerType
  <2>2. FirstPass'
    BY <1>3 DEF FirstPass, PassInv, EnableKick
  <2> QED BY <1>3, <2>1, <2>2 DEF EnableKick, PassInv, Running
<1>4. CASE Kicked
  <2>1. /\ ReceiverInv(receiver') /\ receiver'.added = receiver.added
        /\ receiver'.state = receiver.state /\ receiver'.stable_frame = receiver.stable_frame
        /\ receiver'.age = receiver.age
    BY <1>4 DEF Kicked, PassInv, ReceiverInv, ReceiverType
  <2>2. FirstPass'
    BY <1>4, <2>1 DEF FirstPass, PassInv, Kicked
  <2> QED BY <1>4, <2>1, <2>2, NewMachines DEF Kicked, PassInv, Running
<1>5. CASE Decide
  <2>1. /\ ReceiverInv(receiver') /\ receiver'.added = FALSE
        /\ receiver'.state = receiver.state /\ receiver'.stable_frame = receiver.stable_frame
        /\ receiver'.ball_kicked = receiver.ball_kicked
    BY <1>5 DEF Decide, PassInv, ReceiverInv, ReceiverType
  <2>2. FirstPass'
    BY <1>5, <2>1 DEF FirstPass, PassInv, Decide, Done
  <2> QED BY <1>5, <2>1, <2>2 DEF Decide, PassInv, Running, Done
<1>6. CASE PassWaits
  BY <1>6 DEF PassWaits, PassInv, FirstPass
<1> QED BY <1>1, <1>2, <1>3, <1>4, <1>5, <1>6

(* Steps of the kicker. *)
LEMMA KickerKeeps == PassInv /\ (KickerSteps \/ KickerSettles \/ KickerRests) => PassInv'
<1> SUFFICES ASSUME PassInv, KickerSteps \/ KickerSettles \/ KickerRests PROVE PassInv'
  OBVIOUS
<1>1. UNCHANGED <<pass, receiver, passes>> /\ phase' \in {"kicker", "receiver"}
  BY DEF KickerSteps, KickerSettles, KickerRests, KickerSpins
<1>2. FirstPass'
  BY <1>1 DEF FirstPass, PassInv
<1>3. /\ KickerInv(kicker') /\ kicker'.enable_kick = kicker.enable_kick
      /\ kicker'.state # Absent <=> kicker.state # Absent
  <2>1. CASE KickerSteps
    <3>1. PICK just_kicked \in BOOLEAN, s \in KickerStates :
            s \in KickerNext(kicker, just_kicked) /\ kicker' = KickerTo(kicker, s)
      BY <2>1 DEF KickerSteps, KickerNext, KickerStates
    <3>2. kicker.robot # None
      BY <2>1 DEF KickerSteps, KickerSpins
    <3> QED BY <3>1, <3>2, KickerToKeeps DEF PassInv
  <2>2. CASE KickerSettles
    BY <2>2, KickerSettlesKeeps DEF KickerSettles, PassInv
  <2>3. CASE KickerRests
    BY <2>3 DEF KickerRests, PassInv
  <2> QED BY <2>1, <2>2, <2>3
<1> QED BY <1>1, <1>2, <1>3 DEF PassInv

(* Steps of the receiver. *)
LEMMA ReceiverKeeps ==
  PassInv /\ (BeginAligning \/ BeginReceiving \/ Align \/ Receive \/ ReceiverRests) => PassInv'
<1> SUFFICES ASSUME PassInv, BeginAligning \/ BeginReceiving \/ Align \/ Receive \/ ReceiverRests
             PROVE  PassInv'
  OBVIOUS
<1>1. UNCHANGED <<pass, kicker, passes>> /\ phase' \in {"assign", "receiver"}
  BY DEF BeginAligning, BeginReceiving, Align, Receive, ReceiverRests, ReceiverSpins
<1>2. /\ receiver \in ReceiverType /\ receiver.ball_kicked \in BOOLEAN
      /\ {"start", "aligning", "aligned", "receiving", "completed", "failed"} = ReceiverStates
  BY DEF PassInv, ReceiverInv, ReceiverType, ReceiverStates, Done
<1>3. ReceiverInv(receiver') /\ receiver'.added = receiver.added /\ FirstPass'
  <2>1. CASE BeginAligning
    BY <1>1, <1>2, <2>1, ReceiverToKeeps DEF BeginAligning, PassInv, FirstPass
  <2>2. CASE BeginReceiving
    BY <1>1, <1>2, <2>2, ReceiverToKeeps DEF BeginReceiving, PassInv, FirstPass
  <2>3. CASE Align
    <3>1. PICK s \in {"aligning", "aligned"} : receiver' = ReceiverTo(receiver, s)
      BY <2>3 DEF Align
    <3>2. /\ s \in ReceiverStates /\ ReceiverInv(receiver')
          /\ receiver'.state = s /\ receiver'.added = receiver.added
          /\ receiver'.stable_frame = receiver.stable_frame
          /\ receiver'.ball_kicked = FALSE
      BY <1>2, <2>3, <3>1, ReceiverToKeeps DEF Align
    <3>3. FirstPass'
      BY <1>1, <3>2 DEF PassInv, FirstPass
    <3> QED BY <3>2, <3>3
  <2>4. CASE Receive
    <3> DEFINE e == Executed(receiver)
    <3>1. /\ e \in ReceiverType /\ e.state = receiver.state /\ e.added = receiver.added
          /\ e.age = receiver.age /\ e.ball_kicked = receiver.ball_kicked /\ e.capture = receiver.capture
          /\ e.stable_frame <= receiver.stable_frame + 1
      BY <1>2, PassAssumption DEF Executed, ReceiverType
    <3>2. receiver.state = "receiving"
      BY <2>4 DEF Receive
    <3>3. PICK s \in {"completed", "failed", "receiving"} :
            \/ s # "receiving" /\ receiver' = ReceiverTo(e, s)
            \/ /\ s = "receiving" /\ MayWait(e)
               /\ receiver' = [e EXCEPT !.age = IF @ < DesperateTimeout THEN @ + 1 ELSE @]
      BY <2>4 DEF Receive
    <3> HIDE DEF e
    <3>4. passes = 1 => pass \notin {"start", "preparing", "kicking"}
      BY <3>2 DEF PassInv, FirstPass
    <3>5. CASE s # "receiving"
      BY <1>1, <1>2, <3>1, <3>3, <3>4, <3>5, ReceiverToKeeps DEF FirstPass
    <3>6. CASE s = "receiving"
      <4>1. /\ receiver' \in ReceiverType /\ receiver'.state = "receiving"
            /\ receiver'.added = e.added /\ receiver'.capture = e.capture
            /\ receiver'.stable_frame = e.stable_frame /\ receiver'.age = receiver.age + 1
        BY <3>1, <3>2, <3>3, <3>6, PassAssumption DEF ReceiverType, MayWait
      <4>2. ReceiverInv(receiver')
        BY <3>1, <3>2, <4>1 DEF PassInv, ReceiverInv
      <4>3. receiver.stable_frame \in Nat /\ receiver.age \in Nat /\ e.stable_frame \in Nat
        BY <1>2, <3>1, PassAssumption DEF ReceiverType
      <4>4. FirstPass'
        BY <1>1, <3>1, <3>2, <3>4, <4>1, <4>3 DEF FirstPass, PassInv
      <4> QED BY <3>1, <4>1, <4>2, <4>4
    <3> QED BY <3>5, <3>6
  <2>5. CASE ReceiverRests
    BY <2>5 DEF ReceiverRests, PassInv, FirstPass
  <2> QED BY <2>1, <2>2, <2>3, <2>4, <2>5
<1> QED BY <1>1, <1>3 DEF PassInv

(* Every step keeps PassInv. *)
LEMMA PassInvNext == PassInv /\ [Next]_vars => PassInv'
<1>1. PassInv /\ UNCHANGED vars => PassInv'
  BY DEF vars, PassInv, FirstPass
<1> QED BY <1>1, RolesKeep, PassKeeps, KickerKeeps, ReceiverKeeps DEF Next

LEMMA PassInvariant == Spec => []PassInv
  BY PassInvInit, PassInvNext, PTL DEF Spec
-----------------------------------------------------------------------------
(* The types, and with them the bounds of the two counters of the          *)
(* receiver, are kept by every sequence of frames and role changes.        *)
THEOREM TypeCorrect == Spec => []TypeOK
<1>1. PassInv => TypeOK
  BY DEF PassInv, TypeOK, KickerInv, KickerType, ReceiverInv, ReceiverType
<1> QED BY <1>1, PassInvariant, PTL

(* Every state finds the subbehaviors it looks up by name, and no other,   *)
(* whenever kicker and receiver are given to other robots and however      *)
(* often the pass is run again after its end.                              *)
THEOREM SubbehaviorsCorrect == Spec => []SubbehaviorsMatchStates
<1>1. PassInv => SubbehaviorsMatchStates
  BY DEF PassInv, SubbehaviorsMatchStates, KickerInv, SubOf, ReceiverInv
<1> QED BY <1>1, PassInvariant, PTL

(* The robot that aims is the one that captured the ball.                  *)
THEOREM AimerCorrect == Spec => []AimerHasCaptured
<1>1. PassInv => AimerHasCaptured
  BY DEF PassInv, AimerHasCaptured, KickerInv, Absent
<1> QED BY <1>1, PassInvariant, PTL

(* Nobody kicks before the pass has enabled the kick.                      *)
THEOREM KickIsEnabled == Spec => []NoEarlyKick
<1>1. PassInv => NoEarlyKick
  BY DEF PassInv, NoEarlyKick, KickerInv
<1> QED BY <1>1, PassInvariant, PTL

(* In its first pass a receiver lets the ball settle before it judges.     *)
THEOREM JudgementIsLate == Spec => JudgesSettledBall
<1>1. PassInv /\ [Next]_vars =>
        [receiver.state = "receiving" /\ receiver'.state = "failed" /\ passes = 1
           => receiver.age + 1 >= StabilizationFrames]_vars
  <2> SUFFICES ASSUME PassInv, Next, receiver.state = "receiving", receiver'.state = "failed", passes = 1
               PROVE  receiver.age + 1 >= StabilizationFrames
    OBVIOUS
  <2>1. receiver \in ReceiverType /\ receiver.stable_frame <= receiver.age
    BY DEF PassInv, ReceiverInv, FirstPass
  <2>2. receiver.stable_frame \in Nat /\ receiver.age \in Nat
    BY <2>1, PassAssumption DEF ReceiverType
  <2>3. CASE Receive
    <3> DEFINE e == Executed(receiver)
    <3>1. /\ e.stable_frame <= receiver.stable_frame + 1 /\ e.stable_frame \in Nat
          /\ e.age = receiver.age /\ e.state = "receiving" /\ e \in ReceiverType
      BY <2>1, PassAssumption DEF Executed, ReceiverType
    <3>2. \/ receiver' = ReceiverTo(e, "completed")
          \/ MayFail(e)
          \/ receiver' = [e EXCEPT !.age = IF @ < DesperateTimeout THEN @ + 1 ELSE @]
      BY <2>3 DEF Receive
    <3>3. ReceiverTo(e, "completed").state = "completed"
      BY <3>1, ReceiverToKeeps DEF ReceiverStates, Done
    <3> HIDE DEF e
    <3>4. MayFail(e)
      BY <3>1, <3>2, <3>3 DEF ReceiverType
    <3> QED BY <2>1, <2>2, <3>1, <3>4, PassAssumption DEF MayFail
  <2>4. CASE AssignRoles
    <3>1. PICK r \in Robots :
            receiver' = IF receiver.added THEN ReceiverOn(receiver, r) ELSE receiver
      BY <2>4 DEF AssignRoles
    <3>2. ReceiverOn(receiver, r).state \in {"start", "receiving"}
      BY <2>1, ReceiverOnKeeps DEF PassInv
    <3> QED BY <3>1, <3>2
  <2>5. CASE Prepare
    <3>1. ReceiverTo(receiver, "start").state = "start"
      BY <2>1, ReceiverToKeeps DEF ReceiverStates
    <3>2. ReceiverTo(receiver, "start") \in ReceiverType
      BY <2>1, ReceiverToKeeps DEF ReceiverStates, ReceiverInv
    <3> QED BY <2>5, <3>1, <3>2 DEF Prepare, ReceiverType
  <2>6. CASE Restart \/ EnableKick \/ Kicked \/ Decide \/ PassWaits
    BY <2>1, <2>6, NewMachines
       DEF Restart, EnableKick, Kicked, Decide, PassWaits, ReceiverType
  <2>7. CASE KickerSteps \/ KickerSettles \/ KickerRests \/ ReceiverRests
    BY <2>7 DEF KickerSteps, KickerSettles, KickerRests, ReceiverRests
  <2>8. CASE BeginAligning \/ BeginReceiving \/ Align
    BY <2>8 DEF BeginAligning, BeginReceiving, Align
  <2> QED BY <2>3, <2>4, <2>5, <2>6, <2>7, <2>8 DEF Next
<1> QED BY <1>1, PassInvariant, PTL DEF Spec, JudgesSettledBall
=============================================================================
