--------------------------------- MODULE Pass ---------------------------------
(***************************************************************************)
(* A coordinated pass (tactics/coordinated_pass.py): four state machines   *)
(* that wait for each other.  The pass owns a kicker (PivotKick) and a     *)
(* receiver (PassReceive); the kicker owns a Capture, then an Aim.  All    *)
(* are spun in one thread, once a frame: first the roles are assigned,     *)
(* which may move a behavior to another robot and restart it, then the     *)
(* pass takes its transitions, then the kicker and its subbehavior, then   *)
(* the receiver.  Neither of the last two looks at the other, so that      *)
(* their order, that of a dictionary, does not matter.                     *)
(*                                                                         *)
(* Where the robots and the ball are, and so which geometric conditions    *)
(* hold, is arbitrary in each frame.  Time is counted in frames.           *)
(***************************************************************************)
EXTENDS Naturals

CONSTANTS
  Robots,
  StabilizationFrames,  (* PassReceive.StabilizationFrames                 *)
  DesperateTimeout,     (* PassReceive.DesperateTimeout, in frames         *)
  MaxPasses,            (* bound: how often the owner runs the pass        *)
  None

ASSUME PassAssumption ==
  /\ None \notin Robots
  /\ StabilizationFrames \in Nat /\ DesperateTimeout \in Nat /\ MaxPasses \in Nat
  /\ 1 <= StabilizationFrames /\ StabilizationFrames <= DesperateTimeout + 1

VARIABLES
  phase,     (* whose turn it is in the frame                              *)
  pass,      (* state of the CoordinatedPass                               *)
  kicker,    (* its subbehavior `kicker', or Absent                        *)
  receiver,  (* the skillreceiver; `added' while it is a subbehavior       *)
  passes     (* how often the pass was begun                               *)

vars == <<phase, pass, kicker, receiver, passes>>

Absent == "absent"
Done == {"completed", "failed"}
Running == {"preparing", "kicking", "receiving"}

(* _Kick.enable_kick is True unless the pass says otherwise. *)
NewKicker_Enabled ==
  [state |-> "start", robot |-> None, enable_kick |-> TRUE,
   sub |-> Absent, at |-> "start", subRobot |-> None, captor |-> None]

(* `sub' is the only subbehavior, in state `at', on subRobot.  captor is   *)
(* history: the robot that completed the Capture.                          *)
NewKicker ==
  [state |-> "start", robot |-> None, enable_kick |-> FALSE,
   sub |-> Absent, at |-> "start", subRobot |-> None, captor |-> None]

NoKicker == [NewKicker EXCEPT !.state = Absent]

(* The receiver's own Capture only moves the robot: whether it is there is *)
(* `capture'; age counts the frames since kicked_time.                     *)
NewReceiver ==
  [added |-> FALSE, state |-> "start", robot |-> None, ball_kicked |-> FALSE,
   capture |-> FALSE, stable_frame |-> 0, age |-> 0]

Init ==
  /\ phase = "assign" /\ pass = "start" /\ passes = 1
  /\ kicker = NoKicker /\ receiver = NewReceiver
-----------------------------------------------------------------------------
(* Transitions of the kicker, with the hooks they run. *)
KickerTo(k, s) ==
  LET left == [k EXCEPT !.sub = IF k.state = "capturing" \/ s \notin {"aiming", "aimed", "kicking"}
                                THEN Absent ELSE k.sub]
      add(sub) == [left EXCEPT !.sub = sub, !.at = "start", !.subRobot = None]
  IN  [CASE s = "capturing"                   -> add("capture")
         [] s = "aiming" /\ left.sub = Absent -> add("aim")
         [] OTHER                             -> left
       EXCEPT !.state = s,
              !.captor = IF k.state = "capturing" /\ s = "aiming" THEN k.subRobot ELSE @]

(* on_exit_receiving removes the receiver's capture, on_enter_receiving    *)
(* adds it and takes the time, on_exit_start resets ball_kicked.           *)
ReceiverTo(r, s) ==
  [r EXCEPT !.state = s, !.capture = (s = "receiving"),
            !.age = IF s = "receiving" THEN 0 ELSE @,
            !.ball_kicked = @ /\ ~(r.state = "start" /\ s # "start")]

KickerOn_NoRestart(k, r) ==
  [k EXCEPT !.robot = r, !.subRobot = IF k.sub = Absent THEN @ ELSE r]

(* A behavior that is moved to another robot is restarted, in whatever     *)
(* state it is, a final one included.  What it was told it keeps.          *)
KickerOn(k, r) ==
  LET moved == [k EXCEPT !.robot = r, !.subRobot = IF k.sub = Absent THEN @ ELSE r]
  IN  IF k.robot \in {None, r} THEN moved ELSE KickerTo(moved, "start")

ReceiverOn(c, r) ==
  LET moved == [c EXCEPT !.robot = r]
  IN  IF c.robot \in {None, r} THEN moved ELSE ReceiverTo(moved, "start")

(* Both roles are required: each gets a robot of its own. *)
AssignRoles ==
  /\ phase = "assign" /\ phase' = "pass"
  /\ \E k, r \in Robots :
       /\ k # r
       /\ kicker' = IF kicker.state = Absent THEN kicker ELSE KickerOn(kicker, k)
       /\ receiver' = IF receiver.added THEN ReceiverOn(receiver, r) ELSE receiver
  /\ UNCHANGED <<pass, passes>>
-----------------------------------------------------------------------------
(* The owner begins again when the pass is over, with the same receiver    *)
(* (plays/testing/test_coordinated_pass.py) or with a new one, as          *)
(* OneTouchPass sets it.                                                   *)
Restart ==
  /\ phase = "pass" /\ pass \in Done /\ passes < MaxPasses
  /\ pass' = "start" /\ passes' = passes + 1
  /\ receiver' \in {receiver, NewReceiver}
  /\ UNCHANGED <<phase, kicker>>

(* CoordinatedPass.spin(): no two of its transitions follow each other in  *)
(* one frame, since its conditions are about states of the last frame.     *)
Prepare ==
  /\ phase = "pass" /\ pass = "start"
  /\ pass' = "preparing" /\ phase' = "kicker"
  /\ receiver' = [ReceiverTo(receiver, "start") EXCEPT !.added = TRUE]
  /\ kicker' = NewKicker
  /\ UNCHANGED passes

EnableKick ==
  /\ phase = "pass" /\ pass = "preparing"
  /\ kicker.state = "aimed" /\ receiver.state = "aligned"
  /\ pass' = "kicking" /\ phase' = "kicker"
  /\ kicker' = [kicker EXCEPT !.enable_kick = TRUE]
  /\ UNCHANGED <<receiver, passes>>

Kicked_KickerStays ==
  /\ phase = "pass" /\ pass = "kicking" /\ kicker.state = "completed"
  /\ pass' = "receiving" /\ phase' = "kicker"
  /\ receiver' = [receiver EXCEPT !.ball_kicked = TRUE]
  /\ UNCHANGED <<kicker, passes>>

Kicked ==
  /\ phase = "pass" /\ pass = "kicking" /\ kicker.state = "completed"
  /\ pass' = "receiving" /\ phase' = "kicker"
  /\ receiver' = [receiver EXCEPT !.ball_kicked = TRUE]
  /\ kicker' = NoKicker
  /\ UNCHANGED passes

Decide ==
  /\ phase = "pass" /\ pass = "receiving" /\ receiver.state \in Done
  /\ pass' = receiver.state /\ phase' = "kicker"
  /\ receiver' = [receiver EXCEPT !.added = FALSE]
  /\ UNCHANGED <<kicker, passes>>

PassWaits ==
  /\ phase = "pass" /\ phase' = "kicker"
  /\ pass # "start"
  /\ pass = "preparing" => ~(kicker.state = "aimed" /\ receiver.state = "aligned")
  /\ pass = "kicking" => kicker.state # "completed"
  /\ pass = "receiving" => receiver.state \notin Done
  /\ UNCHANGED <<pass, kicker, receiver, passes>>
-----------------------------------------------------------------------------
(* PivotKick.spin().  The states that can follow; just_kicked is what the  *)
(* robot's sensor says in this frame.  Of several the first of a           *)
(* dictionary is taken.                                                    *)
KickerNext(k, just_kicked) ==
  LET aim(s) == k.sub = "aim" /\ k.at = s
      when(s, condition) == IF condition THEN {s} ELSE {}
  IN  CASE k.state = "start"     -> {"capturing"}
        [] k.state = "capturing" -> when("aiming", k.at = "completed")
        [] k.state = "aiming"    -> when("aimed", aim("aimed")) \cup when("capturing", aim("failed"))
        [] k.state = "aimed"     -> when("kicking", k.enable_kick) \cup when("capturing", aim("failed"))
                                    \cup when("aiming", aim("aiming") /\ ~k.enable_kick)
        [] k.state = "kicking"   -> when("completed", just_kicked)
                                    \cup when("capturing", aim("failed") /\ ~just_kicked)
        [] OTHER                 -> {}

KickerSpins == phase = "kicker" /\ kicker.robot # None

KickerSteps ==
  /\ KickerSpins
  /\ \E just_kicked \in BOOLEAN :
       \E s \in KickerNext(kicker, just_kicked) : kicker' = KickerTo(kicker, s)
  /\ UNCHANGED <<phase, pass, receiver, passes>>

(* Capture completes from its fine approach only, which it may reach in    *)
(* the same frame.                                                         *)
CaptureNext(at) ==
  IF at = "completed" THEN {at} ELSE {"course_approach", "fine_approach", "completed"}

(* Aim begins anew with each capture; it fails when the ball is lost, and  *)
(* is good when aimed and steady, or after a time.                         *)
AimNext(at) == IF at = "failed" THEN {at} ELSE {"aiming", "aimed", "failed"}

(* The subbehavior is spun once, after the kicker's own transitions.       *)
KickerSettles ==
  /\ KickerSpins /\ \E just_kicked \in BOOLEAN : KickerNext(kicker, just_kicked) = {}
  /\ \E s \in IF kicker.sub = Absent \/ kicker.subRobot = None THEN {kicker.at}
              ELSE IF kicker.sub = "capture" THEN CaptureNext(kicker.at) ELSE AimNext(kicker.at) :
       kicker' = [kicker EXCEPT !.at = s]
  /\ phase' = "receiver"
  /\ UNCHANGED <<pass, receiver, passes>>

(* A behavior without a robot is not spun. *)
KickerRests ==
  /\ phase = "kicker" /\ kicker.robot = None /\ phase' = "receiver"
  /\ UNCHANGED <<pass, kicker, receiver, passes>>
-----------------------------------------------------------------------------
(* PassReceive.spin() *)
ReceiverSpins == phase = "receiver" /\ receiver.added /\ receiver.robot # None

BeginAligning ==
  /\ ReceiverSpins /\ receiver.state = "start"
  /\ receiver' = ReceiverTo(receiver, "aligning")
  /\ UNCHANGED <<phase, pass, kicker, passes>>

BeginReceiving ==
  /\ ReceiverSpins /\ receiver.state \in {"aligning", "aligned"} /\ receiver.ball_kicked
  /\ receiver' = ReceiverTo(receiver, "receiving")
  /\ UNCHANGED <<phase, pass, kicker, passes>>

Align ==
  /\ ReceiverSpins /\ receiver.state \in {"aligning", "aligned"} /\ ~receiver.ball_kicked
  /\ \E s \in {"aligning", "aligned"} : receiver' = ReceiverTo(receiver, s)
  /\ phase' = "assign"
  /\ UNCHANGED <<pass, kicker, passes>>

(* execute_receiving counts, then the conditions: the ball is had, has     *)
(* left its channel, or the time is over.                                  *)
Executed_Unbounded(r) == [r EXCEPT !.stable_frame = @ + 1]

Executed(r) ==
  [r EXCEPT !.stable_frame = IF @ <= StabilizationFrames THEN @ + 1 ELSE @]

MayFail_Unsettled(r) == TRUE
MayFail(r) == r.stable_frame >= StabilizationFrames \/ r.age >= DesperateTimeout

MayWait_Forever(r) == TRUE
MayWait(r) == r.age < DesperateTimeout

Receive ==
  /\ ReceiverSpins /\ receiver.state = "receiving"
  /\ LET executed == Executed(receiver)
     IN  \/ receiver' = ReceiverTo(executed, "completed")
         \/ MayFail(executed) /\ receiver' = ReceiverTo(executed, "failed")
         \/ /\ MayWait(executed)
            /\ receiver' = [executed EXCEPT !.age = IF @ < DesperateTimeout THEN @ + 1 ELSE @]
  /\ phase' = "assign"
  /\ UNCHANGED <<pass, kicker, passes>>

ReceiverRests ==
  /\ phase = "receiver" /\ phase' = "assign"
  /\ ~receiver.added \/ receiver.robot = None \/ receiver.state \in Done
  /\ UNCHANGED <<pass, kicker, receiver, passes>>
-----------------------------------------------------------------------------
Next ==
  \/ AssignRoles \/ Restart \/ Prepare \/ EnableKick \/ Kicked \/ Decide \/ PassWaits
  \/ KickerSteps \/ KickerSettles \/ KickerRests
  \/ BeginAligning \/ BeginReceiving \/ Align \/ Receive \/ ReceiverRests

Spec == Init /\ [][Next]_vars

(* The processing loop computes frame after frame. *)
FairSpec == Spec /\ WF_vars(Next)
-----------------------------------------------------------------------------
KickerStates == {Absent, "start", "capturing", "aiming", "aimed", "kicking", "completed"}
ReceiverStates == {"start", "aligning", "aligned", "receiving"} \cup Done

(* Every variable keeps its type, and counters stay below their limits.    *)
TypeOK ==
  /\ phase \in {"assign", "pass", "kicker", "receiver"}
  /\ pass \in {"start"} \cup Running \cup Done
  /\ passes \in 1..MaxPasses \cup {1}
  /\ kicker \in [state : KickerStates, robot : Robots \cup {None}, enable_kick : BOOLEAN,
                 sub : {Absent, "capture", "aim"},
                 at : {"start", "course_approach", "fine_approach", "aiming", "aimed"} \cup Done,
                 subRobot : Robots \cup {None}, captor : Robots \cup {None}]
  /\ receiver \in [added : BOOLEAN, state : ReceiverStates, robot : Robots \cup {None},
                   ball_kicked : BOOLEAN, capture : BOOLEAN,
                   stable_frame : 0..(StabilizationFrames + 1), age : 0..DesperateTimeout]

(* Whoever is restarted whenever by a change of robots, each state finds   *)
(* the subbehaviors its conditions look up by name, and none is left over, *)
(* which would make the next add_subbehavior() raise: the kicker is there  *)
(* until it has kicked, the receiver until the pass is over, the kicker    *)
(* captures, then aims, and the receiver captures while it receives.       *)
SubbehaviorsMatchStates ==
  /\ kicker.state # Absent <=> pass \in {"preparing", "kicking"}
  /\ receiver.added <=> pass \in Running
  /\ kicker.sub = CASE kicker.state = "capturing" -> "capture"
                    [] kicker.state \in {"aiming", "aimed", "kicking"} -> "aim"
                    [] OTHER -> Absent
  /\ receiver.capture <=> receiver.state = "receiving"

(* "It'd be pretty weird if the robot executing Aim was different from the *)
(* one that just ran Capture" (single_robot_composite_behavior.py:58): the *)
(* robot that aims is the one that captured the ball.                      *)
AimerHasCaptured ==
  kicker.sub = "aim" /\ kicker.subRobot # None => kicker.subRobot = kicker.captor

(* The ball is not kicked while the partners still get ready: a kicker     *)
(* that kicks or has kicked belongs to a pass that enabled it, whatever    *)
(* restarts, fumbles and lost aims came before.                            *)
NoEarlyKick ==
  kicker.state \in {"kicking", "completed"} => pass = "kicking"

(* The ball's path is unreliable right after the kick: in its first pass a *)
(* receiver does not judge the pass by it before StabilizationFrames       *)
(* frames.  (In later passes it may: stable_frame is not reset.)           *)
JudgesSettledBall ==
  [][receiver.state = "receiving" /\ receiver'.state = "failed" /\ passes = 1
       => receiver.age + 1 >= StabilizationFrames]_vars

(* A pass whose receiver knows of the kick ends: by the ball, by its path  *)
(* or by the time.  Only a receiver that lost its robot, and with it the   *)
(* news of the kick, keeps the pass waiting.                               *)
ReceivingEnds == pass = "receiving" ~> pass \in Done \/ ~receiver.ball_kicked

(* "If the receiver gets the ball, CoordinatedPass transitions to the      *)
(* completed state, otherwise it goes to the failed state"                 *)
(* (coordinated_pass.py:23).                                               *)
PassIsDecided == pass = "receiving" ~> pass \in Done
=============================================================================
