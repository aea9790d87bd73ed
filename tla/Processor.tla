----------------------------- MODULE Processor -----------------------------
(***************************************************************************)
(* The processing loop of soccer (Processor.cpp), the thread that receives *)
(* vision packets for it (VisionReceiver.cpp) and the main thread, which   *)
(* runs the window and changes settings under the loop.                    *)
(*                                                                         *)
(* A frame takes the packets that arrived, and then, under _loopMutex,     *)
(* runs the models, the referee, gameplay and motion control, sends the    *)
(* commands of all robots and logs the frame.  Each of these is a step:    *)
(* what they decide is arbitrary here, who reads which setting when is     *)
(* not.  Packets are heap addresses, freed by the models and allocated     *)
(* again.                                                                  *)
(***************************************************************************)
EXTENDS Naturals, Sequences, FiniteSets, Functions

CONSTANTS
  Robots,    (* our robots                                                  *)
  Ports,     (* UDP ports of the vision systems to choose from              *)
  Packets,   (* heap addresses of VisionPackets                             *)
  MaxLost,   (* how many packets that cannot be parsed arrive at most       *)
  None

ASSUME ProcessorAssumption ==
  /\ None \notin Robots \cup Ports \cup Packets \cup {"loop", "window"}
  /\ Ports # {} /\ MaxLost \in Nat /\ IsFiniteSet(Packets)

VARIABLES
  running,      (* Processor::_running                                      *)
  initialized,  (* Processor::_initialized                                  *)
  blue,         (* Processor::_blueTeam                                     *)
  manual,       (* Processor::_manualID, None for -1                        *)
  loopMutex,    (* holder of Processor::_loopMutex                          *)
  logMutex,     (* holder of Logger::_mutex                                 *)
  recording,    (* Logger::_fd >= 0                                         *)
  loop,         (* where Processor::run() is                                *)
  frame,        (* its visionPackets                                        *)
  logged,       (* blue_team in this frame's log, as a set                  *)
  teams,        (* the teams this frame was computed for                    *)
  visible,      (* robots seen, as of this frame's models                   *)
  halt,         (* the game is halted, as of this frame's game state        *)
  armed,        (* robots whose control says to kick                        *)
  driven,       (* robots whose control comes from motion control           *)
  tx,           (* what was sent: robots, and which of them obey what       *)
  receiver,     (* where VisionReceiver::run() is                           *)
  vrunning,     (* VisionReceiver::_running                                 *)
  port,         (* VisionReceiver::port                                     *)
  bound,        (* the port its socket is bound to                          *)
  holding,      (* the packet it is about to queue                          *)
  queue,        (* VisionReceiver::_packets                                 *)
  heap,         (* packets that are allocated                               *)
  lost,         (* those of them that nobody frees                          *)
  window,       (* where the main thread is                                 *)
  wish,         (* the port it changes to                                   *)
  recoloured    (* history: the window changed the team, and not back       *)
                (* again, since the frame began                             *)

settings     == <<running, initialized, blue, manual, recording>>
mutexes      == <<loopMutex, logMutex>>
robotVars    == <<logged, teams, visible, halt, armed, driven, tx>>
receiverVars == <<receiver, vrunning, port, bound, holding>>
packetVars   == <<frame, queue, heap, lost>>
windowVars   == <<window, wish>>
vars == <<settings, mutexes, loop, robotVars, receiverVars, packetVars, windowVars,
          recoloured>>

NothingSent == [robots |-> {}, moving |-> {}, kicking |-> {}, joystick |-> {}]

Init ==
  /\ running = TRUE /\ initialized = FALSE /\ blue \in BOOLEAN /\ manual = None
  /\ recording \in BOOLEAN
  /\ loopMutex = None /\ logMutex = None
  /\ loop = "start" /\ frame = <<>>
  /\ logged = {} /\ teams = {} /\ visible = {} /\ halt = TRUE /\ armed = {} /\ driven = {}
  /\ tx = NothingSent
  /\ receiver = "none" /\ vrunning = FALSE /\ port \in Ports /\ bound = None
  /\ holding = None /\ queue = <<>> /\ heap = {} /\ lost = {}
  /\ window = "starting" /\ wish = None /\ recoloured = FALSE
-----------------------------------------------------------------------------
(* The receiver's thread, and QThread's start() and wait().                *)

Listening == {"head", "waiting", "pushing"}

StartReceiver == receiver' = IF receiver = "none" THEN "started" ELSE receiver

(* The socket is bound first, the flag is set only then.  (In simulation   *)
(* the port is not used; here the cameras are real.)                       *)
Bind ==
  /\ receiver = "started" /\ receiver' = "bound"
  /\ bound' = port
  /\ UNCHANGED <<vrunning, port, holding, packetVars>>

SetRunning ==
  /\ receiver = "bound" /\ receiver' = "head"
  /\ vrunning' = TRUE
  /\ UNCHANGED <<port, bound, holding, packetVars>>

LoopHead ==
  /\ receiver = "head"
  /\ receiver' = IF vrunning THEN "waiting" ELSE "none"
  /\ bound' = IF vrunning THEN bound ELSE None
  /\ UNCHANGED <<vrunning, port, holding, packetVars>>

Timeout_Never == FALSE /\ UNCHANGED receiverVars

(* After half a second without a packet. *)
Timeout ==
  /\ receiver = "waiting" /\ receiver' = "head"
  /\ UNCHANGED <<vrunning, port, bound, holding, packetVars>>

Receive(p) ==
  /\ receiver = "waiting" /\ receiver' = "pushing"
  /\ p \notin heap
  /\ heap' = heap \cup {p} /\ holding' = p
  /\ UNCHANGED <<vrunning, port, bound, frame, queue, lost>>

ReceiveBad_NoContinue(p) ==
  /\ receiver = "waiting" /\ receiver' = "pushing"
  /\ p \notin heap
  /\ UNCHANGED <<vrunning, port, bound, holding, packetVars>>

(* A datagram that is no packet; what was allocated for it is forgotten. *)
ReceiveBad(p) ==
  /\ receiver = "waiting" /\ receiver' = "head"
  /\ p \notin heap /\ Cardinality(lost) < MaxLost
  /\ heap' = heap \cup {p} /\ lost' = lost \cup {p}
  /\ UNCHANGED <<vrunning, port, bound, holding, frame, queue>>

Push ==
  /\ receiver = "pushing" /\ receiver' = "head"
  /\ queue' = Append(queue, holding) /\ holding' = None
  /\ UNCHANGED <<vrunning, port, bound, frame, heap, lost>>

ReceiverAlone == UNCHANGED <<settings, mutexes, loop, robotVars, windowVars, recoloured>>

ReceiverRuns  == (Bind \/ SetRunning \/ LoopHead \/ Timeout \/ Push) /\ ReceiverAlone
PacketArrives == (\E p \in Packets : Receive(p) \/ ReceiveBad(p)) /\ ReceiverAlone

ReceiverStep == ReceiverRuns \/ PacketArrives
-----------------------------------------------------------------------------
(* Processor::run().                                                       *)

Go(from, to) == loop = from /\ loop' = to

Start ==
  /\ Go("start", "head") /\ StartReceiver
  /\ UNCHANGED <<settings, mutexes, robotVars, vrunning, port, bound, holding, packetVars>>

(* A new log frame takes the team before the lock. *)
NextFrame ==
  /\ loop = "head" /\ loop' = IF running THEN "inputs" ELSE "stopVision"
  /\ logged' = IF running THEN {blue} ELSE logged
  /\ UNCHANGED <<settings, mutexes, teams, visible, halt, armed, driven, tx, receiverVars,
                 packetVars>>

Inputs_NoClear ==
  /\ Go("inputs", "lock")
  /\ frame' = queue
  /\ UNCHANGED <<settings, mutexes, robotVars, receiverVars, queue, heap, lost>>

(* getPackets() *)
Inputs ==
  /\ Go("inputs", "lock")
  /\ frame' = queue /\ queue' = <<>>
  /\ UNCHANGED <<settings, mutexes, robotVars, receiverVars, heap, lost>>

Lock ==
  /\ Go("lock", "models")
  /\ loopMutex = None /\ loopMutex' = "loop"
  /\ UNCHANGED <<settings, logMutex, robotVars, receiverVars, packetVars>>

(* runModels(), and the packets are deleted. *)
Models ==
  /\ Go("models", "referee")
  /\ teams' = {blue}
  /\ visible' \in SUBSET Robots
  /\ heap' = heap \ Range(frame) /\ frame' = <<>>
  /\ UNCHANGED <<settings, mutexes, logged, halt, armed, driven, tx, receiverVars, queue,
                 lost>>

Referee ==
  /\ Go("referee", "names")
  /\ teams' = teams \cup {blue} /\ halt' \in BOOLEAN
  /\ UNCHANGED <<settings, mutexes, logged, visible, armed, driven, tx, receiverVars,
                 packetVars>>

Names ==
  /\ Go("names", "gameplay")
  /\ teams' = teams \cup {blue}
  /\ UNCHANGED <<settings, mutexes, logged, visible, halt, armed, driven, tx, receiverVars,
                 packetVars>>

(* Controls are cleared, then the behaviors command the robots they see. *)
Gameplay ==
  /\ Go("gameplay", "control")
  /\ driven' = {} /\ armed' \in SUBSET visible
  /\ UNCHANGED <<settings, mutexes, logged, teams, visible, halt, tx, receiverVars,
                 packetVars>>

Control ==
  /\ Go("control", "send")
  /\ driven' = IF halt THEN {} ELSE visible \ {manual}
  /\ UNCHANGED <<settings, mutexes, logged, teams, visible, halt, armed, tx, receiverVars,
                 packetVars>>

(* Halt overrides what was computed, the joystick overrides both. *)
Sent(byJoystick, kicks) ==
  LET robots == {r \in Robots : r \in visible \/ r = manual} IN
  [robots   |-> robots,
   moving   |-> (IF halt THEN {} ELSE driven) \cup byJoystick,
   kicking  |-> ((IF halt THEN {} ELSE armed) \ byJoystick) \cup kicks,
   joystick |-> byJoystick]

SendRadioData ==
  /\ Go("send", "log")
  /\ LET byJoystick == Robots \cap {manual} IN
     \E kicks \in SUBSET byJoystick : tx' = Sent(byJoystick, kicks)
  /\ UNCHANGED <<settings, mutexes, logged, teams, visible, halt, armed, driven, receiverVars,
                 packetVars>>

(* Logger::addFrame() *)
AddFrame ==
  /\ Go("log", "write")
  /\ logMutex = None /\ logMutex' = "loop"
  /\ UNCHANGED <<settings, loopMutex, robotVars, receiverVars, packetVars>>

Written ==
  /\ Go("write", "unlock")
  /\ logMutex' = None
  /\ UNCHANGED <<settings, loopMutex, robotVars, receiverVars, packetVars>>

(* The frame cannot be written.  addFrame() calls close(), which locks     *)
(* _mutex; it is held, and not recursive: no step leads on from here.      *)
WriteFails ==
  /\ recording /\ Go("write", "closing")
  /\ UNCHANGED <<settings, mutexes, robotVars, receiverVars, packetVars>>

Unlock ==
  /\ Go("unlock", "status")
  /\ loopMutex' = None
  /\ logged' = {} /\ teams' = {} /\ visible' = {} /\ halt' = TRUE /\ armed' = {} /\ driven' = {}
  /\ tx' = NothingSent
  /\ UNCHANGED <<settings, logMutex, receiverVars, packetVars>>

Status ==
  /\ Go("status", "head")
  /\ initialized' = TRUE
  /\ UNCHANGED <<running, blue, manual, recording, mutexes, robotVars, receiverVars,
                 packetVars>>

(* vision.stop(): clear the flag, wait for the thread. *)
StopVision ==
  /\ Go("stopVision", "waitVision")
  /\ vrunning' = FALSE
  /\ UNCHANGED <<settings, mutexes, robotVars, receiver, port, bound, holding, packetVars>>

WaitVision ==
  /\ Go("waitVision", "done") /\ receiver = "none"
  /\ UNCHANGED <<settings, mutexes, robotVars, receiverVars, packetVars>>

LoopAlone ==
  /\ UNCHANGED windowVars
  /\ recoloured' = IF loop = "unlock" THEN FALSE ELSE recoloured

LoopStep ==
  /\ \/ Start \/ NextFrame \/ Inputs \/ Lock \/ Models \/ Referee \/ Names \/ Gameplay
     \/ Control \/ SendRadioData \/ AddFrame \/ Written \/ WriteFails \/ Unlock
     \/ Status \/ StopVision \/ WaitVision
  /\ LoopAlone
-----------------------------------------------------------------------------
(* The main thread: main(), then the slots of MainWindow.                  *)

At(from, to) == window = from /\ window' = to

WindowAlone ==
  /\ UNCHANGED <<initialized, loop, robotVars, packetVars>>
  /\ recoloured' = IF blue' = blue \/ loop \notin {"inputs", "lock"} THEN recoloured ELSE ~recoloured

(* main() waits for the first frame, then shows the window. *)
Show ==
  /\ At("starting", "idle") /\ initialized
  /\ UNCHANGED <<running, blue, manual, recording, mutexes, receiverVars, wish>>

SetTeam_Unlocked ==
  /\ window = "idle"
  /\ blue' = ~blue
  /\ UNCHANGED <<running, manual, recording, mutexes, receiverVars, windowVars>>

SetTeam ==
  /\ window = "idle" /\ loopMutex = None
  /\ blue' = ~blue
  /\ UNCHANGED <<running, manual, recording, mutexes, receiverVars, windowVars>>

SetManual_Unlocked(r) ==
  /\ window = "idle"
  /\ manual' = r
  /\ UNCHANGED <<running, blue, recording, mutexes, receiverVars, windowVars>>

(* Chosen in the window, or turned off because the joystick is gone. *)
SetManual(r) ==
  /\ window = "idle" /\ loopMutex = None
  /\ manual' = r
  /\ UNCHANGED <<running, blue, recording, mutexes, receiverVars, windowVars>>

StartLogging ==
  /\ window = "idle" /\ logMutex = None
  /\ ~recording /\ recording' = TRUE
  /\ UNCHANGED <<running, blue, manual, mutexes, receiverVars, windowVars>>

(* updateViews() asks for the joystick, then for the history. *)
Refreshing == UNCHANGED <<running, blue, manual, recording, mutexes, receiverVars, wish>>
Refresh     == At("idle", "joystick") /\ Refreshing
AskJoystick == At("joystick", "history") /\ loopMutex = None /\ Refreshing
AskHistory  == At("history", "idle") /\ logMutex = None /\ Refreshing

(* changeVisionChannel() *)
ChangeVisionChannel(p) ==
  /\ At("idle", "stopVision") /\ p # port
  /\ loopMutex = None /\ loopMutex' = "window"
  /\ wish' = p
  /\ UNCHANGED <<running, blue, manual, recording, logMutex, receiverVars>>

StopChannel ==
  /\ At("stopVision", "waitVision")
  /\ vrunning' = FALSE
  /\ UNCHANGED <<running, blue, manual, recording, mutexes, receiver, port, bound, holding,
                 wish>>

ReceiverEnded_Early == receiver \in {"none", "head"}

ReceiverEnded == receiver = "none"

WaitChannel ==
  /\ At("waitVision", "startVision") /\ ReceiverEnded
  /\ UNCHANGED <<running, blue, manual, recording, mutexes, receiverVars, wish>>

StartChannel_NoUnlock ==
  /\ At("startVision", "idle")
  /\ port' = wish /\ wish' = None
  /\ StartReceiver
  /\ UNCHANGED <<running, blue, manual, recording, mutexes, vrunning, bound, holding>>

StartChannel ==
  /\ At("startVision", "idle")
  /\ port' = wish /\ wish' = None
  /\ StartReceiver
  /\ loopMutex' = None
  /\ UNCHANGED <<running, blue, manual, recording, logMutex, vrunning, bound, holding>>

(* Processor::stop() *)
Quit ==
  /\ At("idle", "quitting")
  /\ running' = FALSE
  /\ UNCHANGED <<blue, manual, recording, mutexes, receiverVars, wish>>

Ended ==
  /\ At("quitting", "ended") /\ loop = "done"
  /\ UNCHANGED <<running, blue, manual, recording, mutexes, receiverVars, wish>>

Slot ==
  \/ Refresh \/ SetTeam \/ StartLogging \/ Quit
  \/ \E r \in Robots \cup {None} : SetManual(r)
  \/ \E p \in Ports : ChangeVisionChannel(p)

Continue == Show \/ StopChannel \/ WaitChannel \/ StartChannel \/ Ended

WindowStep == (Slot \/ Continue \/ AskJoystick \/ AskHistory) /\ WindowAlone
-----------------------------------------------------------------------------
Next == LoopStep \/ ReceiverStep \/ WindowStep

Spec == Init /\ [][Next]_vars

(* Every thread is scheduled, neither of the two that share _loopMutex is  *)
(* starved of it, and the timer calls updateViews() for ever; no packet    *)
(* need arrive and the operator need not do anything.                      *)
Fairness ==
  /\ WF_vars(LoopStep) /\ SF_vars(Lock /\ LoopAlone)
  /\ WF_vars(ReceiverRuns)
  /\ WF_vars(Refresh /\ WindowAlone) /\ WF_vars(Continue /\ WindowAlone)
  /\ SF_vars(AskJoystick /\ WindowAlone) /\ SF_vars(AskHistory /\ WindowAlone)

FairSpec == Spec /\ Fairness
-----------------------------------------------------------------------------
LoopPlaces ==
  {"start", "head", "inputs", "lock", "models", "referee", "names", "gameplay", "control",
   "send", "log", "write", "closing", "unlock", "status", "stopVision", "waitVision", "done"}
WindowPlaces ==
  {"starting", "idle", "joystick", "history", "stopVision", "waitVision", "startVision",
   "quitting", "ended"}

CommandTypes ==
  /\ logged \subseteq BOOLEAN /\ teams \subseteq BOOLEAN /\ visible \subseteq Robots
  /\ armed \subseteq Robots /\ driven \subseteq Robots
  /\ tx \in [robots : SUBSET Robots, moving : SUBSET Robots, kicking : SUBSET Robots,
            joystick : SUBSET Robots]
PacketTypes ==
  /\ holding \in Packets \cup {None}
  /\ heap \subseteq Packets /\ lost \subseteq Packets
  /\ frame \in Seq(Packets) /\ queue \in Seq(Packets)

TypeOK ==
  /\ running \in BOOLEAN /\ initialized \in BOOLEAN /\ blue \in BOOLEAN
  /\ halt \in BOOLEAN /\ recording \in BOOLEAN /\ vrunning \in BOOLEAN
  /\ recoloured \in BOOLEAN
  /\ manual \in Robots \cup {None}
  /\ loopMutex \in {None, "loop", "window"} /\ logMutex \in {None, "loop"}
  /\ loop \in LoopPlaces /\ window \in WindowPlaces
  /\ receiver \in {"none", "started", "bound"} \cup Listening
  /\ port \in Ports /\ bound \in Ports \cup {None} /\ wish \in Ports \cup {None}
  /\ CommandTypes /\ PacketTypes

(* A packet that is allocated has one owner, who will free it: the         *)
(* receiver, its queue, or the frame; none is used after it was freed, and *)
(* only packets that could not be parsed are lost.                         *)
PacketsAreOwned ==
  /\ IsInjective(queue) /\ IsInjective(frame)
  /\ Range(queue) \cap Range(frame) = {} /\ holding \notin Range(queue) \cup Range(frame)
  /\ Range(queue) \cup Range(frame) \cup ({holding} \ {None}) = heap \ lost

(* The models, the referee module and the names of the teams see one team  *)
(* in a frame, although each reads _blueTeam anew.  The blue_team of the   *)
(* frame's log, read before the lock, is another just if the window        *)
(* changed the team in between.                                            *)
OneTeamPerFrame ==
  /\ \A t, u \in teams : t = u
  /\ teams # {} => (recoloured <=> logged # teams)

(* What is sent obeys the game state and the joystick of the same frame:   *)
(* nobody moves or kicks in a halt except the manual robot, which is in    *)
(* the packet and is not driven by motion control as well.                 *)
CommandsAgree ==
  loop \in {"log", "write", "closing"} =>
    /\ halt => tx.moving \cup tx.kicking \subseteq {manual}
    /\ tx.joystick = Robots \cap {manual}
    /\ tx.joystick \subseteq tx.robots /\ tx.joystick \cap driven = {}
    /\ tx.moving \cup tx.kicking \subseteq tx.robots

(* Outside changeVisionChannel() the receiver listens to the port that was *)
(* chosen last.                                                            *)
ListensToChannel == receiver \in {"bound"} \cup Listening => bound = port

(* The two ways in which threads wait forever: stop() was called before    *)
(* the receiver's run() had set the flag that stop() clears, and a failed  *)
(* write to the log.                                                       *)
LostStop   == vrunning /\ (loop = "waitVision" \/ window = "waitVision")
SelfLocked == loop = "closing"
Stuck      == LostStop \/ SelfLocked

(* The loop runs on until it is told to stop, whatever is done in the      *)
(* window, unless it is stuck in one of these ways.                        *)
FramesContinue == []<>(loop = "status") \/ <>(loop = "done") \/ <>[]Stuck

(* So does the window: no order of locks and waits blocks it otherwise.    *)
WindowResponds == []<>(window = "idle") \/ <>(window = "ended") \/ <>[]Stuck
=============================================================================
