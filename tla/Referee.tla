------------------------------ MODULE Referee ------------------------------
(***************************************************************************)
(* NewRefereeModule (soccer/NewRefereeModule.cpp) and the GameState it     *)
(* maintains for the rest of the soccer program.                           *)
(*                                                                         *)
(* Three actors share its fields.  The receiver thread, run(), takes one   *)
(* datagram of the referee box at a time and stores it under _mutex.  The  *)
(* processor thread derives the game state from the fields once a frame,   *)
(* updateGameState() and then spinKickWatcher(), and takes no lock to read *)
(* them, so each of its reads is a step of its own.  The operator writes   *)
(* `command' from the buttons of the GUI, again without the lock.          *)
(*                                                                         *)
(* Time is QTime, a time of day: msecsTo() does not cross midnight.  Its   *)
(* unit here is the period of the processing loop.                         *)
(***************************************************************************)
EXTENDS Integers, FiniteSets

CONSTANTS
  Commands,       (* referee commands in play, of AllCommands               *)
  Stages,         (* stages of the match in play, of AllStages              *)
  Scores,         (* goal counts a packet may carry                         *)
  Positions,      (* ball positions, on a line                              *)
  KickThreshold,  (* how far the ball must travel to count as kicked        *)
  KickVerifyTime, (* how long it must stay that far away                    *)
  Packets,        (* the datagrams that may arrive                          *)
  DayLength,      (* QTime::currentTime() is in 0 .. DayLength - 1          *)
  MaxFrameTime    (* longest time between two frames                        *)

AllStages ==
  {"NORMAL_FIRST_HALF_PRE", "NORMAL_FIRST_HALF", "NORMAL_HALF_TIME",
   "NORMAL_SECOND_HALF_PRE", "NORMAL_SECOND_HALF", "EXTRA_TIME_BREAK",
   "EXTRA_FIRST_HALF_PRE", "EXTRA_FIRST_HALF", "EXTRA_HALF_TIME",
   "EXTRA_SECOND_HALF_PRE", "EXTRA_SECOND_HALF", "PENALTY_SHOOTOUT_BREAK",
   "PENALTY_SHOOTOUT", "POST_GAME"}

HaltCommands    == {"HALT", "TIMEOUT_YELLOW", "TIMEOUT_BLUE"}
KickoffCommands == {"PREPARE_KICKOFF_YELLOW", "PREPARE_KICKOFF_BLUE"}
PenaltyCommands == {"PREPARE_PENALTY_YELLOW", "PREPARE_PENALTY_BLUE"}
DirectCommands  == {"DIRECT_FREE_YELLOW", "DIRECT_FREE_BLUE"}
IndirectCommands == {"INDIRECT_FREE_YELLOW", "INDIRECT_FREE_BLUE"}
GoalCommands    == {"GOAL_YELLOW", "GOAL_BLUE"}
SetupCommands   == KickoffCommands \cup PenaltyCommands
ReadyCommands   == {"NORMAL_START"} \cup DirectCommands \cup IndirectCommands

YellowRestarts == {"PREPARE_KICKOFF_YELLOW", "PREPARE_PENALTY_YELLOW",
                   "DIRECT_FREE_YELLOW", "INDIRECT_FREE_YELLOW"}
BlueRestarts   == {"PREPARE_KICKOFF_BLUE", "PREPARE_PENALTY_BLUE",
                   "DIRECT_FREE_BLUE", "INDIRECT_FREE_BLUE"}

AllCommands == HaltCommands \cup {"STOP", "FORCE_START"} \cup SetupCommands
                 \cup ReadyCommands \cup GoalCommands

(* The commands that have a button in the main window. *)
FastCommands == {"HALT", "STOP", "NORMAL_START", "FORCE_START"}
                  \cup KickoffCommands

ASSUME InputAssumption ==
  /\ Commands \subseteq AllCommands /\ "HALT" \in Commands
  /\ Stages \subseteq AllStages /\ "NORMAL_FIRST_HALF_PRE" \in Stages
  /\ Scores \subseteq Nat /\ 0 \in Scores
  /\ Positions \subseteq Int /\ Positions # {}

ASSUME TimeAssumption ==
  /\ KickThreshold \in Nat
  /\ KickVerifyTime \in Nat
  /\ DayLength \in Nat \ {0}
  /\ MaxFrameTime \in 1 .. DayLength

VARIABLES
  (* the receiver thread *)
  rpc,             (* where run() is                                       *)
  packet,          (* the datagram it is storing                           *)
  useExternalRef,  (* _useExternalRef                                      *)
  running,         (* _running                                             *)
  stopping,        (* stop() was called and waits for the thread           *)
  (* the fields the threads share *)
  stage, command, yellowInfo, blueInfo,
  (* the processor thread *)
  fpc,             (* where the frame is                                   *)
  blueTeam, ball, now,
  kickDetectState, readyBallPos, kickTime,
  (* GameState *)
  state, restart, ourRestart, period, ourScore, theirScore, ourInfo,
  theirInfo,
  (* history: for how long the ball has been seen away from readyBallPos   *)
  (* without a break since the detector was last armed                     *)
  away, awayFor

receiverVars == <<rpc, packet, running>>
sharedVars   == <<stage, command, yellowInfo, blueInfo>>
kickVars     == <<kickDetectState, readyBallPos, kickTime>>
phaseVars    == <<state, restart, ourRestart>>
scoreVars    == <<period, ourScore, theirScore, ourInfo, theirInfo>>
history      == <<away, awayFor>>
worldVars    == <<ball, now>>
controlVars  == <<useExternalRef, stopping>>
vars == <<receiverVars, controlVars, sharedVars, fpc, blueTeam, worldVars,
          kickVars, phaseVars, scoreVars, history>>

Packet == [stage : Stages, command : Commands, yellow : Scores, blue : Scores]

ASSUME PacketAssumption == Packets \subseteq Packet

NoPacket == [stage |-> "NORMAL_FIRST_HALF_PRE", command |-> "HALT",
             yellow |-> 0, blue |-> 0]

States   == {"Halt", "Stop", "Setup", "Ready", "Playing"}
Restarts == {"None", "Kickoff", "Direct", "Indirect", "Penalty"}
Periods  == {"FirstHalf", "Halftime", "SecondHalf", "Overtime1", "Overtime2",
             "PenaltyShootout"}
KickDetectStates ==
  {"WaitForReady", "CapturePosition", "WaitForKick", "VerifyKick", "Kicked"}
-----------------------------------------------------------------------------
(* Pure parts: the tables of updateGameState(), Point::nearPoint() and     *)
(* QTime::msecsTo().                                                       *)

PeriodOf(s) ==
  CASE s \in {"NORMAL_FIRST_HALF_PRE", "NORMAL_FIRST_HALF",
              "EXTRA_TIME_BREAK"}                          -> "FirstHalf"
    [] s \in {"NORMAL_HALF_TIME", "EXTRA_HALF_TIME"}       -> "Halftime"
    [] s \in {"NORMAL_SECOND_HALF_PRE", "NORMAL_SECOND_HALF"} -> "SecondHalf"
    [] s \in {"EXTRA_FIRST_HALF_PRE", "EXTRA_FIRST_HALF"}  -> "Overtime1"
    [] s \in {"EXTRA_SECOND_HALF_PRE", "EXTRA_SECOND_HALF",
              "POST_GAME"}                                 -> "Overtime2"
    [] s \in {"PENALTY_SHOOTOUT_BREAK", "PENALTY_SHOOTOUT"}
                                                           -> "PenaltyShootout"

nearPoint(p, q) == p - q <= KickThreshold /\ q - p <= KickThreshold

NullTime == -1
msecsTo(from, to) == IF from = NullTime THEN 0 ELSE to - from

(* ready() acts only in Stop and in Setup; it then arms the kick detector. *)
ReadyActs == state \in {"Stop", "Setup"}

Arms(c) == c \in ReadyCommands /\ ReadyActs

ArmedAfter_NotRearmed(c) ==
  IF Arms(c) /\ kickDetectState = "WaitForReady" THEN "CapturePosition"
                                                 ELSE kickDetectState

ArmedAfter(c) == IF Arms(c) THEN "CapturePosition" ELSE kickDetectState

StateAfter(c) ==
  CASE c \in HaltCommands   -> "Halt"
    [] c = "STOP"           -> "Stop"
    [] c = "FORCE_START"    -> "Playing"
    [] c \in SetupCommands  -> "Setup"
    [] Arms(c)              -> "Ready"
    [] OTHER                -> state

RestartAfter(c) ==
  CASE c \in KickoffCommands  -> "Kickoff"
    [] c \in PenaltyCommands  -> "Penalty"
    [] c \in DirectCommands   -> "Direct"
    [] c \in IndirectCommands -> "Indirect"
    [] OTHER                  -> restart

OurRestartAfter(c) ==
  CASE c \in YellowRestarts -> ~blueTeam
    [] c \in BlueRestarts   -> blueTeam
    [] OTHER                -> ourRestart

-----------------------------------------------------------------------------
Init ==
  /\ rpc = "start" /\ packet = NoPacket /\ running = FALSE
  /\ useExternalRef = TRUE /\ stopping = FALSE
  /\ stage = "NORMAL_FIRST_HALF_PRE" /\ command = "HALT"
  /\ yellowInfo = 0 /\ blueInfo = 0
  /\ fpc = "idle" /\ blueTeam \in BOOLEAN
  /\ ball \in [pos : Positions, valid : {FALSE}] /\ now = 0
  (* the constructor leaves the fields of the detector uninitialized *)
  /\ kickDetectState \in KickDetectStates
  /\ readyBallPos \in Positions /\ kickTime = NullTime
  /\ state = "Halt" /\ restart = "None" /\ ourRestart = FALSE
  /\ period = "FirstHalf" /\ ourScore = 0 /\ theirScore = 0
  /\ ourInfo = 0 /\ theirInfo = 0
  /\ away = FALSE /\ awayFor = 0
-----------------------------------------------------------------------------
(* The receiver thread: NewRefereeModule::run().                           *)

Start ==
  /\ rpc = "start"
  /\ running' = TRUE /\ rpc' = "loop"
  /\ UNCHANGED <<packet, controlVars, sharedVars, fpc, blueTeam, worldVars,
                 kickVars, phaseVars, scoreVars, history>>

(* The head of the loop.  With the external referee off it spins here.     *)
LoopHead_FlagFirst ==
  /\ rpc = "loop" /\ useExternalRef
  /\ rpc' = IF running THEN "waiting" ELSE "exited"
  /\ UNCHANGED <<packet, running, controlVars, sharedVars, fpc, blueTeam,
                 worldVars, kickVars, phaseVars, scoreVars, history>>

LoopHead ==
  /\ rpc = "loop"
  /\ \/ ~running /\ rpc' = "exited"
     \/ running /\ useExternalRef /\ rpc' = "waiting"
  /\ UNCHANGED <<packet, running, controlVars, sharedVars, fpc, blueTeam,
                 worldVars, kickVars, phaseVars, scoreVars, history>>

(* waitForReadyRead(500) gives up, the datagram is empty or does not       *)
(* parse.                                                                  *)
NothingReceived ==
  /\ rpc = "waiting" /\ rpc' = "loop"
  /\ UNCHANGED <<packet, running, controlVars, sharedVars, fpc, blueTeam,
                 worldVars, kickVars, phaseVars, scoreVars, history>>

(* A datagram arrives: any of them, UDP loses, repeats and reorders them.  *)
ReceivePacket ==
  /\ rpc = "waiting" /\ rpc' = "storeStage"
  /\ packet' \in Packets
  /\ UNCHANGED <<running, controlVars, sharedVars, fpc, blueTeam, worldVars,
                 kickVars, phaseVars, scoreVars, history>>

StoreStage ==
  /\ rpc = "storeStage" /\ rpc' = "storeCommand"
  /\ stage' = packet.stage
  /\ UNCHANGED <<packet, running, controlVars, command, yellowInfo, blueInfo,
                 fpc, blueTeam, worldVars, kickVars, phaseVars, scoreVars,
                 history>>

StoreCommand ==
  /\ rpc = "storeCommand" /\ rpc' = "storeYellow"
  /\ command' = packet.command
  /\ UNCHANGED <<packet, running, controlVars, stage, yellowInfo, blueInfo,
                 fpc, blueTeam, worldVars, kickVars, phaseVars, scoreVars,
                 history>>

StoreYellow ==
  /\ rpc = "storeYellow" /\ rpc' = "storeBlue"
  /\ yellowInfo' = packet.yellow
  /\ UNCHANGED <<packet, running, controlVars, stage, command, blueInfo, fpc,
                 blueTeam, worldVars, kickVars, phaseVars, scoreVars, history>>

StoreBlue ==
  /\ rpc = "storeBlue" /\ rpc' = "loop"
  /\ blueInfo' = packet.blue /\ packet' = NoPacket
  /\ UNCHANGED <<running, controlVars, stage, command, yellowInfo, fpc,
                 blueTeam, worldVars, kickVars, phaseVars, scoreVars, history>>

Receiver ==
  \/ Start \/ LoopHead \/ NothingReceived \/ ReceivePacket
  \/ StoreStage \/ StoreCommand \/ StoreYellow \/ StoreBlue
-----------------------------------------------------------------------------
(* The operator, in the GUI thread.                                        *)

(* on_fastHalt_clicked() and its like. *)
FastClick ==
  /\ command' \in FastCommands \cap Commands
  /\ UNCHANGED <<receiverVars, controlVars, stage, yellowInfo, blueInfo, fpc,
                 blueTeam, worldVars, kickVars, phaseVars, scoreVars, history>>

UseExternalReferee ==
  /\ useExternalRef' = ~useExternalRef
  /\ UNCHANGED <<receiverVars, stopping, sharedVars, fpc, blueTeam, worldVars,
                 kickVars, phaseVars, scoreVars, history>>

(* Processor::blueTeam() takes _loopMutex, which a frame holds throughout. *)
BlueTeam ==
  /\ fpc = "idle"
  /\ blueTeam' = ~blueTeam
  /\ UNCHANGED <<receiverVars, controlVars, sharedVars, fpc, worldVars,
                 kickVars, phaseVars, scoreVars, history>>

(* stop(), from the destructor: it then waits for the thread. *)
StopModule ==
  /\ ~stopping
  /\ stopping' = TRUE /\ running' = FALSE
  /\ UNCHANGED <<rpc, packet, useExternalRef, sharedVars, fpc, blueTeam,
                 worldVars, kickVars, phaseVars, scoreVars, history>>

Operator == FastClick \/ UseExternalReferee \/ BlueTeam \/ StopModule
-----------------------------------------------------------------------------
(* One frame of the processor thread, Processor::run().                    *)

AwayAfter(d) ==
  IF away THEN (IF awayFor + d < KickVerifyTime THEN awayFor + d
                                                ELSE KickVerifyTime)
          ELSE awayFor

(* QTime::currentTime() starts again at midnight. *)
After(d) == IF now + d < DayLength THEN now + d ELSE now + d - DayLength

(* A frame later, runModels() has a new estimate of the ball, or has lost it. *)
RunModels ==
  /\ fpc = "idle" /\ fpc' = "scores"
  /\ ball' \in [pos : Positions, valid : BOOLEAN]
  /\ \E d \in 1 .. MaxFrameTime :
       /\ now' = After(d)
       /\ awayFor' = AwayAfter(d)
  /\ UNCHANGED <<receiverVars, controlVars, sharedVars, blueTeam, kickVars,
                 phaseVars, scoreVars, away>>

(* updateGameState(), read by read. *)
UpdateScores_NoTeam ==
  /\ fpc = "scores" /\ fpc' = "stage"
  /\ ourScore' = yellowInfo /\ theirScore' = blueInfo
  /\ UNCHANGED <<receiverVars, controlVars, sharedVars, blueTeam, worldVars,
                 kickVars, phaseVars, period, ourInfo, theirInfo, history>>

UpdateScores ==
  /\ fpc = "scores" /\ fpc' = "stage"
  /\ ourScore'   = IF blueTeam THEN blueInfo ELSE yellowInfo
  /\ theirScore' = IF blueTeam THEN yellowInfo ELSE blueInfo
  /\ UNCHANGED <<receiverVars, controlVars, sharedVars, blueTeam, worldVars,
                 kickVars, phaseVars, period, ourInfo, theirInfo, history>>

UpdatePeriod ==
  /\ fpc = "stage" /\ fpc' = "command"
  /\ period' = PeriodOf(stage)
  /\ UNCHANGED <<receiverVars, controlVars, sharedVars, blueTeam, worldVars,
                 kickVars, phaseVars, ourScore, theirScore, ourInfo, theirInfo,
                 history>>

UpdateState ==
  /\ fpc = "command" /\ fpc' = "infos"
  /\ restart' = RestartAfter(command)
  /\ ourRestart' = OurRestartAfter(command)
  /\ kickDetectState' = ArmedAfter(command)
  /\ state' = IF StateAfter(command) = "Ready" /\ kickDetectState' = "Kicked"
              THEN "Playing" ELSE StateAfter(command)
  /\ away'    = (away /\ ~Arms(command))
  /\ awayFor' = IF Arms(command) THEN 0 ELSE awayFor
  /\ UNCHANGED <<receiverVars, controlVars, sharedVars, blueTeam, worldVars,
                 readyBallPos, kickTime, scoreVars>>

UpdateInfos ==
  /\ fpc = "infos" /\ fpc' = "kick"
  /\ ourInfo'   = IF blueTeam THEN blueInfo ELSE yellowInfo
  /\ theirInfo' = IF blueTeam THEN yellowInfo ELSE blueInfo
  /\ UNCHANGED <<receiverVars, controlVars, sharedVars, blueTeam, worldVars,
                 kickVars, phaseVars, period, ourScore, theirScore, history>>

(* spinKickWatcher() *)
BallIsBack == nearPoint(ball.pos, readyBallPos)

CapturePosition ==
  /\ kickDetectState = "CapturePosition"
  /\ readyBallPos' = ball.pos
  /\ kickDetectState' = "WaitForKick"
  /\ UNCHANGED kickTime

WaitForKick_Deadline ==
  /\ kickDetectState = "WaitForKick"
  /\ IF BallIsBack
     THEN UNCHANGED <<kickDetectState, kickTime>>
     ELSE kickDetectState' = "VerifyKick" /\ kickTime' = now + KickVerifyTime
  /\ UNCHANGED readyBallPos

WaitForKick ==
  /\ kickDetectState = "WaitForKick"
  /\ IF BallIsBack
     THEN UNCHANGED <<kickDetectState, kickTime>>
     ELSE kickDetectState' = "VerifyKick" /\ kickTime' = now
  /\ UNCHANGED readyBallPos

LongEnough_OffByOne == msecsTo(kickTime, now) >= KickVerifyTime - 1
LongEnough_Swapped  == msecsTo(now, kickTime) >= KickVerifyTime
LongEnough          == msecsTo(kickTime, now) >= KickVerifyTime

VerifyKick ==
  /\ kickDetectState = "VerifyKick"
  /\ kickDetectState' = CASE BallIsBack                 -> "WaitForKick"
                          [] ~BallIsBack /\ LongEnough -> "Kicked"
                          [] OTHER                      -> "VerifyKick"
  /\ UNCHANGED <<readyBallPos, kickTime>>

SpinKickWatcher ==
  /\ fpc = "kick" /\ fpc' = "idle"
  /\ \/ ball.valid /\ (CapturePosition \/ WaitForKick \/ VerifyKick)
     \/ /\ ~ball.valid \/ kickDetectState \in {"WaitForReady", "Kicked"}
        /\ UNCHANGED kickVars
  /\ away' = IF ball.valid THEN ~nearPoint(ball.pos, readyBallPos') ELSE away
  /\ awayFor' = IF away /\ away' THEN awayFor ELSE 0
  /\ UNCHANGED <<receiverVars, controlVars, sharedVars, blueTeam, worldVars,
                 phaseVars, scoreVars>>

Frame ==
  \/ RunModels \/ UpdateScores \/ UpdatePeriod \/ UpdateState \/ UpdateInfos
  \/ SpinKickWatcher

Next == Receiver \/ Operator \/ Frame

Spec == Init /\ [][Next]_vars

(* The scheduler runs both threads; waitForReadyRead() returns in the end. *)
FairSpec == Spec /\ WF_vars(Frame) /\ WF_vars(Receiver)
-----------------------------------------------------------------------------
(* Properties.                                                             *)

(* Every field keeps to the range its declaration in NewRefereeModule.hpp  *)
(* or GameState.hpp gives it.                                              *)
TypeOK ==
  /\ rpc \in {"start", "loop", "waiting", "storeStage", "storeCommand",
              "storeYellow", "storeBlue", "exited"}
  /\ packet \in Packet \cup {NoPacket} /\ running \in BOOLEAN
  /\ useExternalRef \in BOOLEAN /\ stopping \in BOOLEAN
  /\ stage \in Stages /\ command \in Commands
  /\ yellowInfo \in Scores /\ blueInfo \in Scores
  /\ fpc \in {"idle", "scores", "stage", "command", "infos", "kick"}
  /\ blueTeam \in BOOLEAN
  /\ ball \in [pos : Positions, valid : BOOLEAN] /\ now \in 0 .. DayLength - 1
  /\ kickDetectState \in KickDetectStates /\ readyBallPos \in Positions
  /\ kickTime \in {NullTime} \cup 0 .. DayLength - 1
  /\ state \in States /\ restart \in Restarts /\ ourRestart \in BOOLEAN
  /\ period \in Periods
  /\ {ourScore, theirScore, ourInfo, theirInfo} \subseteq Scores
  /\ away \in BOOLEAN /\ awayFor \in 0 .. KickVerifyTime

(* Whoever waits in Ready for a kick has an armed detector: neither the    *)
(* uninitialized detector nor one left in Kicked by the last restart, or   *)
(* still idle, decides this restart.  updateGameState() may only leave a   *)
(* Ready whose kick was seen since that Ready began.                       *)
ReadyIsArmed ==
  state = "Ready" =>
    /\ kickDetectState # "WaitForReady"
    /\ kickDetectState = "VerifyKick" => away
    /\ kickDetectState = "Kicked" => away /\ awayFor >= KickVerifyTime

(* The program enters play by itself only when the ball has been more than *)
(* KickThreshold from its position at Ready, without being seen back, for  *)
(* KickVerifyTime_ms (NewRefereeModule.cpp, comment of that constant),     *)
(* whatever the other threads did to command in between.                   *)
KickIsVerified ==
  [][ state # "Playing" /\ state' = "Playing" /\ command # "FORCE_START"
        => state = "Ready" /\ away /\ awayFor >= KickVerifyTime ]_vars

(* What updateGameState() shows the rest of the program once nobody writes *)
(* its inputs: the latest stage and infos, from the side of our team.      *)
ViewIsCurrent ==
  /\ ourScore = ourInfo /\ theirScore = theirInfo
  /\ <<ourInfo, theirInfo>> = IF blueTeam THEN <<blueInfo, yellowInfo>>
                                          ELSE <<yellowInfo, blueInfo>>
  /\ period = PeriodOf(stage)
  /\ command = "HALT" => state = "Halt"
  /\ command = "STOP" => state = "Stop"
  /\ command \in SetupCommands => state = "Setup"

(* The torn and stale views of updateGameState(), whose reads interleave   *)
(* with the receiver's writes, the buttons and changes of team, do not     *)
(* outlive the changes: when these stop, the view becomes current.         *)
ViewSettles ==
  <>[][FALSE]_<<stage, command, yellowInfo, blueInfo, blueTeam>>
    => <>[]ViewIsCurrent

(* stop() waits for a thread that does end, wherever it was in its loop    *)
(* and whatever the operator does to _useExternalRef, unless run() set     *)
(* _running again after stop() had reset it.                               *)
StopTerminates ==
  (stopping /\ ~running /\ rpc # "start") ~> (rpc = "exited")

(* A ball that left its place early enough before midnight is decided:     *)
(* the detector does not verify for ever, unless vision loses the ball.    *)
KickIsDecided ==
  (/\ kickDetectState = "VerifyKick"
   /\ kickTime \in 0 .. DayLength - KickVerifyTime - MaxFrameTime)
    ~> (kickDetectState # "VerifyKick" \/ ~ball.valid)
=============================================================================
