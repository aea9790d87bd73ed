-------------------------- MODULE ProcessorProofs --------------------------
(***************************************************************************)
(* What a frame computes and sends is consistent, and vision packets have  *)
(* one owner, for every number of robots, ports and packets; and the       *)
(* threads wait for each other for ever in two named ways only.            *)
(***************************************************************************)
EXTENDS Processor, TLAPS

(* Where the loop and the window hold _loopMutex. *)
InLoop   == {"models", "referee", "names", "gameplay", "control", "send", "log", "write",
             "closing", "unlock"}
InWindow == {"stopVision", "waitVision", "startVision"}

MutexHeld ==
  /\ loop \in InLoop <=> loopMutex = "loop"
  /\ window \in InWindow <=> loopMutex = "window"
  /\ window \in InWindow => wish \in Ports

(* The receiver holds a packet exactly while it is about to queue it, the  *)
(* loop between taking the packets and the models.                         *)
Holding ==
  /\ receiver = "pushing" <=> holding # None
  /\ loop \in {"lock", "models"} \/ frame = <<>>

(* A lost packet is not allocated a second time. *)
StaysLost == lost \subseteq heap

(* The team is constant while the loop holds the lock; the log has it, or  *)
(* the other one if the window changed it before.                          *)
Teams ==
  /\ teams # {} => loop \in InLoop
  /\ teams \subseteq {blue}
  /\ recoloured => loop \in {"inputs", "lock"} \cup InLoop /\ logged = {~blue}
  /\ loop \in {"inputs", "lock"} \cup InLoop /\ ~recoloured => logged = {blue}

(* The controls of a frame, until they are sent. *)
Controls ==
  /\ loop \in {"control", "send"} => armed \subseteq visible
  /\ loop = "send" => /\ driven \subseteq visible \ {manual}
                      /\ halt => driven = {}

Sending ==
  loop \in {"log", "write", "closing"} =>
    /\ halt => tx.moving \cup tx.kicking \subseteq {manual}
    /\ tx.joystick = Robots \cap {manual}
    /\ tx.joystick \subseteq tx.robots /\ tx.joystick \cap driven = {}
    /\ tx.moving \cup tx.kicking \subseteq tx.robots

(* The window opens after the first frame, so that nobody but it starts a  *)
(* receiver that it waited for.                                            *)
Channel ==
  /\ loop = "start" => ~initialized
  /\ ~initialized => window = "starting"
  /\ window = "startVision" => receiver = "none"
  /\ ListensToChannel

IInv == /\ TypeOK /\ MutexHeld /\ Holding /\ Teams /\ Controls /\ Sending /\ Channel
        /\ PacketsAreOwned /\ StaysLost
-----------------------------------------------------------------------------
LEMMA InitIInv == Init => IInv
<1> SUFFICES ASSUME Init PROVE IInv
  OBVIOUS
<1>1. TypeOK
  <2>1. CommandTypes
    BY DEF Init, CommandTypes, NothingSent
  <2>2. PacketTypes
    BY DEF Init, PacketTypes
  <2> QED BY <2>1, <2>2 DEF Init, TypeOK, LoopPlaces, WindowPlaces, Listening
<1>2. MutexHeld /\ Holding
  BY ProcessorAssumption DEF Init, MutexHeld, Holding, InLoop, InWindow
<1>3. Teams /\ Controls /\ Sending /\ Channel
  BY DEF Init, Teams, InLoop, Controls, Sending, Channel, ListensToChannel, Listening
<1>4. PacketsAreOwned /\ StaysLost
  BY DEF Init, PacketsAreOwned, StaysLost, IsInjective, Range
<1> QED BY <1>1, <1>2, <1>3, <1>4 DEF IInv

(* The lock is held where the program says so. *)
LEMMA MutexStep == TypeOK /\ MutexHeld /\ [Next]_vars => MutexHeld'
<1> SUFFICES ASSUME TypeOK /\ MutexHeld, [Next]_vars PROVE MutexHeld'
  OBVIOUS
<1> USE ProcessorAssumption DEF MutexHeld, InLoop, InWindow,
          vars, settings, mutexes, receiverVars, windowVars
<1>1. CASE LoopStep
  BY <1>1 DEF LoopStep, LoopAlone, Go, Start, NextFrame, Inputs, Lock, Models, Referee, Names, Gameplay, Control,
     SendRadioData, AddFrame, Written, WriteFails, Unlock, Status, StopVision, WaitVision
<1>2. CASE ReceiverStep
  BY <1>2 DEF ReceiverStep, ReceiverRuns, PacketArrives, ReceiverAlone, Bind, SetRunning, LoopHead, Timeout, Push, Receive,
     ReceiveBad
<1>3. CASE WindowStep
  BY <1>3 DEF WindowStep, Slot, Continue, WindowAlone, Refreshing, At, Refresh, SetTeam, StartLogging, Quit, AskJoystick,
     AskHistory, Show, StopChannel, WaitChannel, StartChannel, Ended, SetManual,
     ChangeVisionChannel
<1> QED BY <1>1, <1>2, <1>3 DEF Next

(* The receiver allocates before it queues, the loop frees what it took. *)
LEMMA HoldingStep == TypeOK /\ Holding /\ [Next]_vars => Holding'
<1> SUFFICES ASSUME TypeOK /\ Holding, [Next]_vars PROVE Holding'
  OBVIOUS
<1> USE ProcessorAssumption DEF TypeOK, PacketTypes, Holding, Listening, StartReceiver, packetVars,
          vars, settings, mutexes, receiverVars, windowVars
<1>1. CASE LoopStep
  BY <1>1 DEF LoopStep, LoopAlone, Go, Start, NextFrame, Inputs, Lock, Models, Referee, Names, Gameplay, Control,
     SendRadioData, AddFrame, Written, WriteFails, Unlock, Status, StopVision, WaitVision
<1>2. CASE ReceiverStep
  BY <1>2 DEF ReceiverStep, ReceiverRuns, PacketArrives, ReceiverAlone, Bind, SetRunning, LoopHead, Timeout, Push, Receive,
     ReceiveBad
<1>3. CASE WindowStep
  BY <1>3 DEF WindowStep, Slot, Continue, WindowAlone, Refreshing, At, Refresh, SetTeam, StartLogging, Quit, AskJoystick,
     AskHistory, Show, StopChannel, WaitChannel, StartChannel, Ended, SetManual,
     ChangeVisionChannel
<1> QED BY <1>1, <1>2, <1>3 DEF Next

(* The window changes the team outside of the frame's critical section. *)
LEMMA TeamsStep == TypeOK /\ MutexHeld /\ Teams /\ [Next]_vars => Teams'
<1> SUFFICES ASSUME TypeOK /\ MutexHeld /\ Teams, [Next]_vars PROVE Teams'
  OBVIOUS
<1> USE ProcessorAssumption DEF TypeOK, MutexHeld, InLoop, Teams, robotVars,
          vars, settings, mutexes, receiverVars, windowVars
<1>1. CASE LoopStep
  BY <1>1 DEF LoopStep, LoopAlone, Go, Start, NextFrame, Inputs, Lock, Models, Referee, Names, Gameplay, Control,
     SendRadioData, AddFrame, Written, WriteFails, Unlock, Status, StopVision, WaitVision
<1>2. CASE ReceiverStep
  BY <1>2 DEF ReceiverStep, ReceiverRuns, PacketArrives, ReceiverAlone, Bind, SetRunning, LoopHead, Timeout, Push, Receive,
     ReceiveBad
<1>3. CASE WindowStep
  BY <1>3 DEF WindowStep, Slot, Continue, WindowAlone, Refreshing, At, Refresh, SetTeam, StartLogging, Quit, AskJoystick,
     AskHistory, Show, StopChannel, WaitChannel, StartChannel, Ended, SetManual,
     ChangeVisionChannel
<1> QED BY <1>1, <1>2, <1>3 DEF Next

(* Control follows gameplay and uses the setting of the joystick that
   SendRadioData will use. *)
LEMMA ControlsStep == MutexHeld /\ Controls /\ [Next]_vars => Controls'
<1> SUFFICES ASSUME MutexHeld /\ Controls, [Next]_vars PROVE Controls'
  OBVIOUS
<1> USE ProcessorAssumption DEF MutexHeld, InLoop, Controls, robotVars,
          vars, settings, mutexes, receiverVars, windowVars
<1>1. CASE LoopStep
  BY <1>1 DEF LoopStep, LoopAlone, Go, Start, NextFrame, Inputs, Lock, Models, Referee, Names, Gameplay, Control,
     SendRadioData, AddFrame, Written, WriteFails, Unlock, Status, StopVision, WaitVision
<1>2. CASE ReceiverStep
  BY <1>2 DEF ReceiverStep, ReceiverRuns, PacketArrives, ReceiverAlone, Bind, SetRunning, LoopHead, Timeout, Push, Receive,
     ReceiveBad
<1>3. CASE WindowStep
  BY <1>3 DEF WindowStep, Slot, Continue, WindowAlone, Refreshing, At, Refresh, SetTeam, StartLogging, Quit, AskJoystick,
     AskHistory, Show, StopChannel, WaitChannel, StartChannel, Ended, SetManual,
     ChangeVisionChannel
<1> QED BY <1>1, <1>2, <1>3 DEF Next

(* What is sent is computed from the controls of the same frame. *)
LEMMA SendingStep == TypeOK /\ MutexHeld /\ Controls /\ Sending /\ [Next]_vars => Sending'
<1> SUFFICES ASSUME TypeOK /\ MutexHeld /\ Controls /\ Sending, [Next]_vars PROVE Sending'
  OBVIOUS
<1> USE ProcessorAssumption DEF TypeOK, CommandTypes, MutexHeld, InLoop, Controls, Sending, Sent, robotVars,
          vars, settings, mutexes, receiverVars, windowVars
<1>1. CASE LoopStep
  BY <1>1 DEF LoopStep, LoopAlone, Go, Start, NextFrame, Inputs, Lock, Models, Referee, Names, Gameplay, Control,
     SendRadioData, AddFrame, Written, WriteFails, Unlock, Status, StopVision, WaitVision
<1>2. CASE ReceiverStep
  BY <1>2 DEF ReceiverStep, ReceiverRuns, PacketArrives, ReceiverAlone, Bind, SetRunning, LoopHead, Timeout, Push, Receive,
     ReceiveBad
<1>3. CASE WindowStep
  BY <1>3 DEF WindowStep, Slot, Continue, WindowAlone, Refreshing, At, Refresh, SetTeam, StartLogging, Quit, AskJoystick,
     AskHistory, Show, StopChannel, WaitChannel, StartChannel, Ended, SetManual,
     ChangeVisionChannel
<1> QED BY <1>1, <1>2, <1>3 DEF Next

(* The computed commands stay within our robots. *)
LEMMA CommandTypesStep == TypeOK /\ Controls /\ [Next]_vars => CommandTypes'
<1> SUFFICES ASSUME TypeOK /\ Controls, [Next]_vars PROVE CommandTypes'
  OBVIOUS
<1> USE ProcessorAssumption DEF TypeOK, CommandTypes, Controls, Sent, NothingSent, robotVars,
          vars, settings, mutexes, receiverVars, windowVars
<1>1. CASE LoopStep
  BY <1>1 DEF LoopStep, LoopAlone, Go, Start, NextFrame, Inputs, Lock, Models, Referee, Names, Gameplay, Control,
     SendRadioData, AddFrame, Written, WriteFails, Unlock, Status, StopVision, WaitVision
<1>2. CASE ReceiverStep
  BY <1>2 DEF ReceiverStep, ReceiverRuns, PacketArrives, ReceiverAlone, Bind, SetRunning, LoopHead, Timeout, Push, Receive,
     ReceiveBad
<1>3. CASE WindowStep
  BY <1>3 DEF WindowStep, Slot, Continue, WindowAlone, Refreshing, At, Refresh, SetTeam, StartLogging, Quit, AskJoystick,
     AskHistory, Show, StopChannel, WaitChannel, StartChannel, Ended, SetManual,
     ChangeVisionChannel
<1> QED BY <1>1, <1>2, <1>3 DEF Next

(* Threads, locks and settings take the values listed in TypeOK. *)
LEMMA PlacesStep == TypeOK /\ MutexHeld /\ [Next]_vars => /\ loop' \in LoopPlaces /\ window' \in WindowPlaces
     /\ loopMutex' \in {None, "loop", "window"} /\ logMutex' \in {None, "loop"}
     /\ receiver' \in {"none", "started", "bound"} \cup Listening
     /\ port' \in Ports /\ bound' \in Ports \cup {None} /\ wish' \in Ports \cup {None}
     /\ manual' \in Robots \cup {None}
<1> SUFFICES ASSUME TypeOK /\ MutexHeld, [Next]_vars PROVE /\ loop' \in LoopPlaces /\ window' \in WindowPlaces
     /\ loopMutex' \in {None, "loop", "window"} /\ logMutex' \in {None, "loop"}
     /\ receiver' \in {"none", "started", "bound"} \cup Listening
     /\ port' \in Ports /\ bound' \in Ports \cup {None} /\ wish' \in Ports \cup {None}
     /\ manual' \in Robots \cup {None}
  OBVIOUS
<1> USE ProcessorAssumption DEF TypeOK, MutexHeld, InWindow, LoopPlaces, WindowPlaces, Listening, StartReceiver,
          vars, settings, mutexes, receiverVars, windowVars
<1>1. CASE LoopStep
  BY <1>1 DEF LoopStep, LoopAlone, Go, Start, NextFrame, Inputs, Lock, Models, Referee, Names, Gameplay, Control,
     SendRadioData, AddFrame, Written, WriteFails, Unlock, Status, StopVision, WaitVision
<1>2. CASE ReceiverStep
  BY <1>2 DEF ReceiverStep, ReceiverRuns, PacketArrives, ReceiverAlone, Bind, SetRunning, LoopHead, Timeout, Push, Receive,
     ReceiveBad
<1>3. CASE WindowStep
  BY <1>3 DEF WindowStep, Slot, Continue, WindowAlone, Refreshing, At, Refresh, SetTeam, StartLogging, Quit, AskJoystick,
     AskHistory, Show, StopChannel, WaitChannel, StartChannel, Ended, SetManual,
     ChangeVisionChannel
<1> QED BY <1>1, <1>2, <1>3 DEF Next

(* So do the Booleans. *)
LEMMA FlagsStep == TypeOK /\ [Next]_vars => /\ running' \in BOOLEAN /\ initialized' \in BOOLEAN /\ blue' \in BOOLEAN
     /\ halt' \in BOOLEAN /\ recording' \in BOOLEAN /\ vrunning' \in BOOLEAN
     /\ recoloured' \in BOOLEAN
<1> SUFFICES ASSUME TypeOK, [Next]_vars PROVE /\ running' \in BOOLEAN /\ initialized' \in BOOLEAN /\ blue' \in BOOLEAN
     /\ halt' \in BOOLEAN /\ recording' \in BOOLEAN /\ vrunning' \in BOOLEAN
     /\ recoloured' \in BOOLEAN
  OBVIOUS
<1> USE ProcessorAssumption DEF TypeOK, robotVars,
          vars, settings, mutexes, receiverVars, windowVars
<1>1. CASE LoopStep
  BY <1>1 DEF LoopStep, LoopAlone, Go, Start, NextFrame, Inputs, Lock, Models, Referee, Names, Gameplay, Control,
     SendRadioData, AddFrame, Written, WriteFails, Unlock, Status, StopVision, WaitVision
<1>2. CASE ReceiverStep
  BY <1>2 DEF ReceiverStep, ReceiverRuns, PacketArrives, ReceiverAlone, Bind, SetRunning, LoopHead, Timeout, Push, Receive,
     ReceiveBad
<1>3. CASE WindowStep
  BY <1>3 DEF WindowStep, Slot, Continue, WindowAlone, Refreshing, At, Refresh, SetTeam, StartLogging, Quit, AskJoystick,
     AskHistory, Show, StopChannel, WaitChannel, StartChannel, Ended, SetManual,
     ChangeVisionChannel
<1> QED BY <1>1, <1>2, <1>3 DEF Next

(* The port changes while the receiver has ended. *)
LEMMA ChannelStep == TypeOK /\ Channel /\ [Next]_vars => Channel'
<1> SUFFICES ASSUME TypeOK, Channel, [Next]_vars PROVE Channel'
  OBVIOUS
<1> USE DEF TypeOK, Channel, ListensToChannel, Listening, StartReceiver, ReceiverEnded,
          vars, settings, mutexes, receiverVars, windowVars
<1>1. CASE LoopStep
  BY <1>1 DEF LoopStep, LoopAlone, Go, Start, NextFrame, Inputs, Lock, Models, Referee, Names, Gameplay, Control,
     SendRadioData, AddFrame, Written, WriteFails, Unlock, Status, StopVision, WaitVision
<1>2. CASE ReceiverStep
  BY <1>2 DEF ReceiverStep, ReceiverRuns, PacketArrives, ReceiverAlone, Bind, SetRunning, LoopHead, Timeout, Push, Receive,
     ReceiveBad
<1>3. CASE WindowStep
  BY <1>3 DEF WindowStep, Slot, Continue, WindowAlone, Refreshing, At, Refresh, SetTeam, StartLogging, Quit, AskJoystick,
     AskHistory, Show, StopChannel, WaitChannel, StartChannel, Ended, SetManual,
     ChangeVisionChannel
<1> QED BY <1>1, <1>2, <1>3 DEF Next

-----------------------------------------------------------------------------
(* Appending a new element to a sequence without repetitions. *)
LEMMA AppendNew ==
  ASSUME NEW S, NEW q \in Seq(S), NEW b \in S, IsInjective(q), b \notin Range(q)
  PROVE  /\ Append(q, b) \in Seq(S) /\ IsInjective(Append(q, b))
         /\ Range(Append(q, b)) = Range(q) \cup {b}
<1> DEFINE r == Append(q, b)
<1>1. /\ r \in Seq(S) /\ Len(q) \in Nat
      /\ DOMAIN r = 1 .. Len(q) + 1 /\ DOMAIN q = 1 .. Len(q)
      /\ r[Len(q) + 1] = b /\ \A i \in 1 .. Len(q) : r[i] = q[i]
  OBVIOUS
<1> HIDE DEF r
<1>2. \A i \in 1 .. Len(q) + 1 : i \in 1 .. Len(q) \/ i = Len(q) + 1
  BY <1>1
<1>3. IsInjective(r)
  BY <1>1, <1>2 DEF IsInjective, Range
<1>4. Range(r) = Range(q) \cup {b}
  <2>1. \A x \in Range(r) : x \in Range(q) \cup {b}
    BY <1>1, <1>2 DEF Range
  <2>2. \A x \in Range(q) : x \in Range(r)
    BY <1>1 DEF Range
  <2>3. Len(q) + 1 \in DOMAIN r
    BY <1>1
  <2>4. b \in Range(r)
    BY <1>1, <2>3 DEF Range
  <2> QED BY <2>1, <2>2, <2>4
<1> QED BY <1>1, <1>3, <1>4 DEF r

LEMMA EmptySeq == \A S : <<>> \in Seq(S) /\ IsInjective(<<>>) /\ Range(<<>>) = {}
BY DEF IsInjective, Range

(* Packets change hands, are allocated by the receiver and freed by the    *)
(* models, and nothing else happens to them.                               *)
LEMMA PacketsStep ==
  TypeOK /\ Holding /\ PacketsAreOwned /\ StaysLost /\ [Next]_vars
     => PacketTypes' /\ PacketsAreOwned' /\ StaysLost'
<1> SUFFICES ASSUME TypeOK, Holding, PacketsAreOwned, StaysLost, [Next]_vars
             PROVE  PacketTypes' /\ PacketsAreOwned' /\ StaysLost'
  OBVIOUS
<1> USE ProcessorAssumption, EmptySeq DEF TypeOK, PacketTypes, PacketsAreOwned, StaysLost
<1>1. CASE UNCHANGED <<packetVars, holding>>
  BY <1>1 DEF packetVars
<1>2. CASE Inputs
  <2>1. frame = <<>>
    BY <1>2 DEF Inputs, Go, Holding
  <2>2. /\ frame' = queue /\ queue' = <<>>
        /\ holding' = holding /\ heap' = heap /\ lost' = lost
    BY <1>2 DEF Inputs, receiverVars
  <2> QED BY <2>1, <2>2
<1>3. CASE Models
  <2>1. /\ frame' = <<>> /\ queue' = queue /\ holding' = holding /\ lost' = lost
        /\ heap' = heap \ Range(frame)
    BY <1>3 DEF Models, receiverVars
  <2> QED BY <2>1
<1>4. ASSUME NEW p \in Packets, Receive(p)
      PROVE  PacketTypes' /\ PacketsAreOwned' /\ StaysLost'
  <2>1. holding = None /\ p \notin heap /\ p \notin lost /\ p # None
    BY <1>4 DEF Receive, Holding
  <2>2. /\ frame' = frame /\ queue' = queue /\ lost' = lost
        /\ holding' = p /\ heap' = heap \cup {p}
    BY <1>4 DEF Receive
  <2>3. Range(queue) \cup Range(frame) = heap \ lost
    BY <2>1
  <2> QED BY <2>1, <2>2, <2>3
<1>5. ASSUME NEW p \in Packets, ReceiveBad(p)
      PROVE  PacketTypes' /\ PacketsAreOwned' /\ StaysLost'
  <2>1. heap' \ lost' = heap \ lost
    BY <1>5 DEF ReceiveBad
  <2>2. /\ frame' = frame /\ queue' = queue /\ holding' = holding
        /\ heap' \subseteq Packets /\ lost' \subseteq Packets /\ lost' \subseteq heap'
    BY <1>5 DEF ReceiveBad
  <2> QED BY <2>1, <2>2
<1>6. CASE Push
  <2>1. holding \in Packets
    BY <1>6 DEF Push, Holding
  <2>2. /\ queue' \in Seq(Packets) /\ IsInjective(queue')
        /\ Range(queue') = Range(queue) \cup {holding}
    BY <1>6, <2>1, AppendNew DEF Push
  <2>3. holding' = None /\ frame' = frame /\ heap' = heap /\ lost' = lost
    BY <1>6 DEF Push
  <2>4. PacketTypes'
    BY <2>2, <2>3
  <2>5. None \notin Range(queue') \cup Range(frame)
    <3>1. Range(frame) \subseteq Packets /\ Range(queue) \subseteq Packets
      BY DEF Range
    <3> QED BY <3>1, <2>1, <2>2
  <2>6. Range(queue') \cap Range(frame) = {}
    BY <2>1, <2>2
  <2>7. Range(queue') \cup Range(frame) = heap \ lost
    BY <2>1, <2>2
  <2> QED BY <2>2, <2>3, <2>4, <2>5, <2>6, <2>7
<1>7. CASE LoopStep /\ ~Inputs /\ ~Models
  BY <1>1, <1>7 DEF LoopStep, LoopAlone, receiverVars, packetVars, Start, NextFrame, Lock, Referee, Names,
     Gameplay, Control, SendRadioData, AddFrame, Written, WriteFails, Unlock, Status,
     StopVision, WaitVision
<1>8. CASE (Bind \/ SetRunning \/ LoopHead \/ Timeout)
  BY <1>1, <1>8 DEF packetVars, Bind, SetRunning, LoopHead, Timeout
<1>9. CASE WindowStep
  BY <1>1, <1>9 DEF WindowStep, WindowAlone, receiverVars, packetVars, Slot, Continue, Refreshing,
     Refresh, SetTeam, StartLogging, Quit, AskJoystick, AskHistory, Show, StopChannel,
     WaitChannel, StartChannel, Ended, SetManual, ChangeVisionChannel
<1>10. CASE UNCHANGED vars
  BY <1>1, <1>10 DEF vars, receiverVars
<1> QED BY <1>1, <1>2, <1>3, <1>4, <1>5, <1>6, <1>7, <1>8, <1>9, <1>10
       DEF Next, ReceiverStep, ReceiverRuns, PacketArrives

-----------------------------------------------------------------------------
(* The inductive invariant: who holds _loopMutex where, which computed     *)
(* commands are valid where, and who owns each packet.                     *)
THEOREM Invariance == Spec => []IInv
<1>1. IInv /\ [Next]_vars => IInv'
  <2> SUFFICES ASSUME IInv, [Next]_vars PROVE IInv'
    OBVIOUS
  <2>1. MutexHeld' /\ Holding' /\ Teams' /\ Controls' /\ Sending' /\ Channel'
    BY MutexStep, HoldingStep, TeamsStep, ControlsStep, SendingStep, ChannelStep DEF IInv
  <2>2. CommandTypes' /\ PacketTypes' /\ PacketsAreOwned' /\ StaysLost'
    BY CommandTypesStep, PacketsStep DEF IInv
  <2>3. TypeOK'
    BY <2>1, <2>2, PlacesStep, FlagsStep DEF IInv, TypeOK
  <2> QED BY <2>1, <2>2, <2>3 DEF IInv
<1> QED BY InitIInv, <1>1, PTL DEF Spec

(* Every variable of the processing loop, its receiver and its window has  *)
(* its type.                                                               *)
THEOREM TypeCorrect == Spec => []TypeOK
BY Invariance, PTL DEF IInv

(* The models, the referee module and the names of a frame see one team:   *)
(* the window changes _blueTeam under _loopMutex only.  The frame's log,   *)
(* which takes the team before the lock, has another one just if the       *)
(* window changed it in between.                                           *)
THEOREM FramesHaveOneTeam == Spec => []OneTeamPerFrame
<1>1. IInv => OneTeamPerFrame
  BY DEF IInv, Teams, OneTeamPerFrame
<1> QED BY <1>1, Invariance, PTL

(* Whatever the window does meanwhile, a packet of commands obeys the game *)
(* state and the joystick of the frame it was computed in.                 *)
THEOREM SentCommandsAgree == Spec => []CommandsAgree
<1>1. IInv => CommandsAgree
  BY DEF IInv, Sending, CommandsAgree
<1> QED BY <1>1, Invariance, PTL

(* No vision packet is freed twice, used after it was freed, or leaked     *)
(* unless it could not be parsed.                                          *)
THEOREM OwnedPackets == Spec => []PacketsAreOwned
BY Invariance, PTL DEF IInv

(* A running receiver is bound to the port chosen last, although it reads  *)
(* the port without a lock.                                                *)
THEOREM ReceiverFollows == Spec => []ListensToChannel
<1>1. IInv => ListensToChannel
  BY DEF IInv, Channel
<1> QED BY <1>1, Invariance, PTL
-----------------------------------------------------------------------------
(* Who waits for whom.                                                     *)

(* While the flag is set the receiver is in its loop, where it is read. *)
FlagInLoop == vrunning => receiver \in Listening

(* The loop stops the receiver only in the end, and then the window does   *)
(* nothing but wait for the loop.                                          *)
Stopping ==
  /\ loop \in {"stopVision", "waitVision", "done"} => ~running
  /\ ~running => window \in {"quitting", "ended"}

LogHeld == loop \in {"write", "closing"} <=> logMutex = "loop"

WaitInv == FlagInLoop /\ Stopping /\ LogHeld

LEMMA WaitInit == Init => WaitInv
BY ProcessorAssumption DEF Init, WaitInv, FlagInLoop, Stopping, LogHeld

LEMMA FlagStep == FlagInLoop /\ [Next]_vars => FlagInLoop'
<1> SUFFICES ASSUME FlagInLoop, [Next]_vars PROVE FlagInLoop'
  OBVIOUS
<1> USE DEF FlagInLoop, Listening, StartReceiver, ReceiverEnded,
          vars, settings, mutexes, receiverVars, windowVars
<1>1. CASE LoopStep
  BY <1>1 DEF LoopStep, LoopAlone, Go, Start, NextFrame, Inputs, Lock, Models, Referee, Names, Gameplay, Control,
     SendRadioData, AddFrame, Written, WriteFails, Unlock, Status, StopVision, WaitVision
<1>2. CASE ReceiverStep
  BY <1>2 DEF ReceiverStep, ReceiverRuns, PacketArrives, ReceiverAlone, Bind, SetRunning, LoopHead, Timeout, Push, Receive,
     ReceiveBad
<1>3. CASE WindowStep
  BY <1>3 DEF WindowStep, Slot, Continue, WindowAlone, Refreshing, At, Refresh, SetTeam, StartLogging, Quit, AskJoystick,
     AskHistory, Show, StopChannel, WaitChannel, StartChannel, Ended, SetManual,
     ChangeVisionChannel
<1> QED BY <1>1, <1>2, <1>3 DEF Next

LEMMA StoppingStep == TypeOK /\ Stopping /\ [Next]_vars => Stopping'
<1> SUFFICES ASSUME TypeOK, Stopping, [Next]_vars PROVE Stopping'
  OBVIOUS
<1> USE DEF TypeOK, Stopping, vars, settings, mutexes, receiverVars, windowVars
<1>1. CASE LoopStep
  BY <1>1 DEF LoopStep, LoopAlone, Go, Start, NextFrame, Inputs, Lock, Models, Referee, Names, Gameplay, Control,
     SendRadioData, AddFrame, Written, WriteFails, Unlock, Status, StopVision, WaitVision
<1>2. CASE ReceiverStep
  BY <1>2 DEF ReceiverStep, ReceiverRuns, PacketArrives, ReceiverAlone, Bind, SetRunning, LoopHead, Timeout, Push, Receive,
     ReceiveBad
<1>3. CASE WindowStep
  BY <1>3 DEF WindowStep, Slot, Continue, WindowAlone, Refreshing, At, Refresh, SetTeam, StartLogging, Quit, AskJoystick,
     AskHistory, Show, StopChannel, WaitChannel, StartChannel, Ended, SetManual,
     ChangeVisionChannel
<1> QED BY <1>1, <1>2, <1>3 DEF Next

LEMMA LogStep == LogHeld /\ [Next]_vars => LogHeld'
<1> SUFFICES ASSUME LogHeld, [Next]_vars PROVE LogHeld'
  OBVIOUS
<1> USE ProcessorAssumption DEF LogHeld, vars, settings, mutexes, receiverVars, windowVars
<1>1. CASE LoopStep
  BY <1>1 DEF LoopStep, LoopAlone, Go, Start, NextFrame, Inputs, Lock, Models, Referee, Names, Gameplay, Control,
     SendRadioData, AddFrame, Written, WriteFails, Unlock, Status, StopVision, WaitVision
<1>2. CASE ReceiverStep
  BY <1>2 DEF ReceiverStep, ReceiverRuns, PacketArrives, ReceiverAlone, Bind, SetRunning, LoopHead, Timeout, Push, Receive,
     ReceiveBad
<1>3. CASE WindowStep
  BY <1>3 DEF WindowStep, Slot, Continue, WindowAlone, Refreshing, At, Refresh, SetTeam, StartLogging, Quit, AskJoystick,
     AskHistory, Show, StopChannel, WaitChannel, StartChannel, Ended, SetManual,
     ChangeVisionChannel
<1> QED BY <1>1, <1>2, <1>3 DEF Next

LEMMA WaitInvariant == Spec => []WaitInv
<1>1. IInv /\ WaitInv /\ [Next]_vars => WaitInv'
  BY FlagStep, StoppingStep, LogStep DEF WaitInv, IInv
<1> QED BY WaitInit, Invariance, <1>1, PTL DEF Spec

(* What the loop and the window wait for: a mutex, the end of the          *)
(* receiver's thread, the first frame, the end of the loop; an idle window *)
(* for what a slot of it asks for first.                                   *)
LoopWaits ==
  \/ loop = "lock" /\ loopMutex # None
  \/ loop = "log" /\ logMutex # None
  \/ loop = "waitVision" /\ receiver # "none"
  \/ loop = "closing"

WindowWaits ==
  \/ window = "starting" /\ ~initialized
  \/ window \in {"idle", "joystick"} /\ loopMutex # None
  \/ window = "history" /\ logMutex # None
  \/ window = "waitVision" /\ receiver # "none"
  \/ window = "quitting" /\ loop # "done"

(* One of them waits for a receiver that has been told to stop. *)
ReceiverIsAwaited ==
  /\ loop = "waitVision" \/ window = "waitVision"
  /\ receiver # "none" /\ ~vrunning

NoCircularWait == LoopWaits /\ WindowWaits => ReceiverIsAwaited \/ Stuck

(* The loop and the window never wait for each other: if both wait then    *)
(* for the receiver, which waits for nobody, and otherwise one of the two  *)
(* named failures, a stop() that came before run() and a write to the log  *)
(* that failed, has happened.                                              *)
THEOREM WaitsAreNotCircular == Spec => []NoCircularWait
<1>1. IInv /\ WaitInv => NoCircularWait
  <2> SUFFICES ASSUME IInv, WaitInv, LoopWaits, WindowWaits, ~Stuck PROVE ReceiverIsAwaited
    BY DEF NoCircularWait
  <2>1. loop # "closing"
    BY DEF Stuck, SelfLocked
  <2>2. loop \notin InLoop => loopMutex # "loop"
    BY DEF IInv, MutexHeld
  <2>3. loop = "log" => logMutex = None
    BY DEF IInv, TypeOK, WaitInv, LogHeld
  <2>4. CASE loop = "lock" /\ loopMutex # None
    <3>1. loopMutex = "window"
      BY <2>2, <2>4 DEF IInv, TypeOK, InLoop
    <3>2. window \in InWindow
      BY <3>1 DEF IInv, MutexHeld
    <3>3. window = "waitVision" /\ receiver # "none"
      BY <3>2 DEF WindowWaits, InWindow
    <3> QED BY <3>3 DEF Stuck, LostStop, ReceiverIsAwaited
  <2>5. CASE loop = "waitVision" /\ receiver # "none"
    BY <2>5 DEF Stuck, LostStop, ReceiverIsAwaited
  <2> QED BY <2>1, <2>3, <2>4, <2>5 DEF LoopWaits
<1> QED BY <1>1, Invariance, WaitInvariant, PTL

(* Each of the two failures is for good: nobody clears the flag again that *)
(* a lost stop() had cleared too early, and nobody unlocks the log, so     *)
(* that whoever waits then waits for ever.                                 *)
THEOREM StuckForEver == Spec => [][Stuck => Stuck']_vars
<1>1. ASSUME IInv, WaitInv, [Next]_vars, Stuck PROVE Stuck'
  <2> USE <1>1 DEF Stuck, LostStop, SelfLocked
  <2>1. CASE LoopStep
    <3>1. CASE SelfLocked
      BY <2>1, <3>1 DEF LoopStep, LoopAlone, Go, Start, NextFrame, Inputs, Lock, Models, Referee, Names,
         Gameplay, Control, SendRadioData, AddFrame, Written, WriteFails, Unlock, Status,
         StopVision, WaitVision
    <3>2. CASE LostStop
      <4>1. receiver # "none"
        BY <3>2 DEF WaitInv, FlagInLoop, Listening
      <4>2. loop = "stopVision" => window # "waitVision"
        BY DEF WaitInv, Stopping
      <4> QED BY <2>1, <3>2, <4>1, <4>2 DEF LoopStep, LoopAlone, Go, Start, NextFrame, Inputs, Lock,
           Models, Referee, Names, Gameplay, Control, SendRadioData, AddFrame, Written,
           WriteFails, Unlock, Status, StopVision, WaitVision, receiverVars, windowVars
    <3> QED BY <3>1, <3>2
  <2>2. CASE ReceiverStep
    BY <2>2 DEF ReceiverStep, ReceiverRuns, PacketArrives, ReceiverAlone, Bind, SetRunning,
       LoopHead, Timeout, Push, Receive, ReceiveBad, windowVars
  <2>3. CASE WindowStep
    <3>1. loop' = loop
      BY <2>3 DEF WindowStep, WindowAlone
    <3>2. CASE SelfLocked
      BY <3>1, <3>2
    <3>3. CASE LostStop
      <4>1. receiver # "none"
        BY <3>3 DEF WaitInv, FlagInLoop, Listening
      <4>2. loop = "waitVision" => window \in {"quitting", "ended"}
        BY DEF WaitInv, Stopping
      <4> QED BY <2>3, <3>1, <3>3, <4>1, <4>2 DEF WindowStep, Slot, Continue, Refreshing, At,
           Refresh, SetTeam, StartLogging, Quit, AskJoystick, AskHistory, Show, StopChannel,
           WaitChannel, StartChannel, Ended, SetManual, ChangeVisionChannel, ReceiverEnded,
           receiverVars, windowVars
    <3> QED BY <3>2, <3>3
  <2>4. CASE UNCHANGED vars
    BY <2>4 DEF vars, receiverVars, windowVars
  <2> QED BY <2>1, <2>2, <2>3, <2>4 DEF Next
<1> QED BY <1>1, Invariance, WaitInvariant, PTL DEF Spec
=============================================================================
