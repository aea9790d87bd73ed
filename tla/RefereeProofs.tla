---------------------------- MODULE RefereeProofs ----------------------------
(***************************************************************************)
(* Proofs about Referee, for every set of commands, stages, scores and     *)
(* positions and every length of the day, of a frame and of the            *)
(* verification of a kick.                                                 *)
(***************************************************************************)
EXTENDS Referee, TLAPS

(* What the clocks of the detector say about the ball while a restart      *)
(* waits in Ready: the time the detector measures never exceeds the time   *)
(* the ball has been away, also across midnight; and a kick found at the   *)
(* end of one frame is acted upon before the detector runs again.          *)
ClockIsHonest ==
  state = "Ready" =>
    /\ kickDetectState = "VerifyKick" => msecsTo(kickTime, now) <= awayFor
                                           \/ awayFor >= KickVerifyTime
    /\ kickDetectState = "Kicked" => fpc \notin {"infos", "kick"}

IInv == TypeOK /\ ReadyIsArmed /\ ClockIsHonest

USE DEF NullTime, msecsTo

(* The initial state has no Ready to wait in. *)
LEMMA InitIInv == Init => IInv
<1> SUFFICES ASSUME Init PROVE IInv
  OBVIOUS
<1>1. ball \in [pos : Positions, valid : BOOLEAN]
  BY DEF Init
<1>2. stage \in Stages /\ command \in Commands /\ {0} \subseteq Scores
        /\ now \in 0 .. DayLength - 1 /\ awayFor \in 0 .. KickVerifyTime
  BY InputAssumption, TimeAssumption DEF Init
<1>3. TypeOK
  BY <1>1, <1>2, InputAssumption, TimeAssumption
  DEF Init, TypeOK, NoPacket, States, Restarts, Periods
<1> QED
  BY <1>3 DEF Init, IInv, ReadyIsArmed, ClockIsHonest

(* The tables of updateGameState() give a state, a restart and a period.   *)
LEMMA Tables ==
  ASSUME TypeOK
  PROVE  /\ StateAfter(command) \in States
         /\ RestartAfter(command) \in Restarts
         /\ OurRestartAfter(command) \in BOOLEAN
         /\ ArmedAfter(command) \in KickDetectStates
         /\ PeriodOf(stage) \in Periods
<1>1. StateAfter(command) \in States
  BY DEF TypeOK, StateAfter, States
<1>2. RestartAfter(command) \in Restarts
  BY DEF TypeOK, RestartAfter, Restarts
<1>3. OurRestartAfter(command) \in BOOLEAN
  BY DEF TypeOK, OurRestartAfter
<1>4. ArmedAfter(command) \in KickDetectStates
  BY DEF TypeOK, ArmedAfter, KickDetectStates
<1>5. PeriodOf(stage) \in Periods
  BY InputAssumption DEF TypeOK, PeriodOf, Periods, AllStages
<1> QED  BY <1>1, <1>2, <1>3, <1>4, <1>5

(* Every step of the receiver, of the operator and of a frame keeps every  *)
(* field in its range.                                                     *)
LEMMA NextTypeOK == TypeOK /\ [Next]_vars => TypeOK'
<1> SUFFICES ASSUME TypeOK, [Next]_vars PROVE TypeOK'
  OBVIOUS
<1> USE InputAssumption, TimeAssumption
        DEF TypeOK, receiverVars, controlVars, sharedVars, worldVars,
            kickVars, phaseVars, scoreVars, history
<1>1. CASE Start \/ NothingReceived
  <2>1. running' \in BOOLEAN /\ rpc' = "loop"
    BY <1>1 DEF Start, NothingReceived
  <2>2. UNCHANGED <<packet, controlVars, sharedVars, fpc, blueTeam, worldVars,
                    kickVars, phaseVars, scoreVars, history>>
    BY <1>1, Zenon DEF Start, NothingReceived
  <2> QED
    BY <2>1, <2>2
<1>2. CASE ReceivePacket
  BY <1>2, PacketAssumption DEF ReceivePacket
<1>3. CASE LoopHead
  <2>1. rpc' \in {"exited", "waiting"}
    BY <1>3 DEF LoopHead
  <2>2. UNCHANGED <<packet, running, controlVars, sharedVars, fpc, blueTeam,
                    worldVars, kickVars, phaseVars, scoreVars, history>>
    BY <1>3, Zenon DEF LoopHead
  <2> QED
    BY <2>1, <2>2
<1>4. CASE StoreStage \/ StoreCommand \/ StoreYellow \/ StoreBlue
  <2>1. packet \in Packet
    BY DEF Packet, NoPacket
  <2> QED
    BY <1>4, <2>1
    DEF StoreStage, StoreCommand, StoreYellow, StoreBlue, Packet
<1>5. CASE FastClick
  BY <1>5 DEF FastClick
<1>6. CASE UseExternalReferee \/ BlueTeam \/ StopModule
  <2>1. useExternalRef' \in BOOLEAN /\ blueTeam' \in BOOLEAN
          /\ running' \in BOOLEAN /\ stopping' \in BOOLEAN
    BY <1>6, Zenon DEF UseExternalReferee, BlueTeam, StopModule
  <2>2. UNCHANGED <<rpc, packet, sharedVars, fpc, worldVars, kickVars,
                    phaseVars, scoreVars, history>>
    BY <1>6, Zenon DEF UseExternalReferee, BlueTeam, StopModule
  <2> QED
    BY <2>1, <2>2
<1>7. CASE RunModels
  BY <1>7 DEF RunModels, After, AwayAfter
<1>8. CASE UpdateScores
  BY <1>8 DEF UpdateScores
<1>9. CASE UpdatePeriod
  BY <1>9, Tables DEF UpdatePeriod
<1>10. CASE UpdateState
  BY <1>10, Tables DEF UpdateState, States
<1>11. CASE UpdateInfos
  BY <1>11 DEF UpdateInfos
<1>12. CASE SpinKickWatcher
  <2>1. /\ kickDetectState' \in KickDetectStates
        /\ readyBallPos' \in Positions
        /\ kickTime' \in {NullTime} \cup 0 .. DayLength - 1
    BY <1>12 DEF SpinKickWatcher, CapturePosition, WaitForKick, VerifyKick,
       KickDetectStates
  <2>2. away' \in BOOLEAN /\ awayFor' \in 0 .. KickVerifyTime
    <3>1. away' \in BOOLEAN
      BY <1>12, Zenon DEF SpinKickWatcher
    <3>2. awayFor' \in {awayFor, 0}
      BY <1>12 DEF SpinKickWatcher
    <3> QED
      BY <3>1, <3>2
  <2> QED
    BY <1>12, <2>1, <2>2 DEF SpinKickWatcher
<1>13. CASE UNCHANGED vars
  BY <1>13 DEF vars
<1> QED
  BY <1>1, <1>2, <1>3, <1>4, <1>5, <1>6,
     <1>7, <1>8, <1>9, <1>10, <1>11, <1>12, <1>13
  DEF Next, Receiver, Operator, Frame

(* Only a frame touches what IInv says of a restart.                       *)
LEMMA NextIInv == IInv /\ [Next]_vars => IInv'
<1> SUFFICES ASSUME IInv, [Next]_vars PROVE IInv'
  OBVIOUS
<1>0. TypeOK'
  BY NextTypeOK DEF IInv
<1> USE TimeAssumption
        DEF IInv, ReadyIsArmed, ClockIsHonest, receiverVars, controlVars,
            sharedVars, worldVars, kickVars, phaseVars, scoreVars, history
<1>1. CASE Receiver
  BY <1>0, <1>1 DEF Receiver, Start, LoopHead, NothingReceived,
     ReceivePacket, StoreStage, StoreCommand, StoreYellow, StoreBlue
<1>2. CASE Operator
  BY <1>0, <1>2 DEF Operator, FastClick, UseExternalReferee, BlueTeam,
     StopModule
<1>3. CASE RunModels
  <2>1. PICK d \in 1 .. MaxFrameTime :
          now' = After(d) /\ awayFor' = AwayAfter(d)
    BY <1>3 DEF RunModels
  <2>2. now' <= now + d
    BY <2>1 DEF After, TypeOK
  <2>3. away => awayFor' = awayFor + d \/ awayFor' >= KickVerifyTime
    BY <2>1 DEF AwayAfter, TypeOK
  <2> QED
    BY <1>0, <1>3, <2>1, <2>2, <2>3 DEF RunModels, TypeOK
<1>4. CASE UpdateScores \/ UpdatePeriod
  BY <1>0, <1>4 DEF UpdateScores, UpdatePeriod
<1>5. CASE UpdateState
  <2>1. CASE Arms(command)
    <3>1. kickDetectState' = "CapturePosition"
      BY <1>5, <2>1 DEF UpdateState, ArmedAfter
    <3> QED
      BY <1>0, <3>1
  <2>2. CASE ~Arms(command)
    <3>1. kickDetectState' = kickDetectState /\ away' = away
            /\ awayFor' = awayFor /\ now' = now /\ kickTime' = kickTime
      BY <1>5, <2>2 DEF UpdateState, ArmedAfter, TypeOK
    <3>2. state' = "Ready" => state = "Ready" /\ kickDetectState # "Kicked"
      BY <1>5, <2>2, <3>1 DEF UpdateState, StateAfter
    <3> QED
      BY <1>0, <3>1, <3>2
  <2> QED
    BY <2>1, <2>2
<1>6. CASE UpdateInfos
  BY <1>0, <1>6 DEF UpdateInfos
<1>7. CASE SpinKickWatcher
  <2> SUFFICES ASSUME state' = "Ready" PROVE IInv'
    BY <1>0
  <2>1. state = "Ready" /\ kickDetectState # "Kicked" /\ now' = now
    BY <1>7 DEF SpinKickWatcher
  <2>2. CASE ~ball.valid
    BY <1>0, <1>7, <2>1, <2>2 DEF SpinKickWatcher, TypeOK
  <2>3. CASE ball.valid /\ CapturePosition
    BY <1>0, <1>7, <2>1, <2>3 DEF SpinKickWatcher, CapturePosition
  <2>4. CASE ball.valid /\ WaitForKick
    <3>1. CASE BallIsBack
      <4>1. kickDetectState' = "WaitForKick"
        BY <2>4, <3>1 DEF WaitForKick
      <4> QED
        BY <1>0, <4>1
    <3>2. CASE ~BallIsBack
      <4>1. kickDetectState' = "VerifyKick" /\ kickTime' = now
              /\ readyBallPos' = readyBallPos
        BY <2>4, <3>2 DEF WaitForKick
      <4>2. away'
        BY <1>7, <2>4, <3>2, <4>1 DEF SpinKickWatcher, BallIsBack
      <4>3. msecsTo(kickTime', now') = 0 /\ awayFor' >= 0
        BY <1>0, <2>1, <4>1 DEF TypeOK
      <4> QED
        BY <1>0, <4>1, <4>2, <4>3
    <3> QED
      BY <3>1, <3>2
  <2>5. CASE ball.valid /\ VerifyKick
    <3>1. CASE BallIsBack
      <4>1. kickDetectState' = "WaitForKick"
        BY <2>5, <3>1 DEF VerifyKick
      <4> QED
        BY <1>0, <4>1
    <3>2. CASE ~BallIsBack
      <4>1. away /\ kickTime' = kickTime /\ readyBallPos' = readyBallPos
        BY <2>1, <2>5 DEF VerifyKick
      <4>2. away' /\ awayFor' = awayFor
        BY <1>7, <2>5, <3>2, <4>1 DEF SpinKickWatcher, BallIsBack
      <4>3. kickDetectState' = IF LongEnough THEN "Kicked" ELSE "VerifyKick"
        BY <2>5, <3>2 DEF VerifyKick
      <4>4. fpc' = "idle"
        BY <1>7 DEF SpinKickWatcher
      <4> QED
        BY <1>0, <2>1, <2>5, <4>1, <4>2, <4>3, <4>4
        DEF LongEnough, TypeOK, VerifyKick
    <3> QED
      BY <3>1, <3>2
  <2> QED
    BY <1>7, <2>1, <2>2, <2>3, <2>4, <2>5 DEF SpinKickWatcher
<1>8. CASE UNCHANGED vars
  BY <1>0, <1>8 DEF vars
<1> QED
  BY <1>1, <1>2, <1>3, <1>4, <1>5, <1>6, <1>7, <1>8 DEF Next, Frame

(* Every field stays in its range. *)
THEOREM TypeCorrect == Spec => []TypeOK
<1>1. Init => TypeOK
  BY InitIInv DEF IInv
<1> QED
  BY <1>1, NextTypeOK, PTL DEF Spec

(* The detector of a restart that waits in Ready was armed by that restart *)
(* and holds only what it has seen since.                                  *)
THEOREM ArmedCorrect == Spec => []ReadyIsArmed
<1>1. IInv => ReadyIsArmed
  BY DEF IInv
<1> QED
  BY <1>1, InitIInv, NextIInv, PTL DEF Spec

(* Play starts by itself only after a verified kick, whatever packets,     *)
(* buttons, lost balls and midnights come between.                         *)
THEOREM KickCorrect == Spec => KickIsVerified
<1> DEFINE Verified == state # "Playing" /\ state' = "Playing"
                         /\ command # "FORCE_START"
                         => state = "Ready" /\ away
                              /\ awayFor >= KickVerifyTime
<1>1. IInv /\ [Next]_vars => [Verified]_vars
  <2> SUFFICES ASSUME IInv, [Next]_vars, state # "Playing",
                      state' = "Playing", command # "FORCE_START"
               PROVE  state = "Ready" /\ away /\ awayFor >= KickVerifyTime
    OBVIOUS
  <2>1. UpdateState
    BY DEF Next, Receiver, Start, LoopHead, NothingReceived, ReceivePacket,
       StoreStage, StoreCommand, StoreYellow, StoreBlue, Operator, FastClick,
       UseExternalReferee, BlueTeam, StopModule, Frame, RunModels,
       UpdateScores, UpdatePeriod, UpdateInfos, SpinKickWatcher, phaseVars,
       vars
  <2>2. StateAfter(command) = "Ready" /\ ArmedAfter(command) = "Kicked"
    BY <2>1 DEF UpdateState, StateAfter
  <2>3. ~Arms(command) /\ kickDetectState = "Kicked"
    BY <2>2 DEF ArmedAfter
  <2>4. state = "Ready"
    BY <2>2, <2>3 DEF StateAfter
  <2> QED
    BY <2>3, <2>4 DEF IInv, ReadyIsArmed
<1> QED
  BY <1>1, InitIInv, NextIInv, PTL DEF Spec, KickIsVerified
=============================================================================
