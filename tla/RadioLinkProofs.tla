--------------------------- MODULE RadioLinkProofs ---------------------------
(***************************************************************************)
(* Theorems about RadioLink, for every number of transfers, blocks, robots *)
(* and mishaps: the types, that the tx worker does not get stuck by the    *)
(* program's own strobes, and how well an open radio listens.              *)
(***************************************************************************)
EXTENDS RadioLink, TLAPS

(* What the counters rest on: a worker under way has a block, the link     *)
(* reads what was in the FIFO when it asked; there are no more transfers   *)
(* than the host has, and none before channel() is done, on a device whose *)
(* open() failed, or on no device.                                         *)
Counted ==
  /\ inflight + lost <= NumRXTransfers
  /\ device # "claimed" \/ strobes > 0 => inflight = 0 /\ lost = 0
  /\ device # "claimed" => strobes = 0
  /\ worker # "get" => queued > 0
  /\ toRead <= rxfifo
  /\ link # "read" => toRead = 0

TypeInv == TypeOK /\ Counted

(* TypeOK in two parts, of two provers. *)
Flags == {stale, epOut, epIn, rival, signal} \subseteq BOOLEAN

Ranges ==
  /\ call \in {"receive", "send", "ended"}
  /\ device \in {"null", "unclaimed", "claimed", "deaf"}
  /\ strobes \in 0 .. 2
  /\ inflight \in 0 .. NumRXTransfers /\ lost \in 0 .. NumRXTransfers
  /\ main \in {"read", "block"} /\ queued \in 0 .. Blocks
  /\ worker \in {"get", "flush", "idle", "select", "burst", "stx", "poll"}
  /\ link \in {"wait", "status", "read", "idle", "flush", "srx"}
  /\ toRead \in 0 .. RxCapacity
  /\ mode \in {"idle", "rx", "tx", "off"} \cup Errors
  /\ txfifo \in {"empty", "whole", "torn"} /\ rxfifo \in 0 .. RxCapacity
  /\ replies \in 0 .. Robots /\ mishaps \in 0 .. MaxMishaps

(* Before the first mishap the base is strobed by the host only while it   *)
(* has nothing to send, the chip has no error, and between the worker's    *)
(* own SIDLE and STX nobody changes the mode.                              *)
Calm ==
  mishaps = 0 =>
    /\ ~rival /\ ~stale /\ device \in {"null", "claimed"} /\ lost = 0
    /\ mode \in {"idle", "rx", "tx"} /\ txfifo # "torn"
    /\ link \in {"wait", "status", "read"}
    /\ device = "null" \/ strobes > 0 =>
         ~epOut /\ main = "read" /\ queued = 0 /\ worker = "get"
    /\ worker \in {"select", "burst", "stx"} => mode = "idle"
    /\ ~Stuck
-----------------------------------------------------------------------------
(* The variables keep their types, and no counter leaves its range.        *)
LEMMA TypeParts == TypeOK <=> Flags /\ Ranges
<1>1. /\ TypeOK => Ranges
      /\ stale \in BOOLEAN /\ epOut \in BOOLEAN /\ epIn \in BOOLEAN /\ rival \in BOOLEAN
           /\ signal \in BOOLEAN /\ Ranges => TypeOK
  BY Zenon DEF TypeOK, Ranges
<1>2. TypeOK => /\ stale \in BOOLEAN /\ epOut \in BOOLEAN /\ epIn \in BOOLEAN
                /\ rival \in BOOLEAN /\ signal \in BOOLEAN
  BY Zenon DEF TypeOK
<1> QED BY <1>1, <1>2, Zenon DEF Flags

LEMMA TypeInit == Init => TypeInv
<1>1. Init => Counted
  BY RadioAssumption DEF Init, Counted
<1>2. Init => Ranges
  BY RadioAssumption DEF Init, Ranges
<1>3. Init => Flags
  BY Zenon DEF Init, Flags
<1> QED BY <1>1, <1>2, <1>3, TypeParts DEF TypeInv

LEMMA FlagsStep == Flags /\ [Next]_vars => Flags'
<1> SUFFICES ASSUME Flags, [Next]_vars PROVE Flags'
  OBVIOUS
<1> USE Zenon DEF Flags, hostVars, busVars, mainVars, linkVars, airVars, chipVars
<1>1. CASE OpenNothing \/ OpenUnclaimed \/ OpenClaimed
  BY <1>1 DEF OpenNothing, OpenUnclaimed, OpenClaimed
<1>2. CASE Command \/ CommandThrows
  BY <1>2 DEF Command, CommandThrows
<1>3. CASE Receive
  BY <1>3 DEF Receive
<1>4. CASE SendFails \/ Send
  BY <1>4 DEF SendFails, Send, Close
<1>5. CASE ReadEP \/ Enqueue
  BY <1>5 DEF ReadEP, Enqueue
<1>6. CASE Worker
  BY <1>6 DEF Works, Worker, GetMail, FlushTx, Idle, Select, Burst, StrobeTx, Sent
<1>7. CASE Chip
  BY <1>7 DEF Chip, Transmit, Underflow, Reply
<1>8. CASE LinkThread
  BY <1>8 DEF LinkThread, Links, Wake, Status, Read, FlushIdle, FlushRx, StrobeRx
<1>9. CASE Watchdog \/ Unplug
  BY <1>9 DEF Watchdog, Unplug, Down
<1>10. CASE Boot \/ RivalClaims \/ RivalReleases
  BY <1>10 DEF Boot, RivalClaims, RivalReleases
<1>11. CASE UNCHANGED vars
  BY <1>11 DEF vars
<1> QED BY <1>1, <1>2, <1>3, <1>4, <1>5, <1>6, <1>7, <1>8, <1>9, <1>10, <1>11
        DEF Next, Host, Environment

LEMMA RangesStep == TypeInv /\ [Next]_vars => Ranges'
<1> USE RadioAssumption
        DEF Ranges, hostVars, busVars, mainVars, linkVars, airVars, chipVars, Errors
<1> SUFFICES ASSUME Ranges, Counted, [Next]_vars PROVE Ranges'
  BY TypeParts DEF TypeInv
<1>1. CASE OpenNothing \/ OpenUnclaimed \/ OpenClaimed
  BY <1>1 DEF OpenNothing, OpenUnclaimed, OpenClaimed, Returns
<1>2. CASE Command \/ CommandThrows
  BY <1>2 DEF Command, CommandThrows, Strobed, Submissions, Submit, Mishap, Counted
<1>3. CASE Receive
  BY <1>3 DEF Receive, Returns, Resubmit, Submissions, Submit, Mishap, Counted
<1>4. CASE SendFails \/ Send
  BY <1>4 DEF SendFails, Send, Close, Returns, Mishap
<1>5. CASE ReadEP \/ Enqueue
  BY <1>5 DEF ReadEP, Enqueue, HasBlock
<1>6. CASE GetMail \/ FlushTx \/ Idle \/ Select
  BY <1>6 DEF Works, GetMail, FlushTx, Idle, Select
<1>7. CASE Burst \/ StrobeTx
  BY <1>7 DEF Works, Burst, StrobeTx
<1>8. CASE Sent
  BY <1>8 DEF Works, Sent, Counted
<1>9. CASE Transmit \/ Underflow
  BY <1>9 DEF Transmit, Underflow
<1>10. CASE Reply
  BY <1>10 DEF Reply, Mishap
<1>11. CASE Wake \/ Status
  BY <1>11 DEF Wake, Status, Links, RxError
<1>12. CASE Read
  BY <1>12 DEF Read, Links, Counted
<1>13. CASE FlushIdle \/ FlushRx \/ StrobeRx
  BY <1>13 DEF FlushIdle, FlushRx, StrobeRx, Links, Strobed
<1>14. CASE Watchdog \/ Unplug
  BY <1>14 DEF Watchdog, Unplug, Mishap, Down
<1>15. CASE Boot \/ RivalClaims \/ RivalReleases
  BY <1>15 DEF Boot, RivalClaims, RivalReleases, Mishap
<1>16. CASE UNCHANGED vars
  BY <1>16 DEF vars
<1> QED BY <1>1, <1>2, <1>3, <1>4, <1>5, <1>6, <1>7, <1>8, <1>9, <1>10, <1>11, <1>12, <1>13,
           <1>14, <1>15, <1>16
        DEF Next, Host, Worker, Chip, LinkThread, Environment

LEMMA CountedStep == TypeInv /\ [Next]_vars => Counted'
<1> USE RadioAssumption DEF Counted, hostVars, busVars, mainVars, linkVars, airVars, chipVars
<1> SUFFICES ASSUME TypeOK, Counted, [Next]_vars PROVE Counted'
  BY DEF TypeInv
<1>1. /\ queued \in Nat /\ rxfifo \in Nat /\ toRead \in Nat
      /\ inflight \in Nat /\ lost \in Nat /\ strobes \in 0 .. 2
  BY DEF TypeOK
<1>2. CASE Host
  <2>1. CASE OpenNothing \/ OpenUnclaimed \/ OpenClaimed
    BY <1>1, <2>1 DEF OpenNothing, OpenUnclaimed, OpenClaimed
  <2>2. CASE Command \/ CommandThrows
    BY <1>1, <2>2 DEF Command, CommandThrows, Submissions, Submit
  <2>3. CASE Receive
    BY <1>1, <2>3 DEF Receive, Resubmit, Submissions, Submit
  <2>4. CASE SendFails \/ Send
    BY <1>1, <2>4 DEF SendFails, Send, Close
  <2> QED BY <1>2, <2>1, <2>2, <2>3, <2>4 DEF Host
<1>3. CASE ReadEP \/ Enqueue \/ Worker
  BY <1>1, <1>3 DEF ReadEP, Enqueue, Worker, Works, GetMail, FlushTx, Idle, Select, Burst,
                    StrobeTx, Sent
<1>4. CASE Chip
  BY <1>1, <1>4 DEF Chip, Transmit, Underflow, Reply
<1>5. CASE LinkThread
  BY <1>1, <1>5 DEF LinkThread, Links, Wake, Status, Read, FlushIdle, FlushRx, StrobeRx
<1>6. CASE Environment
  BY <1>6 DEF Environment, Watchdog, Unplug, Down, Boot, RivalClaims, RivalReleases
<1>7. CASE UNCHANGED vars
  BY <1>7 DEF vars
<1> QED BY <1>2, <1>3, <1>4, <1>5, <1>6, <1>7 DEF Next

LEMMA TypeInvariant == Spec => []TypeInv
<1>1. TypeInv /\ [Next]_vars => Flags' /\ Ranges' /\ Counted'
  BY FlagsStep, RangesStep, CountedStep, TypeParts DEF TypeInv
<1>2. Flags /\ Ranges /\ Counted <=> TypeInv
  BY TypeParts DEF TypeInv
<1> QED BY <1>1, <1>2, TypeInit, PTL DEF Spec

(* Every variable keeps its type, whatever fails.                          *)
THEOREM TypeCorrect == Spec => []TypeOK
  BY TypeInvariant, PTL DEF TypeInv
-----------------------------------------------------------------------------
(* Calm, step by step.                                                     *)
LEMMA CalmHost == TypeInv /\ Calm /\ Host => Calm'
<1> USE DEF TypeInv, TypeOK, Counted, Calm, Stuck, hostVars, busVars, mainVars, linkVars, airVars,
            chipVars, Errors
<1> SUFFICES ASSUME TypeInv, Calm PROVE Host => Calm'
  OBVIOUS
<1>1. CASE OpenNothing \/ OpenUnclaimed \/ OpenClaimed
  BY <1>1 DEF OpenNothing, OpenUnclaimed, OpenClaimed
<1>2. CASE Command \/ CommandThrows
  BY <1>2 DEF Command, CommandThrows, Strobed, Submissions, Submit, Mishap
<1>3. CASE Receive
  BY <1>3 DEF Receive, Resubmit, Submissions, Submit, Mishap
<1>4. CASE SendFails \/ Send
  BY <1>4 DEF SendFails, Send, WriteFails, Close, Mishap
<1> QED BY <1>1, <1>2, <1>3, <1>4 DEF Host

LEMMA CalmBase ==
  TypeInv /\ Calm /\ (ReadEP \/ Enqueue \/ Worker \/ Chip \/ LinkThread) => Calm'
<1> USE DEF TypeInv, TypeOK, Counted, Calm, Stuck, hostVars, busVars, mainVars, linkVars, airVars,
            chipVars, Errors
<1> SUFFICES ASSUME TypeInv, Calm
             PROVE  ReadEP \/ Enqueue \/ Worker \/ Chip \/ LinkThread => Calm'
  OBVIOUS
<1>1. CASE ReadEP \/ Enqueue
  BY <1>1 DEF ReadEP, Enqueue
<1>2. CASE Worker
  BY <1>2 DEF Worker, Works, GetMail, FlushTx, Idle, Select, Burst, StrobeTx, Sent
<1>3. CASE Chip
  BY <1>3 DEF Chip, Transmit, Underflow, Reply, Mishap
<1>4. CASE LinkThread
  BY <1>4 DEF LinkThread, Links, Wake, Status, RxError, Read, FlushIdle, FlushRx, StrobeRx
<1> QED BY <1>1, <1>2, <1>3, <1>4

LEMMA CalmEnvironment == TypeInv /\ Calm /\ Environment => Calm'
  BY DEF TypeInv, TypeOK, Calm, Stuck, hostVars, busVars, mainVars, linkVars, airVars, chipVars,
         Environment, Watchdog, Unplug, Down, Boot, RivalClaims, RivalReleases, Mishap, Errors

LEMMA CalmInvariant == Spec => []Calm
<1>1. Init => Calm
  BY DEF Init, Calm, Stuck
<1>2. Calm /\ UNCHANGED vars => Calm'
  BY DEF Calm, Stuck, vars, hostVars, busVars, mainVars, linkVars, airVars, chipVars
<1>3. TypeInv /\ Calm /\ [Next]_vars => Calm'
  BY <1>2, CalmHost, CalmBase, CalmEnvironment DEF Next
<1> QED BY <1>1, <1>3, TypeInvariant, PTL DEF Spec

(* Without an overflow, a failed transfer, a reset or a second program, no *)
(* strobe of the host or of the link's thread meets a packet on its way.   *)
THEOREM StuckIsExcused == Spec => []StuckNeedsMishap
<1>1. TypeInv /\ Calm => StuckNeedsMishap
  BY DEF TypeInv, TypeOK, Calm, StuckNeedsMishap
<1> QED BY <1>1, CalmInvariant, TypeInvariant, PTL
-----------------------------------------------------------------------------
(* Where the transfers of an opened handle are. *)
Accounted ==
  device = "claimed" /\ strobes = 0 =>
    inflight + lost = NumRXTransfers \/ (stale /\ inflight = 0)

LEMMA AccountedStep == TypeInv /\ Accounted /\ [Next]_vars => Accounted'
<1> SUFFICES ASSUME TypeInv, Accounted, [Next]_vars PROVE Accounted'
  OBVIOUS
<1> USE RadioAssumption DEF Accounted, hostVars
<1>1. /\ inflight \in Nat /\ lost \in Nat /\ strobes \in 0 .. 2
      /\ device # "claimed" \/ strobes > 0 => inflight = 0 /\ lost = 0
      /\ device # "claimed" => strobes = 0
  BY DEF TypeInv, TypeOK, Counted
<1>2. CASE OpenNothing \/ OpenUnclaimed \/ OpenClaimed
  BY <1>1, <1>2 DEF OpenNothing, OpenUnclaimed, OpenClaimed
<1>3. CASE Command \/ CommandThrows
  BY <1>1, <1>3 DEF Command, CommandThrows, Submissions, Submit
<1>4. CASE Receive
  BY <1>1, <1>4 DEF Receive, Resubmit, Submissions, Submit
<1>5. CASE SendFails \/ Send
  BY <1>1, <1>5 DEF SendFails, Send, Close
<1>6. CASE ReadEP \/ Enqueue \/ Worker
  BY <1>6 DEF ReadEP, Enqueue, Worker, Works, GetMail, FlushTx, Idle, Select, Burst, StrobeTx, Sent
<1>7. CASE Chip \/ LinkThread
  BY <1>7 DEF Chip, Transmit, Underflow, Reply, LinkThread, Links, Wake, Status, Read, FlushIdle,
              FlushRx, StrobeRx
<1>8. CASE Environment
  BY <1>8 DEF Environment, Watchdog, Unplug, Down, Boot, RivalClaims, RivalReleases
<1>9. CASE UNCHANGED vars
  BY <1>9 DEF vars
<1> QED BY <1>2, <1>3, <1>4, <1>5, <1>6, <1>7, <1>8, <1>9 DEF Next, Host

(* A device that isOpen() takes for open listens with all transfers while  *)
(* nothing failed, on the one way to open it that there is then; and later *)
(* with all but those whose submission failed, unless its base is gone or  *)
(* its open() failed: then with none.                                      *)
THEOREM RadioListens == Spec => []OpenRadioListens
<1>1. Init => Accounted
  BY DEF Init, Accounted
<1>2. TypeInv /\ Calm /\ Accounted => OpenRadioListens
  BY RadioAssumption DEF TypeInv, TypeOK, Counted, Calm, Accounted, OpenRadioListens
<1> QED BY <1>1, <1>2, AccountedStep, CalmInvariant, TypeInvariant, PTL DEF Spec
=============================================================================
