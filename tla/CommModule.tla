----------------------------- MODULE CommModule -----------------------------
(***************************************************************************)
(* CommModule (firmware/common2015/modules/CommModule), the packet router  *)
(* of the robot and base firmware, with the threads that use it.           *)
(*                                                                         *)
(* Each direction has a mail queue: a pool of QueueSize blocks of memory   *)
(* and a queue of pointers to them.  send() and receive() allocate a       *)
(* block, waiting for one if need be, fill it and put it in the queue.     *)
(* The worker thread of the direction takes it out, calls the callback of  *)
(* the packet's port and frees it.  Producers are the threads that send    *)
(* (console, main loop), the radio link's thread, which receives, and the  *)
(* tx worker itself: the tx callback of the loopback port, loopback_tx_cb, *)
(* calls receive() while the worker still holds its own block.             *)
(*                                                                         *)
(* The workers wait for a start signal that is passed on from the first    *)
(* handler set, to the tx worker, to the rx worker, which sets _isReady.   *)
(*                                                                         *)
(* Thread priorities are left out: every interleaving is allowed, except   *)
(* that a worker looks the callback up and starts it in one step, which    *)
(* it does at osPriorityRealtime.                                          *)
(***************************************************************************)
EXTENDS Naturals, Sequences, FiniteSets

CONSTANTS
  Senders,      (* threads that call send()                                *)
  OutPackets,   (* packets they send, each of them once                    *)
  AirPackets,   (* packets that arrive by radio, each of them once         *)
  PortOf,       (* the port of each packet                                 *)
  LoopbackPort, (* rtp::port::LINK                                         *)
  InitOrder,    (* handlers set at start: a sequence of <<direction, port>> *)
  ConsolePort,  (* the port that console commands open: rtp::port::PING    *)
  MaxConsole,   (* bound on the console's calls                            *)
  Blocks        (* the memory blocks of a pool: QueueSize of them          *)

Packets    == OutPackets \cup AirPackets
Ports      == {PortOf[p] : p \in Packets} \cup {LoopbackPort, ConsolePort}
Directions == {"tx", "rx"}

CONSTANTS Link, TxWorker       (* the link's rx thread, and the tx worker  *)
Producers == Senders \cup {Link, TxWorker}
DirOf(t)  == IF t \in Senders THEN "tx" ELSE "rx"

ASSUME ThreadAssumption == Link # TxWorker /\ {Link, TxWorker} \cap Senders = {}
ASSUME PortAssumption ==
  /\ PortOf \in [Packets -> Ports]
  /\ InitOrder \in Seq(Directions \X Ports) /\ InitOrder # <<>>
  /\ MaxConsole \in Nat
ASSUME BlockAssumption == Blocks # {} /\ IsFiniteSet(Blocks) /\ Packets # {}

VARIABLES
  handler,   (* _ports: has the port a callback, in each direction         *)
  count,     (* _ports: rxCount and txCount                                *)
  free,      (* the free blocks of each pool                               *)
  mem,       (* what each block holds                                      *)
  queue,     (* each mail queue: a sequence of blocks                      *)
  prod,      (* where each producer is in send() or receive()              *)
  work,      (* where each worker is in txThread() or rxThread()           *)
  signal,    (* COMM_MODULE_SIGNAL_START_THREAD of each worker             *)
  isReady,   (* _isReady                                                   *)
  main,      (* steps of InitializeCommModule() that are done             *)
  console,   (* calls the console has made                                 *)
  unsent, air,  (* packets not yet sent, and not yet received              *)
  called     (* history: the packets handed to callbacks, in order         *)

inputVars == <<unsent, air>>
portVars  == <<handler, count>>
poolVars  == <<free, mem, queue>>
startVars == <<signal, isReady>>
mainVars  == <<main, console>>
vars == <<portVars, poolVars, prod, work, startVars, mainVars, inputVars, called>>

NoBlock  == "none"
NoPacket == "nothing"
Idle     == [pc |-> "idle", pkt |-> NoPacket, blk |-> NoBlock]

TypeOK ==
  /\ handler \in [Directions -> SUBSET Ports]
  /\ count \in [Directions -> [Ports -> Nat]]
  /\ free \in [Directions -> SUBSET Blocks]
  /\ mem \in [Directions -> [Blocks -> Packets \cup {NoPacket}]]
  /\ queue \in [Directions -> Seq(Blocks)]
  /\ prod \in [Producers -> [pc : {"idle", "alloc", "put"},
                             pkt : Packets \cup {NoPacket},
                             blk : Blocks \cup {NoBlock}]]
  /\ work \in [Directions -> [pc : {"start", "get", "call", "callback", "free"},
                              blk : Blocks \cup {NoBlock}]]
  /\ signal \in [Directions -> BOOLEAN] /\ isReady \in BOOLEAN
  /\ main \in 0 .. Len(InitOrder) + 1 /\ console \in 0 .. MaxConsole
  /\ unsent \subseteq OutPackets /\ air \subseteq AirPackets
  /\ called \in [Directions -> Seq(Packets)]

Init ==
  /\ handler = [d \in Directions |-> {}]
  /\ count = [d \in Directions |-> [n \in Ports |-> 0]]
  /\ free = [d \in Directions |-> Blocks]
  /\ mem = [d \in Directions |-> [b \in Blocks |-> NoPacket]]
  /\ queue = [d \in Directions |-> <<>>]
  /\ prod = [t \in Producers |-> Idle]
  /\ work = [d \in Directions |-> [pc |-> "start", blk |-> NoBlock]]
  /\ signal = [d \in Directions |-> FALSE] /\ isReady = FALSE
  /\ main = 0 /\ console = 0
  /\ unsent = OutPackets /\ air = AirPackets
  /\ called = [d \in Directions |-> <<>>]
-----------------------------------------------------------------------------
(* The producers.                                                          *)

(* The first line of send() and receive(): a packet whose port has no      *)
(* callback is logged and forgotten.                                       *)
StartProducing(t, p) ==
  prod' = IF PortOf[p] \in handler[DirOf(t)]
            THEN [prod EXCEPT ![t] = [pc |-> "alloc", pkt |-> p, blk |-> NoBlock]]
            ELSE prod

Send(s, p) ==
  /\ prod[s].pc = "idle" /\ p \in unsent
  /\ unsent' = unsent \ {p}
  /\ StartProducing(s, p)
  /\ UNCHANGED <<portVars, poolVars, work, startVars, mainVars, air, called>>

LinkReceive(p) ==
  /\ prod[Link].pc = "idle" /\ p \in air
  /\ air' = air \ {p}
  /\ StartProducing(Link, p)
  /\ UNCHANGED <<portVars, poolVars, work, startVars, mainVars, unsent, called>>

(* osMailAlloc(_, osWaitForever) *)
Alloc(t) ==
  /\ prod[t].pc = "alloc"
  /\ \E b \in free[DirOf(t)] :
       /\ free' = [free EXCEPT ![DirOf(t)] = @ \ {b}]
       /\ prod' = [prod EXCEPT ![t].pc = "put", ![t].blk = b]
  /\ UNCHANGED <<portVars, mem, queue, work, startVars, mainVars, inputVars, called>>

(* *p = packet; osMailPut.  The block is the producer's own until then.    *)
Put(t) ==
  /\ prod[t].pc = "put"
  /\ mem' = [mem EXCEPT ![DirOf(t)][prod[t].blk] = prod[t].pkt]
  /\ queue' = [queue EXCEPT ![DirOf(t)] = Append(@, prod[t].blk)]
  /\ prod' = [prod EXCEPT ![t] = Idle]
  /\ UNCHANGED <<portVars, free, work, startVars, mainVars, inputVars, called>>

Producer == \/ \E s \in Senders, p \in OutPackets : Send(s, p)
            \/ \E p \in AirPackets : LinkReceive(p)
            \/ \E t \in Producers : Alloc(t) \/ Put(t)
-----------------------------------------------------------------------------
(* The workers, txThread() and rxThread().                                 *)

(* What a worker does once its start signal has come. *)
Release(d) ==
  IF d = "tx" THEN /\ signal' = [signal EXCEPT !["tx"] = FALSE, !["rx"] = TRUE]
                   /\ UNCHANGED isReady
              ELSE /\ signal' = [signal EXCEPT !["rx"] = FALSE]
                   /\ isReady' = TRUE

StartWorker(d) ==
  /\ work[d].pc = "start" /\ signal[d]
  /\ Release(d)
  /\ work' = [work EXCEPT ![d].pc = "get"]
  /\ UNCHANGED <<portVars, poolVars, prod, mainVars, inputVars, called>>

GetMail_FreesAtOnce(d) ==
  /\ work[d].pc = "get" /\ queue[d] # <<>>
  /\ work' = [work EXCEPT ![d] = [pc |-> "call", blk |-> Head(queue[d])]]
  /\ queue' = [queue EXCEPT ![d] = Tail(@)]
  /\ free' = [free EXCEPT ![d] = @ \cup {Head(queue[d])}]
  /\ UNCHANGED <<portVars, mem, prod, startVars, mainVars, inputVars, called>>

GetMail(d) ==
  /\ work[d].pc = "get" /\ queue[d] # <<>>
  /\ work' = [work EXCEPT ![d] = [pc |-> "call", blk |-> Head(queue[d])]]
  /\ queue' = [queue EXCEPT ![d] = Tail(@)]
  /\ UNCHANGED <<portVars, free, mem, prod, startVars, mainVars, inputVars, called>>

Current(d) == mem[d][work[d].blk]

(* The callback of the current packet's port.  The loopback port's tx      *)
(* callback hands the packet to receive(), in the worker's own thread.     *)
Callback(d) ==
  IF d = "tx" /\ PortOf[Current(d)] = LoopbackPort
    THEN StartProducing(TxWorker, Current(d))
    ELSE UNCHANGED prod

CallBack(d) ==
  /\ work[d].pc = "call"
  /\ PortOf[Current(d)] \in handler[d]
  /\ Callback(d)
  /\ called' = [called EXCEPT ![d] = Append(@, Current(d))]
  /\ work' = [work EXCEPT ![d].pc = "callback"]
  /\ UNCHANGED <<portVars, poolVars, startVars, mainVars, inputVars>>

NoCallBack_FreesToo(d) ==
  /\ work[d].pc = "call"
  /\ PortOf[Current(d)] \notin handler[d]
  /\ free' = [free EXCEPT ![d] = @ \cup {work[d].blk}]
  /\ work' = [work EXCEPT ![d].pc = "free"]
  /\ UNCHANGED <<portVars, mem, queue, prod, startVars, mainVars, inputVars, called>>

NoCallBack_Continues(d) ==
  /\ work[d].pc = "call"
  /\ PortOf[Current(d)] \notin handler[d]
  /\ work' = [work EXCEPT ![d] = [pc |-> "get", blk |-> NoBlock]]
  /\ UNCHANGED <<portVars, poolVars, prod, startVars, mainVars, inputVars, called>>

NoCallBack_PointerLost(d) ==
  /\ work[d].pc = "call"
  /\ PortOf[Current(d)] \notin handler[d]
  /\ work' = [work EXCEPT ![d] = [pc |-> "free", blk |-> NoBlock]]
  /\ UNCHANGED <<portVars, poolVars, prod, startVars, mainVars, inputVars, called>>

NoCallBack(d) ==
  /\ work[d].pc = "call"
  /\ PortOf[Current(d)] \notin handler[d]
  /\ work' = [work EXCEPT ![d].pc = "free"]
  /\ UNCHANGED <<portVars, poolVars, prod, startVars, mainVars, inputVars, called>>

(* The callback has returned; operator[] makes the port's entry anew if it *)
(* was closed meanwhile.                                                   *)
CallbackReturns(d) ==
  /\ work[d].pc = "callback"
  /\ d = "tx" => prod[TxWorker].pc = "idle"
  /\ count' = [count EXCEPT ![d][PortOf[Current(d)]] = @ + 1]
  /\ work' = [work EXCEPT ![d].pc = "free"]
  /\ UNCHANGED <<handler, poolVars, prod, startVars, mainVars, inputVars, called>>

FreeMail(d) ==
  /\ work[d].pc = "free"
  /\ free' = [free EXCEPT ![d] = @ \cup {work[d].blk}]
  /\ work' = [work EXCEPT ![d] = [pc |-> "get", blk |-> NoBlock]]
  /\ UNCHANGED <<portVars, mem, queue, prod, startVars, mainVars, inputVars, called>>

Worker(d) == \/ StartWorker(d) \/ GetMail(d) \/ CallBack(d) \/ NoCallBack(d)
             \/ CallbackReturns(d) \/ FreeMail(d)
-----------------------------------------------------------------------------
(* The thread that opens the ports, and the console.                       *)

(* setTxHandler() and setRxHandler(), with ready(). *)
SetHandler(d, n) ==
  /\ handler' = [handler EXCEPT ![d] = @ \cup {n}]
  /\ signal' = IF isReady THEN signal ELSE [signal EXCEPT !["tx"] = TRUE]
  /\ UNCHANGED <<count, isReady>>

(* InitializeCommModule(): set the handlers, then wait for isReady(). *)
InitPort ==
  /\ main \in 0 .. Len(InitOrder) - 1
  /\ SetHandler(InitOrder[main + 1][1], InitOrder[main + 1][2])
  /\ main' = main + 1
  /\ UNCHANGED <<poolVars, prod, work, console, inputVars, called>>

InitWait ==
  /\ main = Len(InitOrder) /\ isReady
  /\ main' = main + 1
  /\ UNCHANGED <<portVars, poolVars, prod, work, startVars, console, inputVars, called>>

ConsoleCall == /\ main > Len(InitOrder) /\ console < MaxConsole
               /\ console' = console + 1
               /\ UNCHANGED <<poolVars, prod, work, main, inputVars, called>>

(* cmd_ping() and cmd_pong() set both handlers of their port. *)
OpenSocket == \E d \in Directions : ConsoleCall /\ SetHandler(d, ConsolePort)

ZeroCount(n) == count' = [d \in Directions |-> [count[d] EXCEPT ![n] = 0]]

close(n) ==
  /\ ConsoleCall /\ ZeroCount(n)
  /\ handler' = [d \in Directions |-> handler[d] \ {n}]
  /\ UNCHANGED startVars

resetCount(n) == ConsoleCall /\ ZeroCount(n) /\ UNCHANGED <<handler, startVars>>

Console == OpenSocket \/ \E n \in Ports : close(n) \/ resetCount(n)
-----------------------------------------------------------------------------
Next == \/ Producer \/ InitPort \/ InitWait \/ Console
        \/ \E d \in Directions : Worker(d)

Spec == Init /\ [][Next]_vars

(* The RTOS schedules every thread that can run, for none of them spins.   *)
(* Nobody has to call send(), and nothing has to arrive.                   *)
Fairness ==
  /\ WF_vars(InitPort) /\ WF_vars(InitWait)
  /\ \A d \in Directions : WF_vars(Worker(d))
  /\ \A t \in Producers : WF_vars(Alloc(t)) /\ WF_vars(Put(t))

FairSpec == Spec /\ Fairness
-----------------------------------------------------------------------------
(* A block of a pool has one owner: it is free, or in the queue once, or   *)
(* being filled by one producer, or held by the worker.  A callback reads  *)
(* its packet from a block nobody else may write or give away, and no path *)
(* of the code forgets a block, of which there are three for all threads.  *)
Elements(q) == {q[i] : i \in 1 .. Len(q)}
Distinct(q) == \A i, j \in 1 .. Len(q) : q[i] = q[j] => i = j
Filling(t)  == prod[t].pc = "put"
Working(d)  == work[d].pc \in {"call", "callback", "free"}
InUse(d)    == free[d] \cup Elements(queue[d])

QueueOwns == \A d \in Directions :
  Distinct(queue[d]) /\ Elements(queue[d]) \cap free[d] = {}

WorkerOwns == \A d \in Directions : Working(d) => work[d].blk \in Blocks \ InUse(d)

ProducerOwns == \A t \in Producers : Filling(t) =>
  /\ prod[t].blk \in Blocks \ InUse(DirOf(t))
  /\ Working(DirOf(t)) => work[DirOf(t)].blk # prod[t].blk

ProducersApart == \A t, u \in Producers :
  Filling(t) /\ Filling(u) /\ DirOf(t) = DirOf(u) /\ prod[t].blk = prod[u].blk => t = u

NoBlockLost == \A d \in Directions : \A b \in Blocks \ InUse(d) :
  \/ Working(d) /\ work[d].blk = b
  \/ \E t \in Producers : Filling(t) /\ DirOf(t) = d /\ prod[t].blk = b

OneOwner == QueueOwns /\ WorkerOwns /\ ProducerOwns /\ ProducersApart /\ NoBlockLost

(* The threads, queues and pools implement the router: in each direction   *)
(* every accepted packet reaches the callback of its port once and in      *)
(* order, with the contents it was sent with, or its port was closed.      *)
Waiting(d) ==
  (IF work[d].pc = "call" THEN <<Current(d)>> ELSE <<>>)
    \o [i \in 1 .. Len(queue[d]) |-> mem[d][queue[d][i]]]

Router == INSTANCE PacketRouter
            WITH Capacity <- Cardinality(Blocks), open <- handler,
                 waiting <- [d \in Directions |-> Waiting(d)]

ImplementsRouter == Router!Spec

(* Nothing is stuck: the start signal reaches both workers, so that        *)
(* InitializeCommModule() returns, and in the end every packet that was    *)
(* accepted has been handled and every block is back in its pool, although *)
(* the loopback port makes the tx worker wait for the rx pool.             *)
Drains == <>[] /\ main > Len(InitOrder)
               /\ \A t \in Producers : prod[t].pc = "idle"
               /\ \A d \in Directions : free[d] = Blocks /\ work[d].pc = "get"
=============================================================================
