------------------------------ MODULE RadioLink ------------------------------
(***************************************************************************)
(* Commands on their way to the robots: the host's radio                   *)
(* (soccer/radio/USBRadio.cpp), a USB device that it opens, loses and      *)
(* opens again, and the base station (firmware/base2015), whose main loop, *)
(* tx worker and link thread share one CC1201 chip.                        *)
(*                                                                         *)
(* The host is one thread; it calls receive() and send() in every frame,   *)
(* and each of them opens the device if there is none.  Opening it strobes *)
(* the chip by control requests, which the base serves in an interrupt:    *)
(* the mutex of SharedSPI does not keep an interrupt out.                  *)
(*                                                                         *)
(* A command is one value, and so is a robot's reply; the router between   *)
(* main loop and worker (CommModule) is the number of blocks it has in     *)
(* use.  An SPI transfer is one step, but for the burst that fills the tx  *)
(* FIFO.  Time is left out: the watchdog's two seconds and a write's one   *)
(* pass only when the worker waits for a chip that will not transmit.      *)
(***************************************************************************)
EXTENDS Naturals

CONSTANTS
  NumRXTransfers,  (* USBRadio::NumRXTransfers                             *)
  Blocks,          (* blocks of the router's tx pool                       *)
  Robots,          (* replies that follow a command                        *)
  RxCapacity,      (* replies the rx FIFO holds: one round of them         *)
  MaxMishaps       (* bound: failures from outside, and overflows          *)

ASSUME RadioAssumption ==
  /\ NumRXTransfers \in Nat \ {0} /\ Blocks \in Nat \ {0}
  /\ Robots \in Nat /\ RxCapacity \in Nat \ {0} /\ MaxMishaps \in Nat

VARIABLES
  (* the host *)
  call,      (* the call the frame makes next, or `ended': run() threw     *)
  device,    (* _device                                                    *)
  strobes,   (* what channel() has still to strobe while open() runs       *)
  inflight,  (* receive transfers that are submitted                       *)
  lost,      (* history: those of this handle that libusb refused          *)
  stale,     (* the device is a handle of a base that is gone              *)
  (* the bus: packets in the endpoints, another program at the device      *)
  epOut, epIn, rival,
  (* the base station *)
  main,      (* the main loop                                              *)
  queued,    (* blocks in use                                              *)
  worker,    (* the tx worker in CC1201::sendData()                        *)
  link,      (* the link's thread in rxThread() and CC1201::getData()      *)
  toRead,    (* num_rx_bytes, in replies                                   *)
  signal,    (* COMM_LINK_SIGNAL_RX_TRIGGER                                *)
  (* the chip *)
  mode, txfifo, rxfifo,
  replies,   (* replies that robots will still send                        *)
  mishaps

hostVars == <<call, device, strobes, inflight, lost, stale>>
busVars  == <<epOut, epIn, rival>>
mainVars == <<main, queued>>
linkVars == <<link, toRead>>
airVars  == <<replies, mishaps>>
chipVars == <<mode, txfifo, rxfifo>>
vars == <<hostVars, busVars, mainVars, worker, linkVars, signal, chipVars, airVars>>

Errors == {"rxerr", "txerr"}

Init ==
  /\ call = "receive" /\ device = "null" /\ strobes = 0 /\ inflight = 0 /\ lost = 0
  /\ stale = FALSE
  /\ epOut = FALSE /\ epIn = FALSE /\ rival = FALSE
  /\ main = "read" /\ queued = 0 /\ worker = "get"
  /\ link = "wait" /\ toRead = 0 /\ signal = FALSE
  /\ mode = "rx" /\ txfifo = "empty" /\ rxfifo = 0
  /\ replies = 0 /\ mishaps = 0

Mishap == mishaps < MaxMishaps /\ mishaps' = mishaps + 1

(* The loop of sendData() reads a FIFO that nothing empties any more.      *)
Stuck == worker = "poll" /\ txfifo # "empty" /\ mode # "tx"
-----------------------------------------------------------------------------
(* The host. *)

Returns == call' = IF call = "receive" THEN "send" ELSE "receive"

(* No device: the call returns. *)
OpenNothing ==
  /\ call # "ended" /\ device = "null" /\ mode = "off"
  /\ Returns
  /\ UNCHANGED <<device, strobes, inflight, lost, stale, busVars, mainVars, worker, linkVars,
                 signal, chipVars, airVars>>

(* libusb_open() succeeds, libusb_set_configuration() or                   *)
(* libusb_claim_interface() does not: open() fails and _device stays set.  *)
OpenUnclaimed ==
  /\ call # "ended" /\ device = "null" /\ mode # "off" /\ rival
  /\ device' = "unclaimed" /\ Returns
  /\ UNCHANGED <<strobes, inflight, lost, stale, busVars, mainVars, worker, linkVars, signal,
                 chipVars, airVars>>

(* All succeeds up to channel(). *)
OpenClaimed ==
  /\ call # "ended" /\ device = "null" /\ mode # "off" /\ ~rival
  /\ device' = "claimed" /\ strobes' = 2
  /\ UNCHANGED <<call, inflight, lost, stale, busVars, mainVars, worker, linkVars, signal,
                 chipVars, airVars>>

(* A strobe puts the chip in mode m.  Only SFRX and SFTX, and SIDLE, leave *)
(* an error.                                                               *)
Strobed(m) == IF m = "rx" /\ mode \in Errors THEN mode ELSE m

Submissions == <<inflight, lost, mishaps>>

(* libusb_submit_transfer() of n transfers besides the kept ones; nobody   *)
(* looks at its result.                                                    *)
Submit(kept, n) ==
  \/ inflight' = kept + n /\ UNCHANGED <<lost, mishaps>>
  \/ Mishap /\ \E k \in 1 .. n : inflight' = kept + n - k /\ lost' = lost + k

(* command(): SIDLE, then SRX; then the transfers are submitted.  In an    *)
(* interrupt during the burst, the strobe is a byte of the burst, which    *)
(* then ends.                                                              *)
Command ==
  /\ call # "ended" /\ strobes > 0 /\ ~stale
  /\ strobes' = strobes - 1
  /\ IF worker = "burst"
     THEN txfifo' = "torn" /\ UNCHANGED mode
     ELSE mode' = Strobed(IF strobes = 2 THEN "idle" ELSE "rx") /\ UNCHANGED txfifo
  /\ IF strobes = 1 THEN Submit(0, NumRXTransfers) ELSE UNCHANGED Submissions
  /\ UNCHANGED <<call, device, stale, busVars, mainVars, worker, linkVars, signal, rxfifo,
                 replies>>

(* The control transfer fails and nobody catches the exception. *)
CommandThrows ==
  /\ call # "ended" /\ strobes > 0 /\ stale
  /\ call' = "ended"
  /\ UNCHANGED <<device, strobes, inflight, lost, stale, busVars, mainVars, worker, linkVars,
                 signal, chipVars, airVars>>

Resubmit_Dropped ==
  /\ inflight' = IF epIn /\ inflight > 0 THEN inflight - 1 ELSE inflight
  /\ UNCHANGED <<lost, mishaps>>

(* rxCompleted(): the transfer is submitted again. *)
Resubmit ==
  IF epIn /\ inflight > 0 THEN Submit(inflight - 1, 1) ELSE UNCHANGED Submissions

(* receive(): completed transfers are handled; those of a dead handle end  *)
(* one and all, and cannot be submitted again.                             *)
Receive ==
  /\ call = "receive" /\ device # "null" /\ strobes = 0
  /\ Returns
  /\ IF stale THEN inflight' = 0 /\ UNCHANGED <<lost, mishaps>> ELSE Resubmit
  /\ epIn' = (epIn /\ (stale \/ inflight = 0))
  /\ UNCHANGED <<device, strobes, stale, epOut, rival, mainVars, worker, linkVars, signal,
                 chipVars, replies>>

(* The base is gone, another program has the interface, or the main loop   *)
(* has not read the last packet for a second.                              *)
WriteFails ==
  \/ stale
  \/ device = "unclaimed" /\ rival
  \/ epOut /\ main = "block" /\ Stuck

(* libusb_close() cancels the transfers in flight. *)
Close ==
  /\ device' = "null" /\ stale' = FALSE
  /\ inflight' = 0 /\ lost' = 0

SendFails ==
  /\ call = "send" /\ device # "null" /\ strobes = 0
  /\ \/ WriteFails /\ UNCHANGED mishaps
     \/ ~WriteFails /\ Mishap
  /\ Close /\ Returns
  /\ UNCHANGED <<strobes, busVars, mainVars, worker, linkVars, signal, chipVars, replies>>

(* To write to an interface that is free claims it. *)
Send ==
  /\ call = "send" /\ device # "null" /\ strobes = 0
  /\ ~WriteFails /\ ~epOut
  /\ epOut' = TRUE /\ Returns
  /\ device' = IF device = "unclaimed" THEN "deaf" ELSE device
  /\ UNCHANGED <<strobes, inflight, lost, stale, epIn, rival, mainVars, worker, linkVars,
                 signal, chipVars, airVars>>

Host == OpenNothing \/ OpenUnclaimed \/ OpenClaimed \/ Command \/ CommandThrows \/ Receive
          \/ SendFails \/ Send
-----------------------------------------------------------------------------
(* The base station's main loop and tx worker. *)

ReadEP ==
  /\ main = "read" /\ epOut
  /\ main' = "block" /\ epOut' = FALSE
  /\ UNCHANGED <<hostVars, epIn, rival, queued, worker, linkVars, signal, chipVars, airVars>>

(* CommModule::send() waits for a block. *)
HasBlock_OffByOne == queued <= Blocks

HasBlock == queued < Blocks

Enqueue ==
  /\ main = "block" /\ HasBlock
  /\ main' = "read" /\ queued' = queued + 1
  /\ UNCHANGED <<hostVars, busVars, worker, linkVars, signal, chipVars, airVars>>

Works(from, to) ==
  /\ worker = from /\ worker' = to
  /\ UNCHANGED <<hostVars, busVars, main, linkVars, rxfifo, airVars>>

GetMail == Works("get", "flush") /\ queued > 0 /\ UNCHANGED <<queued, signal, mode, txfifo>>

(* SFTX works in IDLE and in the FIFO's error state. *)
FlushTx ==
  /\ Works("flush", "idle")
  /\ IF mode \in {"idle", "txerr"} THEN txfifo' = "empty" /\ mode' = "idle"
                                   ELSE UNCHANGED <<mode, txfifo>>
  /\ UNCHANGED <<queued, signal>>

Idle == Works("idle", "select") /\ mode' = "idle" /\ UNCHANGED <<queued, signal, txfifo>>

(* The first byte of the burst returns the chip's state, which is not the  *)
(* error that sendData() gives up for: SIDLE has just left it.             *)
Select == Works("select", "burst") /\ UNCHANGED <<queued, signal, mode, txfifo>>

Burst ==
  /\ Works("burst", "stx")
  /\ txfifo' = IF txfifo = "torn" THEN "torn" ELSE "whole"
  /\ UNCHANGED <<queued, signal, mode>>

(* "must be first strobed into IDLE, then into TX.  We're not sure why":   *)
(* from RX the strobe may have no effect.                                  *)
StrobeTx ==
  /\ Works("stx", "poll")
  /\ mode' \in CASE mode = "idle" -> {"tx"} [] mode = "rx" -> {"rx", "tx"} [] OTHER -> {mode}
  /\ UNCHANGED <<queued, signal, txfifo>>

(* NUM_TXBYTES is 0: sendData() returns and the block is freed. *)
Sent ==
  /\ Works("poll", "get") /\ txfifo = "empty"
  /\ queued' = queued - 1
  /\ UNCHANGED <<signal, mode, txfifo>>

Worker == GetMail \/ FlushTx \/ Idle \/ Select \/ Burst \/ StrobeTx \/ Sent
-----------------------------------------------------------------------------
(* The chip.  Its pin rises at each sync word, of its own packets too; it  *)
(* goes back to RX after a packet, whether sent or received.               *)

Transmit ==
  /\ mode = "tx" /\ txfifo = "whole"
  /\ txfifo' = "empty" /\ mode' = "rx" /\ signal' = TRUE /\ replies' = Robots
  /\ UNCHANGED <<hostVars, busVars, mainVars, worker, linkVars, rxfifo, mishaps>>

(* Fewer bytes than the packet's length says. *)
Underflow ==
  /\ mode = "tx" /\ txfifo = "torn"
  /\ txfifo' = "empty" /\ mode' = "txerr" /\ signal' = TRUE
  /\ UNCHANGED <<hostVars, busVars, mainVars, worker, linkVars, rxfifo, airVars>>

Reply ==
  /\ replies > 0 /\ replies' = replies - 1
  /\ \/ /\ mode = "rx" /\ rxfifo < RxCapacity
        /\ rxfifo' = rxfifo + 1 /\ signal' = TRUE /\ UNCHANGED <<mode, mishaps>>
     \/ /\ mode = "rx" /\ rxfifo = RxCapacity /\ Mishap
        /\ mode' = "rxerr" /\ signal' = TRUE /\ UNCHANGED rxfifo
     \/ UNCHANGED <<mode, rxfifo, signal, mishaps>>          (* lost *)
  /\ UNCHANGED <<hostVars, busVars, mainVars, worker, linkVars, txfifo>>

Chip == Transmit \/ Underflow \/ Reply
-----------------------------------------------------------------------------
(* The link's thread. *)

Links(from, to) ==
  /\ link = from /\ link' = to
  /\ UNCHANGED <<hostVars, epOut, rival, mainVars, worker, txfifo, airVars>>

Wake == Links("wait", "status") /\ signal /\ signal' = FALSE /\ UNCHANGED <<epIn, toRead, mode, rxfifo>>

RxError_Always == TRUE

(* device_state & 0x60 == 0x60 holds of both errors, 0x60 and 0x70. *)
RxError == mode \in Errors

(* freqUpdate() and NUM_RXBYTES. *)
Status ==
  /\ \/ RxError /\ Links("status", "idle") /\ UNCHANGED toRead
     \/ ~RxError /\ rxfifo > 0 /\ Links("status", "read") /\ toRead' = rxfifo
     \/ ~RxError /\ rxfifo = 0 /\ Links("status", "wait") /\ UNCHANGED toRead
  /\ UNCHANGED <<epIn, signal, mode, rxfifo>>

(* The replies are read as one packet and given to radioRxHandler();       *)
(* writeNB() loses it if the last one is still in the endpoint.            *)
Read ==
  /\ Links("read", "wait")
  /\ rxfifo' = rxfifo - toRead /\ toRead' = 0 /\ epIn' = TRUE
  /\ UNCHANGED <<signal, mode>>

(* flush_rx() and SRX. *)
FlushIdle == Links("idle", "flush") /\ mode' = "idle" /\ UNCHANGED <<epIn, toRead, signal, rxfifo>>

FlushRx ==
  /\ Links("flush", "srx")
  /\ IF mode \in {"idle", "rxerr"} THEN rxfifo' = 0 /\ mode' = "idle"
                                   ELSE UNCHANGED <<mode, rxfifo>>
  /\ UNCHANGED <<epIn, toRead, signal>>

StrobeRx == Links("srx", "wait") /\ mode' = Strobed("rx") /\ UNCHANGED <<epIn, toRead, signal, rxfifo>>

LinkThread == Wake \/ Status \/ Read \/ FlushIdle \/ FlushRx \/ StrobeRx
-----------------------------------------------------------------------------
(* The base is reset, the host's handle dies with it; the other program.   *)

Down ==
  /\ mode # "off" /\ mode' = "off" /\ txfifo' = "empty" /\ rxfifo' = 0
  /\ main' = "read" /\ queued' = 0 /\ worker' = "get"
  /\ link' = "wait" /\ toRead' = 0 /\ signal' = FALSE
  /\ epOut' = FALSE /\ epIn' = FALSE
  /\ stale' = (device # "null")
  /\ UNCHANGED <<call, device, strobes, inflight, lost, rival, replies>>

Watchdog_RenewedByWorker == FALSE /\ UNCHANGED vars

(* The main loop renews the watchdog, unless it waits for a block. *)
Watchdog == main = "block" /\ queued = Blocks /\ Stuck /\ Down /\ UNCHANGED mishaps

Unplug == Down /\ Mishap

(* CC1201::reset(), setConfig() and SRX; the USB device connects. *)
Boot ==
  /\ mode = "off" /\ mode' = "rx"
  /\ UNCHANGED <<hostVars, busVars, mainVars, worker, linkVars, signal, txfifo, rxfifo, airVars>>

(* A second program at the device. *)
RivalClaims ==
  /\ ~rival /\ device \in {"null", "unclaimed"} /\ Mishap /\ rival' = TRUE
  /\ UNCHANGED <<hostVars, epOut, epIn, mainVars, worker, linkVars, signal, chipVars, replies>>

RivalReleases ==
  /\ rival /\ rival' = FALSE
  /\ UNCHANGED <<hostVars, epOut, epIn, mainVars, worker, linkVars, signal, chipVars, airVars>>

Environment == Watchdog \/ Unplug \/ Boot \/ RivalClaims \/ RivalReleases

Next == Host \/ ReadEP \/ Enqueue \/ Worker \/ Chip \/ LinkThread \/ Environment

Spec == Init /\ [][Next]_vars

(* The processing loop and the base's threads run, the chip transmits, the *)
(* watchdog fires and the base starts again.  The other program owes       *)
(* nothing.                                                                *)
FairSpec ==
  /\ Spec
  /\ WF_vars(Host) /\ WF_vars(ReadEP) /\ WF_vars(Enqueue) /\ WF_vars(Worker)
  /\ WF_vars(Transmit \/ Underflow) /\ WF_vars(LinkThread)
  /\ WF_vars(Watchdog) /\ WF_vars(Boot)
-----------------------------------------------------------------------------
(* Properties. *)

(* The values of each variable. *)
TypeOK ==
  /\ call \in {"receive", "send", "ended"}
  /\ device \in {"null", "unclaimed", "claimed", "deaf"}
  /\ strobes \in 0 .. 2 /\ stale \in BOOLEAN
  /\ inflight \in 0 .. NumRXTransfers /\ lost \in 0 .. NumRXTransfers
  /\ epOut \in BOOLEAN /\ epIn \in BOOLEAN /\ rival \in BOOLEAN
  /\ main \in {"read", "block"} /\ queued \in 0 .. Blocks
  /\ worker \in {"get", "flush", "idle", "select", "burst", "stx", "poll"}
  /\ link \in {"wait", "status", "read", "idle", "flush", "srx"}
  /\ toRead \in 0 .. RxCapacity /\ signal \in BOOLEAN
  /\ mode \in {"idle", "rx", "tx", "off"} \cup Errors
  /\ txfifo \in {"empty", "whole", "torn"} /\ rxfifo \in 0 .. RxCapacity
  /\ replies \in 0 .. Robots /\ mishaps \in 0 .. MaxMishaps

(* How well a device hears that isOpen(), and with it send() and           *)
(* receive(), take for open.  Until something fails outside of the         *)
(* program, all receive transfers are with libusb.  After that exactly     *)
(* those are missing that libusb refused to submit since this device was   *)
(* opened, whatever completed or was closed before; but none is left when  *)
(* the base is gone, and there never is one on a device whose open()       *)
(* failed after _device was set, also when send() writes to it.            *)
OpenRadioListens ==
  device # "null" /\ strobes = 0 =>
    /\ mishaps = 0 => inflight = NumRXTransfers
    /\ IF device = "claimed"
       THEN inflight + lost = NumRXTransfers \/ (stale /\ inflight = 0)
       ELSE inflight = 0

(* The unlimited loop at the end of sendData() waits for ever only if      *)
(* something went wrong before: the strobes of the host's first open(),    *)
(* and of the link's thread, otherwise never meet a packet on its way.     *)
StuckNeedsMishap == Stuck => mishaps > 0

(* However the strobes, overflows, resets and lost devices fall, commands  *)
(* go out again and again once the other program leaves the device alone:  *)
(* a worker that waits for ever costs a reset of the base, no more.        *)
CommandsFlow ==
  <>[]~rival => <>(call = "ended") \/ []<><<Transmit>>_vars
=============================================================================
