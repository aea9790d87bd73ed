---------------------------- MODULE PacketRouter ----------------------------
(***************************************************************************)
(* What CommModule promises to the rest of the firmware, without threads,  *)
(* signals, mail queues or memory pools.  In each direction a packet that  *)
(* was accepted is handed to the callback of its port once, in the order   *)
(* of acceptance, and is dropped only if that port has no callback when    *)
(* its turn comes.  No more than Capacity packets wait in a direction.     *)
(***************************************************************************)
EXTENDS Naturals, Sequences

CONSTANTS Ports, Packets, PortOf, Capacity

Directions == {"tx", "rx"}

VARIABLES
  open,    (* the ports that have a callback, in each direction            *)
  waiting, (* accepted and neither handed over nor dropped                 *)
  called   (* handed over, in order                                        *)

vars == <<open, waiting, called>>

Init == /\ open = [d \in Directions |-> {}]
        /\ waiting = [d \in Directions |-> <<>>]
        /\ called = [d \in Directions |-> <<>>]

Open(d, n) == /\ open' = [open EXCEPT ![d] = @ \cup {n}]
              /\ UNCHANGED <<waiting, called>>

Close(n) == /\ open' = [d \in Directions |-> open[d] \ {n}]
            /\ UNCHANGED <<waiting, called>>

Accept(d, p) == /\ Len(waiting[d]) < Capacity
                /\ waiting' = [waiting EXCEPT ![d] = Append(@, p)]
                /\ UNCHANGED <<open, called>>

HandOver(d) == /\ waiting[d] # <<>>
               /\ PortOf[Head(waiting[d])] \in open[d]
               /\ called' = [called EXCEPT ![d] = Append(@, Head(waiting[d]))]
               /\ waiting' = [waiting EXCEPT ![d] = Tail(@)]
               /\ UNCHANGED open

Drop(d) == /\ waiting[d] # <<>>
           /\ PortOf[Head(waiting[d])] \notin open[d]
           /\ waiting' = [waiting EXCEPT ![d] = Tail(@)]
           /\ UNCHANGED <<open, called>>

Next == \/ \E n \in Ports : Close(n) \/ \E d \in Directions : Open(d, n)
        \/ \E d \in Directions : HandOver(d) \/ Drop(d)
        \/ \E d \in Directions, p \in Packets : Accept(d, p)

Spec == Init /\ [][Next]_vars
=============================================================================
