---------------------------- MODULE MCCommModule ----------------------------
(* Small instances of CommModule for TLC. *)
EXTENDS CommModule, TLC

CONSTANTS s1, b1, b2, out1, out2, out3, air1, LINK, PING

MCPortOf == out1 :> PING @@ out2 :> LINK @@ out3 :> LINK @@ air1 :> PING

(* The loopback port, then the radio's for sending. *)
MCInitOrder == <<<<"rx", LINK>>, <<"tx", LINK>>, <<"tx", PING>>>>
=============================================================================
