------------------------------ MODULE MCReferee ------------------------------
(***************************************************************************)
(* Small instances of Referee for TLC.  The ball is at one of a few places *)
(* on a line, the day has a few frames and packets carry few commands.     *)
(***************************************************************************)
EXTENDS Referee

(* Before the match, and in a shootout that yellow leads. *)
MCPackets ==
  {NoPacket, [NoPacket EXCEPT !.stage = "PENALTY_SHOOTOUT", !.yellow = 1]}

MCOneStage     == {"NORMAL_FIRST_HALF_PRE"}
MCTwoStages    == {"NORMAL_FIRST_HALF_PRE", "PENALTY_SHOOTOUT"}

(* A match run from the buttons of the main window: the receiver thread    *)
(* has not started and nobody changes team.  Only the frame is scheduled   *)
(* fairly; an operator owes nothing.                                       *)
ByHand == Init /\ [][Frame \/ FastClick]_vars /\ WF_vars(Frame)
=============================================================================
