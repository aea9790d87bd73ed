--------------------------- MODULE MCStateMachine ---------------------------
(***************************************************************************)
(* StateMachine for TLC, on the states of a Behavior with the substates of *)
(* a skill: running has two substates, one of which has one of its own.    *)
(***************************************************************************)
EXTENDS StateMachine

MCStates == {"start", "running", "completed", "capturing", "aiming", "aimed"}

MCParent ==
  [s \in MCStates |-> CASE s \in {"capturing", "aiming"} -> "running"
                        [] s = "aimed" -> "aiming"
                        [] OTHER -> None]

MCEdges == {<<"start", "capturing">>, <<"start", "running">>, <<"running", "aiming">>,
            <<"capturing", "aiming">>, <<"aiming", "aimed">>, <<"aimed", "capturing">>,
            <<"aimed", "aiming">>, <<"aimed", "completed">>, <<"aiming", "running">>}
=============================================================================
