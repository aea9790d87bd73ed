----------------------------- MODULE MCRootPlay -----------------------------
(* Small instances of RootPlay for TLC. *)
EXTENDS RootPlay
CONSTANTS stopped, attack, kickoff, g1, g2

(* What the program's state and ReloadedPlayIsReplaced depend on: nothing  *)
(* reads the other history variables.                                      *)
WithoutHistory ==
  <<envVars, registryVars, playVars, goalieVars, blacklist, restarting, frameVars, changed,
    th, frameClass>>
=============================================================================
