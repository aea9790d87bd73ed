----------------------------- MODULE StateMachine -----------------------------
(***************************************************************************)
(* fsm.StateMachine (soccer/gameplay/fsm.py): the hierarchical state       *)
(* machine under every skill, tactic and play, hook by hook.               *)
(*                                                                         *)
(* A call of spin() runs execute_S for the current state and the states it *)
(* is in, takes a transition whose condition holds and spins again as long *)
(* as the state changed.  transition() runs on_exit_S for the states left  *)
(* and on_enter_S for the states entered, outermost state first; the       *)
(* owner also calls it directly, by restart() and terminate().  A hook may *)
(* raise an exception, which ends the call where it is.  No hook of the    *)
(* repository makes a transition of its own machine, so the calls nest no  *)
(* deeper than spin() and transition().                                    *)
(***************************************************************************)
CONSTANTS
  States,    (* the states added to the machine                            *)
  Parent,    (* _state_hierarchy: the parent of a state, or None           *)
  Start,     (* start_state                                                *)
  Edges,     (* the pairs of states with a transition                      *)
  None

(* The state and all it is in: the least set with s that has, with a       *)
(* state, its parent.                                                      *)
Closed(U) == \A u \in U : Parent[u] # None => Parent[u] \in U
Lineage(s) ==
  IF s = None THEN {}
  ELSE {t \in States : \A U \in SUBSET States : s \in U /\ Closed(U) => t \in U}

ASSUME HierarchyAssumption ==
  /\ None \notin States /\ Start \in States
  /\ Parent \in [States -> States \cup {None}]
  /\ Edges \subseteq States \X States
  /\ \A s \in States : s \notin Lineage(Parent[s])

VARIABLES
  state,     (* _state, None before the first transition                   *)
  call,      (* what the machine is doing                                  *)
  pending,   (* the states whose hooks the current loop has still to call  *)
  target,    (* new_state of the transition being made                     *)
  entry,     (* s1, the state when this spin() began                       *)
  spinning,  (* whether the transition was made by spin()                  *)
  active,    (* history: states whose on_enter returned, on_exit did not   *)
  torn       (* history: on_exit or on_enter torn during a transition    *)

vars == <<state, call, pending, target, entry, spinning, active, torn>>

Init ==
  /\ state = None /\ call = "idle" /\ pending = {}
  /\ target = None /\ entry = None /\ spinning = FALSE
  /\ active = {} /\ torn = FALSE
-----------------------------------------------------------------------------
(* ancestors_of_state(s) + [s], visited from the outermost state in. *)
Outermost_Reversed(s) == s \in pending /\ \A t \in pending : s \in Lineage(t) => t = s
Outermost(s) == s \in pending /\ \A t \in pending : t \in Lineage(s) => t = s

(* transition(t): the states left are those t is not in. *)
Leaves_Everything(t) == Lineage(state)
Leaves(t) == Lineage(state) \ Lineage(t)

Transition(t) ==
  /\ target' = t /\ pending' = Leaves(t) /\ call' = "exit"
  /\ UNCHANGED <<state, active, torn>>

Exit(s) ==
  /\ call = "exit" /\ Outermost(s)
  /\ pending' = pending \ {s} /\ active' = active \ {s}
  /\ UNCHANGED <<state, call, target, entry, spinning, torn>>

(* The states entered are those the old state is not in. *)
Exited ==
  /\ call = "exit" /\ pending = {}
  /\ pending' = Lineage(target) \ Lineage(state) /\ call' = "enter"
  /\ UNCHANGED <<state, target, entry, spinning, active, torn>>

Enter(s) ==
  /\ call = "enter" /\ Outermost(s)
  /\ pending' = pending \ {s} /\ active' = active \cup {s}
  /\ UNCHANGED <<state, call, target, entry, spinning, torn>>

(* Only now does the state change; spin() goes on to compare it. *)
Entered ==
  /\ call = "enter" /\ pending = {}
  /\ state' = target
  /\ call' = IF spinning THEN "compare" ELSE "idle"
  /\ UNCHANGED <<pending, target, entry, spinning, active, torn>>
-----------------------------------------------------------------------------
(* spin() *)
BeginSpin ==
  /\ entry' = state /\ pending' = Lineage(state) /\ call' = "execute"
  /\ spinning' = TRUE
  /\ UNCHANGED <<state, target, active, torn>>

Spin == call = "idle" /\ BeginSpin

Execute(s) ==
  /\ call = "execute" /\ Outermost(s)
  /\ pending' = pending \ {s}
  /\ UNCHANGED <<state, call, target, entry, spinning, active, torn>>

(* The first spin() enters the start state. *)
Begin_NoStart ==
  /\ call = "execute" /\ state = None
  /\ Transition(target)
  /\ UNCHANGED <<entry, spinning>>

Begin ==
  /\ call = "execute" /\ state = None
  /\ Transition(Start)
  /\ UNCHANGED <<entry, spinning>>

(* Conditions are arbitrary; of several that hold the first in the order   *)
(* of a dictionary is taken, with a warning.                               *)
Take(t) ==
  /\ call = "execute" /\ pending = {} /\ <<state, t>> \in Edges
  /\ Transition(t)
  /\ UNCHANGED <<entry, spinning>>

Stay ==
  /\ call = "execute" /\ pending = {} /\ state # None
  /\ call' = "compare"
  /\ UNCHANGED <<state, pending, target, entry, spinning, active, torn>>

SpinAgain == call = "compare" /\ state # entry /\ BeginSpin

SpinEnds ==
  /\ call = "compare" /\ state = entry
  /\ call' = "idle"
  /\ UNCHANGED <<state, pending, target, entry, spinning, active, torn>>

(* restart() and terminate(), or another direct call by the owner. *)
Order(t) ==
  /\ call = "idle"
  /\ Transition(t)
  /\ spinning' = FALSE
  /\ UNCHANGED entry

(* The hook or the condition about to be called raises: the loops of       *)
(* spin() and transition() are left, and the state is not assigned.        *)
Raise ==
  /\ call = "execute" \/ (call \in {"exit", "enter"} /\ pending # {})
  /\ call' = "idle" /\ pending' = {}
  /\ torn' = (torn \/ call # "execute")
  /\ UNCHANGED <<state, target, entry, spinning, active>>

Next ==
  \/ Spin \/ Begin \/ Stay \/ SpinAgain \/ SpinEnds \/ Exited \/ Entered \/ Raise
  \/ \E s \in States : Execute(s) \/ Take(s) \/ Exit(s) \/ Enter(s) \/ Order(s)

Spec == Init /\ [][Next]_vars
-----------------------------------------------------------------------------
Calls == {"idle", "execute", "compare", "exit", "enter"}

(* Every variable keeps its type, and a transition has a target.           *)
TypeOK ==
  /\ state \in States \cup {None} /\ entry \in States \cup {None}
  /\ target \in States \cup {None}
  /\ call \in Calls
  /\ call \in {"exit", "enter"} => target \in States
  /\ pending \subseteq States /\ active \subseteq States
  /\ spinning \in BOOLEAN /\ torn \in BOOLEAN

(* Whatever route the machine took and whoever ordered its transitions,    *)
(* while no transition is being made the states entered and not left are   *)
(* the current one and those it is in: what on_enter_S sets up for a state *)
(* is there while execute_S runs and is removed once by on_exit_S.  An     *)
(* execute_S or a condition that raises does not change that.              *)
HooksBalance ==
  ~torn /\ call \notin {"exit", "enter"} => active = Lineage(state)

(* A state is entered inside its parent: when on_enter_S or execute_S runs *)
(* the hooks of all the states around S have run.                          *)
EnteredInside ==
  ~torn /\ call # "exit" => Closed(active)
=============================================================================
