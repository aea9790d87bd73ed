------------------------- MODULE StateMachineProofs -------------------------
(***************************************************************************)
(* Proofs about StateMachine for every hierarchy of states.  The invariant *)
(* follows a transition through its two loops: while states are left, the  *)
(* active states are those shared with the target and those whose on_exit  *)
(* is pending; while states are entered, the target's lineage less those   *)
(* whose on_enter is pending.                                              *)
(***************************************************************************)
EXTENDS StateMachine, TLAPS

(* What is active, by what the machine is doing.                           *)
Shared == Lineage(state) \cap Lineage(target)

Balance ==
  ~torn =>
    /\ call \in {"idle", "execute", "compare"} => active = Lineage(state)
    /\ call = "exit" =>
         /\ pending \subseteq Lineage(state) \ Lineage(target)
         /\ active = Shared \cup pending
    /\ call = "enter" =>
         /\ pending \subseteq Lineage(target) \ Lineage(state)
         /\ active = Lineage(target) \ pending
         /\ Closed(active)

IInv == TypeOK /\ Balance

-----------------------------------------------------------------------------
(* Lineages are sets of states.                                            *)
LEMMA LineageStates == \A s : Lineage(s) \subseteq States
  BY DEF Lineage

(* The lineage of a state holds it and, with a state, its parent.          *)
LEMMA LineageSelf == ASSUME NEW s \in States PROVE s \in Lineage(s)
  BY HierarchyAssumption DEF Lineage

LEMMA LineageClosed == \A s : Closed(Lineage(s))
<1> SUFFICES ASSUME NEW s, NEW u \in Lineage(s), Parent[u] # None
             PROVE  Parent[u] \in Lineage(s)
  BY DEF Closed
<1>1. s # None /\ u \in States /\ Parent[u] \in States
  BY HierarchyAssumption DEF Lineage
<1>2. ASSUME NEW U \in SUBSET States, s \in U, Closed(U) PROVE Parent[u] \in U
  <2>1. u \in U
    BY <1>1, <1>2 DEF Lineage
  <2> QED BY <2>1, <1>2 DEF Closed
<1> QED BY <1>1, <1>2 DEF Lineage

(* A parent is another state: the hierarchy has no cycles.                 *)
LEMMA ParentIsOther ==
  ASSUME NEW s \in States, Parent[s] # None PROVE Parent[s] # s
<1>1. Parent[s] \in States
  BY HierarchyAssumption
<1>2. Parent[s] \in Lineage(Parent[s])
  BY <1>1, LineageSelf
<1> QED BY <1>2, HierarchyAssumption

(* Closed sets have closed intersections and, without a state whose parent *)
(* is not missing, closed extensions.                                      *)
LEMMA ClosedMeet ==
  ASSUME NEW U, NEW V, Closed(U), Closed(V) PROVE Closed(U \cap V)
  BY DEF Closed

LEMMA ClosedPlus ==
  ASSUME NEW U, NEW s, Closed(U), Parent[s] # None => Parent[s] \in U
  PROVE  Closed(U \cup {s})
  BY DEF Closed
-----------------------------------------------------------------------------
(* The types are invariant.                                                *)
LEMMA TypeStep == TypeOK /\ [Next]_vars => TypeOK'
<1> SUFFICES ASSUME TypeOK, [Next]_vars PROVE TypeOK'
  OBVIOUS
<1> USE HierarchyAssumption DEF TypeOK, Calls
<1>1. CASE Spin
  BY <1>1, LineageStates, Zenon DEF Spin, BeginSpin
<1>2. CASE SpinAgain
  BY <1>2, LineageStates, Zenon DEF SpinAgain, BeginSpin
<1>3. CASE Begin
  BY <1>3, LineageStates DEF Begin, Transition, Leaves
<1>4. CASE Stay \/ SpinEnds
  BY <1>4 DEF Stay, SpinEnds
<1>5. CASE Exited
  BY <1>5, LineageStates DEF Exited
<1>6. CASE Entered
  BY <1>6 DEF Entered
<1>7. CASE Raise
  BY <1>7 DEF Raise
<1>8. ASSUME NEW s \in States, Execute(s) \/ Take(s) \/ Exit(s) \/ Enter(s) \/ Order(s)
      PROVE  TypeOK'
  <2>1. CASE Execute(s)
    BY <2>1 DEF Execute
  <2>2. CASE Take(s)
    BY <2>2, LineageStates DEF Take, Transition, Leaves
  <2>3. CASE Exit(s)
    BY <2>3 DEF Exit
  <2>4. CASE Enter(s)
    BY <2>4 DEF Enter
  <2>5. CASE Order(s)
    BY <2>5, LineageStates DEF Order, Transition, Leaves
  <2> QED BY <1>8, <2>1, <2>2, <2>3, <2>4, <2>5
<1>9. CASE UNCHANGED vars
  BY <1>9 DEF vars
<1> QED BY <1>1, <1>2, <1>3, <1>4, <1>5, <1>6, <1>7, <1>8, <1>9 DEF Next

(* A transition starts with everything active that the state is in.        *)
LEMMA TransitionBalance ==
  ASSUME NEW t \in States, Transition(t), ~torn => active = Lineage(state)
  PROVE  Balance'
<1>1. state' = state /\ target' = t /\ torn' = torn /\ active' = active
      /\ pending' = Lineage(state) \ Lineage(t) /\ call' = "exit"
  BY DEF Transition, Leaves
<1>2. Lineage(state') = Lineage(state) /\ Lineage(target') = Lineage(t)
  BY <1>1
<1> QED BY <1>1, <1>2 DEF Balance, Shared

(* The balance is invariant.                                               *)
LEMMA BalanceStep == IInv /\ [Next]_vars => Balance'
<1> SUFFICES ASSUME TypeOK, Balance, [Next]_vars PROVE Balance'
  BY DEF IInv
<1>1. CASE Spin \/ SpinAgain
  BY <1>1 DEF Spin, SpinAgain, BeginSpin, Balance
<1>2. CASE Begin
  BY <1>2, TransitionBalance, HierarchyAssumption DEF Begin, Balance
<1>3. CASE Stay \/ SpinEnds
  BY <1>3 DEF Stay, SpinEnds, Balance
<1>4. CASE Exited
  <2>1. call = "exit" /\ pending = {} /\ call' = "enter"
        /\ UNCHANGED <<state, target, active, torn>>
        /\ pending' = Lineage(target) \ Lineage(state)
    BY <1>4 DEF Exited
  <2>2. Lineage(state') = Lineage(state) /\ Lineage(target') = Lineage(target)
    BY <2>1
  <2>3. Closed(Shared)
    BY LineageClosed, ClosedMeet DEF Shared
  <2>4. ~torn => active = Shared
    BY <2>1 DEF Balance
  <2>5. Closed(active)' <=> Closed(active)
    BY <2>1 DEF Closed
  <2> QED BY <2>1, <2>2, <2>3, <2>4, <2>5 DEF Balance, Shared
<1>5. CASE Entered
  BY <1>5 DEF Entered, Balance
<1>6. CASE Raise
  BY <1>6 DEF Raise, Balance
<1>7. ASSUME NEW s \in States, Execute(s) PROVE Balance'
  BY <1>7 DEF Execute, Balance
<1>8. ASSUME NEW s \in States, Take(s) \/ Order(s) PROVE Balance'
  BY <1>8, TransitionBalance DEF Take, Order, Balance
<1>9. ASSUME NEW s \in States, Exit(s) PROVE Balance'
  <2>1. call = "exit" /\ s \in pending /\ UNCHANGED <<state, target, call, torn>>
        /\ pending' = pending \ {s} /\ active' = active \ {s}
    BY <1>9 DEF Exit, Outermost
  <2>2. Lineage(state') = Lineage(state) /\ Lineage(target') = Lineage(target)
    BY <2>1
  <2> QED BY <2>1, <2>2 DEF Balance, Shared
<1>10. ASSUME NEW s \in States, Enter(s) PROVE Balance'
  <2>1. call = "enter" /\ Outermost(s) /\ UNCHANGED <<state, target, call, torn>>
        /\ pending' = pending \ {s} /\ active' = active \cup {s}
    BY <1>10 DEF Enter
  <2>2. Lineage(state') = Lineage(state) /\ Lineage(target') = Lineage(target)
    BY <2>1
  <2>3. SUFFICES ASSUME ~torn
        PROVE /\ pending' \subseteq Lineage(target) \ Lineage(state)
              /\ active' = Lineage(target) \ pending'
              /\ Closed(active')
    BY <2>1, <2>2 DEF Balance, Closed
  <2>4. /\ pending \subseteq Lineage(target) \ Lineage(state)
        /\ active = Lineage(target) \ pending
        /\ Closed(active)
    BY <2>1, <2>3 DEF Balance
  <2>5. s \in pending /\ s \in Lineage(target)
    BY <2>1, <2>4 DEF Outermost
  <2>6. Parent[s] # None => Parent[s] \in active
    <3>1. SUFFICES ASSUME Parent[s] # None PROVE Parent[s] \in active
      OBVIOUS
    <3>2. Parent[s] \in Lineage(target) /\ Parent[s] \in Lineage(s)
      BY <3>1, <2>5, LineageClosed, LineageSelf DEF Closed
    <3>3. Parent[s] \notin pending
      BY <3>1, <3>2, <2>1, ParentIsOther DEF Outermost
    <3> QED BY <3>2, <3>3, <2>4
  <2>7. Closed(active \cup {s})
    BY <2>4, <2>6, ClosedPlus
  <2> QED BY <2>1, <2>4, <2>5, <2>7
<1>11. CASE UNCHANGED vars
  BY <1>11 DEF vars, Balance, Shared, Closed
<1> QED
  BY <1>1, <1>2, <1>3, <1>4, <1>5, <1>6, <1>7, <1>8, <1>9, <1>10, <1>11 DEF Next
-----------------------------------------------------------------------------
(* The invariant holds of every behaviour.                                 *)
THEOREM Invariant == Spec => []IInv
<1>1. Init => IInv
  BY DEF Init, IInv, TypeOK, Balance, Calls, Lineage
<1>2. IInv /\ [Next]_vars => IInv'
  BY TypeStep, BalanceStep DEF IInv
<1> QED BY <1>1, <1>2, PTL DEF Spec

(* The variables of the machine keep their types.                          *)
THEOREM TypeCorrect == Spec => []TypeOK
<1>1. IInv => TypeOK
  BY DEF IInv
<1> QED BY <1>1, Invariant, PTL

(* For every hierarchy, set of transitions and order of calls, each        *)
(* on_enter_S is matched by one on_exit_S: between transitions the states  *)
(* entered and not left are the current state and those it is in.          *)
THEOREM HooksAreBalanced == Spec => []HooksBalance
<1>1. IInv => HooksBalance
  <2>1. SUFFICES ASSUME IInv, ~torn, call \notin {"exit", "enter"}
        PROVE active = Lineage(state)
    BY DEF HooksBalance
  <2>2. call \in {"idle", "execute", "compare"}
    BY <2>1 DEF IInv, TypeOK, Calls
  <2> QED BY <2>1, <2>2 DEF IInv, Balance
<1> QED BY <1>1, Invariant, PTL

(* Every state is entered after its parent, in every hierarchy.            *)
THEOREM StatesAreEnteredInside == Spec => []EnteredInside
<1>1. IInv => EnteredInside
  <2>1. SUFFICES ASSUME IInv, ~torn, call # "exit" PROVE Closed(active)
    BY DEF EnteredInside
  <2>2. CASE call = "enter"
    BY <2>1, <2>2 DEF IInv, Balance
  <2>3. CASE call # "enter"
    <3>1. call \in {"idle", "execute", "compare"}
      BY <2>1, <2>3 DEF IInv, TypeOK, Calls
    <3>2. active = Lineage(state)
      BY <2>1, <3>1 DEF IInv, Balance
    <3>3. Closed(Lineage(state))
      BY LineageClosed
    <3> QED BY <3>2, <3>3, Zenon
  <2> QED BY <2>2, <2>3
<1> QED BY <1>1, Invariant, PTL
=============================================================================
