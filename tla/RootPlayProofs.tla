---------------------------- MODULE RootPlayProofs ----------------------------
(***************************************************************************)
(* Theorems about RootPlay, for every set of plays and goalies.  Under     *)
(* Spec, with the watcher's thread between any two steps: the types, and   *)
(* that a play whose new class is registered is replaced before a frame    *)
(* spins it.                                                               *)
(* Under SpecMain: the tree agrees with the fields, no exception reaches   *)
(* the top, and what failed is not chosen again at once.                   *)
(***************************************************************************)
EXTENDS RootPlay, SequenceTheorems, TLAPS

(* Where a thread is: in a frame or a callback, in a method called from    *)
(* there, or in drop_goalie_behavior() as the play's setter calls it.      *)
Places    == {"idle", "execute", "wasStopped", "unlist", "current", "judge", "choose", "chosen",
              "roles", "assignRoles", "spin", "spinning", "thenGoalie", "register", "unregister", "dead"}
PlayPcs   == {"set", "remove", "clear", "assign", "add"}
GoaliePcs == {"dropGoalie", "removeGoalie", "setup", "unsetGoalie", "handles", "addGoalie", "shell"}

ThreadType == [pc : Places \cup PlayPcs \cup GoaliePcs, val : Class \cup {NoClass},
               callers : Seq(Places \cup {"add"})]

Depth(t) == Len(th[t].callers)

(* The place in the frame or callback at or under which the thread is.     *)
Place(t) == IF th[t].callers = <<>> THEN th[t].pc ELSE th[t].callers[Len(th[t].callers)]

StackOK(t) ==
  \/ th[t].callers = <<>> /\ th[t].pc \in Places
  \/ \E l \in Places : th[t].callers = <<l>> /\ th[t].pc \in PlayPcs \cup GoaliePcs
  \/ \E l \in Places : th[t].callers = <<"add", l>> /\ th[t].pc \in GoaliePcs

ThreadsOK == th \in [Threads -> ThreadType] /\ \A t \in Threads : StackOK(t)
-----------------------------------------------------------------------------
(* What the stacks look like at each depth.                                *)
LEMMA StackFacts ==
  ASSUME ThreadsOK, NEW t \in Threads
  PROVE  /\ Depth(t) \in {0, 1, 2}
         /\ Depth(t) = 0 => /\ th[t].callers = <<>> /\ th[t].pc \in Places /\ Place(t) = th[t].pc
         /\ Depth(t) = 1 => /\ th[t].callers = <<Place(t)>> /\ th[t].pc \in PlayPcs \cup GoaliePcs
                            /\ Place(t) \in Places
         /\ Depth(t) = 2 => /\ th[t].callers = <<"add", Place(t)>> /\ th[t].pc \in GoaliePcs
                            /\ Place(t) \in Places
<1>1. CASE th[t].callers = <<>> /\ th[t].pc \in Places
  BY <1>1 DEF Depth, Place
<1>2. ASSUME NEW l \in Places, th[t].callers = <<l>>, th[t].pc \in PlayPcs \cup GoaliePcs
      PROVE  Depth(t) = 1 /\ Place(t) = l
  BY <1>2 DEF Depth, Place
<1>3. ASSUME NEW l \in Places, th[t].callers = <<"add", l>>, th[t].pc \in GoaliePcs
      PROVE  Depth(t) = 2 /\ Place(t) = l
  BY <1>3 DEF Depth, Place
<1>4. th[t].callers = <<>> => Depth(t) = 0
  BY DEF Depth
<1> QED BY <1>1, <1>2, <1>3, <1>4 DEF ThreadsOK, StackOK

(* A thread whose record is replaced. *)
LEMMA Replaced ==
  ASSUME ThreadsOK, NEW t \in Threads, NEW r \in ThreadType,
         th' = [th EXCEPT ![t] = r], StackOK(t)'
  PROVE  /\ ThreadsOK' /\ th'[t] = r
         /\ \A u \in Threads \ {t} : th'[u] = th[u]
<1>1. th' \in [Threads -> ThreadType] /\ th'[t] = r /\ \A u \in Threads \ {t} : th'[u] = th[u]
  BY DEF ThreadsOK
<1>2. ASSUME NEW u \in Threads PROVE StackOK(u)'
  BY <1>1 DEF ThreadsOK, StackOK
<1> QED BY <1>1, <1>2 DEF ThreadsOK

(* Goto stays at its depth.                                                *)
LEMMA GotoFacts ==
  ASSUME ThreadsOK, NEW t \in Threads, NEW l, Goto(t, l),
         \/ Depth(t) = 0 /\ l \in Places
         \/ Depth(t) = 1 /\ l \in PlayPcs \cup GoaliePcs
         \/ Depth(t) = 2 /\ l \in GoaliePcs
  PROVE  /\ ThreadsOK' /\ th'[t].pc = l /\ th'[t].val = th[t].val
         /\ Depth(t)' = Depth(t) /\ Place(t)' = IF Depth(t) = 0 THEN l ELSE Place(t)
         /\ \A u \in Threads \ {t} : th'[u] = th[u]
<1> DEFINE r == [th[t] EXCEPT !.pc = l]
<1>1. th[t] \in ThreadType
  BY DEF ThreadsOK
<1>2. r \in ThreadType /\ r.pc = l /\ r.val = th[t].val /\ r.callers = th[t].callers
  BY <1>1 DEF ThreadType
<1>3. th' = [th EXCEPT ![t] = r]
  BY DEF Goto
<1>4. th'[t] = r
  BY <1>3 DEF ThreadsOK
<1> HIDE DEF r
<1>5. StackOK(t)'
  BY <1>2, <1>4, StackFacts DEF StackOK
<1>6. ThreadsOK' /\ \A u \in Threads \ {t} : th'[u] = th[u]
  BY <1>2, <1>3, <1>5, Replaced
<1>7. Depth(t)' = Depth(t) /\ Place(t)' = IF Depth(t) = 0 THEN l ELSE Place(t)
  BY <1>2, <1>4, StackFacts DEF Depth, Place
<1> QED BY <1>2, <1>4, <1>6, <1>7

(* A call from the frame or a callback. *)
LEMMA CallFacts ==
  ASSUME ThreadsOK, NEW t \in Threads, NEW m \in PlayPcs \cup GoaliePcs,
         NEW v \in Class \cup {NoClass}, NEW l \in Places, Call(t, m, v, l), Depth(t) = 0
  PROVE  /\ ThreadsOK' /\ th'[t].pc = m /\ th'[t].val = v
         /\ Depth(t)' = 1 /\ Place(t)' = l
         /\ \A u \in Threads \ {t} : th'[u] = th[u]
<1> DEFINE r == [pc |-> m, val |-> v, callers |-> <<l>>]
<1>1. th[t].callers = <<>> /\ <<l>> \o <<>> = <<l>>
  BY StackFacts
<1>2. r \in ThreadType /\ th' = [th EXCEPT ![t] = r]
  BY <1>1 DEF ThreadType, Call
<1>3. th'[t] = r
  BY <1>2 DEF ThreadsOK
<1>4. StackOK(t)'
  BY <1>3 DEF StackOK
<1>5. ThreadsOK' /\ \A u \in Threads \ {t} : th'[u] = th[u]
  BY <1>2, <1>4, Replaced
<1>6. Depth(t)' = 1 /\ Place(t)' = l
  BY <1>3 DEF Depth, Place
<1> QED BY <1>3, <1>5, <1>6

(* The play's setter calls drop_goalie_behavior(). *)
LEMMA NestFacts ==
  ASSUME ThreadsOK, NEW t \in Threads, Depth(t) = 1,
         NEW m \in GoaliePcs, NEW v \in Class \cup {NoClass}, Call(t, m, v, "add")
  PROVE  /\ ThreadsOK' /\ th'[t].pc = m /\ th'[t].val = v
         /\ Depth(t)' = 2 /\ Place(t)' = Place(t)
         /\ \A u \in Threads \ {t} : th'[u] = th[u]
<1> DEFINE r == [pc |-> m, val |-> v, callers |-> <<"add", Place(t)>>]
<1>1. th[t].callers = <<Place(t)>> /\ Place(t) \in Places
  BY StackFacts
<1>a. \A x \in Places : <<"add">> \o <<x>> = <<"add", x>> /\ <<"add", x>> \in Seq(Places \cup {"add"})
  <2> SUFFICES ASSUME NEW x \in Places
               PROVE  <<"add">> \o <<x>> = <<"add", x>> /\ <<"add", x>> \in Seq(Places \cup {"add"})
    OBVIOUS
  <2> DEFINE S == Places \cup {"add"}
             a == <<"add">> \o <<x>>
             b == <<"add", x>>
  <2>1. <<"add">> \in Seq(S) /\ <<x>> \in Seq(S) /\ b \in Seq(S)
    OBVIOUS
  <2>2. a \in Seq(S) /\ Len(a) = 2 /\ a[1] = "add" /\ a[2] = x
    BY <2>1, ConcatProperties
  <2>3. Len(b) = 2 /\ b[1] = "add" /\ b[2] = x
    OBVIOUS
  <2> HIDE DEF S, a, b
  <2>4. Len(a) = Len(b) /\ \A i \in 1 .. Len(a) : a[i] = b[i]
    BY <2>2, <2>3
  <2>5. a = b
    BY <2>1, <2>2, <2>4, SeqEqual
  <2> QED BY <2>1, <2>5 DEF S, a, b
<1>b. <<"add">> \o th[t].callers = <<"add", Place(t)>> /\ <<"add", Place(t)>> \in Seq(Places \cup {"add"})
  BY <1>1, <1>a
<1>2. r \in ThreadType /\ th' = [th EXCEPT ![t] = r]
  BY <1>1, <1>b DEF ThreadType, Call
<1>3. th'[t] = r
  BY <1>2 DEF ThreadsOK
<1>4. StackOK(t)'
  BY <1>1, <1>3 DEF StackOK
<1>5. ThreadsOK' /\ \A u \in Threads \ {t} : th'[u] = th[u]
  BY <1>2, <1>4, Replaced
<1>6. Depth(t)' = 2 /\ Place(t)' = Place(t)
  BY <1>3 DEF Depth, Place
<1> QED BY <1>3, <1>5, <1>6

(* A return goes to the place, or back to the setter.                      *)
LEMMA ReturnFacts ==
  ASSUME ThreadsOK, NEW t \in Threads, Return(t), Depth(t) # 0
  PROVE  /\ ThreadsOK' /\ Place(t)' = Place(t) /\ Depth(t)' = Depth(t) - 1
         /\ \A u \in Threads \ {t} : th'[u] = th[u]
         /\ th'[t].pc = IF Depth(t) = 1 THEN Place(t) ELSE "add"
         /\ th'[t].val = IF Depth(t) = 1 THEN NoClass ELSE th[t].val
<1> DEFINE r == [pc |-> Head(th[t].callers),
                 val |-> IF Len(th[t].callers) = 1 THEN NoClass ELSE th[t].val,
                 callers |-> Tail(th[t].callers)]
<1>1. th[t] \in ThreadType /\ th' = [th EXCEPT ![t] = r]
  BY DEF ThreadsOK, Return
<1>2. /\ r.pc = IF Depth(t) = 1 THEN Place(t) ELSE "add"
      /\ r.val = IF Depth(t) = 1 THEN NoClass ELSE th[t].val
      /\ r.callers = IF Depth(t) = 1 THEN <<>> ELSE <<Place(t)>>
      /\ Place(t) \in Places /\ Depth(t) \in {1, 2}
  <2>1. \A x \in Places :
          /\ Head(<<x>>) = x /\ Tail(<<x>>) = <<>>
          /\ Head(<<"add", x>>) = "add" /\ Tail(<<"add", x>>) = <<x>>
    OBVIOUS
  <2>2. CASE Depth(t) = 1
    BY <2>1, <2>2, StackFacts DEF Depth
  <2>3. CASE Depth(t) = 2
    BY <2>1, <2>3, StackFacts DEF Depth
  <2> QED BY <2>2, <2>3, StackFacts
<1>3. r \in ThreadType
  <2>1. \A x \in Places : <<x>> \in Seq(Places \cup {"add"}) /\ <<>> \in Seq(Places \cup {"add"})
    OBVIOUS
  <2>2. r.callers \in Seq(Places \cup {"add"})
    BY <1>2, <2>1
  <2>3. r.pc \in Places \cup PlayPcs \cup GoaliePcs /\ r.val \in Class \cup {NoClass}
    BY <1>1, <1>2 DEF ThreadType, PlayPcs
  <2> QED BY <2>2, <2>3 DEF ThreadType
<1>4. th'[t] = r
  BY <1>1 DEF ThreadsOK
<1> HIDE DEF r
<1>5. StackOK(t)'
  BY <1>2, <1>4 DEF StackOK, PlayPcs
<1>6. ThreadsOK' /\ \A u \in Threads \ {t} : th'[u] = th[u]
  BY <1>1, <1>3, <1>5, Replaced
<1>7. Place(t)' = Place(t) /\ Depth(t)' = Depth(t) - 1
  <2>1. CASE Depth(t) = 1
    BY <1>2, <1>4, <2>1 DEF Depth, Place
  <2>2. CASE Depth(t) = 2
    <3>1. th'[t].callers = <<Place(t)>>
      BY <1>2, <1>4, <2>2
    <3> QED BY <2>2, <3>1 DEF Depth, Place
  <2> QED BY <1>2, <2>1, <2>2
<1> QED BY <1>2, <1>4, <1>6, <1>7

(* An exception. *)
LEMMA RaiseFacts ==
  ASSUME ThreadsOK, NEW t \in Threads, Raise(t)
  PROVE  /\ ThreadsOK' /\ Depth(t)' = 0 /\ th'[t].val = NoClass
         /\ th'[t].pc \in {"roles", "idle", "dead"} /\ Place(t)' = th'[t].pc
         /\ th'[t].pc = "roles" => Caught(t)
         /\ \A u \in Threads \ {t} : th'[u] = th[u]
<1> DEFINE p == IF Caught(t) THEN "roles" ELSE IF t = Main THEN "idle" ELSE "dead"
           r == [pc |-> p, val |-> NoClass, callers |-> <<>>]
<1>1. th[t] \in ThreadType
  BY DEF ThreadsOK
<1> HIDE DEF p
<1>a. p \in {"roles", "idle", "dead"} /\ (p = "roles" => Caught(t))
  BY DEF p
<1>b. th' = [th EXCEPT ![t].pc = p, ![t].val = NoClass, ![t].callers = <<>>]
  BY DEF Raise, p
<1>c. [[[th[t] EXCEPT !.pc = p] EXCEPT !.val = NoClass] EXCEPT !.callers = <<>>] = r
  <2>1. PICK a, v, c : th[t] = [pc |-> a, val |-> v, callers |-> c]
    BY <1>1 DEF ThreadType
  <2>2. /\ [th[t] EXCEPT !.pc = p] = [pc |-> p, val |-> v, callers |-> c]
        /\ [[pc |-> p, val |-> v, callers |-> c] EXCEPT !.val = NoClass]
             = [pc |-> p, val |-> NoClass, callers |-> c]
        /\ [[pc |-> p, val |-> NoClass, callers |-> c] EXCEPT !.callers = <<>>] = r
    BY <2>1
  <2> QED BY <2>2
<1>2. th' = [th EXCEPT ![t] = r] /\ r \in ThreadType
  <2>1. r \in ThreadType
    BY <1>a DEF ThreadType, Places
  <2>2. th' = [th EXCEPT ![t] = r]
    BY <1>1, <1>b, <1>c DEF ThreadsOK, ThreadType
  <2> QED BY <2>1, <2>2
<1>3. th'[t] = r
  BY <1>2 DEF ThreadsOK
<1>4. StackOK(t)'
  BY <1>a, <1>3 DEF StackOK, Places
<1>5. ThreadsOK' /\ \A u \in Threads \ {t} : th'[u] = th[u]
  BY <1>2, <1>4, Replaced
<1> QED BY <1>a, <1>3, <1>5 DEF Depth, Place

(* The depth follows from where a thread is. *)
LEMMA DepthFacts ==
  ASSUME ThreadsOK, NEW t \in Threads
  PROVE  /\ th[t].pc \in Places => Depth(t) = 0
         /\ th[t].pc \in PlayPcs => Depth(t) = 1
         /\ th[t].pc \in GoaliePcs => Depth(t) \in {1, 2}
  BY StackFacts DEF Places, PlayPcs, GoaliePcs
-----------------------------------------------------------------------------
(* Types and threads, whatever the two threads do.  The watcher's calls of *)
(* the setter are all with None.                                           *)
Values ==
  /\ phase \in Phases /\ applicable \subseteq Plays
  /\ version \in [Plays -> 1 .. MaxVersion] /\ play_class \in [Plays -> 1 .. MaxVersion]
  /\ enabled \subseteq registered /\ registered \subseteq Plays
  /\ play \in Class \cup {NoClass} /\ playSub \in Class \cup {NoClass}
  /\ blacklist \in Class \cup {NoClass} /\ asked \in Class \cup {NoClass}
  /\ goalieId \in GoalieIds \cup {None}
  /\ goalieSub \in GoalieIds \cup {None, Absent}
  /\ choices \subseteq Class /\ todo \subseteq {"play", "goalie"}

Flags == {playDone, restarting, aborted, owed} \subseteq BOOLEAN

Base == Values /\ Flags /\ ThreadsOK /\ th[Watcher].val = NoClass

LEMMA TypeParts == Values /\ Flags => TypeOK
<1>1. Flags => playDone \in BOOLEAN /\ restarting \in BOOLEAN /\ aborted \in BOOLEAN /\ owed \in BOOLEAN
  BY Zenon DEF Flags
<1>2. Values => {play, playSub, blacklist, asked} \subseteq Class \cup {NoClass}
  BY DEF Values
<1>3. Values => {version, play_class} \subseteq [Plays -> 1 .. MaxVersion]
  BY DEF Values
<1> QED BY <1>1, <1>2, <1>3, Zenon DEF Values, TypeOK

LEMMA BaseInit == Init => Base
<1> SUFFICES ASSUME Init PROVE Base
  OBVIOUS
<1>1. Values
  BY PlayAssumption DEF Init, Values, Phases
<1>2. Flags
  BY Zenon DEF Init, Flags
<1>3. \A t \in Threads : th[t] = [pc |-> "idle", val |-> NoClass, callers |-> <<>>]
  BY DEF Init
<1>4. ThreadsOK
  <2>1. [pc |-> "idle", val |-> NoClass, callers |-> <<>>] \in ThreadType
    BY DEF ThreadType, Places
  <2>2. th \in [Threads -> ThreadType]
    BY <2>1 DEF Init
  <2> QED BY <1>3, <2>2 DEF ThreadsOK, StackOK, Places
<1> QED BY <1>1, <1>2, <1>3, <1>4 DEF Base, Threads

(* What a step of a thread must keep of its own and the other's record.    *)
Moved(t) == /\ ThreadsOK'
            /\ t = Main => th'[Watcher] = th[Watcher]
            /\ t = Watcher => th'[Main] = th[Main]

LEMMA MethodThreads ==
  ASSUME Base, NEW t \in Threads, Method(t)
  PROVE  Moved(t) /\ (th[t].val = NoClass => th'[t].val = NoClass)
<1> USE DEF At, Base, Moved, PlayPcs, GoaliePcs
<1>0. /\ Main \in Threads /\ Watcher \in Threads /\ Main # Watcher
      /\ th[t].val \in Class \cup {NoClass}
  BY PlayAssumption DEF Threads, ThreadsOK, ThreadType
<1>1. CASE SetPlay(t)
  BY <1>0, <1>1, DepthFacts, GotoFacts DEF SetPlay
<1>2. CASE RemovePlay(t)
  BY <1>0, <1>2, DepthFacts, GotoFacts, RaiseFacts DEF RemovePlay, StepOr
<1>3. CASE ClearPlay(t)
  BY <1>0, <1>3, DepthFacts, GotoFacts DEF ClearPlay
<1>4. CASE AssignPlay(t)
  BY <1>0, <1>4, DepthFacts, GotoFacts, NestFacts DEF AssignPlay
<1>5. CASE AddPlay(t)
  BY <1>0, <1>5, DepthFacts, GotoFacts, RaiseFacts DEF AddPlay, StepOr
<1>6. CASE DropGoalie(t)
  BY <1>0, <1>6, DepthFacts, GotoFacts DEF DropGoalie
<1>7. CASE RemoveGoalie(t)
  BY <1>0, <1>7, DepthFacts, GotoFacts, RaiseFacts DEF RemoveGoalie, StepOr
<1>8. CASE SetupGoalie(t)
  BY <1>0, <1>8, DepthFacts, GotoFacts, ReturnFacts DEF SetupGoalie
<1>9. CASE UnsetGoalie(t)
  BY <1>0, <1>9, DepthFacts, RaiseFacts, ReturnFacts DEF UnsetGoalie
<1>10. CASE AskPlay(t)
  BY <1>0, <1>10, DepthFacts, GotoFacts, RaiseFacts, ReturnFacts DEF AskPlay
<1>11. CASE AddGoalie(t)
  BY <1>0, <1>11, DepthFacts, GotoFacts, RaiseFacts DEF AddGoalie, StepOr
<1>12. CASE SetShell(t)
  BY <1>0, <1>12, DepthFacts, ReturnFacts DEF SetShell
<1> QED BY <1>1, <1>2, <1>3, <1>4, <1>5, <1>6, <1>7, <1>8, <1>9, <1>10, <1>11, <1>12 DEF Method

LEMMA MethodValues ==
  ASSUME Base, NEW t \in Threads, Method(t) PROVE Values'
<1> USE DEF Base, Values, Absent, envVars, registryVars, playVars, goalieVars, frameVars, historyVars
<1>0. th[t].val \in Class \cup {NoClass}
  BY DEF ThreadsOK, ThreadType
<1>1. UNCHANGED <<envVars, registryVars, blacklist, frameVars, asked>>
  BY DEF Method
<1>2. play' \in Class \cup {NoClass} /\ playSub' \in Class \cup {NoClass}
  BY <1>0 DEF Method, SetPlay, RemovePlay, ClearPlay, AssignPlay, AddPlay, DropGoalie, RemoveGoalie,
              SetupGoalie, UnsetGoalie, AskPlay, AddGoalie, SetShell
<1>3. goalieId' = goalieId /\ goalieSub' \in GoalieIds \cup {None, Absent}
  BY DEF Method, SetPlay, RemovePlay, ClearPlay, AssignPlay, AddPlay, DropGoalie, RemoveGoalie,
         SetupGoalie, UnsetGoalie, AskPlay, AddGoalie, SetShell
<1> QED BY <1>1, <1>2, <1>3

LEMMA RaiseFlag == ASSUME NEW t, Raise(t), aborted \in BOOLEAN PROVE aborted' \in BOOLEAN
  BY Zenon DEF Raise

LEMMA MethodFlags ==
  ASSUME Base, NEW t \in Threads, Method(t) PROVE Flags'
<1> USE DEF playVars, goalieVars, historyVars
<1>0. playDone \in BOOLEAN /\ restarting \in BOOLEAN /\ aborted \in BOOLEAN /\ owed \in BOOLEAN
  BY Zenon DEF Base, Flags
<1>1. UNCHANGED <<restarting, owed>>
  BY DEF Method
<1>2. playDone' \in BOOLEAN
  BY <1>0, Zenon DEF Method, SetPlay, RemovePlay, ClearPlay, AssignPlay, AddPlay, DropGoalie,
       RemoveGoalie, SetupGoalie, UnsetGoalie, AskPlay, AddGoalie, SetShell
<1>3. aborted' \in BOOLEAN
  BY <1>0, RaiseFlag, Zenon DEF Method, SetPlay, RemovePlay, ClearPlay, AssignPlay, AddPlay,
       DropGoalie, RemoveGoalie, SetupGoalie, UnsetGoalie, AskPlay, AddGoalie, SetShell, StepOr
<1> QED BY <1>0, <1>1, <1>2, <1>3, Zenon DEF Flags

LEMMA Unmoved ==
  ASSUME ThreadsOK, th' = th PROVE ThreadsOK'
  BY DEF ThreadsOK, StackOK

LEMMA SelectThreads == ASSUME Base, Select PROVE Moved(Main)
<1> USE DEF At, Base, Moved, PlayPcs, Places
<1>0. /\ Main \in Threads /\ Watcher \in Threads /\ Main # Watcher
      /\ choices \subseteq Class /\ ModuleClass(Stopped) \in Class
  BY PlayAssumption DEF Threads, Values, ModuleClass, Class
<1>1. CASE RunStopped \/ RunHalted \/ Terminate \/ Finished
  <2>1. th[Main].pc \in Places
    BY <1>1 DEF RunStopped, RunHalted, Terminate, Finished
  <2> QED BY <1>0, <1>1, <2>1, DepthFacts, GotoFacts, CallFacts
          DEF RunStopped, RunHalted, Terminate, Finished
<1>2. CASE WasStopped \/ Filter \/ Unlist \/ Current \/ Keep \/ ChooseNone \/ CannotConstruct \/ Chosen
  <2>1. th[Main].pc \in Places /\ \E l \in Places : Goto(Main, l)
    BY <1>2 DEF WasStopped, Filter, Unlist, Current, Keep, ChooseNone, CannotConstruct, Chosen
  <2> QED BY <1>0, <2>1, DepthFacts, GotoFacts
<1>3. CASE Choose
  <2>1. th[Main].pc \in Places
    BY <1>3 DEF Choose
  <2>2. PICK c \in Good : Call(Main, "set", c, "chosen")
    BY <1>3 DEF Choose
  <2>3. c \in Class
    BY <1>0, <2>2 DEF Good
  <2> QED BY <1>0, <2>1, <2>2, <2>3, DepthFacts, CallFacts
<1> QED BY <1>1, <1>2, <1>3 DEF Select

LEMMA BehaviorsThreads == ASSUME Base, Behaviors PROVE Moved(Main)
<1> USE DEF At, Base, Moved, PlayPcs, GoaliePcs, Places
<1>0. Main \in Threads /\ Watcher \in Threads /\ Main # Watcher
  BY PlayAssumption DEF Threads
<1>1. CASE RolesFound \/ AssignRoles \/ Spin \/ SpinGone \/ EndFrame
  <2>1. th[Main].pc \in Places
    BY <1>1 DEF RolesFound, AssignRoles, Spin, SpinGone, EndFrame
  <2>2. (\E l \in Places : Goto(Main, l)) \/ Raise(Main)
    BY <1>1 DEF RolesFound, AssignRoles, Spin, SpinGone, EndFrame, StepOr
  <2> QED BY <1>0, <2>1, <2>2, DepthFacts, GotoFacts, RaiseFacts
<1>2. CASE RolesImpossible \/ SpinOne("play") \/ SpinOne("goalie")
  <2>1. th[Main].pc \in Places
    BY <1>2 DEF RolesImpossible, SpinOne
  <2>2. \/ th' = th
        \/ \E m \in PlayPcs \cup GoaliePcs, l \in Places : Call(Main, m, NoClass, l)
    BY <1>2 DEF RolesImpossible, SpinOne, Drop
  <2> QED BY <1>0, <2>1, <2>2, DepthFacts, CallFacts, Unmoved
<1> QED BY <1>1, <1>2 DEF Behaviors

LEMMA WatcherThreads ==
  ASSUME Base, WatcherStep PROVE Moved(Watcher) /\ th'[Watcher].val = NoClass
<1> USE DEF At, Base, Moved, PlayPcs, GoaliePcs, Places
<1>0. Main \in Threads /\ Watcher \in Threads /\ Main # Watcher
  BY PlayAssumption DEF Threads
<1>1. th[Watcher].pc \in Places
  BY DEF WatcherStep, HelperChanged, ThenGoalie, PlayReloaded, RegisterClass, PlayDeleted, Unregister, PlayCreated
<1>2. \/ th' = th
      \/ \E l \in Places : Goto(Watcher, l)
      \/ \E m \in PlayPcs \cup GoaliePcs, l \in Places : Call(Watcher, m, NoClass, l)
  BY DEF WatcherStep, HelperChanged, ThenGoalie, PlayReloaded, RegisterClass, PlayDeleted, Unregister, PlayCreated,
         Drop
<1> QED BY <1>0, <1>1, <1>2, DepthFacts, CallFacts, GotoFacts, Unmoved

LEMMA OtherThreads ==
  ASSUME Base, StartFrame \/ JudgeNothing \/ SetGoalie \/ Configure PROVE Moved(Main)
<1> USE DEF At, Base, Moved, PlayPcs, GoaliePcs, Places
<1>0. Main \in Threads /\ Watcher \in Threads /\ Main # Watcher
  BY PlayAssumption DEF Threads
<1>1. CASE StartFrame
  BY <1>0, <1>1, DepthFacts, GotoFacts DEF StartFrame
<1>2. CASE JudgeNothing
  BY <1>0, <1>2, DepthFacts, RaiseFacts DEF JudgeNothing
<1>3. CASE SetGoalie
  BY <1>0, <1>3, DepthFacts, CallFacts DEF SetGoalie
<1>4. CASE Configure
  BY <1>0, <1>4, Unmoved DEF Configure
<1> QED BY <1>1, <1>2, <1>3, <1>4

LEMMA FrameValues ==
  ASSUME Values, StartFrame \/ Select \/ JudgeNothing \/ SetGoalie \/ Configure PROVE Values'
<1> USE DEF Values, envVars, registryVars, playVars, goalieVars, frameVars, historyVars
<1>1. CASE StartFrame
  BY <1>1, PlayAssumption DEF StartFrame, Phases
<1>2. CASE Select
  <2>1. UNCHANGED <<phase, applicable, version, play_class, registered, enabled, play, playSub, goalieId,
                    goalieSub, todo, asked>>
    BY <1>2 DEF Select
  <2>2. choices' \in {choices, {c \in Enabled : MayRestart(c) /\ c # blacklist}}
    BY <1>2 DEF Select, RunStopped, WasStopped, RunHalted, Filter, Unlist, Current, Terminate,
                Finished, Keep, Choose, ChooseNone, CannotConstruct, Chosen
  <2>3. Enabled \subseteq Class
    BY DEF Enabled, NodeClass, Class
  <2>4. blacklist' \in {blacklist, NoClass}
    BY <1>2 DEF Select, RunStopped, WasStopped, RunHalted, Filter, Unlist, Current, Terminate,
                Finished, Keep, Choose, ChooseNone, CannotConstruct, Chosen
  <2> QED BY <2>1, <2>2, <2>3, <2>4
<1>3. CASE JudgeNothing
  BY <1>3 DEF JudgeNothing
<1>4. CASE SetGoalie
  BY <1>4 DEF SetGoalie
<1>5. CASE Configure
  BY <1>5 DEF Configure
<1> QED BY <1>1, <1>2, <1>3, <1>4, <1>5

LEMMA BehaviorsValues == ASSUME Values, Behaviors PROVE Values'
<1> USE DEF Values, envVars, registryVars, playVars, goalieVars
<1>1. UNCHANGED <<phase, applicable, version, play_class, registered, enabled, play, playSub, goalieId, goalieSub>>
  BY DEF Behaviors, RolesFound, RolesImpossible, AssignRoles, Spin, SpinGone, SpinOne, EndFrame
<1>2. /\ blacklist' \in {blacklist, play} /\ asked' \in {asked, play, NoClass}
      /\ todo' \subseteq todo \/ todo' = Present
  BY DEF Behaviors, RolesFound, RolesImpossible, AssignRoles, Spin, SpinGone, SpinOne, EndFrame, Drop
<1>3. choices' \in {choices, {}}
  BY DEF Behaviors
<1> QED BY <1>1, <1>2, <1>3 DEF Present

LEMMA WatcherValues == ASSUME Values, WatcherStep PROVE Values'
<1> USE DEF Values, envVars, registryVars, playVars, goalieVars, frameVars, historyVars
<1>0. UNCHANGED <<envVars, playVars, goalieVars, frameVars>>
  BY DEF WatcherStep
<1>1. CASE HelperChanged \/ ThenGoalie
  BY <1>0, <1>1 DEF HelperChanged, ThenGoalie, Drop
<1>2. ASSUME NEW n \in Plays, PlayReloaded(n) PROVE Values'
  <2>1. version[n] + 1 \in 1 .. MaxVersion
    BY <1>2, PlayAssumption DEF PlayReloaded
  <2> QED BY <1>0, <1>2, <2>1 DEF PlayReloaded
<1>3. ASSUME NEW n \in Plays,
             RegisterClass(n) \/ PlayDeleted(n) \/ Unregister(n) \/ PlayCreated(n)
      PROVE  Values'
  BY <1>0, <1>3 DEF RegisterClass, PlayDeleted, Unregister, PlayCreated, Drop
<1> QED BY <1>1, <1>2, <1>3 DEF WatcherStep

LEMMA OtherFlags ==
  ASSUME Flags, Select \/ Behaviors \/ StartFrame \/ JudgeNothing \/ SetGoalie \/ Configure
                  \/ WatcherStep
  PROVE  Flags'
<1> USE DEF playVars, historyVars
<1>0. playDone \in BOOLEAN /\ restarting \in BOOLEAN /\ aborted \in BOOLEAN /\ owed \in BOOLEAN
  BY Zenon DEF Flags
<1>1. CASE Select
  <2>1. restarting' \in BOOLEAN /\ owed' \in BOOLEAN /\ playDone' \in BOOLEAN
    BY <1>0, <1>1, Zenon DEF Select, RunStopped, WasStopped, RunHalted, Filter, Unlist, Current,
         Terminate, Finished, Keep, Choose, ChooseNone, CannotConstruct, Chosen
  <2>2. aborted' = aborted
    BY <1>1 DEF Select
  <2> QED BY <1>0, <2>1, <2>2, Zenon DEF Flags
<1>2. CASE Behaviors
  <2>1. aborted' \in BOOLEAN
    BY <1>0, <1>2, RaiseFlag, Zenon DEF Behaviors, RolesFound, RolesImpossible, AssignRoles, Spin,
         SpinGone, SpinOne, EndFrame, StepOr
  <2>2. playDone' \in BOOLEAN
    <3>1. ASSUME NEW b \in {playDone, playDone \/ (play.name # Stopped)} PROVE b \in BOOLEAN
      BY <1>0, <3>1, Zenon
    <3>2. ASSUME NEW n, SpinOne(n) PROVE playDone' \in BOOLEAN
      BY <1>0, <3>2, Zenon DEF SpinOne
    <3> QED BY <1>0, <1>2, <3>2, Zenon DEF Behaviors, RolesFound, RolesImpossible, AssignRoles,
              Spin, SpinGone, EndFrame
  <2>3. restarting' = restarting /\ owed' = owed
    BY <1>2 DEF Behaviors
  <2> QED BY <1>0, <2>1, <2>2, <2>3, Zenon DEF Flags
<1>3. CASE JudgeNothing
  <2>1. aborted' \in BOOLEAN
    BY <1>0, <1>3, RaiseFlag, Zenon DEF JudgeNothing
  <2>2. UNCHANGED <<playDone, restarting, owed>>
    BY <1>3 DEF JudgeNothing
  <2> QED BY <1>0, <2>1, <2>2, Zenon DEF Flags
<1>4. CASE StartFrame \/ SetGoalie \/ Configure \/ WatcherStep
  <2>1. UNCHANGED <<playDone, restarting, aborted, owed>>
    BY <1>4 DEF StartFrame, SetGoalie, Configure, WatcherStep, HelperChanged, ThenGoalie,
                PlayReloaded, RegisterClass, PlayDeleted, Unregister, PlayCreated
  <2> QED BY <1>0, <2>1, Zenon DEF Flags
<1> QED BY <1>1, <1>2, <1>3, <1>4

LEMMA BaseStep == Base /\ [Next]_vars => Base'
<1> SUFFICES ASSUME Base, [Next]_vars PROVE Base'
  OBVIOUS
<1>0. Main \in Threads /\ Watcher \in Threads
  BY DEF Threads
<1>1. ASSUME Moved(Main) PROVE ThreadsOK' /\ th'[Watcher].val = NoClass
  BY <1>1 DEF Moved, Base
<1>2. ASSUME Moved(Watcher), th'[Watcher].val = NoClass PROVE ThreadsOK' /\ th'[Watcher].val = NoClass
  BY <1>2 DEF Moved
<1>3. CASE StartFrame \/ Select \/ JudgeNothing \/ SetGoalie \/ Configure
  BY <1>1, <1>3, FrameValues, OtherFlags, SelectThreads, OtherThreads DEF Base
<1>4. CASE Behaviors
  BY <1>1, <1>4, BehaviorsValues, OtherFlags, BehaviorsThreads DEF Base
<1>5. CASE WatcherStep
  BY <1>2, <1>5, WatcherValues, OtherFlags, WatcherThreads DEF Base
<1>6. CASE Method(Main)
  BY <1>0, <1>1, <1>6, MethodValues, MethodFlags, MethodThreads DEF Base
<1>7. CASE Method(Watcher)
  BY <1>0, <1>2, <1>7, MethodValues, MethodFlags, MethodThreads DEF Base
<1>8. CASE UNCHANGED vars
  <2>1. UNCHANGED <<phase, applicable, version, play_class, registered, enabled, play, playSub, goalieId,
                    goalieSub, blacklist, asked, choices, todo, th, playDone, restarting, aborted, owed>>
    BY <1>8 DEF vars, envVars, registryVars, playVars, goalieVars, frameVars, historyVars
  <2>2. Values' /\ ThreadsOK' /\ th'[Watcher].val = NoClass
    BY <2>1, Unmoved DEF Base, Values
  <2>3. Flags'
    BY <2>1, Zenon DEF Base, Flags
  <2> QED BY <2>2, <2>3 DEF Base
<1> QED BY <1>3, <1>4, <1>5, <1>6, <1>7, <1>8 DEF Next, Frame

(* The play, the goalie's shell, the blacklist and the choices are always  *)
(* of their types, whatever the watcher's thread does between two steps.   *)
THEOREM TypeCorrect == Spec => []TypeOK
<1>1. Init => Base
  BY BaseInit
<1>2. Base /\ [Next]_vars => Base'
  BY BaseStep
<1>3. Base => TypeOK
  BY TypeParts DEF Base
<1> QED BY <1>1, <1>2, <1>3, PTL DEF Spec
-----------------------------------------------------------------------------
(* While no source file changes, only the main thread moves.  Between two  *)
(* steps of a setter the tree may differ from the fields: how, follows     *)
(* from the step, the depth of the calls and the place they were made at.  *)
HandledByPlay == IsPlay(play) /\ HandlesGoalie(play)
Wanted        == IF goalieId = None \/ HandledByPlay THEN Absent ELSE goalieId
Kept          == goalieSub = Absent \/ (goalieId # None /\ goalieSub = goalieId)

PlayTree ==
  LET pc == th[Main].pc  val == th[Main].val IN
  /\ Depth(Main) < 2 /\ pc \notin {"clear", "assign", "add"} => playSub = play
  /\ pc \in {"remove", "clear"} => IsPlay(play)
  /\ pc = "clear" => playSub = NoClass
  /\ pc = "assign" => play = NoClass /\ playSub = NoClass /\ IsPlay(val)
  /\ pc = "add" \/ Depth(Main) = 2 => playSub = NoClass /\ play = val /\ IsPlay(val)
  /\ Depth(Main) = 2 => HandledByPlay
  /\ Depth(Main) # 0 => Place(Main) \notin {"judge", "assignRoles"}
  /\ Depth(Main) # 0 /\ Place(Main) \notin {"wasStopped", "chosen"} => val = NoClass
  /\ pc = "judge" => IsPlay(play)

GoalieTree ==
  LET pc == th[Main].pc IN
  /\ pc \in Places \cup {"set", "remove", "clear"} => goalieSub = Wanted
  /\ pc \in PlayPcs \cup {"dropGoalie", "removeGoalie"} /\ Depth(Main) # 0 => Place(Main) # "idle"
  /\ Depth(Main) = 2 => Place(Main) # "idle"
  /\ pc \in {"assign", "add", "dropGoalie", "removeGoalie"} => Kept
  /\ pc = "setup" /\ Place(Main) # "idle" => Kept
  /\ HandledByPlay => \/ goalieSub = Absent
                      \/ Depth(Main) = 2 /\ pc \in {"dropGoalie", "removeGoalie"}
  /\ pc = "removeGoalie" => goalieSub # Absent
  /\ pc = "unsetGoalie" => goalieId = None /\ goalieSub # Absent /\ Place(Main) = "idle"
  /\ pc = "handles" => IsPlay(play) /\ goalieId # None /\ goalieSub = Absent
  /\ pc = "addGoalie" => ~HandledByPlay /\ goalieId # None /\ goalieSub = Absent
  /\ pc = "shell" => ~HandledByPlay /\ goalieId # None /\ goalieSub # Absent

(* What a frame has still to visit is there when it is visited. *)
TurnTree ==
  LET pc == th[Main].pc IN
  /\ pc = "assignRoles" => todo = Present
  /\ Place(Main) = "spinning" =>
       /\ "goalie" \in todo => goalieSub # Absent /\ pc \notin {"dropGoalie", "removeGoalie"}
       /\ "play" \in todo => IsPlay(playSub) /\ pc \notin PlayPcs

Tree == PlayTree /\ GoalieTree /\ TurnTree /\ ~aborted

(* The shapes of a step of the main thread. *)
Went(l)         == /\ th'[Main].pc = l /\ th'[Main].val = th[Main].val
                   /\ Depth(Main)' = Depth(Main)
                   /\ Place(Main)' = IF Depth(Main) = 0 THEN l ELSE Place(Main)
Called(m, v, l) == /\ th'[Main].pc = m /\ th'[Main].val = v
                   /\ Depth(Main)' = 1 /\ Place(Main)' = l
Nested(m, v)    == /\ th'[Main].pc = m /\ th'[Main].val = v
                   /\ Depth(Main)' = 2 /\ Place(Main)' = Place(Main)
Returned        == /\ Place(Main)' = Place(Main) /\ Depth(Main)' = Depth(Main) - 1
                   /\ th'[Main].pc = IF Depth(Main) = 1 THEN Place(Main) ELSE "add"
                   /\ th'[Main].val = IF Depth(Main) = 1 THEN NoClass ELSE th[Main].val

LEMMA MainFacts ==
  ASSUME Base
  PROVE  LET pc == th[Main].pc IN
         /\ Main \in Threads /\ Main # Watcher /\ th[Main].val \in Class \cup {NoClass}
         /\ Depth(Main) \in {0, 1, 2}
         /\ Depth(Main) = 0 <=> pc \in Places
         /\ Depth(Main) = 0 => Place(Main) = pc
         /\ Place(Main) \in Places
         /\ Depth(Main) = 1 => pc \in PlayPcs \cup GoaliePcs
         /\ Depth(Main) = 2 => pc \in GoaliePcs
<1>1. Main \in Threads /\ Main # Watcher /\ ThreadsOK
  BY PlayAssumption DEF Threads, Base
<1> QED BY <1>1, StackFacts DEF ThreadsOK, ThreadType, Places, PlayPcs, GoaliePcs

(* Classes are told from None by their names. *)
LEMMA ClassFacts == \A c \in Class : IsPlay(c)
  BY PlayAssumption DEF Class, IsPlay, NoClass

(* The steps of the play's setter. *)
LEMMA SetterTree ==
  ASSUME Base, Tree,
         SetPlay(Main) \/ RemovePlay(Main) \/ ClearPlay(Main) \/ AssignPlay(Main) \/ AddPlay(Main),
         UNCHANGED todo
  PROVE  Tree'
<1> DEFINE pc == th[Main].pc
           val == th[Main].val
<1> USE MainFacts, ClassFacts DEF At, playVars, goalieVars, Tree
<1>0. /\ ThreadsOK /\ Main \in Threads
      /\ \A l \in PlayPcs \cup GoaliePcs : Goto(Main, l) /\ pc \in PlayPcs => Went(l)
  BY GotoFacts DEF Base, Went, Places, PlayPcs, GoaliePcs
<1>a. pc \in PlayPcs /\ Depth(Main) = 1 /\ (Place(Main) = "idle" => FALSE)
  BY DEF SetPlay, RemovePlay, ClearPlay, AssignPlay, AddPlay, PlayPcs, GoaliePcs, Places, GoalieTree
<1>b. Values /\ Absent \notin GoalieIds \cup {None}
  BY PlayAssumption DEF Base, Absent
<1>1. CASE SetPlay(Main)
  <2>1. Went(IF IsPlay(play) THEN "remove" ELSE IF IsPlay(val) THEN "assign" ELSE "setup")
    BY <1>0, <1>a, <1>1 DEF SetPlay, PlayPcs, GoaliePcs
  <2>2. UNCHANGED <<play, playSub, goalieId, goalieSub, aborted, todo>>
    BY <1>1 DEF SetPlay
  <2>3. PlayTree'
    BY <1>1, <1>a, <2>1, <2>2 DEF SetPlay, PlayTree, Went, IsPlay
  <2>4. GoalieTree'
    BY <1>1, <1>a, <2>1, <2>2 DEF SetPlay, GoalieTree, Went, IsPlay, HandledByPlay, HandlesGoalie, Wanted,
       Kept, PlayPcs, Places
  <2>5. TurnTree'
    BY <1>1, <1>a, <2>1, <2>2 DEF SetPlay, TurnTree, Went, PlayPcs, Present
  <2> QED BY <2>2, <2>3, <2>4, <2>5
<1>2. CASE RemovePlay(Main)
  <2>1. Went("clear") /\ UNCHANGED <<play, goalieId, goalieSub, aborted, todo>> /\ playSub' = NoClass
    BY <1>0, <1>a, <1>2 DEF RemovePlay, PlayPcs, GoaliePcs, StepOr, PlayTree
  <2>3. PlayTree'
    BY <1>2, <1>a, <2>1 DEF RemovePlay, PlayTree, Went, IsPlay
  <2>4. GoalieTree'
    BY <1>2, <1>a, <2>1 DEF RemovePlay, GoalieTree, Went, IsPlay, HandledByPlay, HandlesGoalie, Wanted,
       Kept, PlayPcs, Places
  <2>5. TurnTree'
    BY <1>2, <1>a, <2>1 DEF RemovePlay, TurnTree, Went, PlayPcs, Present
  <2> QED BY <2>1, <2>3, <2>4, <2>5
<1>3. CASE ClearPlay(Main)
  <2>1. /\ Went(IF IsPlay(val) THEN "assign" ELSE "setup")
        /\ UNCHANGED <<playSub, goalieId, goalieSub, aborted, todo>> /\ play' = NoClass
    BY <1>0, <1>a, <1>3 DEF ClearPlay, PlayPcs, GoaliePcs
  <2>3. PlayTree'
    BY <1>3, <1>a, <2>1 DEF ClearPlay, PlayTree, Went, IsPlay
  <2>4. GoalieTree'
    BY <1>3, <1>a, <2>1 DEF ClearPlay, GoalieTree, Went, IsPlay, HandledByPlay, HandlesGoalie, Wanted,
       Kept, PlayPcs, Places
  <2>5. TurnTree'
    BY <1>3, <1>a, <2>1 DEF ClearPlay, TurnTree, Went, PlayPcs, Present
  <2> QED BY <2>1, <2>3, <2>4, <2>5
<1>4. CASE AssignPlay(Main)
  <2>0. val \in Class /\ IsPlay(val) /\ UNCHANGED <<playSub, goalieId, goalieSub, aborted, todo>> /\ play' = val
    BY <1>4 DEF AssignPlay, PlayTree, IsPlay
  <2>1. IF HandlesGoalie(val) THEN Nested("dropGoalie", val) ELSE Went("add")
    <3>1. CASE HandlesGoalie(val)
      BY <1>0, <1>a, <1>4, <3>1, NestFacts DEF AssignPlay, Nested, GoaliePcs
    <3>2. CASE ~HandlesGoalie(val)
      BY <1>0, <1>a, <1>4, <3>2 DEF AssignPlay, PlayPcs
    <3> QED BY <3>1, <3>2
  <2>3. PlayTree'
    BY <1>4, <1>a, <2>0, <2>1 DEF AssignPlay, PlayTree, Went, Nested, IsPlay, HandledByPlay, HandlesGoalie
  <2>4. GoalieTree'
    BY <1>4, <1>a, <2>0, <2>1 DEF AssignPlay, GoalieTree, Went, Nested, IsPlay, HandledByPlay, HandlesGoalie, Wanted,
       Kept, PlayPcs, Places
  <2>5. TurnTree'
    BY <1>4, <1>a, <2>0, <2>1 DEF AssignPlay, TurnTree, PlayTree, Went, Nested, PlayPcs, Present, IsPlay
  <2> QED BY <2>0, <2>3, <2>4, <2>5
<1>5. CASE AddPlay(Main)
  <2>1. /\ Went("setup") /\ UNCHANGED <<play, goalieId, goalieSub, aborted, todo>> /\ playSub' = val
        /\ play = val
    BY <1>0, <1>a, <1>5 DEF AddPlay, PlayPcs, GoaliePcs, StepOr, PlayTree, IsPlay
  <2>3. PlayTree'
    BY <1>5, <1>a, <2>1 DEF AddPlay, PlayTree, Went, IsPlay
  <2>4. GoalieTree'
    BY <1>5, <1>a, <2>1 DEF AddPlay, GoalieTree, Went, IsPlay, HandledByPlay, HandlesGoalie, Wanted,
       Kept, PlayPcs, Places
  <2>5. TurnTree'
    BY <1>5, <1>a, <2>1 DEF AddPlay, TurnTree, PlayTree, Went, PlayPcs, Present, IsPlay
  <2> QED BY <2>1, <2>3, <2>4, <2>5
<1> QED BY <1>1, <1>2, <1>3, <1>4, <1>5

(* The steps of drop_goalie_behavior() and setup_goalie_if_needed().       *)
LEMMA GoalieTreeStep ==
  ASSUME Base, Tree,
         \/ DropGoalie(Main) \/ RemoveGoalie(Main) \/ SetupGoalie(Main) \/ UnsetGoalie(Main)
         \/ AskPlay(Main) \/ AddGoalie(Main) \/ SetShell(Main),
         UNCHANGED todo
  PROVE  Tree'
<1> DEFINE pc == th[Main].pc
<1> USE MainFacts DEF At, playVars, goalieVars, Tree
<1>0. /\ ThreadsOK /\ Main \in Threads
      /\ \A l \in GoaliePcs : Goto(Main, l) /\ pc \in GoaliePcs => Went(l)
  BY GotoFacts DEF Base, Went, Places, PlayPcs, GoaliePcs
<1>a. pc \in GoaliePcs /\ Depth(Main) \in {1, 2} /\ Place(Main) \in Places
  BY DEF DropGoalie, RemoveGoalie, SetupGoalie, UnsetGoalie, AskPlay, AddGoalie, SetShell, GoaliePcs, Places
<1>b. Return(Main) => Returned
  BY <1>0, <1>a, ReturnFacts DEF Returned
<1>c. /\ goalieSub \in GoalieIds \cup {None, Absent} /\ goalieId \in GoalieIds \cup {None}
      /\ Absent \notin GoalieIds \cup {None}
  BY PlayAssumption DEF Base, Values, Absent
<1>1. CASE DropGoalie(Main)
  <2>1. /\ Went(IF goalieSub = Absent THEN "setup" ELSE "removeGoalie")
        /\ UNCHANGED <<play, playSub, goalieId, goalieSub, aborted, todo>>
    BY <1>0, <1>a, <1>1 DEF DropGoalie, GoaliePcs
  <2>3. PlayTree'
    BY <1>1, <1>a, <2>1 DEF DropGoalie, PlayTree, Went, IsPlay, HandledByPlay, HandlesGoalie
  <2>4. GoalieTree'
    BY <1>1, <1>a, <2>1 DEF DropGoalie, GoalieTree, Went, IsPlay, HandledByPlay, HandlesGoalie, Wanted,
       Kept, PlayPcs, Places
  <2>5. TurnTree'
    BY <1>1, <1>a, <2>1 DEF DropGoalie, TurnTree, Went, PlayPcs, Present
  <2> QED BY <2>1, <2>3, <2>4, <2>5
<1>2. CASE RemoveGoalie(Main)
  <2>1. Went("setup") /\ UNCHANGED <<play, playSub, goalieId, aborted, todo>> /\ goalieSub' = Absent
    BY <1>0, <1>a, <1>2 DEF RemoveGoalie, GoaliePcs, StepOr, GoalieTree
  <2>3. PlayTree'
    BY <1>2, <1>a, <2>1 DEF RemoveGoalie, PlayTree, Went, IsPlay, HandledByPlay, HandlesGoalie
  <2>4. GoalieTree'
    BY <1>2, <1>a, <2>1 DEF RemoveGoalie, GoalieTree, Went, IsPlay, HandledByPlay, HandlesGoalie, Wanted,
       Kept, PlayPcs, Places
  <2>5. TurnTree'
    BY <1>2, <1>a, <2>1 DEF RemoveGoalie, TurnTree, Went, PlayPcs, Present
  <2> QED BY <2>1, <2>3, <2>4, <2>5
<1>3. CASE SetupGoalie(Main)
  <2>0. UNCHANGED <<play, playSub, goalieId, goalieSub, aborted, todo>>
    BY <1>3 DEF SetupGoalie
  <2>1. CASE goalieId = None /\ goalieSub = Absent
    <3>1. Returned
      BY <1>b, <1>3, <2>1 DEF SetupGoalie
    <3>3. PlayTree'
      BY <1>3, <1>a, <2>0, <2>1, <3>1 DEF PlayTree, Returned, IsPlay, HandledByPlay, HandlesGoalie, GoaliePcs, Places
    <3>4. GoalieTree'
      BY <1>3, <1>a, <2>0, <2>1, <3>1 DEF GoalieTree, PlayTree, Returned, IsPlay, HandledByPlay, HandlesGoalie,
         Wanted, Kept, PlayPcs, GoaliePcs, Places
    <3>5. TurnTree'
      BY <1>3, <1>a, <2>0, <2>1, <3>1 DEF TurnTree, PlayTree, Returned, PlayPcs, GoaliePcs, Present, IsPlay
    <3> QED BY <2>0, <3>3, <3>4, <3>5
  <2>2. CASE ~(goalieId = None /\ goalieSub = Absent)
    <3>1. Went(IF goalieId = None THEN "unsetGoalie" ELSE IF goalieSub # Absent THEN "shell"
               ELSE IF IsPlay(play) THEN "handles" ELSE "addGoalie")
      BY <1>0, <1>a, <1>3, <2>2 DEF SetupGoalie, GoaliePcs
    <3>3. PlayTree'
      BY <1>3, <1>a, <2>0, <2>2, <3>1 DEF SetupGoalie, PlayTree, Went, IsPlay, HandledByPlay, HandlesGoalie
    <3>4. GoalieTree'
      BY <1>3, <1>a, <2>0, <2>2, <3>1 DEF SetupGoalie, GoalieTree, Went, IsPlay, HandledByPlay, HandlesGoalie,
         Wanted, Kept, PlayPcs, Places
    <3>5. TurnTree'
      BY <1>3, <1>a, <2>0, <2>2, <3>1 DEF SetupGoalie, TurnTree, Went, PlayPcs, Present
    <3> QED BY <2>0, <3>3, <3>4, <3>5
  <2> QED BY <2>1, <2>2
<1>4. CASE UnsetGoalie(Main)
  <2>1. Returned /\ UNCHANGED <<play, playSub, goalieId, aborted, todo>> /\ goalieSub' = Absent
    BY <1>b, <1>a, <1>4 DEF UnsetGoalie, GoalieTree
  <2>3. PlayTree'
    BY <1>4, <1>a, <2>1 DEF UnsetGoalie, PlayTree, GoalieTree, Returned, IsPlay, HandledByPlay, HandlesGoalie, GoaliePcs, Places
  <2>4. GoalieTree'
    BY <1>4, <1>a, <2>1 DEF UnsetGoalie, GoalieTree, PlayTree, Returned, IsPlay, HandledByPlay, HandlesGoalie,
       Wanted, Kept, PlayPcs, GoaliePcs, Places
  <2>5. TurnTree'
    BY <1>4, <1>a, <2>1 DEF UnsetGoalie, TurnTree, PlayTree, GoalieTree, Returned, PlayPcs, GoaliePcs, Present
  <2> QED BY <2>1, <2>3, <2>4, <2>5
<1>5. CASE AskPlay(Main)
  <2>0. IsPlay(play) /\ UNCHANGED <<play, playSub, goalieId, goalieSub, aborted, todo>>
    BY <1>5 DEF AskPlay, GoalieTree
  <2>1. CASE HandlesGoalie(play)
    <3>1. Returned
      BY <1>b, <1>5, <2>0, <2>1 DEF AskPlay
    <3>3. PlayTree'
      BY <1>5, <1>a, <2>0, <2>1, <3>1 DEF AskPlay, PlayTree, GoalieTree, Returned, IsPlay, HandledByPlay, HandlesGoalie, GoaliePcs, Places
    <3>4. GoalieTree'
      BY <1>5, <1>a, <2>0, <2>1, <3>1 DEF AskPlay, GoalieTree, PlayTree, Returned, IsPlay, HandledByPlay, HandlesGoalie,
         Wanted, Kept, PlayPcs, GoaliePcs, Places
    <3>5. TurnTree'
      BY <1>5, <1>a, <2>0, <2>1, <3>1 DEF AskPlay, TurnTree, PlayTree, GoalieTree, Returned, PlayPcs, GoaliePcs, Present, IsPlay
    <3> QED BY <2>0, <3>3, <3>4, <3>5
  <2>2. CASE ~HandlesGoalie(play)
    <3>1. Went("addGoalie")
      BY <1>0, <1>a, <1>5, <2>0, <2>2 DEF AskPlay, GoaliePcs
    <3>3. PlayTree'
      BY <1>5, <1>a, <2>0, <2>2, <3>1 DEF AskPlay, PlayTree, Went, IsPlay, HandledByPlay, HandlesGoalie
    <3>4. GoalieTree'
      BY <1>5, <1>a, <2>0, <2>2, <3>1 DEF AskPlay, GoalieTree, Went, IsPlay, HandledByPlay, HandlesGoalie,
         Wanted, Kept, PlayPcs, Places
    <3>5. TurnTree'
      BY <1>5, <1>a, <2>0, <2>2, <3>1 DEF AskPlay, TurnTree, Went, PlayPcs, Present
    <3> QED BY <2>0, <3>3, <3>4, <3>5
  <2> QED BY <2>1, <2>2
<1>6. CASE AddGoalie(Main)
  <2>1. Went("shell") /\ UNCHANGED <<play, playSub, goalieId, aborted, todo>> /\ goalieSub' = None
    BY <1>0, <1>a, <1>6 DEF AddGoalie, GoaliePcs, StepOr, GoalieTree
  <2>3. PlayTree'
    BY <1>6, <1>a, <2>1 DEF AddGoalie, PlayTree, GoalieTree, Went, IsPlay, HandledByPlay, HandlesGoalie
  <2>4. GoalieTree'
    BY <1>6, <1>a, <1>c, <2>1 DEF AddGoalie, GoalieTree, PlayTree, Went, IsPlay, HandledByPlay, HandlesGoalie, Wanted,
       Kept, PlayPcs, Places
  <2>5. TurnTree'
    BY <1>6, <1>a, <1>c, <2>1 DEF AddGoalie, TurnTree, Went, PlayPcs, Present
  <2> QED BY <2>1, <2>3, <2>4, <2>5
<1>7. CASE SetShell(Main)
  <2>1. Returned /\ UNCHANGED <<play, playSub, goalieId, aborted, todo>> /\ goalieSub' = goalieId
    BY <1>b, <1>7 DEF SetShell, GoalieTree
  <2>3. PlayTree'
    BY <1>7, <1>a, <2>1 DEF SetShell, PlayTree, GoalieTree, Returned, IsPlay, HandledByPlay, HandlesGoalie, GoaliePcs, Places
  <2>4. GoalieTree'
    BY <1>7, <1>a, <1>c, <2>1 DEF SetShell, GoalieTree, PlayTree, Returned, IsPlay, HandledByPlay, HandlesGoalie,
       Wanted, Kept, PlayPcs, GoaliePcs, Places
  <2>5. TurnTree'
    BY <1>7, <1>a, <1>c, <2>1 DEF SetShell, TurnTree, PlayTree, GoalieTree, Returned, PlayPcs, GoaliePcs, Present
  <2> QED BY <2>1, <2>3, <2>4, <2>5
<1> QED BY <1>1, <1>2, <1>3, <1>4, <1>5, <1>6, <1>7

(* The steps of a frame and between two frames.  Those that call a setter  *)
(* leave the tree as it is, and start from where it agrees.                *)
LEMMA FrameGoes ==
  ASSUME Base, th[Main].pc \in Places, NEW l
  PROVE  /\ l \in Places /\ Goto(Main, l) => Went(l)
         /\ \A m \in PlayPcs \cup GoaliePcs, v \in Class \cup {NoClass} :
              l \in Places /\ Call(Main, m, v, l) => Called(m, v, l)
<1>0. ThreadsOK /\ Main \in Threads /\ Depth(Main) = 0
  BY MainFacts DEF Base
<1>1. l \in Places /\ Goto(Main, l) => Went(l)
  BY <1>0, GotoFacts DEF Went
<1>2. ASSUME NEW m \in PlayPcs \cup GoaliePcs, NEW v \in Class \cup {NoClass}, l \in Places,
             Call(Main, m, v, l)
      PROVE  Called(m, v, l)
  BY <1>0, <1>2, CallFacts DEF Called
<1> QED BY <1>1, <1>2

LEMMA FrameTree ==
  ASSUME Base, Tree, StartFrame \/ Select \/ SetGoalie \/ Configure
  PROVE  Tree'
<1> DEFINE pc == th[Main].pc
<1> USE MainFacts DEF At, Tree, playVars, goalieVars, frameVars, envVars, registryVars, historyVars
<1>0. pc \in Places /\ Depth(Main) = 0 /\ Place(Main) = pc
  BY DEF StartFrame, Select, SetGoalie, Configure, RunStopped, WasStopped, RunHalted, Filter, Unlist,
         Current, Terminate, Finished, Keep, Choose, ChooseNone, CannotConstruct, Chosen, Places
<1>a. UNCHANGED <<play, playSub, goalieSub, todo, aborted>>
  BY DEF StartFrame, Select, SetGoalie, Configure
<1>1. ASSUME goalieId' = goalieId, NEW l \in Places \ {"judge", "assignRoles", "spinning"}, Went(l)
      PROVE  Tree'
  <2>1. PlayTree'
    BY <1>0, <1>a, <1>1 DEF PlayTree, Went, Places
  <2>2. GoalieTree'
    BY <1>0, <1>a, <1>1 DEF GoalieTree, Went, Places, PlayPcs, GoaliePcs, HandledByPlay, HandlesGoalie,
                            IsPlay, Wanted, Kept
  <2>3. TurnTree'
    BY <1>0, <1>1 DEF TurnTree, Went
  <2> QED BY <1>a, <2>1, <2>2, <2>3
<1>2. ASSUME goalieId' = goalieId, NEW v \in Class \cup {NoClass},
             NEW l \in Places \ {"idle", "judge", "assignRoles", "spinning"}, Called("set", v, l),
             l \notin {"wasStopped", "chosen"} => v = NoClass
      PROVE  Tree'
  <2>1. PlayTree'
    BY <1>0, <1>a, <1>2 DEF PlayTree, Called, Places
  <2>2. GoalieTree'
    BY <1>0, <1>a, <1>2 DEF GoalieTree, Called, Places, HandledByPlay, HandlesGoalie, IsPlay, Wanted, Kept
  <2>3. TurnTree'
    BY <1>2 DEF TurnTree, Called
  <2> QED BY <1>a, <2>1, <2>2, <2>3
<1>3. CASE StartFrame
  BY <1>0, <1>1, <1>3, FrameGoes DEF StartFrame, Places
<1>4. CASE Select
  <2>0. goalieId' = goalieId /\ ModuleClass(Stopped) \in Class /\ choices \subseteq Class
    BY <1>4, PlayAssumption DEF Select, Base, Values, ModuleClass, Class
  <2>1. CASE RunStopped
    <3>1. \/ Goto(Main, "roles") \/ Call(Main, "set", ModuleClass(Stopped), "wasStopped")
      BY <2>1 DEF RunStopped
    <3> QED BY <1>0, <1>1, <1>2, <2>0, <3>1, FrameGoes DEF Places, PlayPcs
  <2>2. CASE RunHalted \/ Terminate \/ Finished
    <3>1. Call(Main, "set", NoClass, "roles") \/ Call(Main, "set", NoClass, "choose")
      BY <2>2 DEF RunHalted, Terminate, Finished
    <3> QED BY <1>0, <1>2, <2>0, <3>1, FrameGoes DEF Places, PlayPcs
  <2>3. CASE WasStopped \/ Filter \/ Unlist \/ Keep \/ ChooseNone \/ CannotConstruct \/ Chosen
    <3>1. Goto(Main, "roles") \/ Goto(Main, "unlist") \/ Goto(Main, "current") \/ Goto(Main, "choose")
      BY <2>3 DEF WasStopped, Filter, Unlist, Keep, ChooseNone, CannotConstruct, Chosen
    <3> QED BY <1>0, <1>1, <2>0, <3>1, FrameGoes DEF Places
  <2>4. CASE Current
    <3>1. Went(IF IsPlay(play) THEN "judge" ELSE "choose")
      BY <1>0, <2>4, FrameGoes DEF Current, Places
    <3>2. PlayTree'
      BY <1>0, <1>a, <3>1 DEF PlayTree, Went, IsPlay, Places
    <3>3. GoalieTree'
      BY <1>0, <1>a, <2>0, <3>1 DEF GoalieTree, Went, Places, PlayPcs, GoaliePcs, HandledByPlay,
         HandlesGoalie, IsPlay, Wanted, Kept
    <3>4. TurnTree'
      BY <1>0, <3>1 DEF TurnTree, Went
    <3> QED BY <1>a, <3>2, <3>3, <3>4
  <2>5. CASE Choose
    <3>1. PICK c \in Good : Call(Main, "set", c, "chosen")
      BY <2>5 DEF Choose
    <3>2. c \in Class
      BY <2>0, <3>1 DEF Good
    <3> QED BY <1>0, <1>2, <2>0, <3>1, <3>2, FrameGoes DEF Places, PlayPcs
  <2> QED BY <1>4, <2>1, <2>2, <2>3, <2>4, <2>5 DEF Select
<1>5. CASE SetGoalie
  <2>1. pc = "idle" /\ Called("setup", NoClass, "idle")
    BY <1>0, <1>5, FrameGoes DEF SetGoalie, Places, GoaliePcs
  <2>2. PlayTree'
    BY <1>0, <1>a, <2>1 DEF PlayTree, Called, Places
  <2>3. GoalieTree'
    BY <1>0, <1>a, <2>1 DEF GoalieTree, Called, Places, PlayPcs, HandledByPlay, HandlesGoalie, IsPlay, Wanted, Kept
  <2>4. TurnTree'
    BY <2>1 DEF TurnTree, Called
  <2> QED BY <1>a, <2>2, <2>3, <2>4
<1>6. CASE Configure
  <2>1. UNCHANGED <<goalieId, th>>
    BY <1>6 DEF Configure
  <2>2. Depth(Main)' = Depth(Main) /\ Place(Main)' = Place(Main) /\ th'[Main] = th[Main]
    BY <2>1 DEF Depth, Place
  <2>3. PlayTree'
    BY <1>a, <2>2 DEF PlayTree, HandledByPlay, HandlesGoalie, IsPlay
  <2>4. GoalieTree'
    BY <1>a, <2>1, <2>2 DEF GoalieTree, HandledByPlay, HandlesGoalie, IsPlay, Wanted, Kept
  <2>5. TurnTree'
    BY <1>a, <2>2 DEF TurnTree, Present, IsPlay
  <2> QED BY <1>a, <2>3, <2>4, <2>5
<1> QED BY <1>3, <1>4, <1>5, <1>6

LEMMA BehaviorsTree ==
  ASSUME Base, Tree, Behaviors PROVE Tree'
<1> DEFINE pc == th[Main].pc
<1> USE MainFacts DEF At, Tree, playVars
<1>0. pc \in {"roles", "assignRoles", "spin", "spinning"} /\ Depth(Main) = 0 /\ Place(Main) = pc
  BY DEF Behaviors, RolesFound, RolesImpossible, AssignRoles, Spin, SpinGone, SpinOne, EndFrame, Places
<1>a. UNCHANGED <<play, playSub, goalieId, goalieSub>>
  BY DEF Behaviors, RolesFound, RolesImpossible, AssignRoles, Spin, SpinGone, SpinOne, EndFrame
<1>b. ASSUME NEW l \in Places, l # "judge", Went(l) PROVE PlayTree' /\ GoalieTree'
  <2>1. PlayTree'
    BY <1>0, <1>a, <1>b DEF PlayTree, Went, Places
  <2>2. GoalieTree'
    BY <1>0, <1>a, <1>b DEF GoalieTree, Went, Places, PlayPcs, GoaliePcs, HandledByPlay, HandlesGoalie,
                            IsPlay, Wanted, Kept
  <2> QED BY <2>1, <2>2
<1>c. ASSUME NEW m \in {"set", "dropGoalie"}, NEW l \in {"spin", "spinning"}, Called(m, NoClass, l)
      PROVE  PlayTree' /\ GoalieTree'
  <2>1. PlayTree'
    BY <1>0, <1>a, <1>c DEF PlayTree, Called, Places
  <2>2. GoalieTree'
    BY <1>0, <1>a, <1>c DEF GoalieTree, Called, Places, HandledByPlay, HandlesGoalie, IsPlay, Wanted, Kept
  <2> QED BY <2>1, <2>2
<1>d. Present = ((IF IsPlay(playSub) THEN {"play"} ELSE {}) \cup (IF goalieSub # Absent THEN {"goalie"} ELSE {}))
      /\ Present' = Present
  BY <1>a DEF Present, IsPlay
<1>1. CASE RolesFound
  <2>1. Went("assignRoles") /\ todo' = Present /\ aborted' = aborted
    BY <1>0, <1>1, FrameGoes DEF RolesFound, Places
  <2>2. TurnTree'
    BY <1>d, <2>1, <1>0 DEF TurnTree, Went
  <2> QED BY <1>b, <2>1, <2>2 DEF Places
<1>2. CASE RolesImpossible
  <2>1. Called("set", NoClass, "spin") /\ aborted' = aborted
    BY <1>0, <1>2, FrameGoes DEF RolesImpossible, Drop, Places, PlayPcs
  <2>2. TurnTree'
    BY <2>1 DEF TurnTree, Called
  <2> QED BY <1>c, <2>1, <2>2
<1>3. CASE AssignRoles
  <2>1. Went("spin") /\ aborted' = aborted
    BY <1>0, <1>3, FrameGoes DEF AssignRoles, StepOr, TurnTree, Places
  <2>2. TurnTree'
    BY <1>0, <2>1 DEF TurnTree, Went
  <2> QED BY <1>b, <2>1, <2>2 DEF Places
<1>4. CASE Spin
  <2>1. Went("spinning") /\ todo' = Present /\ aborted' = aborted
    BY <1>0, <1>4, FrameGoes DEF Spin, Places
  <2>2. TurnTree'
    BY <1>a, <1>d, <2>1, <1>0 DEF TurnTree, Went, IsPlay, PlayPcs
  <2> QED BY <1>b, <2>1, <2>2 DEF Places
<1>5. CASE SpinGone
  BY <1>0, <1>5, <1>d DEF SpinGone, TurnTree, Base, Values
<1>6. CASE SpinOne("play")
  <2>0. todo' = todo \ {"play"} /\ aborted' = aborted /\ pc = "spinning"
    BY <1>6 DEF SpinOne
  <2>1. CASE th' = th
    <3>1. Depth(Main)' = Depth(Main) /\ Place(Main)' = Place(Main) /\ th'[Main] = th[Main]
      BY <2>1 DEF Depth, Place
    <3>2. Went("spinning")
      BY <1>0, <2>0, <3>1 DEF Went
    <3>3. TurnTree'
      BY <1>0, <1>a, <2>0, <3>1 DEF TurnTree, IsPlay
    <3> QED BY <1>b, <2>0, <3>2, <3>3 DEF Places
  <2>2. CASE th' # th
    <3>1. Called("set", NoClass, "spinning")
      BY <1>0, <1>6, <2>2, FrameGoes DEF SpinOne, Drop, Places, PlayPcs
    <3>2. TurnTree'
      BY <1>0, <1>a, <2>0, <3>1 DEF TurnTree, Called, IsPlay
    <3> QED BY <1>c, <2>0, <3>1, <3>2
  <2> QED BY <2>1, <2>2
<1>7. CASE SpinOne("goalie")
  <2>0. todo' = todo \ {"goalie"} /\ aborted' = aborted /\ pc = "spinning"
    BY <1>7 DEF SpinOne
  <2>1. CASE th' = th
    <3>1. Depth(Main)' = Depth(Main) /\ Place(Main)' = Place(Main) /\ th'[Main] = th[Main]
      BY <2>1 DEF Depth, Place
    <3>2. Went("spinning")
      BY <1>0, <2>0, <3>1 DEF Went
    <3>3. TurnTree'
      BY <1>0, <1>a, <2>0, <3>1 DEF TurnTree, IsPlay
    <3> QED BY <1>b, <2>0, <3>2, <3>3 DEF Places
  <2>2. CASE th' # th
    <3>1. Called("dropGoalie", NoClass, "spinning")
      BY <1>0, <1>7, <2>2, FrameGoes DEF SpinOne, Places, GoaliePcs
    <3>2. TurnTree'
      BY <1>0, <1>a, <2>0, <3>1 DEF TurnTree, Called, IsPlay, PlayPcs
    <3> QED BY <1>c, <2>0, <3>1, <3>2
  <2> QED BY <2>1, <2>2
<1>8. CASE EndFrame
  <2>1. Went("idle") /\ aborted' = aborted
    BY <1>0, <1>8, FrameGoes DEF EndFrame, Places
  <2>2. TurnTree'
    BY <1>0, <2>1 DEF TurnTree, Went
  <2> QED BY <1>b, <2>1, <2>2 DEF Places
<1> QED BY <1>1, <1>2, <1>3, <1>4, <1>5, <1>6, <1>7, <1>8 DEF Behaviors

LEMMA TreeInit == Init => Tree
<1> SUFFICES ASSUME Init PROVE Tree
  OBVIOUS
<1>1. th[Main] = [pc |-> "idle", val |-> NoClass, callers |-> <<>>] /\ ~aborted
  BY DEF Init, Threads
<1>2. Depth(Main) = 0 /\ Place(Main) = "idle"
  BY <1>1 DEF Depth, Place
<1> QED BY <1>1, <1>2 DEF Init, Tree, PlayTree, GoalieTree, TurnTree, HandledByPlay, IsPlay, Wanted, Kept, PlayPcs

LEMMA TreeStep == Base /\ Tree /\ [NextMain]_vars => Tree'
<1> SUFFICES ASSUME Base, Tree, [NextMain]_vars PROVE Tree'
  OBVIOUS
<1>1. CASE StartFrame \/ Select \/ SetGoalie \/ Configure
  BY <1>1, FrameTree
<1>2. CASE JudgeNothing
  BY <1>2 DEF JudgeNothing, At, Tree, PlayTree
<1>3. CASE Behaviors
  BY <1>3, BehaviorsTree
<1>4. CASE Method(Main)
  <2>1. UNCHANGED todo
    BY <1>4 DEF Method, frameVars
  <2> QED BY <1>4, <2>1, SetterTree, GoalieTreeStep DEF Method
<1>5. CASE UNCHANGED vars
  <2>1. UNCHANGED <<play, playSub, goalieId, goalieSub, todo, th, aborted>>
    BY <1>5 DEF vars, playVars, goalieVars, frameVars
  <2>2. Depth(Main)' = Depth(Main) /\ Place(Main)' = Place(Main) /\ th'[Main] = th[Main]
    BY <2>1 DEF Depth, Place
  <2>3. PlayTree'
    BY <2>1, <2>2 DEF Tree, PlayTree, HandledByPlay, HandlesGoalie, IsPlay
  <2>4. GoalieTree'
    BY <2>1, <2>2 DEF Tree, GoalieTree, HandledByPlay, HandlesGoalie, IsPlay, Wanted, Kept
  <2>5. TurnTree'
    BY <2>1, <2>2 DEF Tree, TurnTree, Present, IsPlay
  <2> QED BY <2>1, <2>3, <2>4, <2>5 DEF Tree
<1> QED BY <1>1, <1>2, <1>3, <1>4, <1>5 DEF NextMain, Frame

LEMMA MainIsNext == [NextMain]_vars => [Next]_vars
  BY DEF NextMain, Next

(* The tree under the frames alone, with what it rests on.                 *)
LEMMA TreeAlways == SpecMain => [](Base /\ Tree)
<1>1. Init => Base /\ Tree
  BY BaseInit, TreeInit
<1>2. Base /\ Tree /\ [NextMain]_vars => (Base /\ Tree)'
  BY BaseStep, TreeStep, MainIsNext
<1> QED BY <1>1, <1>2, PTL DEF SpecMain

(* Between the calls of the setters the tree agrees with _play and         *)
(* _goalie_id, and the goalie has one behavior to look after it, or none.  *)
THEOREM TreeCorrect == SpecMain => []TreeMatchesFields
<1>1. Base /\ Tree => TreeMatchesFields
  <2> SUFFICES ASSUME Base, Tree, Quiet
               PROVE  playSub = play /\ goalieSub = Wanted
    BY DEF TreeMatchesFields, Wanted, HandledByPlay
  <2>1. Main \in Threads /\ th[Main].callers = <<>>
    BY MainFacts DEF Quiet
  <2>2. Depth(Main) = 0
    BY <2>1 DEF Depth
  <2> QED BY <2>2, MainFacts DEF Tree, PlayTree, GoalieTree, Places
<1> QED BY <1>1, TreeAlways, PTL

(* No step of a frame or of a change of the goalie finds what it looks up  *)
(* gone, or in its way: no exception gets past the choice of a play.       *)
THEOREM FramesComplete == SpecMain => []FrameCompletes
<1>1. Base /\ Tree => FrameCompletes
  BY DEF Tree, FrameCompletes
<1> QED BY <1>1, TreeAlways, PTL
-----------------------------------------------------------------------------
(* What failed is remembered until the next choice has left it out.        *)
AskedInv ==
  LET pc == th[Main].pc IN
  /\ Place(Main) \in {"unlist", "current", "judge", "choose"} => asked \notin choices
  /\ Place(Main) \in {"idle", "execute", "spin", "spinning", "assignRoles"} => asked \in {NoClass, blacklist}
  /\ Depth(Main) # 0 /\ Place(Main) = "chosen" => th[Main].val # asked

(* A method's step stays under its place, or raises an exception.          *)
LEMMA MethodMoves ==
  ASSUME Base, Method(Main)
  PROVE  /\ Depth(Main) # 0
         /\ \/ Place(Main)' = Place(Main) /\ (Depth(Main)' # 0 => th'[Main].val = th[Main].val)
            \/ Raise(Main)
<1> DEFINE pc == th[Main].pc
<1> USE MainFacts DEF At
<1>0. ThreadsOK /\ Main \in Threads /\ pc \in PlayPcs \cup GoaliePcs /\ Depth(Main) # 0
  BY DEF Base, Method, SetPlay, RemovePlay, ClearPlay, AssignPlay, AddPlay, DropGoalie, RemoveGoalie,
         SetupGoalie, UnsetGoalie, AskPlay, AddGoalie, SetShell, PlayPcs, GoaliePcs, Places
<1>1. ASSUME NEW l \in GoaliePcs, Goto(Main, l) PROVE Went(l)
  BY <1>0, <1>1, GotoFacts DEF Went
<1>2. ASSUME pc \in PlayPcs, NEW l \in PlayPcs, Goto(Main, l) PROVE Went(l)
  BY <1>0, <1>2, GotoFacts DEF Went, PlayPcs, GoaliePcs
<1>3. CASE SetPlay(Main) \/ RemovePlay(Main) \/ ClearPlay(Main) \/ AddPlay(Main)
  <2>1. pc \in PlayPcs /\ (Raise(Main) \/ \E l \in PlayPcs \cup GoaliePcs : Goto(Main, l))
    BY <1>3 DEF SetPlay, RemovePlay, ClearPlay, AddPlay, StepOr, PlayPcs, GoaliePcs
  <2> QED BY <1>0, <1>1, <1>2, <2>1 DEF Went
<1>4. CASE AssignPlay(Main)
  <2>1. pc \in PlayPcs /\ Depth(Main) = 1
    BY <1>4 DEF AssignPlay, PlayPcs, GoaliePcs, Places
  <2> QED BY <1>0, <1>2, <1>4, <2>1, NestFacts DEF AssignPlay, PlayPcs, GoaliePcs, Went
<1>5. CASE DropGoalie(Main) \/ RemoveGoalie(Main) \/ AddGoalie(Main)
  <2>1. Raise(Main) \/ \E l \in GoaliePcs : Goto(Main, l)
    BY <1>5 DEF DropGoalie, RemoveGoalie, AddGoalie, StepOr, GoaliePcs
  <2> QED BY <1>0, <1>1, <2>1 DEF Went
<1>6. CASE SetupGoalie(Main) \/ UnsetGoalie(Main) \/ AskPlay(Main) \/ SetShell(Main)
  <2>1. (\E l \in GoaliePcs : Goto(Main, l)) \/ Return(Main) \/ Raise(Main)
    BY <1>6 DEF SetupGoalie, UnsetGoalie, AskPlay, SetShell, GoaliePcs
  <2>2. Return(Main) => Place(Main)' = Place(Main) /\ (Depth(Main)' # 0 => th'[Main].val = th[Main].val)
    BY <1>0, ReturnFacts
  <2> QED BY <1>0, <1>1, <2>1, <2>2 DEF Went
<1> QED BY <1>3, <1>4, <1>5, <1>6 DEF Method

LEMMA AskedStep == Base /\ Tree /\ AskedInv /\ [NextMain]_vars => AskedInv'
<1> SUFFICES ASSUME Base, Tree, AskedInv, [NextMain]_vars PROVE AskedInv'
  OBVIOUS
<1> DEFINE pc == th[Main].pc
<1> USE MainFacts DEF At, AskedInv, frameVars, historyVars
<1>a. ASSUME NEW l, th[Main].pc \in Places PROVE (l \in Places /\ Goto(Main, l) => Went(l))
  BY <1>a, FrameGoes
<1>b. ASSUME th[Main].pc \in Places, NEW l \in Places, NEW v \in Class \cup {NoClass},
             NEW m \in PlayPcs \cup GoaliePcs, Call(Main, m, v, l)
      PROVE  Called(m, v, l)
  BY <1>b, FrameGoes
<1>c. /\ "set" \in PlayPcs /\ "setup" \in GoaliePcs /\ "dropGoalie" \in GoaliePcs
      /\ NoClass \notin Class /\ choices \subseteq Class
  BY ClassFacts DEF PlayPcs, GoaliePcs, Base, Values, IsPlay
<1>1. CASE StartFrame
  BY <1>1, <1>a DEF StartFrame, Went, Places
<1>2. CASE SetGoalie
  <2>1. Called("setup", NoClass, "idle")
    BY <1>2, <1>b, <1>c DEF SetGoalie, Places
  <2> QED BY <1>2, <2>1 DEF SetGoalie, Called, Places
<1>3. CASE Configure
  <2>1. Depth(Main)' = Depth(Main) /\ Place(Main)' = Place(Main) /\ UNCHANGED <<th, choices, asked, blacklist>>
    BY <1>3 DEF Configure, Depth, Place
  <2> QED BY <2>1
<1>4. CASE JudgeNothing
  BY <1>4 DEF JudgeNothing, Tree, PlayTree
<1>5. CASE Method(Main)
  <2>1. UNCHANGED <<choices, asked, blacklist>>
    BY <1>5 DEF Method
  <2>2. CASE Raise(Main)
    <3>1. ~aborted'
      BY TreeStep DEF Tree
    <3>2. Caught(Main)
      BY <2>2, <3>1 DEF Raise
    <3>3. th'[Main].pc = "roles"
      BY <2>2, <3>2 DEF Raise, Base, ThreadsOK, ThreadType
    <3> QED BY <2>2, <3>3, RaiseFacts DEF Base
  <2> QED BY <1>5, <2>1, <2>2, MethodMoves
<1>6. CASE Behaviors
  <2>0. pc \in Places /\ (pc # "roles" => choices' = choices)
    BY <1>6 DEF Behaviors, RolesFound, RolesImpossible, AssignRoles, Spin, SpinGone, SpinOne, EndFrame, Places
  <2>1. CASE RolesFound
    BY <2>0, <2>1, <1>a DEF RolesFound, Went, Places
  <2>2. CASE RolesImpossible
    <3>1. Called("set", NoClass, "spin")
      BY <2>0, <2>2, <1>b, <1>c DEF RolesImpossible, Drop, Places
    <3> QED BY <2>2, <3>1 DEF RolesImpossible, Drop, Called
  <2>3. CASE AssignRoles
    BY <2>0, <2>3, <1>a DEF AssignRoles, StepOr, Went, Places, Tree, TurnTree
  <2>4. CASE Spin \/ EndFrame
    BY <2>0, <2>4, <1>a DEF Spin, EndFrame, Went, Places
  <2>5. CASE SpinGone
    BY <2>0, <2>5 DEF SpinGone, Tree, TurnTree, Base, Values, Present, IsPlay
  <2>6. ASSUME NEW n \in {"play", "goalie"}, SpinOne(n) PROVE AskedInv'
    <3>1. CASE th' = th
      <4>1. ~Drop(Main, TRUE, "spinning")
        BY <2>0, <3>1, <1>b, <1>c DEF Drop, Called, PlayPcs, Places
      <4>2. UNCHANGED <<asked, blacklist>>
        BY <2>6, <4>1 DEF SpinOne
      <4>3. Depth(Main)' = Depth(Main) /\ Place(Main)' = Place(Main)
        BY <3>1 DEF Depth, Place
      <4> QED BY <2>0, <2>6, <3>1, <4>2, <4>3 DEF SpinOne
    <3>2. CASE th' # th
      <4>1. \E m \in {"set", "dropGoalie"} : Called(m, NoClass, "spinning")
        BY <2>0, <2>6, <3>2, <1>b, <1>c DEF SpinOne, Drop, Places
      <4>2. asked' \in {NoClass, blacklist'}
        BY <2>6, <3>2 DEF SpinOne, Drop, Places
      <4> QED BY <4>1, <4>2 DEF Called
    <3> QED BY <3>1, <3>2
  <2> QED BY <1>6, <2>1, <2>2, <2>3, <2>4, <2>5, <2>6 DEF Behaviors
<1>7. CASE Select
  <2>0. pc \in Places /\ asked' = asked /\ ModuleClass(Stopped) \in Class
    BY <1>7, PlayAssumption DEF Select, RunStopped, WasStopped, RunHalted, Filter, Unlist, Current,
       Terminate, Finished, Keep, Choose, ChooseNone, CannotConstruct, Chosen, Places, ModuleClass, Class,
       Base, Values
  <2>1. CASE RunStopped
    <3>1. Went("roles") \/ Called("set", ModuleClass(Stopped), "wasStopped")
      BY <2>0, <2>1, <1>a, <1>b, <1>c DEF RunStopped, Places
    <3> QED BY <3>1, <2>0 DEF Went, Called, Places
  <2>2. CASE WasStopped \/ ChooseNone \/ CannotConstruct \/ Chosen
    <3>1. Went("roles")
      BY <2>0, <2>2, <1>a DEF WasStopped, ChooseNone, CannotConstruct, Chosen, Places
    <3> QED BY <3>1, <2>0 DEF Went, Places
  <2>3. CASE RunHalted
    <3>1. Called("set", NoClass, "roles")
      BY <2>0, <2>3, <1>b, <1>c DEF RunHalted, Places
    <3> QED BY <3>1, <2>0 DEF Called, Places
  <2>4. CASE Filter
    <3>1. Went("unlist")
      BY <2>0, <2>4, <1>a DEF Filter, Places
    <3>2. asked \in {NoClass, blacklist}
      BY <2>4 DEF Filter, Places
    <3>3. choices' \subseteq Class /\ blacklist \notin choices'
      BY <2>4 DEF Filter, Enabled, NodeClass, Class, Base, Values
    <3> QED BY <3>1, <3>2, <3>3, <2>0, <1>c DEF Went, Places
  <2>5. CASE Unlist \/ Current \/ Keep
    <3>1. Went("current") \/ Went("judge") \/ Went("choose")
      BY <2>0, <2>5, <1>a DEF Unlist, Current, Keep, Places
    <3>2. asked \notin choices /\ choices' = choices
      BY <2>5 DEF Unlist, Current, Keep, Places
    <3> QED BY <3>1, <3>2, <2>0 DEF Went, Places
  <2>6. CASE Terminate \/ Finished
    <3>1. Called("set", NoClass, "choose")
      BY <2>0, <2>6, <1>b, <1>c DEF Terminate, Finished, Places
    <3>2. asked \notin choices /\ choices' = choices
      BY <2>6 DEF Terminate, Finished, Places
    <3> QED BY <3>1, <3>2, <2>0 DEF Called, Places
  <2>7. CASE Choose
    <3>1. PICK c \in Good : Call(Main, "set", c, "chosen")
      BY <2>7 DEF Choose
    <3>2. c \in choices /\ c \in Class /\ asked \notin choices
      BY <2>7, <3>1, <1>c DEF Choose, Good, Places
    <3>3. Called("set", c, "chosen")
      BY <2>0, <3>1, <3>2, <1>b, <1>c DEF Places
    <3> QED BY <3>2, <3>3, <2>0 DEF Called, Places
  <2> QED BY <1>7, <2>1, <2>2, <2>3, <2>4, <2>5, <2>6, <2>7 DEF Select
<1>8. CASE UNCHANGED vars
  <2>1. Depth(Main)' = Depth(Main) /\ Place(Main)' = Place(Main) /\ UNCHANGED <<th, choices, asked, blacklist>>
    BY <1>8 DEF vars, Depth, Place
  <2> QED BY <2>1
<1> QED BY <1>1, <1>2, <1>3, <1>4, <1>5, <1>6, <1>7, <1>8 DEF NextMain, Frame

(* A play that failed in one frame is not the next one's choice.           *)
THEOREM FailedPlayWaits == SpecMain => []FailedPlayRests
<1>1. Init => AskedInv
  <2> SUFFICES ASSUME Init PROVE AskedInv
    OBVIOUS
  <2>1. th[Main] = [pc |-> "idle", val |-> NoClass, callers |-> <<>>]
    BY DEF Init, Threads
  <2>2. Depth(Main) = 0 /\ Place(Main) = "idle"
    BY <2>1 DEF Depth, Place
  <2> QED BY <2>2 DEF Init, AskedInv
<1>2. Base /\ AskedInv => FailedPlayRests
  <2> SUFFICES ASSUME Base, AskedInv, th[Main].callers = <<"chosen">> PROVE th[Main].val # asked
    BY DEF FailedPlayRests
  <2>1. Depth(Main) = 1 /\ Place(Main) = "chosen"
    BY DEF Depth, Place
  <2> QED BY <2>1 DEF AskedInv
<1> QED BY <1>1, <1>2, TreeAlways, AskedStep, PTL DEF SpecMain
-----------------------------------------------------------------------------
(* What a frame may spin is of a class at least as new as the registry had *)
(* when the frame began, with the watcher between any two steps.  Classes  *)
(* are first reloaded, then registered; Stopped is taken from its module.  *)
Fresh(c) == IsPlay(c) => c.ver >= frameClass[c.name]

FreshInv ==
  LET pc == th[Main].pc IN
  /\ frameClass \in [Plays -> 1 .. MaxVersion]
  /\ \A n \in Plays : frameClass[n] <= play_class[n] /\ play_class[n] <= version[n]
  /\ Place(Main) \in {"unlist", "current", "judge", "choose"} => \A c \in choices : Fresh(c)
  /\ Depth(Main) # 0 => Fresh(th[Main].val)
  /\ Place(Main) \in {"chosen", "assignRoles", "spin", "spinning"} => Fresh(play)
  /\ Place(Main) \in {"wasStopped", "roles", "choose"} /\ pc \notin {"set", "remove", "clear"} => Fresh(play)

LEMMA CaughtAtChosen == Base /\ Caught(Main) => Place(Main) = "chosen"
<1> SUFFICES ASSUME Base, Caught(Main) PROVE Place(Main) = "chosen"
  OBVIOUS
<1>1. th[Main].callers = <<>> \/ th[Main].callers = <<Place(Main)>> \/ th[Main].callers = <<"add", Place(Main)>>
  BY StackFacts, MainFacts DEF Base
<1>2. \A p : <<p>>[1] = p /\ <<"add", p>>[1] = "add" /\ <<"add", p>>[2] = p
             /\ Len(<<p>>) = 1 /\ Len(<<"add", p>>) = 2
  OBVIOUS
<1> QED BY <1>1, <1>2 DEF Caught

LEMMA FreshMethod ==
  ASSUME Base, FreshInv, Method(Main) PROVE FreshInv'
<1> DEFINE pc == th[Main].pc
<1> USE MainFacts DEF FreshInv, At
<1>1. UNCHANGED <<version, play_class, frameClass, choices>>
  BY DEF Method, registryVars, historyVars, frameVars
<1>2. play' \in {play, NoClass, th[Main].val} /\ th[Main].pc \in PlayPcs \cup GoaliePcs
  BY DEF Method, SetPlay, RemovePlay, ClearPlay, AssignPlay, AddPlay, DropGoalie, RemoveGoalie,
         SetupGoalie, UnsetGoalie, AskPlay, AddGoalie, SetShell, playVars, PlayPcs, GoaliePcs
<1>3. Depth(Main) # 0 /\ Fresh(th[Main].val) /\ ThreadsOK /\ Main \in Threads
  BY MethodMoves DEF Base
<1>4. Fresh(play) => Fresh(play)'
  BY <1>1, <1>2, <1>3 DEF Fresh, IsPlay
<1>5. (\A c \in choices : Fresh(c)) => (\A c \in choices : Fresh(c))'
  BY <1>1 DEF Fresh, IsPlay
<1>6. CASE Raise(Main)
  <2>1. /\ Depth(Main)' = 0 /\ Place(Main)' = th'[Main].pc /\ th'[Main].pc \in {"roles", "idle", "dead"}
        /\ th'[Main].pc = "roles" => Place(Main) = "chosen"
    BY <1>3, <1>6, RaiseFacts, CaughtAtChosen
  <2> QED BY <1>1, <1>4, <2>1
<1>7. CASE /\ Place(Main)' = Place(Main)
           /\ Depth(Main)' # 0 => th'[Main].val = th[Main].val
  <2>1. Depth(Main)' # 0 => Fresh(th[Main].val)'
    BY <1>1, <1>3, <1>7 DEF Fresh, IsPlay
  <2>2. ASSUME Place(Main) \in {"wasStopped", "roles", "choose"}
        PROVE  th'[Main].pc \in {"remove", "clear"} \/ Fresh(play)' \/ Raise(Main)
    <3>1. \A l : Goto(Main, l) => th'[Main].pc = l
      BY <1>3 DEF ThreadsOK, ThreadType, Goto
    <3>2. CASE SetPlay(Main)
      BY <1>4, <3>1, <3>2 DEF SetPlay, Fresh
    <3>3. CASE RemovePlay(Main)
      BY <3>1, <3>3 DEF RemovePlay, StepOr
    <3>4. CASE ClearPlay(Main)
      BY <3>4 DEF ClearPlay, Fresh, IsPlay
    <3>5. CASE pc \notin {"set", "remove", "clear"}
      BY <1>4, <2>2, <3>5
    <3> QED BY <3>2, <3>3, <3>4, <3>5 DEF Method, AssignPlay, AddPlay, DropGoalie, RemoveGoalie,
                SetupGoalie, UnsetGoalie, AskPlay, AddGoalie, SetShell
  <2>3. CASE ~Raise(Main)
    BY <1>1, <1>4, <1>5, <1>7, <2>1, <2>2, <2>3
  <2> QED BY <2>3, <1>6
<1> QED BY <1>6, <1>7, MethodMoves

LEMMA FreshStep == Base /\ FreshInv /\ [Next]_vars => FreshInv'
<1> SUFFICES ASSUME Base, FreshInv, [Next]_vars PROVE FreshInv'
  OBVIOUS
<1> DEFINE pc == th[Main].pc
<1> USE MainFacts DEF FreshInv, At
<1>0. Main \in Threads /\ Watcher \in Threads /\ Main # Watcher /\ ThreadsOK
  BY PlayAssumption DEF Threads, Base
<1>a. Values
  BY DEF Base
<1>b. ASSUME th[Main].pc \in Places, NEW l \in Places, Goto(Main, l) PROVE Went(l)
  BY <1>b, FrameGoes
<1>c. ASSUME th[Main].pc \in Places, NEW l \in Places, NEW v \in Class \cup {NoClass},
             NEW m \in PlayPcs \cup GoaliePcs, Call(Main, m, v, l)
      PROVE  Called(m, v, l)
  BY <1>c, FrameGoes
<1>d. /\ "set" \in PlayPcs /\ "setup" \in GoaliePcs /\ "dropGoalie" \in GoaliePcs
      /\ Fresh(NoClass) /\ Fresh(NoClass)'
  BY DEF PlayPcs, GoaliePcs, Fresh, IsPlay
<1>v. \A n \in Plays : version[n] \in Nat /\ play_class[n] \in Nat /\ frameClass[n] \in Nat
  BY <1>a, PlayAssumption DEF Values
<1>e. \A n \in Plays : Fresh(ModuleClass(n)) /\ Fresh(NodeClass(n))
  BY <1>v DEF Fresh, ModuleClass, NodeClass
<1>1. CASE StartFrame
  <2>1. Went("execute") /\ frameClass' = play_class /\ UNCHANGED <<version, play_class>>
    BY <1>1, <1>b DEF StartFrame, Places, registryVars
  <2> QED BY <1>1, <1>a, <1>v, <2>1 DEF StartFrame, Went, Places, Values
<1>2. CASE JudgeNothing
  <2>1. /\ Depth(Main)' = 0 /\ Place(Main)' = th'[Main].pc /\ th'[Main].pc \in {"roles", "idle", "dead"}
        /\ th'[Main].pc = "roles" => Place(Main) = "chosen"
    BY <1>0, <1>2, RaiseFacts, CaughtAtChosen DEF JudgeNothing
  <2>2. UNCHANGED <<version, play_class, frameClass>> /\ Place(Main) = "judge"
    BY <1>2 DEF JudgeNothing, registryVars, historyVars, Places
  <2> QED BY <2>1, <2>2
<1>3. CASE Method(Main)
  BY <1>3, FreshMethod
<1>4. CASE SetGoalie
  <2>1. Called("setup", NoClass, "idle") /\ UNCHANGED <<version, play_class, frameClass>>
    BY <1>4, <1>c, <1>d DEF SetGoalie, Places, registryVars, historyVars
  <2> QED BY <1>d, <2>1 DEF Called
<1>5. CASE Configure
  <2>1. UNCHANGED <<th, version, play_class, frameClass, choices, play>>
    BY <1>5 DEF Configure, playVars, frameVars, historyVars
  <2> QED BY <2>1 DEF Depth, Place, Fresh, IsPlay
<1>f. ASSUME UNCHANGED <<play, frameClass>> PROVE Fresh(play)' = Fresh(play)
  BY <1>f DEF Fresh, IsPlay
<1>g. ASSUME UNCHANGED <<choices, frameClass>>
      PROVE  (\A c \in choices : Fresh(c))' = (\A c \in choices : Fresh(c))
  BY <1>g DEF Fresh, IsPlay
<1>6. CASE Behaviors
  <2>0. /\ UNCHANGED <<play, version, play_class, frameClass>> /\ Depth(Main) = 0 /\ Place(Main) = pc
        /\ pc \in {"roles", "assignRoles", "spin", "spinning"}
    BY <1>6 DEF Behaviors, RolesFound, RolesImpossible, AssignRoles, Spin, SpinGone, SpinOne, EndFrame,
                Places, playVars, registryVars
  <2>1. \/ th' = th /\ pc = "spinning"
        \/ \E l \in {"assignRoles", "spin", "spinning", "idle"} : Goto(Main, l)
        \/ \E m \in {"set", "dropGoalie"}, l \in {"spin", "spinning"} : Call(Main, m, NoClass, l)
        \/ Raise(Main)
    BY <1>6 DEF Behaviors, RolesFound, RolesImpossible, AssignRoles, Spin, SpinGone, SpinOne, EndFrame,
                StepOr, Drop
  <2>2. ASSUME Raise(Main)
        PROVE  Depth(Main)' = 0 /\ Place(Main)' \in {"idle", "dead"} /\ th'[Main].pc = Place(Main)'
    BY <1>0, <2>0, <2>2, RaiseFacts, CaughtAtChosen
  <2>3. /\ Place(Main)' \in {"assignRoles", "spin", "spinning", "idle", "dead"}
        /\ Depth(Main)' # 0 => th'[Main].val = NoClass
    <3>1. CASE th' = th /\ pc = "spinning"
      BY <2>0, <3>1 DEF Depth, Place
    <3>2. ASSUME NEW l \in {"assignRoles", "spin", "spinning", "idle"}, Goto(Main, l) PROVE Went(l)
      BY <2>0, <3>2, <1>b DEF Places
    <3>3. ASSUME NEW m \in {"set", "dropGoalie"}, NEW l \in {"spin", "spinning"},
                 Call(Main, m, NoClass, l)
          PROVE  Called(m, NoClass, l)
      BY <2>0, <3>3, <1>c, <1>d DEF Places
    <3> QED BY <2>0, <2>1, <2>2, <3>1, <3>2, <3>3 DEF Went, Called
  <2>4. Fresh(play)'
    BY <2>0, <1>f
  <2> QED BY <1>d, <2>0, <2>3, <2>4
<1>7. CASE Select
  <2>0. /\ UNCHANGED <<play, version, play_class, frameClass>> /\ Depth(Main) = 0 /\ Place(Main) = pc
        /\ pc \in Places /\ ModuleClass(Stopped) \in Class /\ Fresh(ModuleClass(Stopped))
    BY <1>7, <1>a, <1>e, PlayAssumption DEF Select, RunStopped, WasStopped, RunHalted, Filter, Unlist, Current,
       Terminate, Finished, Keep, Choose, ChooseNone, CannotConstruct, Chosen, Places, registryVars,
       Values, ModuleClass, Class
  <2>1. CASE RunStopped
    <3>1. \/ Went("roles") /\ Fresh(play)
          \/ Called("set", ModuleClass(Stopped), "wasStopped") /\ Fresh(ModuleClass(Stopped))'
      <4>1. Fresh(ModuleClass(Stopped))'
        BY <2>0 DEF Fresh, ModuleClass, IsPlay
      <4> QED BY <2>0, <2>1, <4>1, <1>b, <1>c, <1>d DEF RunStopped, Places
    <3>2. ModuleClass(Stopped)' = ModuleClass(Stopped)
      BY <2>0 DEF ModuleClass
    <3>3. Depth(Main)' # 0 => Fresh(th[Main].val)'
      BY <2>0, <3>1, <3>2 DEF Went, Called
    <3> QED BY <2>0, <3>1, <3>3, <1>f DEF Went, Called
  <2>2. CASE WasStopped \/ ChooseNone \/ CannotConstruct \/ Chosen
    <3>1. Went("roles") /\ Fresh(play)
      BY <2>0, <2>2, <1>b DEF WasStopped, ChooseNone, CannotConstruct, Chosen, Places
    <3> QED BY <2>0, <3>1, <1>f DEF Went
  <2>3. CASE RunHalted
    <3>1. Called("set", NoClass, "roles")
      BY <2>0, <2>3, <1>c, <1>d DEF RunHalted, Places
    <3> QED BY <2>0, <3>1, <1>d DEF Called
  <2>4. CASE Filter
    <3>1. Went("unlist")
      BY <2>0, <2>4, <1>b DEF Filter, Places
    <3>2. \A c \in choices' : \E n \in Plays : c = NodeClass(n)
      BY <2>4, <1>a DEF Filter, Enabled, Values
    <3>3. \A n \in Plays : NodeClass(n).ver >= frameClass'[n] /\ NodeClass(n).name = n
      BY <2>0, <1>v DEF NodeClass
    <3>4. (\A c \in choices : Fresh(c))'
      BY <3>2, <3>3 DEF Fresh
    <3> QED BY <2>0, <3>1, <3>4 DEF Went
  <2>5. CASE Unlist \/ Current \/ Keep
    <3>1. /\ \/ Went("current") \/ Went("judge")
             \/ Went("choose") /\ (play \in choices \/ ~IsPlay(play))
          /\ UNCHANGED choices /\ pc \in {"unlist", "current", "judge"}
      BY <2>0, <2>5, <1>b DEF Unlist, Current, Keep, NotEnabled, Places
    <3>2. Went("choose") => Fresh(play)
      BY <2>0, <3>1 DEF Went, Fresh
    <3> QED BY <2>0, <3>1, <3>2, <1>f, <1>g DEF Went
  <2>6. CASE Terminate \/ Finished
    <3>1. Called("set", NoClass, "choose") /\ UNCHANGED choices /\ pc = "judge"
      BY <2>0, <2>6, <1>c, <1>d DEF Terminate, Finished, Places
    <3> QED BY <2>0, <3>1, <1>d, <1>g DEF Called
  <2>7. CASE Choose
    <3>1. PICK c \in Good : Call(Main, "set", c, "chosen")
      BY <2>7 DEF Choose
    <3>2. c \in choices /\ c \in Class /\ Fresh(c)
      BY <2>0, <2>7, <3>1, <1>a DEF Choose, Good, Values
    <3>3. Called("set", c, "chosen")
      BY <2>0, <3>1, <3>2, <1>c, <1>d DEF Places
    <3>4. Fresh(th[Main].val)'
      BY <2>0, <3>2, <3>3 DEF Fresh, Called, IsPlay
    <3>5. Fresh(play)'
      BY <2>0, <2>7 DEF Choose, Fresh, IsPlay
    <3> QED BY <2>0, <3>3, <3>4, <3>5 DEF Called
  <2> QED BY <1>7, <2>1, <2>2, <2>3, <2>4, <2>5, <2>6, <2>7 DEF Select
<1>8. CASE Method(Watcher) \/ WatcherStep
  <2>1. th'[Main] = th[Main]
    BY <1>0, <1>8, MethodThreads, WatcherThreads DEF Moved
  <2>2. Depth(Main)' = Depth(Main) /\ Place(Main)' = Place(Main)
    BY <2>1 DEF Depth, Place
  <2>3. UNCHANGED <<frameClass, choices>>
    BY <1>8 DEF Method, WatcherStep, HelperChanged, ThenGoalie, PlayReloaded, RegisterClass, PlayDeleted, Unregister,
                PlayCreated, frameVars, historyVars
  <2>4. play' \in {play, NoClass}
    BY <1>8 DEF Method, SetPlay, RemovePlay, ClearPlay, AssignPlay, AddPlay, DropGoalie, RemoveGoalie,
         SetupGoalie, UnsetGoalie, AskPlay, AddGoalie, SetShell, WatcherStep, playVars, Base
  <2>5. \A n \in Plays : /\ version'[n] \in {version[n], version[n] + 1}
                        /\ play_class'[n] \in {play_class[n], version[n]}
    BY <1>8, <1>a DEF Method, WatcherStep, HelperChanged, ThenGoalie, PlayReloaded, RegisterClass,
       PlayDeleted, Unregister, PlayCreated, registryVars, Values
  <2>6. \A n \in Plays : frameClass'[n] <= play_class'[n] /\ play_class'[n] <= version'[n]
    BY <1>v, <2>3, <2>5
  <2>7. Fresh(play) => Fresh(play)'
    BY <2>3, <2>4 DEF Fresh, IsPlay
  <2>8. Fresh(th[Main].val) => Fresh(th[Main].val)'
    BY <2>1, <2>3 DEF Fresh, IsPlay
  <2> QED BY <2>1, <2>2, <2>3, <2>6, <2>7, <2>8, <1>g
<1>9. CASE UNCHANGED vars
  <2>1. UNCHANGED <<th, version, play_class, frameClass, choices, play>>
    BY <1>9 DEF vars, registryVars, playVars, frameVars, historyVars
  <2> QED BY <2>1 DEF Depth, Place, Fresh, IsPlay
<1> QED BY <1>1, <1>2, <1>3, <1>4, <1>5, <1>6, <1>7, <1>8, <1>9 DEF Next, Frame

(* A play whose new class was registered before a frame is not spun by it, *)
(* whatever the watcher reloads, registers and drops in the meantime.      *)
THEOREM ReloadedPlayGoes == Spec => []ReloadedPlayIsReplaced
<1>1. Init => FreshInv
  <2> SUFFICES ASSUME Init PROVE FreshInv
    OBVIOUS
  <2>1. th[Main] = [pc |-> "idle", val |-> NoClass, callers |-> <<>>]
    BY DEF Init, Threads
  <2>2. Depth(Main) = 0 /\ Place(Main) = "idle"
    BY <2>1 DEF Depth, Place
  <2> QED BY <2>2, PlayAssumption DEF Init, FreshInv
<1>2. Base /\ FreshInv => ReloadedPlayIsReplaced
  BY MainFacts DEF FreshInv, ReloadedPlayIsReplaced, At, Fresh, Places
<1> QED BY <1>1, <1>2, BaseInit, BaseStep, FreshStep, PTL DEF Spec
=============================================================================
