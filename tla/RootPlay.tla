------------------------------ MODULE RootPlay ------------------------------
(***************************************************************************)
(* RootPlay (soccer/gameplay/root_play.py), the top of the behaviour tree: *)
(* it chooses the play, runs the goalie, assigns robots and survives plays *)
(* that raise exceptions.                                                  *)
(*                                                                         *)
(* Two threads run its methods.  The main one runs a frame,                *)
(* CompositeBehavior.spin(), or sets goalie_id: Processor::_loopMutex      *)
(* keeps those two apart.  The watcher of main.py runs fswatch_callback()  *)
(* when a source file changes and takes no lock; Python may switch threads *)
(* between any two steps.  Methods are cut into steps where they read or   *)
(* write a field the other thread may have changed.                        *)
(*                                                                         *)
(* A score is modelled by whether it is finite: which of the applicable    *)
(* plays has the lowest score is left open.  RootPlay's own state machine  *)
(* is in its running state from the first frame on.  A play's constructor  *)
(* and its spin() may raise exceptions; score(), role_requirements() and   *)
(* the on_exit methods are taken not to.                                   *)
(***************************************************************************)
EXTENDS Naturals, Sequences

CONSTANTS
  Plays,         (* names of play classes, Stopped among them              *)
  Stopped,       (* plays.stopped.Stopped                                  *)
  Restarts,      (* those whose is_restart() is true                       *)
  Handles,       (* those whose handles_goalie() is true                   *)
  GoalieIds,     (* shells the goalie may have                             *)
  MaxVersion     (* bound on the versions of a class that reloading makes  *)

CONSTANTS Main, Watcher, None

ASSUME PlayAssumption ==
  /\ Stopped \in Plays /\ Stopped \in Handles /\ Stopped \notin Restarts
  /\ Restarts \subseteq Plays /\ Handles \subseteq Plays
  /\ None \notin Plays /\ None \notin GoalieIds
  /\ "absent" \notin GoalieIds \cup {None}
  /\ MaxVersion \in Nat \ {0}
  /\ Main # Watcher

(* A class object: reloading its module makes a new one of the same name.  *)
Class == [name : Plays, ver : 1 .. MaxVersion]

VARIABLES
  phase,       (* of the game state of this frame                          *)
  applicable,  (* the plays whose score() is finite in this frame          *)
  version,     (* of the class in each play's module                       *)
  play_class,  (* of the class in each play's node of the registry         *)
  registered,  (* plays in the registry                                    *)
  enabled,     (* plays enabled in the registry                            *)
  play,        (* _play: the class of the current play                     *)
  playDone,    (* is_done_running() of the current play                    *)
  playSub,     (* the subbehavior called 'play'                            *)
  goalieId,    (* _goalie_id                                               *)
  goalieSub,   (* shell_id of the subbehavior called 'goalie'              *)
  blacklist,   (* temporarily_blacklisted_play_class                       *)
  restarting,  (* _currently_restarting                                    *)
  choices,     (* the classes this frame may choose from                   *)
  todo,        (* names of subbehaviors this frame has still to visit      *)
  changed,     (* the play whose reloaded or deleted file the watcher is at *)
  th,          (* each thread: where it is, its argument, its callers      *)
  (* history *)
  aborted,     (* a frame or a change of goalie ended with an exception    *)
  asked,       (* the class a failure of the last frame asked to blacklist *)
  frameClass,  (* play_class when the frame began                          *)
  owed         (* the game was stopped and no restart play chosen since    *)

envVars      == <<phase, applicable>>
registryVars == <<version, play_class, registered, enabled>>
playVars     == <<play, playDone, playSub>>
goalieVars   == <<goalieId, goalieSub>>
frameVars    == <<choices, todo>>
historyVars  == <<asked, frameClass, owed>>
vars == <<envVars, registryVars, playVars, goalieVars, blacklist, restarting,
          frameVars, changed, th, aborted, historyVars>>

Absent  == "absent"           (* no goalie behaviour *)
Threads == {Main, Watcher}
NoClass == [name |-> None, ver |-> 1]
IsPlay(p) == p # NoClass
ModuleClass(n) == [name |-> n, ver |-> version[n]]
NodeClass(n)   == [name |-> n, ver |-> play_class[n]]
HandlesGoalie(p) == p.name \in Handles

Init ==
  /\ phase = "halted" /\ applicable = {}
  /\ version = [n \in Plays |-> 1] /\ play_class = version /\ registered = Plays /\ enabled = {}
  /\ play = NoClass /\ playDone = FALSE /\ playSub = NoClass
  /\ goalieId = None /\ goalieSub = Absent
  /\ blacklist = NoClass /\ restarting = FALSE
  /\ choices = {} /\ todo = {} /\ changed = None
  /\ th = [t \in Threads |-> [pc |-> "idle", val |-> NoClass, callers |-> <<>>]]
  /\ aborted = FALSE
  /\ asked = NoClass /\ frameClass = play_class
  /\ owed = FALSE
-----------------------------------------------------------------------------
(* Control.                                                                *)

At(t, l)   == th[t].pc = l
Goto(t, l) == th' = [th EXCEPT ![t].pc = l]

(* A call that continues at l; a return to the last caller. *)
Call(t, m, v, l) ==
  th' = [th EXCEPT ![t] = [pc |-> m, val |-> v, callers |-> <<l>> \o th[t].callers]]
Return(t) ==
  th' = [th EXCEPT ![t] = [pc |-> Head(th[t].callers),
                           val |-> IF Len(th[t].callers) = 1 THEN NoClass ELSE th[t].val,
                           callers |-> Tail(th[t].callers)]]

(* An exception while a play is chosen is caught there, every other one in *)
(* a frame is caught by main.run().  In the watcher it ends the thread.    *)
Caught(t) == \E i \in 1 .. Len(th[t].callers) : th[t].callers[i] = "chosen"
Raise(t) ==
  /\ th' = [th EXCEPT ![t].pc = IF Caught(t) THEN "roles"
                                 ELSE IF t = Main THEN "idle" ELSE "dead",
                      ![t].val = NoClass, ![t].callers = <<>>]
  /\ aborted' = (aborted \/ (t = Main /\ ~Caught(t)))

(* A step of a method goes on to l, or raises an exception unless ok. *)
StepOr(t, ok, l) == IF ok THEN Goto(t, l) /\ UNCHANGED aborted ELSE Raise(t)
-----------------------------------------------------------------------------
(* play.setter *)

SetPlay(t) ==
  /\ At(t, "set")
  /\ Goto(t, IF IsPlay(play) THEN "remove"
             ELSE IF IsPlay(th[t].val) THEN "assign" ELSE "setup")
  /\ UNCHANGED <<playVars, goalieVars, aborted>>

RemovePlay(t) ==
  /\ At(t, "remove")
  /\ StepOr(t, IsPlay(playSub), "clear")
  /\ playSub' = NoClass
  /\ UNCHANGED <<play, playDone, goalieVars>>

ClearPlay(t) ==
  /\ At(t, "clear")
  /\ play' = NoClass
  /\ Goto(t, IF IsPlay(th[t].val) THEN "assign" ELSE "setup")
  /\ UNCHANGED <<playDone, playSub, goalieVars, aborted>>

AssignPlay_KeepsGoalie(t) ==
  /\ At(t, "assign")
  /\ play' = th[t].val /\ playDone' = FALSE
  /\ Goto(t, "add")
  /\ UNCHANGED <<playSub, goalieVars, aborted>>

AssignPlay(t) ==
  /\ At(t, "assign")
  /\ play' = th[t].val /\ playDone' = FALSE
  /\ IF HandlesGoalie(th[t].val) THEN Call(t, "dropGoalie", th[t].val, "add")
                                 ELSE Goto(t, "add")
  /\ UNCHANGED <<playSub, goalieVars, aborted>>

AddPlay(t) ==
  /\ At(t, "add")
  /\ StepOr(t, ~IsPlay(playSub), "setup")
  /\ playSub' = IF IsPlay(playSub) THEN playSub ELSE th[t].val
  /\ UNCHANGED <<play, playDone, goalieVars>>

(* drop_goalie_behavior() *)
DropGoalie_Unchecked(t) ==
  /\ At(t, "dropGoalie")
  /\ Goto(t, "removeGoalie")
  /\ UNCHANGED <<playVars, goalieVars, aborted>>

DropGoalie(t) ==
  /\ At(t, "dropGoalie")
  /\ Goto(t, IF goalieSub = Absent THEN "setup" ELSE "removeGoalie")
  /\ UNCHANGED <<playVars, goalieVars, aborted>>

RemoveGoalie(t) ==
  /\ At(t, "removeGoalie")
  /\ StepOr(t, goalieSub # Absent, "setup")
  /\ goalieSub' = Absent
  /\ UNCHANGED <<playVars, goalieId>>

(* setup_goalie_if_needed() *)
SetupGoalie(t) ==
  /\ At(t, "setup")
  /\ IF goalieId = None
       THEN IF goalieSub = Absent THEN Return(t) ELSE Goto(t, "unsetGoalie")
       ELSE IF goalieSub # Absent THEN Goto(t, "shell")
       ELSE IF IsPlay(play) THEN Goto(t, "handles") ELSE Goto(t, "addGoalie")
  /\ UNCHANGED <<playVars, goalieVars, aborted>>

UnsetGoalie(t) ==
  /\ At(t, "unsetGoalie")
  /\ IF goalieSub # Absent THEN Return(t) /\ UNCHANGED aborted ELSE Raise(t)
  /\ goalieSub' = Absent
  /\ UNCHANGED <<playVars, goalieId>>

(* self.play.__class__.handles_goalie(): NoneType has no such method. *)
AskPlay(t) ==
  /\ At(t, "handles")
  /\ IF ~IsPlay(play) THEN Raise(t)
     ELSE /\ IF HandlesGoalie(play) THEN Return(t) ELSE Goto(t, "addGoalie")
          /\ UNCHANGED aborted
  /\ UNCHANGED <<playVars, goalieVars>>

AddGoalie(t) ==
  /\ At(t, "addGoalie")
  /\ StepOr(t, goalieSub = Absent, "shell")
  /\ goalieSub' = IF goalieSub = Absent THEN None ELSE goalieSub
  /\ UNCHANGED <<playVars, goalieId>>

SetShell(t) ==
  /\ At(t, "shell")
  /\ Return(t)
  /\ goalieSub' = IF goalieSub = Absent THEN Absent ELSE goalieId
  /\ UNCHANGED <<playVars, goalieId, aborted>>

Method(t) ==
  /\ \/ SetPlay(t) \/ RemovePlay(t) \/ ClearPlay(t) \/ AssignPlay(t) \/ AddPlay(t)
     \/ DropGoalie(t) \/ RemoveGoalie(t) \/ SetupGoalie(t) \/ UnsetGoalie(t)
     \/ AskPlay(t) \/ AddGoalie(t) \/ SetShell(t)
  /\ UNCHANGED <<envVars, registryVars, blacklist, restarting, frameVars, changed,
                 historyVars>>

(* drop_current_play(): the class is blacklisted whatever its argument is. *)
Drop(t, wanted, l) ==
  /\ blacklist' = play
  /\ asked' = IF wanted THEN play ELSE asked
  /\ Call(t, "set", NoClass, l)
-----------------------------------------------------------------------------
(* The frame: main.run() and RootPlay.execute_running().                   *)

Phases == {"stopped", "halted", "playing"}

(* The game state and the scores of this frame are in place. *)
StartFrame ==
  /\ At(Main, "idle")
  /\ phase' \in Phases
  /\ applicable' \in IF phase' = "playing" THEN SUBSET (Plays \ {Stopped}) ELSE {{}}
  /\ frameClass' = play_class
  /\ Goto(Main, "execute")
  /\ UNCHANGED <<registryVars, playVars, goalieVars, blacklist, restarting,
                 frameVars, changed, aborted, asked, owed>>

(* Lines 41 to 47; `isinstance' tells an old Stopped class from the new.   *)
RunStopped ==
  /\ At(Main, "execute") /\ phase = "stopped"
  /\ IF play = ModuleClass(Stopped) THEN Goto(Main, "roles")
                                ELSE Call(Main, "set", ModuleClass(Stopped), "wasStopped")
  /\ UNCHANGED <<restarting, owed, choices, blacklist, playDone>>

WasStopped ==
  /\ At(Main, "wasStopped")
  /\ restarting' = TRUE /\ owed' = TRUE
  /\ Goto(Main, "roles")
  /\ UNCHANGED <<choices, blacklist, playDone>>

RunHalted ==
  /\ At(Main, "execute") /\ phase = "halted"
  /\ Call(Main, "set", NoClass, "roles")
  /\ UNCHANGED <<restarting, owed, choices, blacklist, playDone>>

(* Lines 50 to 68. *)
Enabled == {NodeClass(n) : n \in enabled \cap registered}
MayRestart(c) == c.name \in Restarts => restarting

Filter_NoBlacklist ==
  /\ At(Main, "execute") /\ phase = "playing"
  /\ choices' = {c \in Enabled : MayRestart(c)}
  /\ Goto(Main, "unlist")
  /\ UNCHANGED <<restarting, owed, blacklist, playDone>>

Filter ==
  /\ At(Main, "execute") /\ phase = "playing"
  /\ choices' = {c \in Enabled : MayRestart(c) /\ c # blacklist}
  /\ Goto(Main, "unlist")
  /\ UNCHANGED <<restarting, owed, blacklist, playDone>>

Unlist_Forgotten ==
  /\ At(Main, "unlist")
  /\ Goto(Main, "current")
  /\ UNCHANGED <<restarting, owed, choices, blacklist, playDone>>

Unlist ==
  /\ At(Main, "unlist")
  /\ blacklist' = NoClass
  /\ Goto(Main, "current")
  /\ UNCHANGED <<restarting, owed, choices, playDone>>

(* Lines 72 to 92.  terminate() on a play that is gone raises.             *)
Current ==
  /\ At(Main, "current")
  /\ Goto(Main, IF IsPlay(play) THEN "judge" ELSE "choose")
  /\ UNCHANGED <<restarting, owed, choices, blacklist, playDone>>

NotEnabled_ByName == play.name \notin {c.name : c \in choices}
NotEnabled == play \notin choices
NotApplicable == ~playDone /\ play.name \notin applicable

Terminate ==
  /\ At(Main, "judge") /\ IsPlay(play) /\ (NotEnabled \/ NotApplicable)
  /\ playDone' = TRUE
  /\ Call(Main, "set", NoClass, "choose")
  /\ UNCHANGED <<restarting, owed, choices, blacklist>>

(* is_restart is not called on line 84: a bound method is always true.     *)
Finished ==
  /\ At(Main, "judge") /\ IsPlay(play) /\ ~NotEnabled /\ playDone
  /\ restarting' = FALSE
  /\ Call(Main, "set", NoClass, "choose")
  /\ UNCHANGED <<owed, choices, blacklist, playDone>>

Keep ==
  /\ At(Main, "judge") /\ IsPlay(play) /\ ~NotEnabled /\ ~playDone /\ ~NotApplicable
  /\ Goto(Main, "choose")
  /\ UNCHANGED <<restarting, owed, choices, blacklist, playDone>>

(* Lines 94 to 117. *)
Good == {c \in choices : c.name \in applicable}

Choose ==
  /\ At(Main, "choose") /\ ~IsPlay(play)
  /\ \E c \in Good :
       /\ Call(Main, "set", c, "chosen")
       /\ owed' = (owed /\ c.name \notin Restarts)
  /\ UNCHANGED <<restarting, choices, blacklist, playDone>>

ChooseNone ==
  /\ At(Main, "choose") /\ ~IsPlay(play) /\ Good = {}
  /\ Goto(Main, "roles")
  /\ UNCHANGED <<restarting, owed, choices, blacklist, playDone>>

(* The constructor of the chosen play raised an exception. *)
CannotConstruct ==
  /\ At(Main, "choose") /\ ~IsPlay(play) /\ Good # {}
  /\ Goto(Main, "roles")
  /\ UNCHANGED <<restarting, owed, choices, blacklist, playDone>>

Chosen ==
  /\ At(Main, "chosen") \/ (At(Main, "choose") /\ IsPlay(play))
  /\ Goto(Main, "roles")
  /\ UNCHANGED <<restarting, owed, choices, blacklist, playDone>>

Select ==
  /\ \/ RunStopped \/ WasStopped \/ RunHalted \/ Filter \/ Unlist \/ Current
     \/ Terminate \/ Finished \/ Keep \/ Choose \/ ChooseNone \/ CannotConstruct
     \/ Chosen
  /\ UNCHANGED <<envVars, registryVars, play, playSub, goalieVars, todo, changed,
                 aborted, asked, frameClass>>

(* The play vanished between lines 72 and 73. *)
JudgeNothing ==
  /\ At(Main, "judge") /\ ~IsPlay(play)
  /\ Raise(Main)
  /\ UNCHANGED <<envVars, registryVars, playVars, goalieVars, blacklist, restarting,
                 frameVars, changed, historyVars>>
-----------------------------------------------------------------------------
(* Role assignment and the subbehaviors, lines 121 to 142 and              *)
(* CompositeBehavior.spin().                                               *)
Present == (IF IsPlay(playSub) THEN {"play"} ELSE {})
             \cup (IF goalieSub # Absent THEN {"goalie"} ELSE {})

(* role_requirements() is read; assign_roles() found an assignment. *)
RolesFound ==
  /\ At(Main, "roles")
  /\ todo' = Present /\ asked' = NoClass
  /\ Goto(Main, "assignRoles")
  /\ UNCHANGED <<playVars, goalieSub, blacklist, aborted>>

(* It found none.  Only a required role can cause that. *)
RolesImpossible ==
  /\ At(Main, "roles") /\ Present # {}
  /\ Drop(Main, TRUE, "spin")
  /\ todo' = {}
  /\ UNCHANGED <<playVars, goalieSub, aborted>>

(* Each behavior that had requirements is looked up by name again. *)
AssignRoles ==
  /\ At(Main, "assignRoles")
  /\ StepOr(Main, todo \subseteq Present, "spin")
  /\ UNCHANGED <<todo, playVars, goalieSub, blacklist, asked>>

(* CompositeBehavior.spin() takes the names, *)
Spin ==
  /\ At(Main, "spin")
  /\ todo' = Present
  /\ Goto(Main, "spinning")
  /\ UNCHANGED <<playVars, goalieSub, blacklist, aborted, asked>>

(* and looks each of them up when its turn comes.  A behavior goes on,     *)
(* completes (Stopped is continuous and does not) or raises an exception.  *)
SpinGone ==
  /\ At(Main, "spinning") /\ todo \ Present # {}
  /\ Raise(Main)
  /\ UNCHANGED <<todo, playVars, goalieSub, blacklist, asked>>

SpinOne(name) ==
  /\ At(Main, "spinning") /\ name \in todo \cap Present
  /\ todo' = todo \ {name}
  /\ UNCHANGED <<play, playSub, goalieSub, aborted>>
  /\ \/ /\ th' = th
        /\ playDone' \in {playDone, playDone \/ (name = "play" /\ play.name # Stopped)}
        /\ UNCHANGED <<blacklist, asked>>
     \/ /\ name = "play" /\ Drop(Main, TRUE, "spinning")
        /\ UNCHANGED playDone
     \/ /\ name = "goalie" /\ Call(Main, "dropGoalie", NoClass, "spinning")
        /\ UNCHANGED <<blacklist, asked, playDone>>

EndFrame ==
  /\ At(Main, "spinning") /\ todo = {}
  /\ Goto(Main, "idle")
  /\ UNCHANGED <<todo, playVars, goalieSub, blacklist, aborted, asked>>

Behaviors ==
  /\ \/ RolesFound \/ RolesImpossible \/ AssignRoles \/ Spin \/ SpinGone
     \/ SpinOne("play") \/ SpinOne("goalie") \/ EndFrame
  /\ choices' = IF At(Main, "roles") THEN {} ELSE choices    (* a local *)
  /\ UNCHANGED <<envVars, registryVars, goalieId, restarting, changed,
                 frameClass, owed>>

(* goalie_id.setter, called between two frames; -1 stands for no goalie.   *)
SetGoalie_MinusOne ==
  /\ At(Main, "idle")
  /\ goalieId' \in GoalieIds \cup {Absent}
  /\ Call(Main, "setup", NoClass, "idle")
  /\ UNCHANGED <<envVars, registryVars, playVars, goalieSub, blacklist, restarting,
                 frameVars, changed, aborted, historyVars>>

SetGoalie ==
  /\ At(Main, "idle")
  /\ goalieId' \in GoalieIds \cup {None}
  /\ Call(Main, "setup", NoClass, "idle")
  /\ UNCHANGED <<envVars, registryVars, playVars, goalieSub, blacklist, restarting,
                 frameVars, changed, aborted, historyVars>>

(* The user's playbook and check boxes.  A frame reads them once.          *)
Configure ==
  /\ At(Main, "idle")
  /\ enabled' \in SUBSET registered
  /\ UNCHANGED <<envVars, version, play_class, registered, playVars, goalieVars, blacklist,
                 restarting, frameVars, changed, th, aborted, historyVars>>
-----------------------------------------------------------------------------
(* The watcher: fswatch_callback().                                        *)

(* A skill, tactic or evaluation was reloaded or deleted. *)
HelperChanged ==
  /\ At(Watcher, "idle")
  /\ Drop(Watcher, FALSE, "thenGoalie")
  /\ UNCHANGED <<registryVars, changed, frameClass, owed>>

ThenGoalie ==
  /\ At(Watcher, "thenGoalie")
  /\ Call(Watcher, "dropGoalie", NoClass, "idle")
  /\ UNCHANGED <<registryVars, changed, blacklist, historyVars>>

(* A play's module was reloaded: it has a new class, the registry has the *)
(* old one still.  If its last lines raised an exception, that is all.     *)
PlayReloaded(n) ==
  /\ At(Watcher, "idle") /\ n \in registered /\ version[n] < MaxVersion
  /\ version' = [version EXCEPT ![n] = @ + 1]
  /\ \/ changed' = n /\ Goto(Watcher, "register")
     \/ UNCHANGED <<changed, th>>
  /\ UNCHANGED <<play_class, registered, enabled, blacklist, historyVars>>

(* The node gets the new class.  Line 113 compares the name of the class   *)
(* of a function, so the play is never dropped here.                       *)
RegisterClass(n) ==
  /\ At(Watcher, "register") /\ n = changed
  /\ play_class' = [play_class EXCEPT ![n] = version[n]]
  /\ changed' = None /\ Goto(Watcher, "idle")
  /\ UNCHANGED <<version, registered, enabled, blacklist, historyVars>>

(* `play != None' is read before the play's name and the drop. *)
PlayDeleted(n) ==
  /\ At(Watcher, "idle") /\ n \in registered \ {Stopped}
  /\ changed' = n
  /\ IF play.name = n THEN Drop(Watcher, FALSE, "unregister")
                      ELSE Goto(Watcher, "unregister") /\ UNCHANGED <<blacklist, asked>>
  /\ UNCHANGED <<registryVars, frameClass, owed>>

Unregister(n) ==
  /\ At(Watcher, "unregister") /\ n = changed
  /\ changed' = None
  /\ registered' = registered \ {n} /\ enabled' = enabled \ {n}
  /\ Goto(Watcher, "idle")
  /\ UNCHANGED <<version, play_class, blacklist, historyVars>>

PlayCreated(n) ==
  /\ At(Watcher, "idle") /\ n \in Plays \ registered
  /\ registered' = registered \cup {n}
  /\ play_class' = [play_class EXCEPT ![n] = version[n]]
  /\ UNCHANGED <<version, enabled, changed, th, blacklist, historyVars>>

WatcherStep ==
  /\ \/ HelperChanged \/ ThenGoalie
     \/ \E n \in Plays : \/ PlayReloaded(n) \/ RegisterClass(n)
                        \/ PlayDeleted(n) \/ Unregister(n) \/ PlayCreated(n)
  /\ UNCHANGED <<envVars, playVars, goalieVars, restarting, frameVars, aborted>>
-----------------------------------------------------------------------------
Frame == \/ StartFrame \/ Select \/ JudgeNothing \/ Behaviors \/ Method(Main)

Next     == Frame \/ SetGoalie \/ Configure \/ Method(Watcher) \/ WatcherStep
NextMain == Frame \/ SetGoalie \/ Configure

Spec     == Init /\ [][Next]_vars
SpecMain == Init /\ [][NextMain]_vars     (* no source file changes *)

(* GameplayModule::run() calls run() in every frame, the processing thread *)
(* is not starved of _loopMutex, and no constructor raises every time.     *)
FairMain == SpecMain /\ WF_vars(Frame) /\ SF_vars(StartFrame) /\ SF_vars(Choose /\ Select)
-----------------------------------------------------------------------------
TypeOK ==
  /\ phase \in Phases /\ applicable \subseteq Plays
  /\ {version, play_class} \subseteq [Plays -> 1 .. MaxVersion]
  /\ enabled \subseteq registered /\ registered \subseteq Plays
  /\ {play, playSub, blacklist, asked} \subseteq Class \cup {NoClass}
  /\ playDone \in BOOLEAN /\ restarting \in BOOLEAN /\ aborted \in BOOLEAN
  /\ goalieId \in GoalieIds \cup {None}
  /\ goalieSub \in GoalieIds \cup {None, Absent}
  /\ choices \subseteq Class /\ todo \subseteq {"play", "goalie"}
  /\ owed \in BOOLEAN

Quiet == \A t \in Threads : th[t].callers = <<>>

(* Between the calls of the setters the tree agrees with the fields: the   *)
(* subbehavior 'play' is the current play and there is none without one,   *)
(* and exactly one behavior looks after the goalie: RootPlay's own unless  *)
(* the play handles it; and it is told which robot that is.                *)
TreeMatchesFields ==
  Quiet =>
    /\ playSub = play
    /\ goalieSub = IF goalieId = None \/ (IsPlay(play) /\ HandlesGoalie(play))
                     THEN Absent ELSE goalieId

(* Without a change of the sources no exception reaches main.run().        *)
FrameCompletes == ~aborted

(* A play whose new class the registry had before a frame began is not     *)
(* spun by it, although nobody drops it.  (Between the reload and the      *)
(* registration frames go on with the old class.)                          *)
ReloadedPlayIsReplaced ==
  At(Main, "spinning") /\ IsPlay(play) => play.ver >= frameClass[play.name]

(* The class that failed in the last frame is not chosen in this one.      *)
FailedPlayRests ==
  At(Main, "set") /\ th[Main].callers = <<"chosen">> => th[Main].val # asked

OnlyChoice(n) ==
  /\ phase = "playing" /\ enabled = {n} /\ n \in applicable
  /\ n \in Restarts => restarting

(* A play that alone may run, and stays applicable, is run again and again *)
(* whatever it raises: a failure costs it one selection, not the match.    *)
ApplicablePlayRuns ==
  \A n \in Plays \ {Stopped} : <>[]OnlyChoice(n) => []<>(play.name = n)

(* Once the game was stopped, restart plays stay available until one runs. *)
RestartIsOwed == owed => restarting
=============================================================================
