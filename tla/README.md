# robocup-software in TLA+

This directory is a verification project for the RoboJackets robocup-software
repository: TLA+ models of the parts of it that carry its concurrency and its
control, TLC runs on small instances, and proofs checked by TLAPS.

- [1. The system](#1-the-system)
- [2. Modules](#2-modules)
- [3. The referee module](#3-the-referee-module-referee)
- [4. The firmware's packet router](#4-the-firmwares-packet-router-commmodule-packetrouter)
- [5. The choice of the play](#5-the-choice-of-the-play-rootplay)
- [6. The state machines of gameplay](#6-the-state-machines-of-gameplay-statemachine)
- [7. The processing loop](#7-the-processing-loop-processor)
- [8. The coordinated pass](#8-the-coordinated-pass-pass)
- [9. The way of a command to the air](#9-the-way-of-a-command-to-the-air-radiolink)
- [10. The ball's tracks](#10-the-balls-tracks-tracks)
- [11. Runs](#11-runs)
- [12. Fairness](#12-fairness)
- [13. Proofs](#13-proofs)
- [14. Where code and text disagree](#14-where-code-and-text-disagree)
- [15. Not modelled](#15-not-modelled)

## 1. The system

The repository holds the whole software of a RoboCup Small Size League team.
One computer runs *soccer*, which watches the field through cameras, follows a
referee box, decides what six robots do and sends them commands by radio; a
base station relays the commands; each robot runs firmware on a controller, an
FPGA and a kicker board.

| Part | State it keeps | Operations | Interacts with | Correct when |
|---|---|---|---|---|
| Processor (`soccer/Processor.cpp`) | the frame (SystemState), joysticks, manual robot, colour, side, `_loopMutex` | one frame of `run()`; setters called by the window | everything below, in one thread; the window's thread through the mutex | one frame uses one team, one manual robot, one game state; a halt stops all robots; it never stops running |
| Referee module (`soccer/NewRefereeModule.cpp`, `GameState.hpp`) | stage, command, team infos, kick detector, GameState | `run()` (a thread), `updateGameState()`, `spinKickWatcher()`, `stop()` | referee box (UDP), buttons, Processor, gameplay | the phase of play follows the referee; play starts by itself only after a verified kick |
| Vision receiver (`soccer/VisionReceiver.cpp`) | socket, port, vector of packets | `run()` (a thread), `getPackets()`, `stop()` | Processor, the window (change of channel) | each packet has one owner; the thread listens to the chosen port; `stop()` returns |
| Gameplay tree (`gameplay/root_play.py`, `composite_behavior.py`, `play_registry.py`) | the current play, the goalie, the blacklist, subbehaviors, the registry | `execute_running`, `spin`, setters, playbooks | Processor through `GameplayModule.cpp`; a watcher thread (`main.py`) that reloads code | tree and fields agree; one behavior has the goalie; a failing play costs a selection, not the match |
| State machines (`gameplay/fsm.py`, `behavior.py`) | state, hierarchy, transitions | `spin`, `transition`, `restart`, `terminate`, hooks | every skill, tactic, play | each `on_enter` is matched by one `on_exit`, inside its parent's |
| Role assignment (`gameplay/role_assignment.py`) | - | `assign_roles` | gameplay tree, double-touch tracker | required roles get distinct fitting robots, or the failure is reported |
| Passes (`tactics/coordinated_pass.py`, `skills/pivot_kick.py`, `pass_receive.py`) | nested state machines, a timer, a count of frames | `spin`, role changes, restarts | gameplay tree, sensors | every state finds its subbehaviors; the kick happens when both are ready; the pass ends |
| Double touch (`evaluation/double_touch.py`) | state, kicker's shell | `spin`, `restart` | RootPlay, role assignment | the kicker of a restart does not touch the ball twice |
| Motion planning and control (`soccer/planning`, `soccer/motion`) | a path per robot, RRT trees | `run()` per robot and frame | gameplay's commands, obstacles | a path is replanned when invalid and else kept |
| Estimation (`soccer/modeling`) | the ball's real and possible tracks, robot filters | `run`, `update`, `predict` | vision, Processor | a ball is made from enough sightings, found again when lost, and dropped after a timeout |
| Radio (`soccer/radio`) | USB device, transfers in flight, replies | `open`, `send`, `receive`, `rxCompleted`, `command` | base station | an open device listens; a failed device is reopened and commands flow again |
| Log and window (`soccer/Logger.cpp`, `MainWindow.cpp`) | a ring of frames, a file | `addFrame`, `getFrames` | Processor writes, the window reads | a reader gets whole frames in order; a full disk ends the log only |
| Packet router (`firmware/common2015/modules/CommModule`) | ports, two mail queues with their pools | `send`, `receive`, two worker threads, `setRxHandler`, `close` | radio link's thread, console, control task, base station's main loop | a packet is handed to its port's callback once and in order; blocks of the pools are not lost or shared |
| Base station, radio link (`base2015`, `CommLink`, `CC1201`) | the endpoints, the watchdog, the chip's modes and FIFOs | main loop, interrupt routine, a thread, `sendData`, `getData` | router, SPI, host | no packet stays in the chip; a chip that fails costs a reset and no more |
| Robot controller, FPGA, kicker (`firmware/robot2015`) | duty cycles, registers, hall counters | control task, console commands, clocked logic | each other over SPI | words are transferred whole |

**How the parts interact.** The processing thread calls vision, estimation,
referee, gameplay, planning, motion, radio and log in a fixed order, once a
frame, under `_loopMutex`. The window's thread takes the same mutex in most of
its setters, but not in all, and the referee's and the receiver's threads only
take their own. Gameplay is Python under the interpreter's lock; the watcher is
a third Python thread without a lock of its own. The firmware's threads
exchange packets through mail queues and signals of the RTOS.

**What is hard.** Fields that threads share without a lock (referee, window,
watcher); flags that a thread sets after it was started, so that a stop may come
first; bounded pools that somebody waits for; exceptions in the middle of a
change of several fields; state machines whose transitions depend on what
other machines did earlier in the same frame. The hazards are listed, each at
its line, in `PROJECT.json`; more of them, of parts that are not modelled, are
in section 15.

## 2. Modules

| Module | What it specifies | TLC | Proofs |
|---|---|---|---|
| `Referee` | the referee's thread, the frame's use of it, the kick detector | `MCReferee` | `RefereeProofs` |
| `PacketRouter` | abstract: what users of the router rely on | by refinement | `CommModuleProofs` |
| `CommModule` | the threads, queues and pools that implement it | `MCCommModule` | `CommModuleProofs` |
| `RootPlay` | the choice of the play, the goalie, reloading | `MCRootPlay` | `RootPlayProofs` |
| `StateMachine` | `fsm.StateMachine` for any hierarchy of states | `MCStateMachine` | `StateMachineProofs` |
| `Processor` | the loop, the vision receiver, the window | `MCProcessor` | `ProcessorProofs` |
| `Pass` | a pass with its kicker and its receiver | `Pass` | `PassProofs` |
| `RadioLink` | the host's USB radio, the base station, the radio chip | `RadioLink` | `RadioLinkProofs` |
| `Tracks` | the ball tracker | `Tracks` | `TracksProofs` |

Composition: `CommModule` implements `PacketRouter` under a refinement mapping
(`ImplementsRouter`); `Processor` holds the window, the loop and the receiver
together; `RadioLink` holds the host, the base station's three threads of
control and the chip together, and takes of the router of `CommModule` the
number of its blocks in use. `Pass` uses the semantics of `StateMachine` as its
transitions: hooks of one transition are one step, because nothing comes
between them in one thread.

What would come next, in order of worth: `DoubleTouch` with the restarts of
`RootPlay`; the ring of `Logger` with the readers of the window, against a
sequence of frames with a window on its end; `RoleAssignment`, a pure function
against a definition by all assignments; `Replan` (when a path is kept) and the
SPI slave of the FPGA.

## 3. The referee module (`Referee`)

Three actors: the *receiver* is `NewRefereeModule::run()`, cut into a step per
write of a shared field; the *frame* is what `Processor::run()` does each
period, cut into a step per read of those fields: `RunModels` (time, ball),
`UpdateScores`, `UpdatePeriod`, `UpdateState`, `UpdateInfos` (the four parts of
`updateGameState()`) and `SpinKickWatcher`; the *operator* presses the buttons
(`FastClick`), switches the external referee, changes our colour, and ends the
program.

The tables of `updateGameState()` are operators: `PeriodOf`, `StateAfter`,
`RestartAfter`, `OurRestartAfter`, `ArmedAfter`. Ball positions are integers on
a line; `nearPoint` compares distances. Time is a time of day, as `QTime` is:
`DayLength` instants, and `msecsTo` is negative over midnight. The detector's
first value is uninitialised in the code, and any in `Init`. `away` and
`awayFor` are history variables: for how long the ball has been seen away from
its place since Ready; they define what a *verified kick* is.

Left out: the packets kept in a list for `getPackets()`, which nothing calls,
the log, the widgets, time stamps of packets.

## 4. The firmware's packet router (`CommModule`, `PacketRouter`)

`PacketRouter` is what users rely on: per direction a bounded queue, packets
handed in order to the callback of their port, dropped only when the port has
none at that time. `CommModule` is the code: producers (`StartProducing`,
`Alloc`, `Put`), mail queues with a pool of blocks, two workers (`GetMail`,
`CallBack` or `NoCallBack`, `CallbackReturns`, `FreeMail`), start signals
passed from the first handler to the tx worker, to the rx worker, to
`_isReady`, the initialisation of the robot (`InitPort`, `InitWait`) and a
console that opens and closes a port, resets counts and sends. The loopback
port's tx callback calls `receive()` while the tx worker still holds a block:
it is a producer of the other direction.

The mapping: `open` is the set of handlers, `waiting` is the queue's blocks read
from memory, with the block a worker has taken and not yet looked up; `called`
is the same history. Capacity is the number of blocks. `OneOwner` says of each
block that it is free, queued, held by the worker or being filled, and only one
of these: none is shared and none is lost.

External: the RTOS (`Mail`, signals, threads), modelled by what it does. The
radio's transmission is a callback that returns.

## 5. The choice of the play (`RootPlay`)

The state is RootPlay's own: the play, the goalie's id, the subbehaviors called
`play` and `goalie`, the blacklist, the flag for restarts; with the registry,
class versions (a reload makes a new class object of the same name), and the
game's phase and the applicable plays of a frame, which are arbitrary. The
setters (`SetPlay` ... `SetShell`) are cut where they read or write a field and
run by either thread, with a small stack of callers. A frame goes through
`execute_running` (`RunStopped`, `RunHalted`, `Filter`, `Unlist`, `Current`,
`Terminate`, `Finished`, `Keep`, `Choose` ...), the assignment of roles and
`CompositeBehavior.spin()` (`Spin`, `SpinOne`, `EndFrame`). The watcher runs
`fswatch_callback` for plays and for helpers. A play that is modified has a new
class in its module from the reload on (`PlayReloaded`, `version`) and in the
registry, where plays are chosen from, only some lines later (`RegisterClass`,
`play_class`), or never, when the callback raises in between. Frames that begin
before that go on with the old class; `ReloadedPlayIsReplaced` speaks of those
that begin after it.

A constructor or a spin of a play or goalie may raise; `score()`,
`role_requirements()` and exit methods are taken not to. Scores are reduced to
finite or not, so any applicable play may be the best.

History: `aborted` (an exception reached the top), `asked` (what failed in the
last frame), `frameClass` (the registry's classes when the frame began), `owed`.

## 6. The state machines of gameplay (`StateMachine`)

`fsm.StateMachine` hook by hook for any hierarchy: `spin()` executes the
states of the lineage, takes a transition, and spins again if the state
changed; `transition()` leaves and enters hooks outermost first; `restart()`
and `terminate()` are orders from outside; a hook may raise. `Lineage` is the
least set closed under `Parent`, so that no recursion is needed. `active` is the
history of hooks: entered and not left. The order of the dictionary of
transitions is left open.

## 7. The processing loop (`Processor`)

Three threads: `Processor::run()` with a place before each use of a lock or a
shared setting, `VisionReceiver::run()`, and the main thread, from `main()` to
the slots of the window. Which robots are visible, whether the game is halted
and which kicks gameplay wants is arbitrary in each frame. `teams`, `visible`,
`halt`, `armed`, `driven` and `tx` hold what a frame computed and are forgotten
at its end. Packets are heap addresses; `heap` is what is allocated and `lost`
what nobody will free (packets that could not be parsed). `changeVisionChannel`
waits for the receiver while it holds the loop's mutex; `Quit` makes the loop
stop the receiver itself. A write to the log can fail: `addFrame()` then locks
its own mutex a second time and no step leads on.

The team is read anew wherever a frame needs it. `NextFrame` copies it into the
frame's log (`logged`), before the mutex; the models, the referee module and the
names read it under the mutex (`teams`). These see one team in every frame, while
the log has the other one exactly when the window changed the team after
`NextFrame` and before `Lock` (`recoloured`, a history variable): such a frame is
drawn with its two teams exchanged (`FieldView.cpp:433`).
`OneTeamPerFrame` says both.

Left out: the side of the field (`defendPlusX()` writes it without a lock), the
half-field filters, the log's copies of the manual robot and the side, the
simulated cameras, whose port is not chosen (`VisionReceiver.cpp:34`), and
exceptions, which end the program.

## 8. The coordinated pass (`Pass`)

A frame is: `AssignRoles`, which may give any behavior another robot; the
pass's transitions (`Prepare`, `EnableKick`, `Kicked`, `Decide`, or
`PassWaits`); the kicker's (`KickerSteps`, as many as follow each other) and
then its subbehavior's (`KickerSettles`); the receiver's (`BeginAligning`,
`BeginReceiving`, `Align`, `Receive`). `phase` says whose turn it is.
`KickerTo` and `ReceiverTo` are a transition with the hooks it runs: which
subbehaviors are added and removed, what is reset. `KickerOn` and `ReceiverOn`
are a change of robot, which restarts a behavior in whatever state it is, and
its subbehavior gets the robot without a restart of its own. `Restart` is an
owner that runs the pass again, with the old receiver (the test play) or a new
one (`OneTouchPass`).

The geometric conditions (aimed, steady, off the channel, has the ball) are
arbitrary in each frame, so the model allows any match. The `Capture` and `Aim`
of the kicker are reduced to the states others look at; the receiver's own
capture to whether it is there. `captor` is history.

Left out: `terminate()` and `restart()` of the pass in the middle of it
(section 14), and the points where the robots and the ball go.

## 9. The way of a command to the air (`RadioLink`)

*Host*: one thread that calls `receive()` and `send()` in turn. `open()` is
`OpenNothing`, `OpenUnclaimed` (it fails after `_device` was set) or
`OpenClaimed` with the two strobes of `channel()` (`Command`, or
`CommandThrows`), after which the receive transfers are submitted (`Submit`).
`Receive`, which submits completed ones again (`Resubmit`), `Send` and
`SendFails` (with `Close`) follow. Nobody looks at the result of a submission, so
each may fail; `lost` is the history of how many did, for this handle. `device`
is `_device` with what libusb knows of it: claimed, not claimed, or `deaf`,
claimed by a write but without receive transfers. `isOpen()` is true of all
three, and of a `stale` handle, whose base is gone. `OpenRadioListens` says for
each of them how many transfers are left to hear the robots with: all while
nothing has failed, and afterwards all but what the failures named in it cost.

*Base station*: its main loop (`ReadEP`, `Enqueue`, which may wait for a block),
the tx worker step by step through `CC1201::sendData()` and the link's thread
through `rxThread()` and `getData()`; and the USB interrupt, which serves the
host's strobes in the middle of any of them. The steps are the SPI transfers,
and the burst that fills the FIFO is two, since a strobe may fall into it.

*Chip*: modes, the two FIFOs, its error states, and which strobe leaves which
of them. *Environment*: robots reply, replies are lost; the base is unplugged
or reset by its watchdog, and boots; another program takes the device.
`mishaps` counts failures that come from outside, up to `MaxMishaps`.

External: libusb, the chip and the USB device's hardware, modelled from what the
code and the comments in it use of them.

## 10. The ball's tracks (`Tracks`)

`BallTracker::run()` with the real track and the possible ones: `VisitAll` is
its loop over the tracks (a track takes the nearest sighting within reach, and
both are removed from their vectors by moving the last element into the gap),
`StartTracks` adds a track per sighting that is left, `Acquire` makes the
first confirmed track real, `FollowReal` keeps or drops the real one. Positions
are cells as wide as `Acquisition_Match_Distance`; two sightings match when they
are in the same or in neighbouring cells. Times are ages.

Which sighting the real track's Kalman filter takes depends on an estimated
velocity; any of the newer ones, or none, is allowed. `trails` is history: what
an observer who keeps all sightings would count.

`frame` only marks that a frame took place, for fairness; no property reads it.

## 11. Runs

| Run | What it shows | Bounds, and why they suffice |
|---|---|---|
| `referee_kick` | types; Ready is armed; play starts by itself only after a verified kick; a kick is decided | a match run by the buttons, so that no packet is needed; five commands, two positions, a day of five instants with frames of one or two: midnight falls inside a verification, a verification spans frames with a lost or returned ball, restarts follow each other |
| `referee_view` | torn and stale views of the stage and the score do not outlive the changes; `stop()` ends the thread | two packets that differ in stage and score; the operator and the receiver interfere at every read and write, with changes of our colour |
| `comm_router` | types; each block has one owner and none is lost; the threads implement `PacketRouter`; start-up completes, every accepted packet is handled and its block returned | three packets out, one in, pools of two blocks: the pools run out, the loopback fills both; one console call: a port closes or opens under way |
| `root_play` | tree and fields agree; no frame aborts; a failed play rests; the only play that may run is run again and again | Stopped, a play that leaves the goalie to RootPlay, a restart play that does not, two goalie ids; failures anywhere, any number of frames |
| `root_play_watcher` | a play whose new class the registry had when a frame began is replaced before that frame spins it | two plays, two versions, a reload and a registration in two steps, the watcher's thread at every step. History variables the property does not read are left out of the view by which TLC tells states apart |
| `root_play_owed` | violated: section 14 | as `root_play`, without a goalie |
| `state_machine` | each enter has its exit; a state is entered inside its parent | a hierarchy of three levels with self-loops, jumps between branches and to parents |
| `processor` | types; packets have one owner; one team per frame, in its log too unless the window changed it before the lock; what is sent agrees with the frame; the receiver listens to the chosen port; loop and window go on unless one of two named waits was entered | one robot, two packets (the queue, the frame and the receiver hold packets at once), two ports, one bad packet; locks and settings do not depend on the number of robots, and the theorems are for every number |
| `pass` | types; every state finds its subbehaviors; the robot that aims is the one that captured; nobody kicks early; a receiver judges a settled ball; the pass ends unless the receiver lost its robot | three robots, so that either role may move to a robot of neither; stabilization in three frames, a time limit of four, so that each comes first in some behaviour; two passes, so that the second begins with a used receiver |
| `pass_hangs` | violated: section 14 | as `pass`, one pass |
| `radio_link` | types; how well an open radio listens; the worker waits for ever only after a mishap; commands flow again | two robots' replies, a FIFO for one round of them, a pool of two blocks, so that it runs full behind a stuck worker; two receive transfers of the code's four, so that one or all are lost; two mishaps: one while the first is not yet overcome |
| `tracks` | types; the ball in play was seen lately; a ball is acquired only where three frames of sightings lead; one seen in every frame is found again and again | two places out of each other's reach and one off the field; two sightings in a frame, which is one false one for each true one, of two ages; moves from one place on the field to another are covered by the theorem only (`AcquiredCorrect`); a track lives two ticks. Frames are one tick apart: with a stall as long as `Drop` every track is dropped, and nothing could be promised |

Every property of a passing run is also checked to fail for a plausible mistake
in the code (`mutants` in `PROJECT.json`): the operators with a suffix, such as
`SetTeam_Unlocked`, are those mistakes, and no specification uses them.

`CHECK_DEADLOCK FALSE` appears where the modelled program ends: the router when
all packets are sent, the processor after `Quit`, the radio after an exception.
The initial delays, lengths and counts that appear as constants are bounds of
the instances only, except `MaxConsole`, `MaxVersion`, `MaxLost`, `MaxPasses`,
`MaxMishaps` and `MaxSightings`, which bound what the outside does.

## 12. Fairness

- `Referee`: the processing loop and the receiver's thread are scheduled and
  `waitForReadyRead()` returns in the end (it has a timeout). No packet arrives
  by obligation, and the operator owes nothing.
- `CommModule`: the RTOS runs every thread that stays runnable (weak fairness
  only, since nothing but finitely many packets competes for the blocks). Nobody
  has to send.
- `RootPlay`: the processing thread calls a frame again and again and is not
  starved of the mutex by changes of the goalie (strong fairness of
  `StartFrame`); a constructor does not raise every time (strong fairness of
  `Choose`). No change of the sources.
- `Processor`: every thread is scheduled; loop and window both get the mutex
  they compete for if it is free again and again (a queue in the kernel); the
  window's timer fires for ever. `FramesContinue` and `WindowResponds` exclude
  the two states in which the code blocks for good, `LostStop` and
  `SelfLocked`, and only those.
- `Pass`: frames go on (weak fairness of `Next`). No condition of a behavior
  has to hold: `ReceivingEnds` rests on the time limit alone.
- `RadioLink`: the host's loop and the base's three threads run, the chip
  transmits what it has begun, the watchdog fires and the base boots: weak
  fairness of each. Mishaps are finitely many. The other program owes nothing:
  `CommandsFlow` is about behaviours in which it leaves in the end.
- `Tracks`: frames go on. A `Frame` is possible in every state and changes
  `frame`, so weak fairness of that change, over `frame` alone, is the same as
  weak fairness of `Frame`.

## 13. Proofs

TLAPS checks, for every value of the constants that meets the modules'
assumptions:

| Module | Theorem | Argument |
|---|---|---|
| `RefereeProofs` | `TypeCorrect`, `ArmedCorrect` (`ReadyIsArmed`), `KickCorrect` (`KickIsVerified`) | The invariant is `TypeOK`, `ReadyIsArmed` and `ClockIsHonest`: a detector in VerifyKick has seen the ball away since an instant it recorded, so the elapsed time of the day is at most the time it was away, also over midnight. `ReadyIsArmed` alone is not inductive, since the step to Kicked depends on the clock. |
| `CommModuleProofs` | `TypeCorrect`, `BlocksHaveOneOwner` (`OneOwner`), `ContentsCorrect`, `Implementation` (`ImplementsRouter`), `NoDeadlock` | A block is free, in the queue, with the worker or with a producer, and with one of them; and what is in the queue or with a worker was filled. `OneOwner` speaks of sequences without repetitions, kept by lemmas on appending and on taking the head. **The refinement** has a lemma per action on what it does to `Waiting`. `PutAccepts`: a put is the router's Accept, which needs room; there is room because queue, worker and the block that is put are different blocks of a finite pool (`DistinctLength`, a pigeonhole). `GetWaits`: taking a block from the queue leaves `Waiting` as it was, the memory being unchanged since nobody else has the block. `CallTakes`: the lookup of the port is HandOver or Drop. **That the threads never all wait** (`NobodyIsStuck`) is said with the guards of the actions, `ENABLED` being out of reach. It needs `StartChain`, where the start signal is on its way; `LoopbackInside`, that the tx worker produces only inside its callback; and that no block is lost: who waits for a block then knows that a pool is empty because someone else has or queued its blocks, and the chain of waiting ends at the rx worker, whose callback waits for nothing. |
| `RootPlayProofs` | `TypeCorrect`; `ReloadedPlayGoes` (`ReloadedPlayIsReplaced`), with the watcher; `TreeCorrect` (`TreeMatchesFields`), `FramesComplete` (`FrameCompletes`), `FailedPlayWaits` (`FailedPlayRests`), without | `StackOK` says what a thread's stack of callers can be: empty, one place of the frame, or that under the play's setter; lemmas on `Goto`, `Call`, `Return` and `Raise` keep it, and every later step cites them instead of sequences. `Tree` then says, for each step of the setters and the place they were called from, how far the tree is from the fields: `PlayTree` for the play, `GoalieTree` for the goalie, `TurnTree` for what the frame has still to visit. It is needed because in the middle of a setter the properties are false. That no exception gets through (`FrameCompletes`) is a part of `Tree`, since a setter cut short by one would leave the tree as it was. `FreshInv` follows the versions of the classes from the registry and the choices through the argument of the setter to the play, with the watcher between any two steps; `AskedInv` does the same for the blacklist. |
| `StateMachineProofs` | `TypeCorrect`, `HooksAreBalanced` (`HooksBalance`), `StatesAreEnteredInside` (`EnteredInside`) | `Balance` follows a transition through its two loops: during the exits `active` is what both lineages share and what is still pending, during the entries what they share and what is no longer pending. It rests on lemmas about `Lineage`: closed, reflexive, and acyclic by the assumption on the hierarchy. |
| `ProcessorProofs` | `TypeCorrect`, `FramesHaveOneTeam` (`OneTeamPerFrame`), `SentCommandsAgree` (`CommandsAgree`), `OwnedPackets` (`PacketsAreOwned`), `ReceiverFollows` (`ListensToChannel`), `WaitsAreNotCircular`, `StuckForEver` | `MutexHeld` ties the mutex to places in the code; from it follows that settings are constant while a frame uses them (`Teams`, `Controls`, `Sending`). `Teams` also ties the team in the log to what the window did before the lock. Packets need `Holding` (who holds one where, and that the frame is empty when the loop takes the next packets) and `StaysLost`. `Channel` needs that the window opens after the first frame, so that the thread it waited for is not started by someone else. `NoCircularWait` and that `Stuck` is for good are what `FramesContinue` and `WindowResponds` rest on besides fairness. They need `WaitInv`: the receiver's flag is set only while it is in its loop, the loop stops it only after the window has quit, and the log's mutex is held only where a frame is written. |
| `PassProofs` | `TypeCorrect`, `SubbehaviorsCorrect` (`SubbehaviorsMatchStates`), `AimerCorrect` (`AimerHasCaptured`), `KickIsEnabled` (`NoEarlyKick`), `JudgementIsLate` (`JudgesSettledBall`) | `PassInv` joins `KickerInv` (the subbehavior the kicker's state implies, the robot it was given, the captor of the aim), `ReceiverInv` and what relates them to the pass's state: a kick that is enabled belongs to a pass in `kicking`. They hold through every change of robots and every later run of a pass that ended; a pass terminated or restarted in its middle is not in the model (section 14). Lemmas on `KickerTo`, `ReceiverTo` and the changes of robots carry each part; the frames of `FirstPass` are counted by `stable_frame` and by `age` together, which is why a second pass is not covered. |
| `TracksProofs` | `TypeCorrect`, `ValidCorrect` (`ValidIsRecent`), `AcquiredCorrect` (`AcquiredWasSeen`) | `AcquiredWasSeen` is not inductive: the track that is acquired must have been backed by sightings before. `TracksBacked` says so of every possible track: an observer who keeps all sightings knows a way to its place at least as long as the track's count. A track that waits keeps the way that led to it, which is forgotten only when the track is dropped; one that goes on with a sighting has that sighting's way, which is longer than the one it had (`TracksTurnGood`, over `ExtendLonger` and `GreatestLength`). The loop over the tracks and the start of new ones are recursive functions: that they exist and what holds after each turn is shown by the least counterexample (`Least`, from the well-foundedness of the naturals) in place of an induction. `Walking` is the loop's invariant: tracks before the index are visited and good, those from it on are as they were, also when the last one was moved into a gap. |
| `RadioLinkProofs` | `TypeCorrect`, `RadioListens` (`OpenRadioListens`), `StuckIsExcused` (`StuckNeedsMishap`) | Types need `Counted`: the worker between two packets holds none of the blocks, else one of those in use. `Calm`, for behaviours without a mishap, says which modes of the chip each place of the worker, of the link's thread and of the host's strobes can meet; a packet that waits in the FIFO is then always in a chip that transmits it or is about to be told to. So the base is not reset and no device is deaf or stale before the first mishap, which is the first half of `RadioListens`; the other half, `Accounted`, follows the transfers of a handle through submission, completion, loss and close. |

Only model-checked: all liveness properties, since liveness under fairness is
out of the prover's reach: `KickIsDecided`, `ViewSettles`, `StopTerminates`,
`ApplicablePlayRuns`, `FramesContinue`, `WindowResponds`, `ReceivingEnds`,
`CommandsFlow`, `SteadyBallIsFound`, and `Drains`, of which `NoDeadlock` is the
part without fairness, as `NoCircularWait` and `StuckForEver` are of the two of
`Processor`. The library's induction theorems cannot be instantiated either;
where a fact is needed for every number of turns, as in `Tracks`, the proof takes
the least counterexample. All other properties of the passing runs are theorems.

Assumptions of the theorems are those named in the modules
(`InputAssumption`, `TimeAssumption`, `PacketAssumption`, `ThreadAssumption`,
`PortAssumption`, `BlockAssumption`, `PlayAssumption`, `HierarchyAssumption`,
`ProcessorAssumption`, `PassAssumption`, `RadioAssumption`; of `Tracks`,
`TrackAssumption`): ranges of constants, distinct names, a hierarchy without
cycles, a pool with finitely many blocks, an initialisation that sets at least
one handler, and for a pass a time limit that is not shorter than the
stabilization. TLC evaluates them in every run.

## 14. Where code and text disagree

Kept as runs that TLC refutes:

- `root_play.py:54`, "only let restart play run once": line 84 tests the method
  `is_restart` without calling it, so any play that completes takes the restart
  plays away (`RestartIsOwed`).
- `coordinated_pass.py:23`, "If the receiver gets the ball, CoordinatedPass
  transitions to the completed state, otherwise it goes to the failed state": a
  receiver that is moved to another robot after the kick is restarted, forgets
  the kick and aligns for ever, and the pass waits for it (`PassIsDecided`).

Met while modelling, and described only. In the program of the host:

- `GameState.hpp:26` says of Stop that robots must stay 500 mm from the ball;
  `stayAwayFromBall()` (line 114) asks `ourRestart` too, which STOP does not
  reset.
- `Logger.cpp:56`, "Failed to write size, closing log": `close()` locks the
  mutex that `addFrame()` holds (`Logger.hpp:110`, not recursive), and the loop
  blocks with `_loopMutex`. `Processor` has this as `SelfLocked`.
- `Processor.cpp:268`: for want of a `break` robots of 2015 get the
  configuration of 2011.
- `USBRadio.cpp`: a radio that was opened without its interface, and gets it by
  a later write, sends but never hears a robot; a transfer that cannot be
  submitted (lines 119 and 137 ignore the result) is missing until the device is
  closed; and `command()` throws where
  `open()` reports a failure, so that a base lost in between ends the program.
- A ball that is seen in every frame may be invalid for a frame, when the real
  track took a false sighting and is dropped: `SteadyBallIsFound` says again and
  again, not always.
- `GameState.hpp:28` says of Ready that a robot of the starting team may kick;
  `canKick()` (line 110) requires Playing in both of its alternatives.
- `NewRefereeModule.hpp:92` says that teams must treat a goal as STOP;
  `updateGameState()` leaves the state as it was (`NewRefereeModule.cpp:327`).
- `main.cpp:39`, `-noref`, "don't use external referee commands": a packet that
  the thread already waited for is applied after the flag was cleared
  (`NewRefereeModule.cpp:131`).
- `NewRefereeModule.cpp:204`: differences of times of day are negative after
  midnight, so a ball that left just before it stays in verification.
- `NewRefereeModule.hpp:127` says that each packet updates the GameState; a
  command replaced before the next frame is never seen by one (line 268).
- `CommInitialization.cpp:105` says that packets for the logger's port are
  dropped for want of a callback; the lines below it set both handlers.
- `root_play.py:145`: `drop_current_play()` blacklists whatever its argument
  says. With the watcher's thread the tree and the goalie's behavior can differ
  from the fields, and a frame can abort.
- `VisionReceiver.cpp:58` and `NewRefereeModule.cpp:129`: the threads set their
  flag after they were started; a `stop()` that comes first is lost and waits
  forever (`LostStop`). A comment in the receiver says it times out "so the
  thread has a chance to exit".
- `Logger.hpp:87` says `getFrames()` clears frames it cannot populate; when the
  start lies outside of the ring it returns 0 without doing so (`Logger.cpp:96`).

In the behaviors:

- `double_touch.py:12` to `:15` quotes the rule that the kicker of a restart must
  not touch the ball again before another robot has; `root_play.py:96` restarts
  the tracker whenever a play is chosen, and then the kicker may.
- `pass_receive.py:216`: `stable_frame` is never reset; a receiver in its second
  pass judges the ball from the first frame on.
- A kicker that has kicked, and is moved to another robot before the pass has
  seen that, captures and kicks again, with the receiver already moving.
- `terminate()` or a restart of a pass in `preparing` or `kicking` leaves the
  subbehavior `kicker` behind, and the next `add_subbehavior()` raises.
- `one_touch_pass.py:55` reads `pass_bhvr.target_point`, which no pass has; the
  conditions before it are true whenever the line is reached.
- `timed_behavior.py:40` and `behavior_sequence.py:53` call methods that do not
  exist.

In the firmware:

- `CC1201::getData()` tests `device_state & 0x60 == 0x60`, which holds of
  TXFIFO_ERROR too: the link's thread may reset a chip for the worker's error.
- Several replies that are read from the chip at once are given on as one packet
  of a length the host rejects.

## 15. Not modelled

The share of the repository that the models cover is small: most of its lines
are geometry, drawing, register tables, generated headers and vendored code,
in which no state changes that a property of behaviours could speak of. In
detail:

- *Geometry, planning, motion control, robot filters, evaluation*: real-valued
  computations. What has control in them, keeping or replacing a path, is not
  modelled; the ball tracker is, up to its Kalman filter.
- *Skills, tactics and plays* beyond the machinery they share and the pass:
  transitions by geometry.
- *Role assignment*: `RootPlay` and `Pass` take its result, an assignment of
  distinct robots or a failure, as arbitrary; the search for the cheapest one
  is not modelled.
- *Double touch*: the tracker of the kicker; see section 14.
- *The log's ring*: `Processor` has the write that fails; `getFrames()` and its
  readers are not modelled.
- *Drawing, widgets, configuration files, message formats*: no state of
  interest beyond what `Processor` and `Referee` have.
- *Drivers*: sequential register protocols, and third-party code (I2C).
- *Firmware of 2011, speed gate, hardware tests, simulator, Matlab models,
  retired code, build files*: not part of the running system, or physics.
- *The kicker's firmware* toggles its ports in a loop at this commit; the FPGA's
  clocked logic has no actors but its clock.

Further hazards, besides those of `PROJECT.json`; no property is aimed at them,
but where a module is named its steps contain them:

| Where | What |
|---|---|
| `NewRefereeModule.cpp:129` | the thread sets its flag after it was started, as the receiver does: a `stop()` that comes first is lost |
| `NewRefereeModule.cpp:131` | `_useExternalRef` is read before a wait of half a second and not again after it |
| `NewRefereeModule.cpp:162` | every packet is kept in a list that nothing takes them from |
| `NewRefereeModule.cpp:276` | a change of colour in a restart leaves `ourRestart` as computed for the old colour |
| `VisionReceiver.cpp:63`, `:90` | a stop is seen only when the wait for a packet ends; a packet that cannot be parsed is never deleted (`Processor` has both) |
| `Processor.cpp:252`, `:716` | the log's copies of the settings are read before the lock (`Processor` has that of the team); the side and its transform are written without one |
| `main.py:90` | between the reload of a play's module and its registration, or when line 105 is never reached, frames choose and spin the old class (`RootPlay` has both) |
| `main.cpp:186` | `main()` spins on a bool without synchronisation |
| `GameplayModule.cpp:268` | a Python error throws past the release of the interpreter's lock |
| `root_play.py:124`, `:127` | only one kind of exception is caught around the assignment of roles; a goalie that is not visible drops the play in every frame |
| `composite_behavior.py:66`, `main.py:120` | names of subbehaviors may be gone when their turn comes (only with the watcher: `FrameCompletes`); an exception ends the watcher's thread |
| `fsm.py:69`, `:81` | of several transitions the first of a dictionary is taken (`StateMachine` leaves open which); a cycle of conditions that hold at once never ends |
| `role_assignment.py:288` | the total cost is compared with the weight that stands for infinity: one optional role without a fit fails them all |
| `RobotFilter.cpp:65` | visibility falls by timeout while commands go on |
| `USBRadio.cpp:192`, `:252` | robots beyond the sixth, the manual one among them, get no command; a device is closed with transfers in flight, whose structures are filled again (`RadioLink` has the latter) |
| `CommModule.cpp:74`, `:181`, `:248` | an entry of a closed port is made again after its callback; a producer may come between another's allocation and its put (`CommModule` has both); a map is changed without a lock while a worker searches it |
| `CC1201.cpp:50`, `CommLink.cpp:68` | the link's thread, the worker and the interrupt strobe one chip in sequences of transfers (`RadioLink` has it); an interrupt's signal is a flag and not a count |
| `commands.cpp:1023` | the console's own queue has two entries: an answer to a ping that does not fit is lost, and its memory with it |
