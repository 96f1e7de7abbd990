# libfranka in TLA+

A model of libfranka, the client library of the Franka robot: TLA+ modules, TLC
configurations that check them on small instances, and TLAPS proofs. The paths
below are relative to the repository (`src/network.h` is the file of that name
in the repository's `src` directory); `PROJECT.json` maps every definition to the
lines it stands for.

## 1. The system

A program that uses libfranka talks to one robot over two channels: a TCP
connection for commands (requests with a command id, responses with the same
id) and UDP for the real-time exchange, robot states one way and robot commands
the other. `Robot::control` runs a motion: it sends a Move, waits for its first
response and for states that show the motion, then calls the user's callbacks
once per state and sends what they return, until they finish the motion, throw,
or a state shows an error. A Move is answered **twice under one command id**,
when it starts and when it ends. While one thread is in `control`, others may
call `Robot::stop` and `Robot::automaticErrorRecovery`, which use the same TCP
connection and take no lock but `Network`'s.

### Inventory

| Component | State | Operations | What makes it correct |
|---|---|---|---|
| `Network` (`src/network.h`, `.cpp`) | sockets, `tcp_mutex_`, `command_id_`, `pending_response_` and its offset, `received_responses_` | `tcpSendRequest`, `tcpReceiveResponse` (polls), `tcpBlockingReceiveResponse`, `tcpThrowIfConnectionClosed`, `udpReceive`, `udpBlockingReceive`, `udpSend` | whichever thread reads, responses are assembled whole and in order and reach the thread that waits; a request is answered or fails; members are used under the lock |
| `Robot::Impl`, states (`src/robot_impl.cpp:45-190`) | `message_id_`, `latest_accepted_state`, the log | constructor, `update`, `readOnce`, `receiveRobotState`, `updateState` | never an old state for a new one; the newest of those that wait; `lost_packets` does not wrap |
| `Robot::Impl`, motions (`src/robot_impl.{h,cpp}`) | modes last seen, `current_move_*` | `startMotion`, `sendRobotCommand`, `throwOnMotionError`, `finishMotion`, `cancelMotion`, `executeCommand` | success is reported only for the robot's `kSuccess` to this Move; commands are sent only into a running motion |
| `ControlLoop` (`src/control_loop.cpp`) | callbacks, `motion_id_` | construction, `operator()` | `control` ends after the robot's verdict and reports it; every way out cancels what must be cancelled |
| `Logger` (`src/logger.cpp`) | ring of states and commands | `log`, `flush` | `flush` returns the newest records in order |
| `Robot`, `ActiveControl` and its subclasses (`src/robot.cpp`, `src/active_*.cpp`) | `impl_`, `control_mutex_`, `control_lock`, `control_finished` | `control`, `read`, `readOnce`, `start*Control`, `ActiveControl::readOnce`, `writeOnce`, destructor, moving a `Robot` | one owner of the robot at a time, the owner of its motion; a motion is finished or cancelled exactly once; every call ends |
| filter, rate limiting, control types, checks (`src/control_loop.cpp:128-273`, `src/rate_limiting.cpp`, `src/lowpass_filter.cpp`, `control_types.h`, `control_tools.h`) | none | `convertMotion`, `limitRate`, `lowpassFilter`, `check*`, `createMotionCommand` | only valid commands are sent; the robot's limits on velocity, acceleration and jerk are kept, also when packets are lost |
| `Gripper`, `VacuumGripper` and the setters of `Robot` | `Network` | blocking commands, `stop`, `readOnce` | a call reports what the device did with its request; `stop` ends another thread's command; a state that is read is new |
| `Model`, `ModelLibrary`, `LibraryDownloader`, `LibraryLoader` | a temporary file, a loaded library | load, forward | whatever fails, nothing stays behind; the library gets the right frames and the whole load |
| `RobotState`, `GripperState`, load calculations | none | conversion from the wire | every field arrives; the combined load is that of end effector and load |
| `Errors` | 41 flags, and references to them | copy, assignment | the members show the object's own flags |
| `Duration`, exceptions, printing, realtime priority | none | arithmetic of `std::chrono`, wording, system calls | - |
| `research_interface` (`common/include`) | none | message types | every status has a handler |

The interactions that are hard:

* **Threads share the TCP connection.** A thread that waits for its response
  reads other threads' responses and leaves them in `received_responses_`, keyed
  by command id, with one entry per id. A Move has two.
* **TCP and UDP are not ordered.** The end of a motion shows in the states before or
  after the final response arrives; the code deliberately looks at one, then
  waits for the other.
* **The states that decide are old.** `update` sends a command for the state received
  before, `startMotion` decides on the last state seen, and the other thread's `stop`
  or the robot's reflex can come between any two of these.
* **Ways out.** The connection is lost, no state arrives for a second, the user's
  callback throws, the Move is rejected first or later, the cancellation fails:
  each at every step of a motion.
* **One call at a time.** With `ActiveControl` the user owns the loop: the motion may end in
  `readOnce`, in `writeOnce`, in the last `writeOnce` or in the destructor, and the lock on the
  robot travels with the object.
* **Lost packets.** The robot extrapolates a command it does not get with the last acceleration, and the
  rate limits must leave room for that and recover from it without breaking another limit.
* **Numbers.** The log's ring indices, the unsigned difference that counts lost packets, loads without mass.

The hazards these lead to are listed, with their lines and the properties that
cover them, in `PROJECT.json`.

## 2. Modules

    LatestState      <--- StateReception <- StateReceptionProofs
    BoundedLog       <--- Logger (<- Errors)  <- MCLogger, LoggerProofs
    ResponseMailbox  <--- Network        <- MCNetwork, NetworkProofs
    ResponseMailbox  <--- RobotImpl, Services
    RobotServer <- RobotImpl <- ControlLoop   <- MCControlLoop, ControlLoopProofs
                             <- ActiveControl <- MCActiveControl, ActiveControlProofs
                             <- RobotImplProofs <- ControlLoopProofs, ActiveControlProofs
                   MotionContract <--- ControlLoop, ActiveControl
    RateLimiting <- CommandConversion <- MCCommandConversion, RateLimitingProofs
    RobotState <- ModelLibrary <- Services <- MCServices, ServicesProofs
    ServiceTypes, GripperState <- Services

`A <- B` means that B EXTENDS A; `A <---` with an abstract module (`LatestState`, `BoundedLog`,
`ResponseMailbox`, `MotionContract`) that B instantiates it and implements it.

* **RobotServer** is the other side: the robot controller, and the two channels.
  It is external to the repository and modelled from how `Robot::Impl` uses it and
  from what the tests' mock servers do. `phase` goes from `idle` to `accepted` to
  `moving` to `settling` and back, or to `reflex`. While it settles the motion
  generator and the controller stop one after the other, and the robot mode is the last to
  change, so that states with half of the modes exist. TCP is a pair of sequences;
  UDP states are a sequence of which a prefix may get lost or be skipped; the
  newest robot command replaces an older one in flight.
* **RobotImpl** is `Robot::Impl` for one thread that runs a motion (`step` says where
  it is in the call, `resume` where `update` returns to) and a second thread with
  an `executeCommand` in progress (`other`). One step is one locked pass over
  `received_responses_` (`Take` finds the response, `Wait` reads another one), one
  `sendRobotCommand`, or one `receiveRobotState`. The exceptions thrown are kept in
  `thrown`. `Network` is seen here at the granularity that module justifies: a pass
  delivers a whole response or nothing. `UsesMailbox` says so: every step of a motion is one of `ResponseMailbox`
  or leaves the connection alone, with `kMotionStarted` or a verdict waiting under the same id.
* **ControlLoop** adds the loop: `at` is the call of `Robot::Impl` in progress. There is one
  action per result of each call, one for each of the callbacks' three results, and the catch
  block (`Cancel`, `Cancelled`). Sequences of calls to `control()` are in it: what
  one call leaves behind in `received_responses_` is there for the next.
* **MotionContract** is what `control` promises: one motion at a time, one verdict from
  the robot per motion, and an end only after the verdict, by return if and only if the
  motion was completed.
* **Network** is the TCP half in full detail: the lock, the passes of the blocking and
  of the polling receive, messages that arrive piece by piece into one
  `pending_response_` shared by the threads, the copy and erase after the
  unlock, loss of the connection.
* **ResponseMailbox** is what it provides: whole responses, delivered in order, one
  waiting per id, taken once. `Network` implements it from below (`ImplementsMailbox`), `ControlLoop`, `ActiveControl` and `Services`
  use nothing else of it from above (`UsesMailbox`, checked for `ControlLoop` and `Services` and proved for all three), which is what lets those modules leave out pieces, locks and iterators.
  `Spec` has one step per operation; `PassSpec` adds `Receive`, a delivery and the taking of what it brought in a row, for `RobotImpl`,
  whose passes are single steps. `Network` and `Services` are held to `Spec`.
* **StateReception** is the UDP half and its use: the network loses, repeats, delays and
  reorders states; `Drain` and `Wait` are the two loops of `receiveRobotState`,
  `Discard` the loop of `readOnce`, `Accepted` is `updateState` and the logging.
  `message_id_` stands for the state.
* **LatestState** is what the caller sees: ever newer states the robot really sent.
* **Logger** is the ring; **BoundedLog** is a window over the newest records. Of a logged state the
  errors are kept, because `Errors` (module **Errors**) is no plain value: its 41 public members are
  references into its own array. An object is its flags and the place its members refer to; `Row` follows a state
  from the slot through the local record into the vector that `flush` returns.
* **ActiveControl** is the second way to run a motion, on top of the same `RobotImpl`: `control_lock` is the `Robot` whose
  `control_mutex_` is held, `impl_` the `Robot` that has the implementation, `at` the call in progress. `start*Control`, `read`
  and `readOnce` try the lock, `MoveRobot` waits for it, `Stop` (and recovery) of another thread takes none and comes at any time, also while a motion starts. The caller keeps to the protocol of the
  documentation: after a call has reported the end of the motion only the destructor follows. (`readOnce` or `writeOnce` after
  that would wait for a response that was taken already.) A destructor from which an exception escapes ends the program (`at = "terminated"`).
* **RateLimiting** has every `limitRate` and `lowpassFilter` as operators for one number of a command, with the sample time as the
  unit; **CommandConversion** is the way of a command from callback to robot: constructor, filter, limits and checks in
  the order of `spinControl` and `convertMotion`, or the checks of `createMotionCommand` alone (`writeOnce`). `axis` says
  which number is followed, `flaw` what is wrong with the others. The filter puts a normalized rotation in the place of a pose's linear part
  (`src/lowpass_filter.cpp:47-59`), so that a wrong one is repaired and sent, and leaves the last row as it is. What the robot then desires is what the next state reports; `Lose` is a packet that does not arrive, as
  `rate_limiting.h:26-36` describes it. A velocity `v` stands for a position counted from the last one, so `last.x` is 0 for
  the axes that have no absolute position.
* **ServiceTypes** has the commands, statuses and handlers of robot, gripper and vacuum gripper; **RobotState** and **GripperState**
  the fields of the states and their conversion, with the combined load in one dimension (distance from an axis and inertia about it)
  and exact quotients; **ModelLibrary** the symbol each member is loaded from, and the three switches of `pose`, `bodyJacobian` and `zeroJacobian`,
  each with its own cases and arguments. What a function of the downloaded library computes (`Compute`) is external.
* **Services** is everything else that uses a connection: the constructors with the version check, the blocking commands of several
  threads, a gripper's `readOnce` with the lock on the UDP socket, and loading the model. Its `Deliver` is the
  step of `ResponseMailbox` that `Network` implements. The device side is external: it answers in order, moves once at a time, and may
  answer a robot command with any status of the protocol.

State and code correspond by name: `command_id_`, `received_responses_`, `tcp_mutex_`,
`pending_response_`, `message_id_`, `ring_front_` and so on are the members of those names.
Variables without a member are the places in the code (`pc`, `step`, `at`, `resume`),
arguments and locals (`motion_id`, `stop_id`, `latest`), or history (`final`,
`outcome`, `owed`), which no guard of a client action reads.

## 3. What the runs check

| Run | Configuration | Question and answer |
|---|---|---|
| `logger` | `MCLogger.cfg` | `ImplementsBoundedLog`: every sequence of `log` and `flush` with 3 slots, two commands and states with and without an error returns the newest records in order, and their errors show what was logged. `FilledFromZero` is why reading modulo `ring_size_` is right. |
| `state_reception` | `MCStateReception.cfg` | 4 states, 3 of them waiting: `ImplementsLatestState` (never twice, never back), `AcceptsNewest` (what waited is not passed over, also if the call ends with a timeout), `LostPacketsDoNotWrap`. |
| `control_loop` | `MCControlLoop.cfg` | No network faults, 4 command ids, that is two calls of `control` or one with two commands of another thread: `ImplementsMotionContract`, `CommandsFollowState`, `RepliesAreExpected`, `FinalNotLost`, and `UsesMailbox`, that the connection is used as `Network` offers it. |
| `control_loop_faults` | `MCControlLoopFaults.cfg` | Loss of the link and missing states at any point, internal and external controllers: `ReturnsOnSuccess`, that `control` returns only if the robot completed this Move, `ThrowsOnFailure`, that it blames the motion (a `ControlException` or `CommandException`) only if the robot rejected it or ended it without success, and `EndsWithMotion`, that a motion that has ended on the robot ends the call too, on every way out. Commands of other threads come outside of `startMotion` (finding 1 is why); for safety the theorems of section 4 have no such condition. |
| `stop_preempts` | `MCControlLoopStop.cfg` | **Violated**, see finding 1. |
| `throws_as_documented` | `MCControlLoopThrows.cfg` | **Violated**, see finding 2. |
| `network` | `MCNetwork.cfg` | Two threads, responses of two pieces, three requests of which two are answered up to twice, connection closed or lost at any time: `ImplementsMailbox`, `WaitedForIsKept`, `EveryRequestEnds` (every request is answered or fails). |
| `threadsafe` | `MCNetworkRace.cfg` | **Violated**, see finding 3. |
| `active_control` | `MCActiveControl.cfg` | One connection, two `Robot` objects it can live in, three command ids: `ImplementsMotionContract`, the same contract as `control`; `MotionHoldsLock` and `OneOperationAtATime`, that lock and motion belong together; `ReadyForNextMotion`, that an ended control does not make `startMotion` refuse the next one; `TerminatesOnlyAfterEnd`, that the destructor throws only if the motion had ended without it: all of them with `stop` and recovery by another thread at any time. `CallsEnd`, that every call in progress ends once the motion has, has `[]StartsAlone` as a hypothesis: no command of another thread while a motion starts. Without it `CallsEnd` is false for the reason of finding 1. |
| `command_conversion` | `MCCommandConversion.cfg` | Every sequence of callback results, valid or not, with and without filter and limits, by control loop and `writeOnce`, with up to 3 packets lost in a row: `OnlyValidCommands`, `VelocityLimitKept`, `AccelerationLimitKept`, `JerkLimitKept`. |
| `elbow` | `MCElbow.cfg` | **Violated**, see finding 4. |
| `services` | `MCServices.cfg` | Two threads and one of the three devices, compatible or not, with a connection that may be lost: `OutcomeIsTheDevices`, `StopEndsCommand`, `StatusesUnderstood`, `ReadsFresh`, `NothingLeftBehind`, `UsesMailbox`, and for every configured load and loaded model `ModelSeesWholeLoad` and `FramesCompose`, that the three switches over the frames agree with each other and with the kinematic chain. |

For every property of a passing run, the module that models the code has a `_Suffix`
variant of one definition (a dropped reset, an id counted ahead, a lock
not released ...), a plausible slip with which the property fails.

### Bounds, and why they are enough

* `MaxCommands` bounds command ids. `control` needs two (Move and the StopMove of
  `cancelMotion`), so a call begins only if two are left, and another thread leaves one for the
  call in progress (`IdsFor`, `Reserved`). With four ids a second call meets what a first one left
  in `received_responses_`, or one call meets two commands of the other thread; with three, one
  call and one command of another thread. Nothing in the code compares ids other than for
  equality, so further calls repeat the situation of the second.
* `MaxStates` (RobotServer) is the states in flight. Two let a stale state of one phase wait behind or
  before another one; `receiveRobotState` takes the newest of those it finds, so a third
  in between is one that is thrown away. The runs with faults use one.
* `MaxStates = 4`, `MaxWaiting = 3` (StateReception): two records in the log with a gap between them, and a
  reordered and a repeated state in the socket at the same time.
* `log_size_ = 3`: the ring wraps, is flushed partly and completely filled, and is filled again.
* `BodySize = 1`: a message arrives in two pieces, so that a pass ends between header and body;
  a longer body only adds passes that change the offset. `Moves = {0, 2}`: the requests that are answered twice,
  one before and one after an ordinary one.
* Two threads: every interplay in `Network` is between the reader and one thread that waits.
* ActiveControl: three ids are a motion, the StopMove of its destructor and a command of another thread or the next Move. One mode is
  enough, `RobotImpl` compares modes for equality; `control_loop_faults` has both kinds of controller.
* CommandConversion: with a jerk of 1 the limits are an acceleration of 2 and velocities of 5 and 11; commands reach twice the velocity
  limit, so that it is approached with every acceleration, and left. The theorems of section 4 have no bounds.
* Services: three calls of a gripper (a command, `stop`, and one more), two of another device, two gripper states (one that
  waited and one that is new); one command stands for all with the same request and handler. Three loads, one without mass but with an inertia.

`CHECK_DEADLOCK FALSE` is set where the bounds stop the system (ids used up, states used up),
and where a lost link leaves the robot with nothing to do.

### Fairness

* `ControlLoop!FairSpec`: the client's threads keep running (`WF` on the steps of the
  implementation, the loop and the other thread: each is a thread that is never blocked by
  anything but what its guard says). The robot answers requests, ends what is settling and keeps
  publishing states, which the firmware does every millisecond while it is up; if it does not (loss of
  the link), the receive timeout of the UDP socket (`src/network.h:28`, 1 s) is the step that is
  enabled. `SF` on a poll of `startMotion` that reads something: the loop polls once per state, and a
  response that has been sent is in the socket at one of the polls. No fairness is assumed for
  anything that a user, the other thread's calls or a fault decide.
* `Network!FairSpec`: a request is answered at least once; TCP delivers; a connection the
  robot has closed ends in an error of the socket (the keepalive of `src/network.cpp:22-30`). `WF` on `Lock`
  says that a mutex nobody holds does not stay free while a thread asks for it, and no more: `std::mutex`
  promises no order among those that ask, and a thread in the blocking receive unlocks and locks again without
  a pause. The property holds nevertheless, because the thread that keeps winning the lock gets its own response
  in the end; requests are bounded (`MaxCommands`), so it cannot come back with new ones for ever, which with an
  unbounded number of them would be starvation of the others.

* `ActiveControl!FairSpec`: the same as for `ControlLoop`; nothing makes the user call anything.
* `Services!FairSpec`: the device reads requests, TCP delivers, threads go on. Nothing makes a motion of the gripper end, which is
  what makes `StopEndsCommand` say something.

## 4. What is proved

**`StateReceptionProofs`**, for every `MaxStates` and `MaxWaiting`:

* `TypeCorrect`: `Spec => []TypeOK`.
* `UpdateAcceptsNewest`: `Spec => []AcceptsNewest`.
* `LostPacketsAreCounted`: `Spec => []LostPacketsDoNotWrap`.
* `AcceptedStatesAreAStream`: `Spec => ImplementsLatestState`, the refinement of `LatestState`.

The argument is one inductive invariant. Besides the types it says that every id on the network or in
the socket was sent, that `latest` is at least `message_id_` while a state is being received (and
between calls the log is ascending and ends at or below `message_id_`), and that each state owed to the
caller is still in the socket or not newer than `latest`. Each part is needed: without the first a
received state could be one the robot never sent, without the second the two log records
might not be in order, and `AcceptsNewest` alone says nothing of a call that is half done.

**`RobotImplProofs`** has no theorem of a specification of its own: it collects, as lemmas, what holds of a step of the
robot, of the network and of `Robot::Impl` whoever calls it, and both proofs below rest on it. Its parts are the types; the
requests, verdicts and responses (`Numbered`: ids are used in order, nothing bears an unused one; `DecidedOnce`: requests on
the connection ascend, and the robot has not decided on them; `Replies`: under the id of the current Move there is only its
verdict, or `kMotionStarted` as long as `startMotion` waits for it (`RepliesBelong`), the latter comes before all other
responses (`StartedFirst`), and a Move still on its way has none (`UndecidedIsSilent`)); and the Move in progress
(`InProgress`: the robot has no other one, and carries it out or will get it until it has decided on it; `StopsFirst`: the StopMove of
`cancelMotion` is answered only after that). The proofs go by who takes the step: the robot (`ServerKeeps`,
`ServerKeepsMove`), a pass over the connection, whose whole effect is to move one response or to erase one (`PassEffect`,
`PassKeeps`, `PassKeepsMove`), and a new request with a fresh id (`SendingKeeps`, `RequestKeepsMove`).

**`ControlLoopProofs`**, for every set of modes, all bounds and all faults, first what leaves the client:

* `TypeCorrect`: `Spec => []TypeOK`. It includes that `command_id_` stays within the
  bound although `cancelMotion` takes its id with no guard: the strengthening is
  `IdsSuffice`, one id is in reserve while a motion may still be cancelled.
* `CommandsFollowRobotState`: `Spec => CommandsFollowState`, a command is sent only while the newest
  accepted state shows the motion running, and `sendRobotCommand` never refuses it.

The invariant `IInv` adds to the types: which `step` each call can be in (`Located`), that nothing is thrown
while a call is in progress or the callbacks run (`NothingThrown`), that the
modes of the current Move are the ones asked for (`MoveKnown`, `MoveInExecution`), that at the callbacks the
accepted state shows the motion (`CallbacksRun`), and what `update` was called with (`CommandFits`). The last two
carry the proof: `throwOnMotionError` has compared the cached modes with those of the Move, nothing
receives a state until the command is sent, and a command from `finishMotion` is
sent only after its own test of the same modes.

Then how a motion ends, under the same assumptions:

* `ReturnsOnlyOnSuccess`: `Spec => []ReturnsOnSuccess`, `control()` returns only for a Move the
  robot completed.
* `ThrowsOnlyOnFailure`: `Spec => []ThrowsOnFailure`, a Move ends with a `ControlException` or a `CommandException` only if the robot rejected it or ended it
  without success, and with the exception of a callback only if the robot did not complete it. A lost link or a missing state is never blamed on the motion.
* `ControlUsesMailbox`: `Spec => UsesMailbox`.
* `RepliesAlwaysExpected`: `Spec => []RepliesAreExpected`, the `ProtocolException` of `throwOnMotionError`
  (`robot_impl.cpp:84`) and the one for a second `kMotionStarted` (`robot_impl.h:210`) are unreachable for the statuses
  the robot model sends, although any number of responses of other commands, failed
  motions and lost links went before.

Neither is inductive; `OInv` adds to `IInv` what makes a response under the current id belong to the
current Move (`Numbered`, `DecidedOnce`, `Replies`), and two parts about the caller. `CompletedOnRequest`: the robot completes a
motion only if `finishMotion` has commanded it, so that the verdict `throwOnMotionError` finds is never a success. `Reports`: what
is thrown and about to be returned agrees with the verdict. What only the loop does is `LoopKeeps`.
It holds with the loss of a final response that section 5 describes: a response may be missing, never wrong.
`ThrowsOnFailure` looks at the same verdict from the other side; its invariant `TInv` adds that what is thrown and on its way through the catch block
agrees with the verdict (`BlameIsTrue`, `ReportsAreTrue`), that a Move in progress was not reported (`Unreported`), and that no torques are sent without a motion command
(`NoTorquesAlone`), so that `sendRobotCommand` has no reason to throw.

`UsesMailbox` is a refinement too: a pass of `Take` or `Wait` is a `Deliver`, a `TakeFrom` or both at once (`Receive`), what the robot answers
is a `Send`, and everything else a stutter, which is `PassSpec` (`ImplUsesMailbox`, `ServerUsesMailbox`, `OtherUsesMailbox` in `RobotImplProofs`). Together with `ReadingIsAMailbox` of `NetworkProofs` below it
joins the two halves of the model: what the motions use is what the passes, locks and pieces of `Network` provide.

And, on top of `OInv`, that a response is not missing and what `control()` promises:

* `FinalIsNotLost`: `StopsWhenStarting = FALSE` implies `Spec => []FinalNotLost`, with all faults. While the caller waits for the end
  of a Move that the robot has decided, and the link is up, the final response is on its way or in `received_responses_`. Without the
  hypothesis it is false, that is finding 1. The invariant `LInv` adds `StartsAlone`: as long as `startMotion` waits for
  `kMotionStarted` no other thread reads the connection, so that the first response is out of the map before the second is put into it.
* `ControlKeepsContract`: `Faults = {}` implies `Spec => ImplementsMotionContract`, the refinement of `MotionContract`, also with commands of other
  threads while a motion starts. The hypothesis is what the contract needs: a caller whose link is lost gives up before the
  robot's verdict. `StepIsInContract` maps the constructor to `Call`, the robot's verdict to `Conclude`, the end of the call to `Report` and every
  other step to a stutter. The invariant `CInv` says that the Move that the robot carries out is the current one, that a
  call in progress without a verdict has a Move that is on its way or carried out (both `InProgress`), and that the caller has thrown or
  cancelled for good only after the verdict (`ThrownOnVerdict`, `CancelledAfterVerdict`); the last two are what makes every way out late enough.

**`ActiveControlProofs`**, for any number of `Robot` objects, every set of modes and all bounds. With all faults:

* `TypeCorrect`: `Spec => []TypeOK`, with one command id in reserve for the StopMove of the destructor (`IdsSuffice`).
* `OperationsExcludeEachOther`: `Spec => OneOperationAtATime`.
* `NextMotionMayStart`: `Spec => []ReadyForNextMotion`.

* `ActiveControlUsesMailbox`: `Spec => UsesMailbox`.
* `FinishedOnlyOnSuccess`: `Spec => [](link = "up" => WriteThrowsOnFailure)`, the `writeOnce` that finishes a motion has returned only for motions the
  robot completed, whatever states went missing and whatever calls failed with a `NetworkException` before.

The last one is about the early return of `finishMotion` (`robot_impl.cpp:281-285`), which asks for no response: it must not be reached with a motion that has ended.
Its invariant `WInv` says why it is not: after every call that told nothing of an end, a `NetworkException` included, the last state shows the
motion running (`StillRunning`), because the call that receives a state without the motion goes on to wait for the verdict; and the robot
completes nothing that `finishMotion` did not ask for (`NotFinishedYet`). Without the connection it does not hold, see section 5. It was checked by TLC with both
kinds of faults, on the instance of `active_control`, before it was proved.

The invariant `IInv` of the first three says besides where each call can be (`Located`), that the lock is held by the `Robot` with the implementation from
the start of a control to its end, and that there is no control while `Robot::read` runs (`LockKept`), and that
`finishMotion` and `cancelMotion` return only when a state has shown the robot idle (`IdleAtEnd`). With `Faults = {}`:

* `RobotMovesUnderLock`: `Spec => []MotionHoldsLock`.
* `TerminationIsAfterEnd`: `Spec => []TerminatesOnlyAfterEnd`.
* `ActiveControlKeepsContract`: `Spec => ImplementsMotionContract`, the refinement that `ControlLoop` satisfies too.

The hypothesis is what these three need, as the run `active_control` has it: when the link is lost or states are missing after a Move was sent, `startMotion` throws a
`NetworkException` and the lock is given back although the robot may execute the Move, and a destructor's `NetworkException` ends the program
before any verdict. Commands of other threads come at any time, while a motion starts as well: that costs `CallsEnd`, not these. The
invariant `CInv` adds the parts about requests, verdicts and responses, and `InProgress` for the motion of the control (`current`): a motion the robot
executes is therefore the current one, and `LockKept` says who has the lock then. What remains is that a control cannot end, and its destructor
cannot fail, before the verdict: a call that throws does so because of the verdict, and `finishMotion` returns on success only (`ThrownOnVerdict`);
the StopMove of the destructor is answered after it (`StopMoveWaits`); and the motion is not completed before `finishMotion` is called
(`CompletedOnRequest`), so that a control that is destroyed instead has no success to report. `RunningUntilReported` and `MoveKnown` are there
to show that the commands `writeOnce` passes on are accepted (`CommandFits`): otherwise it would throw without a verdict.

**`NetworkProofs`**, for any number of threads, pieces of a message and requests:

* `TypeCorrect`: `Spec => []TypeOK`.
* `ResponsesAreKept`: `Spec => []WaitedForIsKept`, no other thread takes or overwrites what a thread waits for.
* `ReadingIsAMailbox`: `Spec => ImplementsMailbox`, the refinement of `ResponseMailbox`: threads that read pieces into one shared
  `pending_response_`, lock and unlock, and erase after the unlock, act together like a mailbox that delivers whole responses.

The invariant adds that `pending_response_` is the first piece or pieces of the message at the head of the connection (`PendingIsHead`), whichever thread
read them; that every id a thread waits with is its own (`RequestsAreOwn`); that responses bear ids that were sent (`ResponsesAreAnswers`); that the entry a thread has
found is still in the map when it comes to copy and erase it without the lock (`FoundIsThere`); and that a response for which a thread waits is
the first one under its id (`WaitersGetFirst`), which is what keeps `emplace` from dropping it.

**`LoggerProofs`**, for every ring size, and states with any errors:

* `TypeCorrect`, `RingFillsFromZero` (`Spec => []FilledFromZero`), and `RingIsAWindow` (`Spec => ImplementsBoundedLog`).

`FilledFromZero` and the types are inductive together. The refinement rests on lemmas about the ring: which slot the n-th oldest record is in, before
and after the front wraps, and that neither another record nor the copy of `Errors` into the local record and the vector changes what is read there.

**`ServicesProofs`**, for any number of threads and calls, every device, with loss of the connection at any time:

* `TypeCorrect`; `OutcomesAreTrue` (`OutcomeIsTheDevices`); `EveryStatusIsUnderstood` (`StatusesUnderstood`); `ReadOnceIsFresh` (`ReadsFresh`);
  `LoadModelCleansUp` (`NothingLeftBehind`); `ModelGetsWholeLoad` (`ModelSeesWholeLoad`); `FramesAreComposed` (`FramesCompose`);
  `ServicesUseMailbox` (`UsesMailbox`).

`OutcomeIsTheDevices` compares what a call has reported with what the device did, many steps earlier; between them the invariant
follows the answer. A request the device has not read is still undecided (`RequestsAreOpen`), a response on the connection or in the map says what
the device decided (`ResponsesAreTrue`), and a thread that waits is the one whose id it is (`CallsAreAnswered`); `IdsAreLeft` bounds the ids. `SocketIsFresh` says that the states
in the socket after it was emptied are newer than the call, and `Loading` what exists on disk and in memory at each step of loading the model.
`ServiceAssumption` bounds the number of a state by 65536, so that it fits in each field of the state that carries it.

`FramesAreComposed` reduces each of the three switches to one description of a frame (`PoseSwitch`, `BodyJacobianSwitch`, `ZeroJacobianSwitch`), case by case
through the table of symbols, and that the state's `q`, `F_T_EE` and `EE_T_K` are those of the wire (`KinematicFields`).

**`RateLimitingProofs`**, for all integer limits, values, gains and tolerances up to 3, how commands are converted:

* `ConversionTypeCorrect`: `Spec => []TypeOK`; `ChecksEveryCommand`: `Spec => []OnlyValidCommands`.
* `KeepsVelocityLimit`, `KeepsAccelerationLimit`: `Spec => []VelocityLimitKept`, `Spec => []AccelerationLimitKept`.
* `KeepsJerkLimit`: `Spec => JerkLimitKept`.

`ChecksEveryCommand` needs that what the filter makes of a command is a command (`FilteredType`) and that limits change nothing but its value
(`ConvertedFields`): what is checked after both is what is sent.

The velocity limit alone is not inductive: whether a velocity is safe depends on the acceleration with which the next packets may be
extrapolated, and on how many may still be lost. `LimitInv` says that velocity plus acceleration stays below the limit up to what the packets lost so far have added,
and the lemmas about one step (`GoodStep`) show for each `limitRate` that its result gets there from every such state: the
acceleration it allows near the limit is half of the distance (every maximum acceleration is two samples of the maximum jerk,
`rate_limiting.h:47-58`), so that the distance left is never less than the acceleration. The joint and the vector overload have
different bounds (the second computes only the one in the direction of the acceleration), which the proof treats separately. The
constants must fit: `VelocityAssumption` says that the velocity limit is at least two maximum accelerations, which the values of `rate_limiting.h`
satisfy with a wide margin, and the proof for lost packets uses that no more than three are tolerated (`ToleranceAssumption`), which is the constant of the code.

The assumptions are the named ones of the modules (`MoveModesAssumption`: a Move asks for a motion generator
and one of the three controller modes that exist in a request; the bounds are natural numbers). TLC evaluates them in every run. The
inductive invariants were checked by TLC before they were proved, `OInv` on the instance of `control_loop_faults`, `IInv` and `CInv` of `ActiveControl` on
that of `active_control` (`IInv` with all faults as well).

**Only model-checked**:

* All liveness (`EndsWithMotion`, `EveryRequestEnds`, `CallsEnd`, `StopEndsCommand`), which is out of the prover's reach: it rests on fairness, hence on
  ENABLED. `EndsWithMotion` and `CallsEnd` suppose that no other thread sends a command while a motion starts, the first by a constant
  (`StopsWhenStarting`), the second by the hypothesis `[]StartsAlone`.

**Only proved**: the types of `Logger` and `ActiveControl`, `ActiveControlUsesMailbox` and `FinishedOnlyOnSuccess`; no run repeats them.

## 5. Findings

1. **`stop()` while a motion starts can leave `control()` waiting forever** (run `stop_preempts`, property `StopPreempts`). The
   thread of `stop` reads both responses to the Move into `received_responses_`; the second `emplace`
   under the same id does nothing (`src/network.h:178`). The control thread takes `kMotionStarted` and later waits for
   the final response, which no longer exists. `include/franka/robot.h:720-721` says that the loop is preempted
   with a `ControlException`. With `StopsWhenStarting = FALSE`, commands of other threads only outside of
   `startMotion`, `FinalNotLost` holds: the loss is confined to that window. An active control has the same window, from the Move of its `start*Control` until
   `startMotion` has taken `kMotionStarted`: `startMotion` then polls, or a later `readOnce` or `writeOnce` waits, for a final response that is gone. `CallsEnd` excludes
   this by its hypothesis.
2. **A Move rejected by its first response leaves `control()` as a `CommandException`**
   (run `throws_as_documented`, property `ThrowsAsDocumented`), which `include/franka/robot.h:166-170` does not list; rejected by its second
   response it is a `ControlException`.
3. **`received_responses_` is used after the unlock** (run `threadsafe`, property `MembersAreThreadsafe`): the entry found in
   `tcpBlockingReceiveResponse` is read and erased when the lock has been released
   (`src/network.h:240-257`), while another thread may emplace into the map, which
   `include/franka/robot.h:32` and `include/franka/gripper.h:25` exclude ("The members of this class are
   threadsafe").

4. **The elbow is not rate limited but jumps** (run `elbow`, property `ElbowRateLimited`). `convertMotion` calls `limitRate` for the elbow with seven numbers
   (`src/control_loop.cpp:226`, `:265`); the overload with seven is the one for joint velocities
   (`src/rate_limiting.cpp:76`), with two velocity limits. Every argument is shifted by one place and what is sent as a position
   is a velocity near the last one. `include/franka/rate_limiting.h:106` and the `limit_rate` parameter of `control`
   (`include/franka/robot.h:363`) promise a limit on the elbow's velocity.

Differences between documents and code that no run is about:

* `include/franka/active_torque_control.h:28-30` and `active_motion_generator.h:31-34` say that `writeOnce` throws a `ControlException` if an error of the
  motion occurred and a `NetworkException` if the connection is lost. When both happened, and `readOnce` has received the idle state but
  lost the connection while it waited for the verdict (`NetworkException`), the next `writeOnce` with `motion_finished` returns normally: `finishMotion` sees the idle
  state and returns early (`src/robot_impl.cpp:281-285`). `FinishedOnlyOnSuccess` shows that nothing but a connection that is down leads there.
* `include/franka/gripper.h:134` and `vacuum_gripper.h:115` say that `readOnce` throws an `InvalidOperationException` if another one is
  running; there is no such check, the second waits for the lock (`Services` has both reading).
* The "Cannot save model library." of `src/library_downloader.cpp:55` is unreachable: a stream does not throw unless it is
  told to. A file that was not written is noticed when it is loaded.
* When the motion callback finishes, the torques that go with its last command are those of the round before, or zeros in the first
  round (`src/control_loop.cpp:105`).

## 6. What is not modelled

* **Values**: what the callbacks compute, poses as matrices, rotations. A state is its modes and robot mode in `RobotImpl`, its message id in
  `StateReception`, its fields in `RobotState`; a command is whether it finishes the motion in `RobotImpl` and one of its numbers in
  `CommandConversion`. A Cartesian vector is followed along a line: that `limitRate` takes the root of a negative number when a
  velocity outside of the limit turns is therefore out of this model, and so are floating-point rounding and the small constants against it.
* **The orthogonality of a matrix**: `isHomogeneousTransformation` looks only at lengths; the model has a matrix whose linear part or last row
  passes or does not.
* **`ActiveControl` after its end**: a caller that ignores the reported end waits for a response that was taken.
  The time since the last read, a difference of times that `StateReception` shows to ascend.
* **Malformed messages** and partial UDP packets (`ProtocolException` by size).
* **Real time**: priorities, deadlines, the cycle of 1 ms, and the `RealtimeException` of a loop's constructor, thrown before anything
  is sent. A late client shows as lost or skipped states.
* **`Duration`**, exception classes, printing and error texts: arithmetic of `std::chrono` and wording, no state of their own. The
  examples are programs that use the library.
* A `finish` that reaches the robot as a UDP packet may be overtaken by a newer command, not lost for good: the
  client repeats it with every state.

## 7. Plan

Done: the TCP and UDP halves of `Network` and `Robot::Impl`, motions run by the control loop and by active controls, the
conversion of commands, the services of robot and grippers, the model library, the log.

Left: two-dimensional vectors in `RateLimiting`, for the direction of a Cartesian velocity.
