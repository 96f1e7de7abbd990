------------------------- MODULE ControlLoopProofs -------------------------
(***************************************************************************)
(* ControlLoop for any set of motions, any number of commands and states,  *)
(* with or without faults: the variables keep their types, a robot command *)
(* leaves the client only in a motion the newest state shows, and          *)
(* control() returns only for a Move the robot completed.  The final       *)
(* response is not lost if no other thread reads it while a motion starts; *)
(* without faults, control() keeps MotionContract.                         *)
(***************************************************************************)
EXTENDS ControlLoop, RobotImplProofs

\* cancelMotion will find an id for its StopMove.
IdsSuffice == at \notin {"out", "cancelMotion"} => command_id_ <= MaxCommands

\* Where the calls of each operation can be.
Located ==
    /\ at = "out" => step = "returned"
    /\ at = "startMotion" =>
         /\ step \in {"returned", "start.wait", "start.poll", "update.send", "update.receive"}
         /\ step = "update.send" => motion_command = None
         /\ step \in {"update.send", "update.receive"} => resume = "start.poll"
    /\ at = "update" =>
         /\ step \in {"returned", "update.send", "update.receive"}
         /\ step \in {"update.send", "update.receive"} => resume = "returned"
    /\ at = "throwOnMotionError" => step \in {"returned", "error.wait"}
    /\ at = "callbacks" => step = "returned"
    /\ at = "finishMotion" =>
         /\ step \in {"returned", "update.send", "update.receive", "finish.poll", "finish.wait"}
         /\ step \in {"update.send", "update.receive"} => resume = "finish.poll"
    /\ at = "cancelMotion" => step \in {"returned", "cancel.wait", "cancel.receive", "cancel.ignore"}

\* A call that has not ended has thrown nothing.
NothingThrown ==
    /\ at \in {"update", "throwOnMotionError", "finishMotion"} /\ step # "returned" => thrown = None
    /\ at = "callbacks" => thrown = None

\* The modes of the current Move are known until finishMotion resets them, ...
MoveKnown ==
    \/ at \in {"startMotion", "update", "throwOnMotionError", "callbacks"}
    \/ at = "finishMotion" /\ step # "returned"
    => /\ current_move.mg # "kIdle"
       /\ control_callback_ = (current_move.ctl = "kExternalController")

\* ... the callbacks are called when the state shows them, ...
CallbacksRun ==
    \/ at = "callbacks"
    \/ at = "throwOnMotionError" /\ step = "returned" /\ thrown = None
    => Running(cached)

\* ... and a command is one that sendRobotCommand accepts.
CommandFits ==
    /\ step = "update.send" /\ motion_command # None =>
         /\ at \in {"update", "finishMotion"}
         /\ Running(cached)
         /\ control_command = control_callback_
    /\ at = "finishMotion" /\ step \in {"update.send", "update.receive", "finish.poll"} =>
         control_command = control_callback_

Flow == Located /\ NothingThrown /\ MoveKnown /\ CallbacksRun /\ CommandFits

IInv == TypeOK /\ MoveInExecution /\ IdsSuffice /\ Flow

---------------------------------------------------------------------------
(* Calls from the loop and from other threads.                             *)
LEMMA CancelTypes ==
    ASSUME TypeOK, NEW e \in Outcome, Cancel(e), command_id_ \in CommandId
    PROVE  /\ toRobot' \in Seq(Request) /\ command_id_' \in 1 .. (MaxCommands + 1)
           /\ stop_id' \in CommandId \cup {NoMotion} /\ step' \in Step
           /\ thrown' \in Exception \cup {None} /\ at' \in At /\ rethrow' \in Outcome \cup {None}
           /\ outcome' = outcome
<1>1. toRobot' \in Seq(Request) /\ command_id_' \in 1 .. (MaxCommands + 1)
  BY SendRequestTypes, NoneFacts DEF TypeOK, Cancel, CallCancelMotion, Command
<1>. QED BY <1>1 DEF TypeOK, ImplTypeOK, Cancel, CallCancelMotion, Goto, Step, At

LEMMA LeaveTypes ==
    ASSUME TypeOK, NEW e \in Outcome \cup {None}, Leave(e)
    PROVE  /\ at' \in At /\ rethrow' \in Outcome \cup {None}
           /\ outcome' \in [CommandId -> Outcome \cup {None}]
BY DEF TypeOK, Leave, At

LEMMA OutcomeFacts == Exception \subseteq Outcome /\ "returned" \in Outcome /\ "UserException" \in Outcome
BY DEF Outcome

\* An id is left for the StopMove of cancelMotion.
LEMMA IdLeft ==
    ASSUME TypeOK, IdsSuffice, at \notin {"out", "cancelMotion"}
    PROVE  command_id_ \in CommandId
BY BoundsAssumption DEF TypeOK, ImplTypeOK, IdsSuffice, CommandId

LEMMA ConstructTypes ==
    ASSUME TypeOK, NEW modes \in MoveModes, Construct(modes)
    PROVE  TypeOK'
<1>1. ServerTypeOK /\ ImplTypeOK /\ command_id_ \in CommandId
  BY BoundsAssumption DEF Construct, IdsFor, TypeOK, ImplTypeOK, CommandId
<1>2. CallStartMotion(modes)
  BY DEF Construct
<1>3. /\ toRobot' \in Seq(Request) /\ command_id_' \in 1 .. (MaxCommands + 1)
      /\ step' \in Step /\ thrown' \in Exception \cup {None}
      /\ current_move' \in Modes /\ motion_id' \in CommandId \cup {NoMotion}
  BY <1>1, <1>2, StartMotionTypes
<1>4. at' \in At /\ control_callback_' \in BOOLEAN
  BY DEF Construct, At
<1>. QED BY <1>3, <1>4 DEF Construct, TypeOK, ServerTypeOK, ImplTypeOK, serverVars

LEMMA StopTypes ==
    ASSUME TypeOK, NEW c \in {"kStopMove", "kAutomaticErrorRecovery"}, Stop(c)
    PROVE  TypeOK'
<1>1. ServerTypeOK /\ ImplTypeOK /\ command_id_ \in CommandId
  BY BoundsAssumption DEF Stop, IdsFor, Reserved, TypeOK, ImplTypeOK, CommandId
<1>. QED BY <1>1, OtherRequestTypes DEF Stop, TypeOK, loopVars

LEMMA LoopTypes ==
    ASSUME TypeOK, IdsSuffice, LoopNext
    PROVE  TypeOK'
<1>. USE DEF TypeOK, ServerTypeOK, ImplTypeOK, serverVars, netVars
<1>1. CASE Started
  <2>1. CASE thrown = None
    <3>1. at' = "update" /\ CallUpdate(None, FALSE, "returned") /\ UNCHANGED <<rethrow, outcome>>
      BY <1>1, <2>1 DEF Started
    <3>2. /\ step' \in Step /\ motion_command' \in {None, "running", "finished"}
          /\ control_command' \in BOOLEAN /\ resume' \in {"returned", "start.poll", "finish.poll"}
      BY <3>1, CallUpdateTypes
    <3>. QED BY <1>1, <3>1, <3>2 DEF Started, At
  <2>2. CASE thrown # None
    <3>1. Leave(thrown) /\ UNCHANGED <<step, motion_command, control_command, resume>>
      BY <1>1, <2>2 DEF Started
    <3>. QED BY <1>1, <3>1, LeaveTypes, OutcomeFacts DEF Started
  <2>. QED BY <2>1, <2>2
<1>2. CASE Updated
  <2>1. CASE thrown = None
    <3>1. step' \in Step /\ thrown' \in Exception \cup {None} /\ at' \in At
      BY <1>2, <2>1 DEF Updated, CallThrowOnMotionError, Goto, Return, Step, At
    <3>. QED BY <1>2, <2>1, <3>1 DEF Updated
  <2>2. CASE thrown # None
    <3>1. Cancel(thrown) /\ thrown \in Outcome /\ command_id_ \in CommandId
      BY <1>2, <2>2, OutcomeFacts, IdLeft DEF Updated, Done
    <3>. QED BY <1>2, <3>1, CancelTypes DEF Updated
  <2>. QED BY <2>1, <2>2
<1>3. CASE Checked
  <2>1. CASE thrown = None
    BY <1>3, <2>1 DEF Checked, At
  <2>2. CASE thrown # None
    <3>1. Cancel(thrown) /\ thrown \in Outcome /\ command_id_ \in CommandId
      BY <1>3, <2>2, OutcomeFacts, IdLeft DEF Checked, Done
    <3>. QED BY <1>3, <3>1, CancelTypes DEF Checked
  <2>. QED BY <2>1, <2>2
<1>4. CASE CallbacksContinue
  <2>1. CallUpdate("running", control_callback_, "returned") /\ at' = "update"
    BY <1>4 DEF CallbacksContinue
  <2>. QED BY <1>4, <2>1, CallUpdateTypes DEF CallbacksContinue, At
<1>5. CASE CallbacksFinish
  <2>1. /\ step' \in Step /\ thrown' \in Exception \cup {None} /\ current_move' \in Modes
        /\ motion_command' \in {None, "running", "finished"}
        /\ control_command' \in BOOLEAN /\ resume' \in {"returned", "start.poll", "finish.poll"}
    BY <1>5, NoneFacts
    DEF CallbacksFinish, CallFinishMotion, CallUpdate, Return, ResetCurrentMove, Step
  <2>. QED BY <1>5, <2>1 DEF CallbacksFinish, At
<1>6. CASE CallbacksThrow
  <2>1. Cancel("UserException") /\ command_id_ \in CommandId
    BY <1>6, IdLeft DEF CallbacksThrow
  <2>. QED BY <1>6, <2>1, CancelTypes, OutcomeFacts DEF CallbacksThrow
<1>7. CASE Finished
  <2>1. CASE thrown = None
    <3>1. Leave("returned") /\ UNCHANGED <<step, thrown, stop_id, command_id_, toRobot>>
      BY <1>7, <2>1 DEF Finished
    <3>. QED BY <1>7, <3>1, LeaveTypes, OutcomeFacts DEF Finished
  <2>2. CASE thrown # None
    <3>1. Cancel(thrown) /\ thrown \in Outcome /\ command_id_ \in CommandId
      BY <1>7, <2>2, OutcomeFacts, IdLeft DEF Finished, Done
    <3>. QED BY <1>7, <3>1, CancelTypes DEF Finished
  <2>. QED BY <2>1, <2>2
<1>8. CASE Cancelled
  <2>1. Leave(rethrow) /\ UNCHANGED <<serverVars, netVars, implVars, control_callback_>>
    BY <1>8 DEF Cancelled
  <2>. QED BY <2>1, LeaveTypes DEF implVars
<1>. QED BY <1>1, <1>2, <1>3, <1>4, <1>5, <1>6, <1>7, <1>8 DEF LoopNext

---------------------------------------------------------------------------
(* The flow of control, and the ids it needs.                              *)
flowVars == <<at, control_callback_, step, resume, motion_command, control_command, thrown,
              current_move, cached>>

LEMMA FlowFrame ==
    ASSUME Flow, UNCHANGED flowVars
    PROVE  Flow'
BY DEF flowVars, Flow, Located, NothingThrown, MoveKnown, CallbacksRun, CommandFits, Running,
       motionGeneratorRunning, controllerRunning

LEMMA ImplFlow ==
    ASSUME TypeOK, Flow, ImplNext, UNCHANGED loopVars
    PROVE  Flow'
<1>. USE DEF Flow, Located, NothingThrown, MoveKnown, CallbacksRun, CommandFits, loopVars,
             Goto, Return, Throw, CallUpdate
<1>1. CASE UpdateSend
  BY <1>1 DEF UpdateSend, Running, motionGeneratorRunning, controllerRunning
<1>2. CASE UpdateClosed
  BY <1>2 DEF UpdateClosed, Running, motionGeneratorRunning, controllerRunning
<1>3. CASE UpdateReceive
  BY <1>3 DEF UpdateReceive, TypeOK, ImplTypeOK
<1>4. CASE StartWait
  BY <1>4 DEF StartWait
<1>5. CASE StartPoll
  <2>1. /\ step = "start.poll" /\ step' \in {"returned", "update.send"}
        /\ UNCHANGED <<current_move, cached>>
        /\ step' = "update.send" => motion_command' = None /\ resume' = "start.poll"
    BY <1>5 DEF StartPoll
  <2>. HIDE DEF CallUpdate, Throw, Return
  <2>. QED BY <2>1
<1>6. CASE ErrorWait
  <2>1. step = "error.wait" /\ UNCHANGED <<current_move, cached, motion_command, control_command>>
    BY <1>6 DEF ErrorWait
  <2>2. \/ step' = "error.wait" /\ thrown' = thrown
        \/ step' = "returned" /\ thrown' # None
    BY <1>6 DEF ErrorWait, None
  <2>. QED BY <2>1, <2>2
<1>7. CASE FinishPoll
  <2>1. step = "finish.poll" /\ UNCHANGED <<current_move, cached, thrown>>
    BY <1>7 DEF FinishPoll
  <2>2. at = "finishMotion" /\ thrown = None /\ control_command = control_callback_
    BY <2>1 DEF TypeOK, At
  <2>3. \/ /\ Running(cached) /\ step' = "update.send" /\ resume' = "finish.poll"
           /\ control_command' = control_command
        \/ step' = "finish.wait"
    BY <1>7 DEF FinishPoll
  <2>. QED BY <2>1, <2>2, <2>3 DEF Running, motionGeneratorRunning, controllerRunning
<1>8. CASE FinishWait
  BY <1>8 DEF FinishWait, ResetCurrentMove
<1>9. CASE CancelWait
  BY <1>9 DEF CancelWait
<1>10. CASE CancelReceive
  BY <1>10 DEF CancelReceive
<1>11. CASE CancelIgnore
  BY <1>11 DEF CancelIgnore
<1>. QED
  BY <1>1, <1>2, <1>3, <1>4, <1>5, <1>6, <1>7, <1>8, <1>9, <1>10, <1>11 DEF ImplNext

LEMMA ConstructFlow ==
    ASSUME TypeOK, Flow, NEW modes \in MoveModes, Construct(modes)
    PROVE  Flow' /\ IdsSuffice'
<1>1. at = "out" /\ step = "returned" /\ command_id_ + 1 <= MaxCommands
  BY BoundsAssumption DEF Construct, Done, IdsFor, TypeOK, ImplTypeOK
<1>2. modes.mg # "kIdle"
  BY MoveModesAssumption
<1>3. CASE Running(cached)
  BY <1>1, <1>3 DEF Construct, CallStartMotion, Throw, Flow, Located, NothingThrown, MoveKnown,
                    CallbacksRun, CommandFits, IdsSuffice
<1>4. CASE ~Running(cached)
  BY <1>1, <1>2, <1>4
  DEF Construct, CallStartMotion, Goto, SendRequest, Flow, Located, NothingThrown, MoveKnown,
      CallbacksRun, CommandFits, IdsSuffice
<1>. QED BY <1>3, <1>4

LEMMA LoopFlow ==
    ASSUME TypeOK, Flow, IdsSuffice, LoopNext
    PROVE  Flow' /\ IdsSuffice'
<1>. USE DEF Flow, Located, NothingThrown, MoveKnown, CallbacksRun, CommandFits, IdsSuffice, Done,
             Leave, netVars
<1>a. ASSUME NEW e, Cancel(e)
      PROVE  Flow' /\ IdsSuffice'
  BY <1>a DEF Cancel, CallCancelMotion, Goto
<1>1. CASE Started
  BY <1>1 DEF Started, CallUpdate
<1>2. CASE Updated
  <2>1. CASE thrown = None
    BY <1>2, <2>1, NoErrorMeansRunning DEF Updated, CallThrowOnMotionError, Goto, Return
  <2>. QED BY <1>2, <1>a, <2>1 DEF Updated
<1>3. CASE Checked
  <2>1. CASE thrown = None
    BY <1>3, <2>1 DEF Checked
  <2>. QED BY <1>3, <1>a, <2>1 DEF Checked
<1>4. CASE CallbacksContinue
  BY <1>4 DEF CallbacksContinue, CallUpdate, Running, motionGeneratorRunning, controllerRunning
<1>5. CASE CallbacksFinish
  BY <1>5
  DEF CallbacksFinish, CallFinishMotion, CallUpdate, Return, Running, motionGeneratorRunning,
      controllerRunning
<1>6. CASE CallbacksThrow
  BY <1>6, <1>a DEF CallbacksThrow
<1>7. CASE Finished
  <2>1. CASE thrown = None
    BY <1>7, <2>1 DEF Finished
  <2>. QED BY <1>7, <1>a, <2>1 DEF Finished
<1>8. CASE Cancelled
  BY <1>8 DEF Cancelled, implVars
<1>. QED BY <1>1, <1>2, <1>3, <1>4, <1>5, <1>6, <1>7, <1>8 DEF LoopNext

---------------------------------------------------------------------------
(* The invariant.                                                          *)
THEOREM InitInvariant == Init => IInv
<1>. SUFFICES ASSUME Init PROVE IInv
  OBVIOUS
<1>1. ServerTypeOK /\ ImplTypeOK /\ MoveInExecution
  BY InitTypes DEF Init
<1>2. TypeOK
  BY <1>1 DEF Init, TypeOK, At
<1>3. IdsSuffice /\ Flow
  BY DEF Init, ImplInit, IdsSuffice, Flow, Located, NothingThrown, MoveKnown, CallbacksRun,
         CommandFits
<1>. QED BY <1>1, <1>2, <1>3 DEF IInv

\* IInv is inductive.
THEOREM NextInvariant == IInv /\ [Next]_vars => IInv'
<1>. SUFFICES ASSUME IInv, [Next]_vars PROVE IInv'
  OBVIOUS
<1>0. TypeOK /\ ServerTypeOK /\ ImplTypeOK /\ MoveInExecution /\ IdsSuffice /\ Flow
  BY DEF IInv, TypeOK
<1>1. CASE ServerNext /\ UNCHANGED <<implVars, loopVars>>
  <2>1. ServerTypeOK' /\ MoveInExecution'
    BY <1>0, <1>1, ServerTypes
  <2>2. TypeOK'
    BY <1>0, <1>1, <2>1 DEF TypeOK, ImplTypeOK, implVars, loopVars
  <2>3. Flow'
    BY <1>0, <1>1, FlowFrame DEF flowVars, implVars, loopVars
  <2>. QED BY <1>0, <1>1, <2>1, <2>2, <2>3 DEF IInv, IdsSuffice, implVars, loopVars
<1>2. CASE ImplNext /\ UNCHANGED loopVars
  <2>1. ServerTypeOK' /\ ImplTypeOK'
    BY <1>0, <1>2, ImplTypes
  <2>2. TypeOK'
    BY <1>0, <1>2, <2>1 DEF TypeOK, loopVars
  <2>3. Flow' /\ IdsSuffice'
    BY <1>0, <1>2, ImplFlow, ImplKeepsIds DEF IdsSuffice, loopVars
  <2>4. UNCHANGED serverVars
    BY <1>2 DEF ImplNext, UpdateSend, UpdateClosed, UpdateReceive, StartWait, StartPoll,
                ErrorWait, FinishPoll, FinishWait, CancelWait, CancelReceive, CancelIgnore
  <2>. QED BY <1>0, <2>2, <2>3, <2>4 DEF IInv, MoveInExecution, serverVars
<1>3. CASE OtherReceive /\ UNCHANGED loopVars
  <2>1. TypeOK'
    BY <1>0, <1>3, OtherReceiveTypes DEF TypeOK, loopVars
  <2>2. Flow'
    BY <1>0, <1>3, FlowFrame DEF flowVars, OtherReceive, loopVars
  <2>. QED BY <1>0, <1>3, <2>1, <2>2
       DEF IInv, IdsSuffice, MoveInExecution, OtherReceive, loopVars, serverVars
<1>4. ASSUME NEW modes \in MoveModes, Construct(modes)
      PROVE  IInv'
  BY <1>0, <1>4, ConstructTypes, ConstructFlow DEF IInv, MoveInExecution, Construct, serverVars
<1>5. CASE LoopNext
  <2>1. TypeOK' /\ Flow' /\ IdsSuffice'
    BY <1>0, <1>5, LoopTypes, LoopFlow
  <2>2. UNCHANGED serverVars
    BY <1>5 DEF LoopNext, Started, Updated, Checked, CallbacksContinue, CallbacksFinish,
                CallbacksThrow, Finished, Cancelled
  <2>. QED BY <1>0, <2>1, <2>2 DEF IInv, MoveInExecution, serverVars
<1>6. ASSUME NEW c \in {"kStopMove", "kAutomaticErrorRecovery"}, Stop(c)
      PROVE  IInv'
  <2>1. TypeOK'
    BY <1>0, <1>6, StopTypes
  <2>2. Flow'
    BY <1>0, <1>6, FlowFrame DEF flowVars, Stop, OtherRequest, loopVars
  <2>3. IdsSuffice'
    BY <1>0, <1>6, BoundsAssumption
    DEF IdsSuffice, Stop, OtherRequest, SendRequest, IdsFor, Reserved, loopVars, TypeOK, ImplTypeOK
  <2>. QED BY <1>0, <1>6, <2>1, <2>2, <2>3 DEF IInv, MoveInExecution, Stop, OtherRequest, serverVars
<1>7. CASE UNCHANGED vars
  <2>1. TypeOK' /\ MoveInExecution'
    BY <1>0, <1>7
    DEF vars, serverVars, netVars, implVars, loopVars, TypeOK, ServerTypeOK, ImplTypeOK, MoveInExecution
  <2>2. Flow' /\ IdsSuffice'
    BY <1>0, <1>7, FlowFrame DEF vars, implVars, loopVars, flowVars, IdsSuffice
  <2>. QED BY <2>1, <2>2 DEF IInv
<1>. QED BY <1>1, <1>2, <1>3, <1>4, <1>5, <1>6, <1>7 DEF Next

THEOREM InvariantHolds == Spec => []IInv
<1>. QED BY InitInvariant, NextInvariant, PTL DEF Spec

(* Every variable of the robot, of Robot::Impl and of ControlLoop keeps    *)
(* its type; command_id_ suffices for the StopMove of every cancelMotion   *)
(* (robot_impl.cpp:208-410, control_loop.cpp:95-126).                      *)
THEOREM TypeCorrect == Spec => []TypeOK
<1>1. IInv => TypeOK
  BY DEF IInv
<1>. QED BY <1>1, InvariantHolds, PTL

(* update() sends a motion command only while the newest accepted state    *)
(* shows the motion running, and sendRobotCommand never refuses it         *)
(* (robot_impl.cpp:124-159, 293-298).                                      *)
THEOREM CommandsFollowRobotState == Spec => CommandsFollowState
<1>. DEFINE A == step = "update.send" /\ motion_command # None
                   => Running(cached) /\ thrown' # "ControlException"
<1>1. IInv /\ [Next]_vars => [A]_vars
  <2>. SUFFICES ASSUME IInv, Next, step = "update.send", motion_command # None
                PROVE  Running(cached) /\ thrown' # "ControlException"
    OBVIOUS
  <2>1. /\ Running(cached) /\ control_command = control_callback_
        /\ at \in {"update", "finishMotion"} /\ thrown = None
        /\ current_move.mg # "kIdle"
        /\ control_callback_ = (current_move.ctl = "kExternalController")
    BY DEF IInv, Flow, CommandFits, NothingThrown, MoveKnown
  <2>2. SendException = None
    BY <2>1 DEF SendException
  <2>3. thrown' # "ControlException"
    <3>1. CASE UpdateSend
      BY <2>1, <2>2, <3>1 DEF UpdateSend, Goto, None
    <3>2. CASE UpdateClosed
      BY <3>2 DEF UpdateClosed, Throw
    <3>3. CASE UNCHANGED thrown
      BY <2>1, <3>3 DEF None
    <3>4. ImplNext => UpdateSend \/ UpdateClosed
      BY DEF ImplNext, UpdateReceive, StartWait, StartPoll, ErrorWait, FinishPoll, FinishWait,
             CancelWait, CancelReceive, CancelIgnore
    <3>5. ~LoopNext
      BY <2>1 DEF LoopNext, Started, Updated, Checked, CallbacksContinue, CallbacksFinish,
                  CallbacksThrow, Finished, Cancelled, Done
    <3>6. \A modes \in MoveModes : ~Construct(modes)
      BY DEF Construct, Done
    <3>. QED BY <3>1, <3>2, <3>3, <3>4, <3>5, <3>6
         DEF Next, implVars, OtherReceive, Stop, OtherRequest
  <2>. QED BY <2>1, <2>3
<1>. QED BY <1>1, InvariantHolds, PTL DEF Spec, CommandsFollowState

---------------------------------------------------------------------------
(* How control() ends, whatever other threads do.                          *)

\* The first response to the current Move may be on its way, or never taken.
Unstarted ==
    \/ at = "out"
    \/ at = "startMotion" /\ step = "start.wait"
    \/ at = "startMotion" /\ step = "returned" /\ thrown # None

\* Once it was taken, nothing is left that starts the Move.
StartIsOver == ~Unstarted => NoStart

\* control() is about a Move it requested.
HasMove == at # "out" => motion_id # NoMotion

\* The robot completes a motion only when finishMotion has asked for it.
CompletedOnRequest ==
    /\ step = "start.wait" => ~Running(cached)
    /\ command.id <= motion_id
    /\ at \in {"startMotion", "update", "throwOnMotionError", "callbacks"} =>
         /\ motion_command # "finished" \/ step # "update.send"
         /\ command.id = motion_id => ~command.finished
         /\ final[motion_id] # "kSuccess"

\* What control() is about to report, and has reported.
Reports ==
    /\ at = "finishMotion" /\ step = "returned" /\ thrown = None => final[motion_id] = "kSuccess"
    /\ thrown # "ProtocolException"
    /\ rethrow \notin {"returned", "ProtocolException"}

\* How the motion ends.
Ends == CompletedOnRequest /\ Reports /\ ReturnsOnSuccess /\ RepliesAreExpected

\* The inductive invariant.
Settled == Numbered /\ DecidedOnce /\ Replies /\ HasMove /\ StartIsOver /\ Ends
OInv == IInv /\ Settled

---------------------------------------------------------------------------
(* The robot, and Robot::Impl.                                             *)
LEMMA ServerSettles ==
    ASSUME IInv, Settled, ServerNext, UNCHANGED <<implVars, loopVars>>
    PROVE  /\ Numbered' /\ DecidedOnce' /\ Replies' /\ VerdictsStay
           /\ HasMove' /\ StartIsOver'
<1>1. Numbered' /\ DecidedOnce' /\ Replies' /\ VerdictsStay /\ (NoStart => NoStart')
  BY ServerKeeps DEF IInv, TypeOK, Settled, implVars
<1>2. UNCHANGED <<at, step, thrown, motion_id>>
  BY DEF implVars, loopVars
<1>. QED BY <1>1, <1>2 DEF Settled, HasMove, StartIsOver, Unstarted

\* Verdicts change nothing in what was reported.
LEMMA ReportedStays ==
    ASSUME VerdictsStay, ReturnsOnSuccess, RepliesAreExpected, UNCHANGED outcome
    PROVE  ReturnsOnSuccess' /\ RepliesAreExpected'
BY DEF VerdictsStay, ReturnsOnSuccess, RepliesAreExpected, None

LEMMA ServerEnds ==
    ASSUME IInv, HasMove, Ends, VerdictsStay, ServerNext, UNCHANGED <<implVars, loopVars>>
    PROVE  Ends'
<1>0. /\ TypeOK /\ MoveInExecution
      /\ UNCHANGED <<motion_id, step, thrown, cached, motion_command, at, rethrow, outcome>>
  BY DEF IInv, implVars, loopVars
<1>1. motion_id \in CommandId \cup {NoMotion} /\ motion_id \in Nat /\ motion_id >= NoMotion
  <2>1. motion_id \in CommandId \cup {NoMotion}
    BY <1>0 DEF TypeOK, ImplTypeOK
  <2>. QED BY <2>1, IdsAreNumbers DEF NoMotion
<1>2. at # "out" => motion_id \in CommandId
  BY <1>1 DEF HasMove
<1>3. ReturnsOnSuccess' /\ RepliesAreExpected'
  BY <1>0, ReportedStays DEF Ends
<1>4. Reports'
  BY <1>0, <1>2 DEF Ends, Reports, VerdictsStay, None
<1>5. CompletedOnRequest'
  <2>1. (step = "start.wait" => ~Running(cached))'
    BY <1>0 DEF Ends, CompletedOnRequest, Running, motionGeneratorRunning, controllerRunning
  <2>2. command'.id <= motion_id /\ (command'.id = motion_id => ~command'.finished \/ command' = command)
    BY <1>0, <1>1, CompletedByCommand DEF TypeOK, Ends, CompletedOnRequest, NoCommand
  <2>3. ASSUME at \in {"startMotion", "update", "throwOnMotionError", "callbacks"}
        PROVE  /\ command'.id = motion_id => ~command'.finished
               /\ final'[motion_id] # "kSuccess"
    <3>1. motion_id \in CommandId /\ final[motion_id] # "kSuccess"
          /\ (command.id = motion_id => ~command.finished)
      BY <1>2, <2>3 DEF Ends, CompletedOnRequest
    <3>. QED BY <1>0, <2>2, <3>1, CompletedByCommand DEF TypeOK
  <2>. QED BY <1>0, <2>1, <2>2, <2>3 DEF Ends, CompletedOnRequest
<1>. QED BY <1>3, <1>4, <1>5 DEF Ends

LEMMA ImplSettles ==
    ASSUME IInv, Settled, ImplNext, UNCHANGED loopVars
    PROVE  /\ Numbered' /\ DecidedOnce' /\ Replies'
           /\ HasMove' /\ StartIsOver'
<1>0. ServerTypeOK /\ ImplTypeOK /\ UNCHANGED at /\ (at # "out" => motion_id # NoMotion)
  BY DEF IInv, TypeOK, loopVars, Settled, HasMove
<1>1. Numbered' /\ DecidedOnce' /\ Replies' /\ (NoStart => NoStart')
  BY <1>0, ImplKeeps DEF Settled
<1>2. HasMove'
  BY <1>0, ImplPass DEF HasMove
<1>3. ASSUME Unstarted
      PROVE  Unstarted' \/ NoStart'
  <2>1. CASE at = "out"
    BY <1>0, <2>1 DEF Unstarted
  <2>2. CASE at = "startMotion" /\ step = "start.wait"
    <3>1. StartWait
      BY <2>2 DEF ImplNext, UpdateSend, UpdateClosed, UpdateReceive, StartPoll, ErrorWait,
                  FinishPoll, FinishWait, CancelWait, CancelReceive, CancelIgnore
    <3>2. CASE UNCHANGED <<step, thrown>>
      BY <1>0, <2>2, <3>2 DEF Unstarted
    <3>3. CASE Throw("NetworkException")
      BY <1>0, <2>2, <3>3 DEF Unstarted, Throw, None
    <3>4. ASSUME NEW s \in Status, Take(motion_id, s)
          PROVE  NoStart'
      BY <1>0, <2>2, <3>1, <3>4, TakingLeavesNoStart DEF StartWait, Settled
    <3>. QED BY <3>1, <3>2, <3>3, <3>4 DEF StartWait
  <2>3. CASE step = "returned"
    BY <2>3 DEF ImplNext, UpdateSend, UpdateClosed, UpdateReceive, StartWait, StartPoll, ErrorWait,
                FinishPoll, FinishWait, CancelWait, CancelReceive, CancelIgnore
  <2>. QED BY <1>3, <2>1, <2>2, <2>3 DEF Unstarted
<1>. QED BY <1>1, <1>2, <1>3 DEF StartIsOver, Settled

LEMMA ImplEnds ==
    ASSUME IInv, Replies, HasMove, StartIsOver, Ends, ImplNext, UNCHANGED loopVars
    PROVE  Ends'
<1>0. /\ TypeOK /\ ServerTypeOK /\ ImplTypeOK /\ Located /\ NothingThrown /\ step \in Step
      /\ UNCHANGED <<at, rethrow, outcome>>
      /\ at # "out" => motion_id # NoMotion
      /\ step # "returned" => at # "out"
  BY DEF IInv, Flow, TypeOK, ImplTypeOK, loopVars, HasMove, Located
<1>1. UNCHANGED <<final, motion_id, command_id_>>
  BY <1>0, ImplPass DEF serverVars
<1>2. ReturnsOnSuccess' /\ RepliesAreExpected'
  BY <1>0, <1>1 DEF Ends, ReturnsOnSuccess, RepliesAreExpected
<1>3. step # "returned" /\ at # "out" /\ motion_id # NoMotion
  BY <1>0, StepOf
<1>4. CASE step = "start.wait"
  <2>1. StartWait /\ at = "startMotion" /\ ~Running(cached)
    BY <1>0, <1>3, <1>4, StepOf DEF Located, TypeOK, At, Ends, CompletedOnRequest
  <2>2. \A s \in Status : MoveException(s) # "ProtocolException"
    BY <2>1 DEF MoveException, Running, None
  <2>3. UNCHANGED <<command, cached, motion_command>> /\ step' # "update.send"
    BY <1>4, <2>1 DEF StartWait, Goto, Throw
  <2>4. thrown' # "ProtocolException"
    BY <2>1, <2>2 DEF StartWait, Goto, Throw, Ends, Reports
  <2>. QED BY <1>0, <1>1, <1>2, <2>1, <2>3, <2>4
       DEF Ends, Reports, CompletedOnRequest, Running, motionGeneratorRunning, controllerRunning
<1>5. CASE step = "start.poll"
  <2>1. StartPoll /\ at = "startMotion" /\ ~Unstarted
    BY <1>0, <1>3, <1>5, StepOf DEF Located, TypeOK, At, Unstarted
  <2>2. UNCHANGED <<command, cached>> /\ step' # "start.wait"
        /\ (step' # "update.send" \/ motion_command' = None)
    BY <2>1 DEF StartPoll, Return, Throw, CallUpdate
  <2>3. ASSUME NEW map \in Maps, NEW s \in Status, map[motion_id] = s
        PROVE  MoveException(s) \in {None, "CommandException"}
    BY <1>0, <1>3, <2>1, <2>3, FoundIsVerdict DEF StartIsOver
  <2>4. thrown' # "ProtocolException"
    BY <2>1, <2>3 DEF StartPoll, Return, Throw, None, Ends, Reports
  <2>. QED BY <1>0, <1>1, <1>2, <2>1, <2>2, <2>4 DEF Ends, Reports, CompletedOnRequest, None
<1>6. CASE step = "error.wait"
  <2>1. /\ ErrorWait /\ at = "throwOnMotionError" /\ ~Unstarted /\ motion_id \in CommandId
        /\ final[motion_id] # "kSuccess"
    BY <1>0, <1>3, <1>6, StepOf
    DEF Located, TypeOK, ImplTypeOK, At, Unstarted, Ends, CompletedOnRequest
  <2>2. UNCHANGED <<command, cached, motion_command>> /\ step' \in {"error.wait", "returned"}
    BY <1>6, <2>1 DEF ErrorWait, Throw
  <2>3. ASSUME NEW s \in Status, Take(motion_id, s)
        PROVE  MoveException(s) = "CommandException"
    <3>1. PICK map \in Maps : map[motion_id] = s
      BY <2>3 DEF Take
    <3>. QED BY <1>0, <1>3, <2>1, <3>1, FoundIsVerdict DEF StartIsOver
  <2>4. thrown' # "ProtocolException"
    BY <2>1, <2>3 DEF ErrorWait, Throw, Ends, Reports
  <2>. QED BY <1>0, <1>1, <1>2, <2>1, <2>2, <2>4 DEF Ends, Reports, CompletedOnRequest
<1>7. CASE step = "finish.poll"
  <2>1. FinishPoll /\ at = "finishMotion"
    BY <1>0, <1>3, <1>7, StepOf DEF Located, TypeOK, At
  <2>2. UNCHANGED <<command, thrown>> /\ step' \in {"update.send", "finish.wait"}
    BY <2>1 DEF FinishPoll, CallUpdate, netVars
  <2>. QED BY <1>0, <1>1, <1>2, <2>1, <2>2 DEF Ends, Reports, CompletedOnRequest
<1>8. CASE step = "finish.wait"
  <2>1. FinishWait /\ at = "finishMotion" /\ ~Unstarted
    BY <1>0, <1>3, <1>8, StepOf DEF Located, TypeOK, At, Unstarted
  <2>2. UNCHANGED command /\ step' \in {"finish.wait", "returned"}
    BY <1>8, <2>1 DEF FinishWait, Return, Throw
  <2>3. ASSUME NEW s \in Status, Take(motion_id, s)
        PROVE  /\ MoveException(s) \in {None, "CommandException"}
               /\ MoveException(s) = None => final[motion_id] = "kSuccess"
    <3>1. PICK map \in Maps : map[motion_id] = s
      BY <2>3 DEF Take
    <3>. QED BY <1>0, <1>3, <2>1, <3>1, FoundIsVerdict DEF StartIsOver
  <2>4. thrown' # "ProtocolException"
    BY <2>1, <2>3 DEF FinishWait, Throw, Return, None, Ends, Reports
  <2>5. step' = "returned" /\ thrown' = None => final[motion_id] = "kSuccess"
    BY <1>8, <2>1, <2>3 DEF FinishWait, Throw, None
  <2>. QED BY <1>0, <1>1, <1>2, <2>1, <2>2, <2>4, <2>5 DEF Ends, Reports, CompletedOnRequest
<1>9. CASE step = "update.send"
  <2>1. /\ at \in {"startMotion", "update", "finishMotion"}
        /\ UpdateSend \/ UpdateClosed
        /\ at # "finishMotion" => motion_command # "finished"
    BY <1>0, <1>3, <1>9, StepOf DEF Located, TypeOK, At, Ends, CompletedOnRequest
  <2>2. /\ thrown' \in {thrown, "NetworkException", "ControlException"}
        /\ step' \in {"update.receive", "returned"}
        /\ step' = "returned" => thrown' # None
    BY <2>1 DEF UpdateSend, UpdateClosed, Goto, Throw, SendException, None
  <2>3. command' \in {command, [id |-> motion_id, finished |-> motion_command = "finished"]}
    BY <2>1 DEF UpdateSend, UpdateClosed, netVars
  <2>4. Reports'
    BY <1>0, <1>1, <2>1, <2>2 DEF Ends, Reports
  <2>5. motion_id \in Nat
    <3>1. motion_id \in CommandId
      BY <1>0, <1>3 DEF TypeOK, ImplTypeOK
    <3>. QED BY <3>1, IdsAreNumbers
  <2>6. command'.id <= motion_id
    BY <2>3, <2>5 DEF Ends, CompletedOnRequest
  <2>7. at # "finishMotion" /\ command'.id = motion_id => ~command'.finished
    <3>1. CASE command' = command
      BY <2>1, <3>1 DEF Ends, CompletedOnRequest
    <3>2. CASE command' = [id |-> motion_id, finished |-> motion_command = "finished"]
      BY <2>1, <3>2
    <3>. QED BY <2>3, <3>1, <3>2
  <2>8. CompletedOnRequest'
    BY <1>0, <1>1, <2>1, <2>2, <2>6, <2>7 DEF Ends, CompletedOnRequest
  <2>. QED BY <1>2, <2>4, <2>8 DEF Ends
<1>10. CASE step = "update.receive"
  <2>1. /\ UpdateReceive /\ at \in {"startMotion", "update", "finishMotion"}
        /\ resume \in {"returned", "start.poll", "finish.poll"}
        /\ at = "finishMotion" => resume = "finish.poll"
    BY <1>0, <1>3, <1>10, StepOf DEF Located, TypeOK, ImplTypeOK, At
  <2>2. /\ thrown' \in {thrown, None, "NetworkException"} /\ UNCHANGED command
        /\ step' \in {"returned", "start.poll", "finish.poll"}
        /\ at = "finishMotion" /\ step' = "returned" => thrown' # None
    BY <2>1 DEF UpdateReceive, Goto, Return, Throw, None
  <2>. QED BY <1>0, <1>1, <1>2, <2>1, <2>2 DEF Ends, Reports, CompletedOnRequest, None
<1>11. CASE step \in {"cancel.wait", "cancel.receive", "cancel.ignore"}
  <2>1. at = "cancelMotion" /\ (CancelWait \/ CancelReceive \/ CancelIgnore)
    BY <1>0, <1>3, <1>11, StepOf DEF Located, TypeOK, At
  <2>2. UNCHANGED command /\ thrown' # "ProtocolException" /\ step' # "start.wait"
    BY <1>11, <2>1 DEF CancelWait, CancelReceive, CancelIgnore, Goto, Return, Throw, None, Ends, Reports
  <2>. QED BY <1>0, <1>1, <1>2, <2>1, <2>2 DEF Ends, Reports, CompletedOnRequest
<1>. QED BY <1>0, <1>3, <1>4, <1>5, <1>6, <1>7, <1>8, <1>9, <1>10, <1>11 DEF Step

---------------------------------------------------------------------------
(* Other threads, and the control loop.                                    *)

\* Nothing is sent, received or ended: the loop only goes on.
LEMMA GoingOnSettles ==
    ASSUME IInv, Settled, HasMove',
           UNCHANGED <<serverVars, toRobot, toClient, received_responses_, command_id_, motion_id>>,
           Unstarted => Unstarted'
    PROVE  Numbered' /\ DecidedOnce' /\ Replies' /\ HasMove' /\ StartIsOver'
BY LocalKeeps DEF IInv, TypeOK, Settled, StartIsOver

LEMMA OtherReceiveSettles ==
    ASSUME IInv, Settled, OtherReceive, UNCHANGED loopVars
    PROVE  Settled'
<1>0. /\ ServerTypeOK /\ ImplTypeOK
      /\ UNCHANGED <<serverVars, toRobot, command_id_, motion_id, step, thrown, cached,
                     motion_command, command, at, rethrow, outcome>>
  BY DEF IInv, TypeOK, OtherReceive, loopVars
<1>2. Unstarted' <=> Unstarted
  BY <1>0 DEF Unstarted
<1>3. Numbered' /\ DecidedOnce' /\ Replies' /\ HasMove' /\ StartIsOver'
  BY <1>0, <1>2, OtherReceiveKeeps DEF Settled, HasMove, StartIsOver
<1>4. UNCHANGED final
  BY <1>0 DEF serverVars
<1>5. Ends'
  BY <1>0, <1>4 DEF Settled, Ends, CompletedOnRequest, Reports, ReturnsOnSuccess,
                    RepliesAreExpected, Running, motionGeneratorRunning, controllerRunning
<1>. QED BY <1>3, <1>5 DEF Settled

LEMMA StopKeeps ==
    ASSUME IInv, Settled, NEW c \in {"kStopMove", "kAutomaticErrorRecovery"}, Stop(c)
    PROVE  Settled'
<1>0. /\ TypeOK /\ command_id_ \in CommandId
      /\ UNCHANGED <<serverVars, toClient, received_responses_, motion_id, step, thrown, cached,
                     motion_command, command, at, rethrow, outcome>>
      /\ SendRequest(c, IdleModes) /\ c \in Command /\ IdleModes \in Modes
  <2>1. TypeOK
    BY DEF IInv
  <2>2. command_id_ \in CommandId
    BY <2>1, BoundsAssumption
    DEF Stop, IdsFor, Reserved, TypeOK, ImplTypeOK, CommandId
  <2>3. c \in Command /\ IdleModes \in Modes
    BY DEF Command, IdleModes, Modes, MotionGeneratorMode, ControllerMode
  <2>. QED BY <2>1, <2>2, <2>3 DEF Stop, OtherRequest, loopVars
<1>1. Unstarted' = Unstarted
  BY <1>0 DEF Unstarted
<1>3. Numbered' /\ DecidedOnce' /\ Replies' /\ HasMove' /\ StartIsOver'
  BY <1>0, <1>1, SendingKeeps DEF TypeOK, Settled, HasMove, StartIsOver
<1>4. UNCHANGED final
  BY <1>0 DEF serverVars
<1>5. Ends'
  BY <1>0, <1>4 DEF Settled, Ends, CompletedOnRequest, Reports, ReturnsOnSuccess,
                    RepliesAreExpected, Running, motionGeneratorRunning, controllerRunning
<1>. QED BY <1>3, <1>5 DEF Settled

LEMMA ConstructKeeps ==
    ASSUME IInv, Settled, NEW modes \in MoveModes, Construct(modes)
    PROVE  Settled'
<1>0. /\ TypeOK /\ step = "returned" /\ at = "out"
      /\ UNCHANGED <<serverVars, toClient, received_responses_, cached, command, motion_command,
                     rethrow, outcome, final>>
  BY DEF IInv, Construct, Done, serverVars
<1>1. CASE Running(cached)
  <2>1. /\ at' = "out" /\ step' = "returned" /\ thrown' = "ControlException"
        /\ UNCHANGED <<toRobot, command_id_, motion_id>>
    BY <1>1 DEF Construct, CallStartMotion, Throw
  <2>2. Numbered' /\ DecidedOnce' /\ Replies' /\ HasMove' /\ StartIsOver'
    BY <1>0, <2>1, GoingOnSettles DEF HasMove, Unstarted
  <2>3. Ends'
    BY <1>0, <2>1 DEF Settled, Ends, CompletedOnRequest, Reports, ReturnsOnSuccess,
                      RepliesAreExpected
  <2>. QED BY <2>2, <2>3 DEF Settled
<1>2. CASE ~Running(cached)
  <2>1. /\ at' = "startMotion" /\ step' = "start.wait" /\ UNCHANGED thrown
        /\ motion_id' = command_id_ /\ SendRequest("kMove", modes)
    BY <1>2 DEF Construct, CallStartMotion, Goto
  <2>2. command_id_ \in CommandId
    BY <1>0, BoundsAssumption DEF Construct, IdsFor, TypeOK, ImplTypeOK, CommandId
  <2>3. modes \in Modes /\ "kMove" \in Command /\ command_id_ # NoMotion
    BY <2>2, MoveModesAssumption, IdsAreNumbers DEF Modes, Command
  <2>4. Unstarted'
    BY <2>1 DEF Unstarted
  <2>5. Numbered' /\ DecidedOnce' /\ Replies' /\ HasMove' /\ StartIsOver'
    BY <1>0, <2>1, <2>2, <2>3, <2>4, SendingKeeps DEF TypeOK, Settled, HasMove, StartIsOver
  <2>6. /\ command_id_ \in Nat /\ motion_id \in Nat /\ command.id \in Nat
        /\ command.id <= motion_id /\ motion_id < command_id_
    <3>1. motion_id \in CommandId \cup {NoMotion} /\ command.id \in CommandId \cup {NoMotion}
      BY <1>0 DEF TypeOK, ImplTypeOK, ServerTypeOK
    <3>2. \A id \in CommandId \cup {NoMotion} : id \in Nat
      BY IdsAreNumbers DEF NoMotion
    <3>. QED BY <2>2, <3>1, <3>2 DEF Settled, Ends, CompletedOnRequest, Numbered
  <2>7. final[command_id_] = None
    BY <2>2, <2>6 DEF Settled, Numbered
  <2>8. CompletedOnRequest'
    <3>1. command.id <= motion_id' /\ command.id # motion_id' /\ final'[motion_id'] # "kSuccess"
      BY <1>0, <2>1, <2>6, <2>7 DEF None
    <3>2. ~Running(cached)'
      BY <1>0, <1>2 DEF Running, motionGeneratorRunning, controllerRunning
    <3>. QED BY <1>0, <2>1, <3>1, <3>2 DEF CompletedOnRequest
  <2>9. Reports' /\ ReturnsOnSuccess' /\ RepliesAreExpected'
    BY <1>0, <2>1 DEF Settled, Ends, Reports, ReturnsOnSuccess, RepliesAreExpected
  <2>. QED BY <2>5, <2>8, <2>9 DEF Settled, Ends
<1>. QED BY <1>1, <1>2

\* cancelMotion is called for exception e.
LEMMA CancelKeeps ==
    ASSUME IInv, Settled, NEW e \in Outcome, e \notin {"returned", "ProtocolException"}, Cancel(e),
           at \in {"update", "throwOnMotionError", "callbacks", "finishMotion"},
           UNCHANGED <<serverVars, toClient, received_responses_, motion_id, cached, command>>
    PROVE  Settled'
<1>0. /\ TypeOK /\ command_id_ \in CommandId /\ motion_id # NoMotion
      /\ SendRequest("kStopMove", IdleModes) /\ "kStopMove" \in Command /\ IdleModes \in Modes
      /\ at' = "cancelMotion" /\ step' = "cancel.wait" /\ rethrow' = e
      /\ UNCHANGED <<thrown, outcome, final>>
  <2>1. "kStopMove" \in Command /\ IdleModes \in Modes
    BY DEF Command, IdleModes, Modes, MotionGeneratorMode, ControllerMode
  <2>2. command_id_ \in CommandId
    BY IdLeft DEF IInv
  <2>. QED BY <2>1, <2>2 DEF IInv, Cancel, CallCancelMotion, Goto, Settled, HasMove, serverVars
<1>1. Unstarted' = Unstarted
  BY <1>0 DEF Unstarted
<1>2. Numbered' /\ DecidedOnce' /\ Replies' /\ HasMove' /\ StartIsOver'
  BY <1>0, <1>1, SendingKeeps DEF TypeOK, Settled, HasMove, StartIsOver
<1>3. Ends'
  BY <1>0 DEF Settled, Ends, CompletedOnRequest, Reports, ReturnsOnSuccess, RepliesAreExpected
<1>. QED BY <1>2, <1>3 DEF Settled

\* control() is over with this result.
LEMMA LeaveKeeps ==
    ASSUME IInv, Settled, NEW result, Leave(result), result # "ProtocolException",
           result = "returned" => final[motion_id] = "kSuccess",
           step' = "returned", thrown' # "ProtocolException",
           UNCHANGED <<serverVars, toRobot, toClient, received_responses_, command_id_, motion_id,
                       command>>
    PROVE  Settled'
<1>0. /\ TypeOK /\ at' = "out" /\ Unstarted' /\ UNCHANGED <<rethrow, final>>
      /\ outcome' = [outcome EXCEPT ![motion_id] = result]
      /\ outcome \in [CommandId -> Outcome \cup {None}]
  BY DEF IInv, TypeOK, Leave, Unstarted, serverVars
<1>1. Numbered' /\ DecidedOnce' /\ Replies' /\ HasMove' /\ StartIsOver'
  BY <1>0, GoingOnSettles DEF HasMove
<1>2. \A id \in CommandId :
          \/ outcome'[id] = outcome[id]
          \/ id = motion_id /\ outcome'[id] = result
  BY <1>0
<1>3. ReturnsOnSuccess' /\ RepliesAreExpected'
  BY <1>0, <1>2 DEF Settled, Ends, ReturnsOnSuccess, RepliesAreExpected
<1>4. CompletedOnRequest' /\ Reports'
  BY <1>0 DEF Settled, Ends, CompletedOnRequest, Reports
<1>. QED BY <1>1, <1>3, <1>4 DEF Settled, Ends

\* The loop goes on from one call to the next.
LEMMA GoesOnKeeps ==
    ASSUME IInv, Settled, at # "out", ~Unstarted, at' # "out",
           step' # "start.wait",
           at' \in {"startMotion", "update", "throwOnMotionError", "callbacks"} =>
             /\ at \in {"startMotion", "update", "throwOnMotionError", "callbacks"}
             /\ motion_command' # "finished" \/ step' # "update.send",
           at' = "finishMotion" => step' # "returned" \/ thrown' # None,
           thrown' # "ProtocolException",
           UNCHANGED <<serverVars, toRobot, toClient, received_responses_, command_id_, motion_id,
                       command, rethrow, outcome>>
    PROVE  Settled'
<1>0. TypeOK /\ motion_id # NoMotion /\ UNCHANGED final
  BY DEF IInv, Settled, HasMove, serverVars
<1>1. Numbered' /\ DecidedOnce' /\ Replies' /\ HasMove' /\ StartIsOver'
  BY <1>0, GoingOnSettles DEF HasMove
<1>2. Ends'
  BY <1>0 DEF Settled, Ends, CompletedOnRequest, Reports, ReturnsOnSuccess, RepliesAreExpected
<1>. QED BY <1>1, <1>2 DEF Settled

LEMMA LoopKeeps ==
    ASSUME IInv, Settled, LoopNext
    PROVE  Settled'
<1>0. /\ thrown \in Exception \cup {None} /\ thrown # "ProtocolException"
      /\ rethrow \notin {"returned", "ProtocolException"}
      /\ at = "finishMotion" /\ step = "returned" /\ thrown = None => final[motion_id] = "kSuccess"
  BY DEF IInv, TypeOK, ImplTypeOK, Settled, Ends, Reports
<1>1. thrown # None => thrown \in Outcome /\ thrown \notin {"returned", "ProtocolException"}
  BY <1>0 DEF Exception, Outcome
<1>2. CASE Started
  <2>0. at = "startMotion" /\ step = "returned" /\ UNCHANGED thrown
    BY <1>2 DEF Started, Done
  <2>1. CASE thrown = None
    <3>1. /\ at' = "update" /\ step' = "update.send" /\ motion_command' = None
          /\ UNCHANGED <<rethrow, outcome>>
      BY <1>2, <2>1 DEF Started, CallUpdate
    <3>. QED BY <1>0, <1>2, <2>0, <2>1, <3>1, GoesOnKeeps
         DEF Started, Unstarted, netVars, None
  <2>2. CASE thrown # None
    <3>1. Leave(thrown) /\ UNCHANGED step
      BY <1>2, <2>2 DEF Started
    <3>. QED BY <1>0, <1>1, <1>2, <2>0, <2>2, <3>1, LeaveKeeps DEF Started, netVars
  <2>. QED BY <2>1, <2>2
<1>3. CASE Updated
  <2>1. CASE thrown = None
    <3>1. /\ at = "update" /\ at' = "throwOnMotionError"
          /\ step' \in {"error.wait", "returned"} /\ thrown' = None
          /\ UNCHANGED <<rethrow, outcome, command_id_, toRobot>>
      BY <1>3, <2>1
      DEF Updated, Done, CallThrowOnMotionError, Goto, Return
    <3>. QED BY <1>3, <3>1, GoesOnKeeps DEF Updated, Unstarted, None
  <2>2. CASE thrown # None
    BY <1>1, <1>3, <2>2, CancelKeeps DEF Updated, Done
  <2>. QED BY <2>1, <2>2
<1>4. CASE Checked
  <2>1. CASE thrown = None
    <3>1. /\ at = "throwOnMotionError" /\ at' = "callbacks" /\ step' = "returned" /\ thrown' = None
          /\ UNCHANGED <<rethrow, outcome, command_id_, toRobot>>
      BY <1>4, <2>1 DEF Checked, Done
    <3>. QED BY <1>4, <3>1, GoesOnKeeps DEF Checked, Unstarted, None
  <2>2. CASE thrown # None
    BY <1>1, <1>4, <2>2, CancelKeeps DEF Checked, Done
  <2>. QED BY <2>1, <2>2
<1>5. CASE CallbacksContinue
  <2>1. /\ at = "callbacks" /\ at' = "update" /\ step' = "update.send"
        /\ motion_command' = "running" /\ UNCHANGED thrown
    BY <1>5 DEF CallbacksContinue, CallUpdate
  <2>. QED BY <1>0, <1>5, <2>1, GoesOnKeeps DEF CallbacksContinue, Unstarted, netVars
<1>6. CASE CallbacksFinish
  <2>1. Running(cached)
    BY <1>6 DEF CallbacksFinish, IInv, Flow, CallbacksRun
  <2>2. /\ at = "callbacks" /\ at' = "finishMotion" /\ step' = "update.send" /\ UNCHANGED thrown
    BY <1>6, <2>1 DEF CallbacksFinish, CallFinishMotion, CallUpdate
  <2>. QED BY <1>0, <1>6, <2>2, GoesOnKeeps DEF CallbacksFinish, Unstarted, netVars
<1>7. CASE CallbacksThrow
  BY <1>7, CancelKeeps, OutcomeFacts DEF CallbacksThrow
<1>8. CASE Finished
  <2>1. CASE thrown = None
    <3>1. /\ at = "finishMotion" /\ step = "returned" /\ Leave("returned")
          /\ UNCHANGED <<step, thrown, command_id_, toRobot>>
      BY <1>8, <2>1 DEF Finished, Done
    <3>. QED BY <1>0, <1>8, <2>1, <3>1, LeaveKeeps DEF Finished
  <2>2. CASE thrown # None
    BY <1>1, <1>8, <2>2, CancelKeeps DEF Finished, Done
  <2>. QED BY <2>1, <2>2
<1>9. CASE Cancelled
  <2>1. /\ step = "returned" /\ Leave(rethrow) /\ UNCHANGED <<step, thrown>>
    BY <1>9 DEF Cancelled, Done, implVars
  <2>. QED BY <1>0, <1>9, <2>1, LeaveKeeps DEF Cancelled, netVars, implVars
<1>. QED BY <1>2, <1>3, <1>4, <1>5, <1>6, <1>7, <1>8, <1>9 DEF LoopNext

---------------------------------------------------------------------------
\* OInv holds at first ...
THEOREM InitOutcome == Init => OInv
<1>. SUFFICES ASSUME Init PROVE OInv
  OBVIOUS
<1>. USE DEF Init, ServerInit, ImplInit
<1>1. Numbered /\ DecidedOnce
  BY BoundsAssumption DEF Numbered, DecidedOnce, NoMotion
<1>2. Replies
  BY DEF Replies, RepliesBelong, StartedFirst, UndecidedIsSilent
<1>3. HasMove /\ StartIsOver
  BY DEF HasMove, StartIsOver, Unstarted
<1>4. CompletedOnRequest
  BY DEF CompletedOnRequest, NoCommand, NoMotion
<1>5. Reports /\ ReturnsOnSuccess /\ RepliesAreExpected
  BY DEF Reports, ReturnsOnSuccess, RepliesAreExpected, None
<1>. QED BY <1>1, <1>2, <1>3, <1>4, <1>5, InitInvariant DEF OInv, Settled, Ends

\* ... and after every step.
THEOREM NextOutcome == OInv /\ [Next]_vars => OInv'
<1>. SUFFICES ASSUME IInv, Settled, [Next]_vars PROVE OInv'
  BY DEF OInv
<1>0. IInv'
  BY NextInvariant
<1>1. CASE ServerNext /\ UNCHANGED <<implVars, loopVars>>
  <2>1. /\ Numbered' /\ DecidedOnce' /\ Replies' /\ VerdictsStay
        /\ HasMove' /\ StartIsOver'
    BY <1>1, ServerSettles
  <2>2. Ends'
    BY <1>1, <2>1, ServerEnds DEF Settled
  <2>. QED BY <1>0, <2>1, <2>2 DEF OInv, Settled
<1>2. CASE ImplNext /\ UNCHANGED loopVars
  <2>1. Numbered' /\ DecidedOnce' /\ Replies' /\ HasMove' /\ StartIsOver'
    BY <1>2, ImplSettles
  <2>2. Ends'
    BY <1>2, ImplEnds DEF Settled
  <2>. QED BY <1>0, <2>1, <2>2 DEF OInv, Settled
<1>3. CASE OtherReceive /\ UNCHANGED loopVars
  BY <1>0, <1>3, OtherReceiveSettles DEF OInv
<1>4. CASE \E modes \in MoveModes : Construct(modes)
  BY <1>0, <1>4, ConstructKeeps DEF OInv
<1>5. CASE LoopNext
  BY <1>0, <1>5, LoopKeeps DEF OInv
<1>6. CASE \E c \in {"kStopMove", "kAutomaticErrorRecovery"} : Stop(c)
  BY <1>0, <1>6, StopKeeps DEF OInv
<1>7. CASE UNCHANGED vars
  <2>. USE <1>7 DEF vars, serverVars, netVars, implVars, loopVars
  <2>1. Numbered' /\ DecidedOnce' /\ Replies' /\ HasMove' /\ StartIsOver'
    BY DEF Settled, HasMove, StartIsOver, NoStart, Numbered, DecidedOnce, Replies, RepliesBelong, StartedFirst,
           UndecidedIsSilent, IsReply, Unstarted
  <2>2. Ends'
    BY DEF Settled, Ends, CompletedOnRequest, Reports, ReturnsOnSuccess, RepliesAreExpected,
           Running, motionGeneratorRunning, controllerRunning
  <2>. QED BY <1>0, <2>1, <2>2 DEF OInv, Settled
<1>. QED BY <1>1, <1>2, <1>3, <1>4, <1>5, <1>6, <1>7 DEF Next

THEOREM OutcomeInvariant == Spec => []OInv
<1>. QED BY InitOutcome, NextOutcome, PTL DEF Spec

(* control() returns only for a Move that the robot ended with kSuccess,   *)
(* whichever thread read its responses from the connection and in which    *)
(* order, for any commands of other threads and any faults                 *)
(* (robot_impl.cpp:281-316, control_loop.cpp:95-126, network.h:133-183).   *)
THEOREM ReturnsOnlyOnSuccess == Spec => []ReturnsOnSuccess
<1>1. OInv => ReturnsOnSuccess
  BY DEF OInv, Settled, Ends
<1>. QED BY <1>1, OutcomeInvariant, PTL

(* throwOnMotionError never takes a success or the first response of the   *)
(* Move for the error it detected (robot_impl.cpp:70-87), and startMotion  *)
(* never gets a first response twice (robot_impl.cpp:208-279).             *)
THEOREM RepliesAlwaysExpected == Spec => []RepliesAreExpected
<1>1. OInv => RepliesAreExpected
  BY DEF OInv, Settled, Ends
<1>. QED BY <1>1, OutcomeInvariant, PTL

---------------------------------------------------------------------------
(* The connection is used as a mailbox.                                    *)

LEMMA LoopIsQuiet ==
    ASSUME ImplTypeOK, StopIsKnown, LoopNext
    PROVE  UNCHANGED <<toClient, received_responses_>> /\ StopIsKnown'
<1>1. UNCHANGED <<toClient, received_responses_>>
  BY DEF LoopNext, Started, Updated, Checked, CallbacksContinue, CallbacksFinish, CallbacksThrow,
         Finished, Cancelled, netVars, implVars
<1>2. ASSUME NEW e, Cancel(e) PROVE StopIsKnown'
  BY <1>2, CancelIsKnown DEF Cancel
<1>3. CASE Started \/ CallbacksContinue \/ CallbacksFinish \/ Cancelled
  BY <1>1, <1>3 DEF Started, CallbacksContinue, CallbacksFinish, Cancelled, Done, CallUpdate,
                    CallFinishMotion, Return, implVars, StopIsKnown
<1>4. CASE Updated
  BY <1>1, <1>2, <1>4 DEF Updated, Done, CallThrowOnMotionError, Goto, Return, StopIsKnown
<1>5. CASE Checked \/ CallbacksThrow \/ Finished
  BY <1>1, <1>2, <1>5 DEF Checked, CallbacksThrow, Finished, Done, StopIsKnown
<1>. QED BY <1>1, <1>3, <1>4, <1>5 DEF LoopNext

(* Robot::Impl under ControlLoop, and the thread that stops or recovers,   *)
(* make mailbox steps only: what ReadingIsAMailbox shows of Network is all *)
(* that control() needs of the connection (network.h:149-259,              *)
(* robot_impl.cpp:63-96, 208-316, 393-411).                                *)
THEOREM ControlUsesMailbox == Spec => UsesMailbox
<1>1. Init => Mailbox!Init /\ StopIsKnown
  BY InitUsesMailbox DEF Init, ImplInit, StopIsKnown
<1>2. OInv /\ StopIsKnown /\ [Next]_vars => MailboxStep /\ StopIsKnown'
  <2>. SUFFICES ASSUME OInv, StopIsKnown, [Next]_vars PROVE MailboxStep /\ StopIsKnown'
    OBVIOUS
  <2>0. /\ ServerTypeOK /\ ImplTypeOK /\ MoveInExecution
        /\ step # "returned" => motion_id # NoMotion
    BY DEF OInv, IInv, TypeOK, Flow, Located, Settled, HasMove
  <2>1. CASE ServerNext /\ UNCHANGED <<implVars, loopVars>>
    BY <2>0, <2>1, ServerUsesMailbox DEF implVars, StopIsKnown
  <2>2. CASE ImplNext
    BY <2>0, <2>2, ImplUsesMailbox, StopStaysKnown, StepOf
  <2>3. CASE OtherReceive
    BY <2>0, <2>3, OtherUsesMailbox DEF OtherReceive, StopIsKnown
  <2>4. ASSUME NEW modes \in MoveModes, Construct(modes)
        PROVE  MailboxStep /\ StopIsKnown'
    BY <2>4, QuietUsesMailbox DEF Construct, CallStartMotion, Goto, Throw, StopIsKnown
  <2>5. CASE LoopNext
    BY <2>0, <2>5, LoopIsQuiet, QuietUsesMailbox
  <2>6. ASSUME NEW c, Stop(c)
        PROVE  MailboxStep /\ StopIsKnown'
    BY <2>6, QuietUsesMailbox DEF Stop, OtherRequest, StopIsKnown
  <2>7. CASE UNCHANGED vars
    BY <2>7, QuietUsesMailbox DEF vars, netVars, implVars, StopIsKnown
  <2>. QED BY <2>1, <2>2, <2>3, <2>4, <2>5, <2>6, <2>7 DEF Next
<1>. QED BY <1>1, <1>2, OutcomeInvariant, PTL DEF Spec, UsesMailbox, Mailbox!PassSpec, MailboxStep

---------------------------------------------------------------------------
(* What control() throws is true, whatever fails.                          *)

\* The robot will not end Move id with kSuccess any more.
NeverCompleted(id) == final[id] # "kSuccess" /\ ~(command.id = id /\ command.finished)

\* What is thrown, and what cancelMotion keeps to be thrown on.
BlameIsTrue ==
    /\ at \in {"startMotion", "update", "throwOnMotionError", "finishMotion"} /\ step = "returned" =>
          (thrown \in Blame => Failed(motion_id))
    /\ at = "cancelMotion" =>
          /\ rethrow \in Blame => Failed(motion_id)
          /\ rethrow = "UserException" => NeverCompleted(motion_id)

\* What was thrown is true of the Move it was thrown for.
ReportsAreTrue ==
    \A id \in CommandId :
        /\ outcome[id] \in Blame => Failed(id)
        /\ outcome[id] = "UserException" => NeverCompleted(id)

\* A Move is reported on once, when its call ends.
Unreported ==
    /\ \A id \in CommandId : id >= command_id_ => outcome[id] = None
    /\ at # "out" => outcome[motion_id] = None

NoTorquesAlone == step = "update.send" /\ motion_command = None => ~control_command

TInv == BlameIsTrue /\ ReportsAreTrue /\ Unreported /\ NoTorquesAlone

\* Verdicts stay, and the robot completes no Move that it cannot complete.
LEMMA ReportsStay ==
    ASSUME TInv, VerdictsStay, UNCHANGED <<at, step, thrown, motion_id, rethrow, outcome>>,
           motion_id \in CommandId \/ at = "out", ServerTypeOK,
           \A id \in CommandId : NeverCompleted(id) => NeverCompleted(id)'
    PROVE  BlameIsTrue' /\ ReportsAreTrue'
<1>1. \A id \in CommandId : Failed(id) => Failed(id)'
  BY StatusFacts DEF VerdictsStay, Failed, MoveEnd, Rejection, None
<1>. QED BY <1>1 DEF TInv, BlameIsTrue, ReportsAreTrue, NeverCompleted, Failed

LEMMA InCall ==
    ASSUME OInv
    PROVE  /\ TypeOK /\ ServerTypeOK /\ ImplTypeOK /\ MoveInExecution /\ Replies /\ Flow
           /\ outcome \in [CommandId -> Outcome \cup {None}]
           /\ final \in [CommandId -> MoveEnd \cup {None}]
           /\ at # "out" => motion_id # NoMotion /\ motion_id \in CommandId
           /\ command_id_ \in Nat /\ motion_id \in Nat /\ motion_id < command_id_
<1>1. TypeOK /\ ServerTypeOK /\ ImplTypeOK
  BY DEF OInv, IInv, TypeOK
<1>2. command_id_ \in Nat /\ motion_id \in Nat
  BY <1>1, IdsAreNumbers, BoundsAssumption DEF ImplTypeOK, NoMotion
<1>. QED BY <1>1, <1>2 DEF OInv, IInv, Settled, HasMove, Numbered, TypeOK, ServerTypeOK, ImplTypeOK

LEMMA ServerKeepsTruth ==
    ASSUME OInv, TInv, ServerNext, UNCHANGED <<implVars, loopVars>>
    PROVE  TInv'
<1>0. UNCHANGED <<at, step, thrown, motion_id, rethrow, outcome, command_id_, motion_command,
                  control_command>>
  BY DEF implVars, loopVars
<1>1. VerdictsStay
  BY ServerSettles DEF OInv
<1>2. ASSUME NEW id \in CommandId, NeverCompleted(id)
      PROVE  NeverCompleted(id)'
  <2>1. id # NoMotion
    BY NoneFacts
  <2>2. command' \in {command, NoCommand} /\ final'[id] # "kSuccess"
    BY <1>2, InCall, CompletedByCommand DEF NeverCompleted
  <2>. QED BY <1>2, <2>1, <2>2 DEF NeverCompleted, NoCommand
<1>3. BlameIsTrue' /\ ReportsAreTrue'
  BY <1>0, <1>1, <1>2, InCall, ReportsStay
<1>. QED BY <1>0, <1>3 DEF TInv, Unreported, NoTorquesAlone

\* No command that update() is called with is refused.
LEMMA CommandAccepted ==
    ASSUME IInv, at \in {"startMotion", "update", "finishMotion"}, step = "update.send",
           motion_command # None
    PROVE  SendException = None
<1>1. /\ current_move.mg # "kIdle" /\ control_callback_ = (current_move.ctl = "kExternalController")
      /\ control_command = control_callback_
  BY DEF IInv, Flow, MoveKnown, CommandFits
<1>. QED BY <1>1 DEF SendException

\* startMotion, throwOnMotionError and finishMotion blame the motion for what
\* the robot said of it, update() does not.
LEMMA ImplBlames ==
    ASSUME OInv, TInv, ImplNext, UNCHANGED loopVars,
           at \in {"startMotion", "update", "throwOnMotionError", "finishMotion"},
           step' = "returned", thrown' \in Blame
    PROVE  Failed(motion_id)
<1>0. /\ Located /\ NothingThrown /\ step # "returned" /\ thrown' \notin {None, "NetworkException"}
      /\ motion_id \in CommandId /\ final[motion_id] \in MoveEnd \cup {None}
  BY InCall, StepOf DEF Flow, Blame, None
<1>1. /\ step \notin {"cancel.wait", "cancel.receive", "cancel.ignore"}
      /\ step = "start.wait" => at = "startMotion" /\ ~Running(cached)
      /\ step # "start.wait" => ~Unstarted
  BY <1>0 DEF Located, Unstarted, OInv, Settled, Ends, CompletedOnRequest
<1>2. step # "start.wait" => NoStart
  BY <1>1 DEF OInv, Settled, StartIsOver
<1>3. step = "update.send" => IF motion_command = None THEN ~control_command
                                                      ELSE SendException = None
  BY <1>0, CommandAccepted DEF OInv, TInv, NoTorquesAlone, Located
<1>4. final[motion_id] # None /\ (step = "finish.wait" => final[motion_id] # "kSuccess")
  BY <1>0, <1>1, <1>2, <1>3, InCall, BlamesOnVerdict
<1>5. at # "finishMotion" => final[motion_id] # "kSuccess"
  BY DEF OInv, Settled, Ends, CompletedOnRequest
<1>6. at = "finishMotion" => step = "finish.wait"
  <2>1. at = "finishMotion" /\ step = "update.send" => FALSE
    BY <1>0, <1>3, StepOf DEF UpdateSend, UpdateClosed, Goto, Throw
  <2>2. at = "finishMotion" /\ step = "update.receive" => FALSE
    BY <1>0, StepOf DEF UpdateReceive, Located, Goto, Throw
  <2>3. at = "finishMotion" /\ step = "finish.poll" => FALSE
    BY StepOf DEF FinishPoll, CallUpdate
  <2>. QED BY <1>0, <2>1, <2>2, <2>3 DEF Located
<1>. QED BY <1>0, <1>4, <1>5, <1>6 DEF Failed

LEMMA ImplKeepsTruth ==
    ASSUME OInv, TInv, ImplNext, UNCHANGED loopVars
    PROVE  TInv'
<1>0. /\ UNCHANGED <<at, rethrow, outcome, motion_id, command_id_, final>>
      /\ at # "out" /\ motion_id \in CommandId /\ Located
  BY InCall, ImplPass, StepOf DEF loopVars, serverVars, Located, Flow
<1>1. at = "cancelMotion" => UNCHANGED command
  BY <1>0, StepOf DEF Located, CancelWait, CancelReceive, CancelIgnore
<1>2. command' = command \/ command'.id = motion_id
  <2>1. CASE UpdateSend
    BY <2>1 DEF UpdateSend
  <2>2. CASE ~UpdateSend
    BY <2>2 DEF ImplNext, UpdateClosed, UpdateReceive, StartWait, StartPoll, ErrorWait, FinishPoll,
                FinishWait, CancelWait, CancelReceive, CancelIgnore, netVars
  <2>. QED BY <2>1, <2>2
<1>3. BlameIsTrue'
  BY <1>0, <1>1, ImplBlames DEF TInv, BlameIsTrue, Failed, NeverCompleted
<1>4. ReportsAreTrue'
  <2>1. outcome[motion_id] = None
    BY <1>0 DEF TInv, Unreported
  <2>. QED BY <1>0, <1>2, <2>1 DEF TInv, ReportsAreTrue, Failed, NeverCompleted, None
<1>5. NoTorquesAlone'
  <2>1. ImplTypeOK
    BY InCall
  <2>2. CASE StartPoll
    BY <2>2 DEF StartPoll, Return, Throw, CallUpdate, NoTorquesAlone
  <2>3. CASE FinishPoll
    BY <2>3 DEF FinishPoll, CallUpdate, NoTorquesAlone, None
  <2>4. CASE UpdateReceive
    BY <2>1, <2>4 DEF UpdateReceive, Goto, Return, Throw, ImplTypeOK, NoTorquesAlone
  <2>5. CASE UpdateSend \/ UpdateClosed
    BY <2>5 DEF UpdateSend, UpdateClosed, Goto, Throw, NoTorquesAlone
  <2>6. CASE StartWait \/ ErrorWait \/ FinishWait
    BY <2>6 DEF StartWait, ErrorWait, FinishWait, Goto, Return, Throw, NoTorquesAlone
  <2>7. CASE CancelWait \/ CancelReceive \/ CancelIgnore
    BY <2>7 DEF CancelWait, CancelReceive, CancelIgnore, Goto, Return, Throw, NoTorquesAlone
  <2>. QED BY <2>2, <2>3, <2>4, <2>5, <2>6, <2>7 DEF ImplNext
<1>. QED BY <1>0, <1>3, <1>4, <1>5 DEF TInv, Unreported

\* control() ends with result.
LEMMA LeaveKeepsTruth ==
    ASSUME OInv, TInv, NEW result, Leave(result), at # "out",
           result \in Blame => Failed(motion_id),
           result = "UserException" => NeverCompleted(motion_id),
           step = "returned", UNCHANGED <<serverVars, command, command_id_, motion_id, step>>
    PROVE  TInv'
<1>0. /\ at' = "out" /\ outcome' = [outcome EXCEPT ![motion_id] = result] /\ UNCHANGED final
      /\ motion_id < command_id_
  BY InCall DEF Leave, serverVars
<1>1. \A id \in CommandId : /\ id # motion_id => outcome'[id] = outcome[id]
                            /\ id = motion_id => outcome'[id] = result
  BY <1>0, InCall
<1>2. ReportsAreTrue'
  BY <1>0, <1>1 DEF TInv, ReportsAreTrue, Failed, NeverCompleted
<1>3. \A id \in CommandId : id \in Nat
  BY IdsAreNumbers
<1>4. Unreported'
  BY <1>0, <1>1, <1>3, InCall DEF TInv, Unreported
<1>. QED BY <1>0, <1>2, <1>4 DEF TInv, BlameIsTrue, NoTorquesAlone

\* cancelMotion is called with e to be thrown on.
LEMMA CancelKeepsTruth ==
    ASSUME OInv, TInv, NEW e, Cancel(e), at # "out",
           e \in Blame => Failed(motion_id),
           e = "UserException" => NeverCompleted(motion_id),
           UNCHANGED <<serverVars, command, motion_id>>
    PROVE  TInv'
<1>0. /\ at' = "cancelMotion" /\ step' = "cancel.wait" /\ rethrow' = e /\ UNCHANGED <<outcome, final>>
      /\ command_id_' = command_id_ + 1
  BY DEF Cancel, CallCancelMotion, SendRequest, Goto, serverVars
<1>1. \A id \in CommandId : id \in Nat
  BY IdsAreNumbers
<1>2. Unreported'
  BY <1>0, <1>1, InCall DEF TInv, Unreported
<1>. QED BY <1>0, <1>2
     DEF TInv, BlameIsTrue, ReportsAreTrue, NoTorquesAlone, Failed, NeverCompleted

\* The loop goes on to the next call.
LEMMA GoesOnKeepsTruth ==
    ASSUME OInv, TInv, at # "out", at' \in At \ {"out", "cancelMotion"},
           step' = "returned" => thrown' \notin Blame,
           step' = "update.send" /\ motion_command' = None => ~control_command',
           UNCHANGED <<serverVars, command, command_id_, motion_id, outcome>>
    PROVE  TInv'
BY DEF TInv, BlameIsTrue, ReportsAreTrue, Unreported, NoTorquesAlone, Failed, NeverCompleted, serverVars

LEMMA LoopKeepsTruth ==
    ASSUME OInv, TInv, LoopNext
    PROVE  TInv'
<1>0. /\ None \notin Blame /\ "returned" \notin Blame /\ "UserException" \notin Blame
      /\ None # "UserException"
      /\ thrown # "UserException"
  <2>1. thrown \in Exception \cup {None}
    BY InCall DEF ImplTypeOK
  <2>. QED BY <2>1 DEF Blame, None, Exception
<1>1. CASE Started
  <2>0. at = "startMotion" /\ step = "returned"
    BY <1>1 DEF Started, Done
  <2>1. CASE thrown = None
    <3>1. at' = "update" /\ step' = "update.send" /\ ~control_command' /\ UNCHANGED outcome
      BY <1>1, <2>1 DEF Started, CallUpdate
    <3>. QED BY <1>1, <2>0, <3>1, GoesOnKeepsTruth DEF Started, At, netVars
  <2>2. CASE thrown # None
    <3>1. Leave(thrown) /\ UNCHANGED step
      BY <1>1, <2>2 DEF Started
    <3>. QED BY <1>0, <1>1, <2>0, <3>1, LeaveKeepsTruth DEF Started, netVars, TInv, BlameIsTrue
  <2>. QED BY <2>1, <2>2
<1>2. CASE Updated
  <2>0. at = "update" /\ step = "returned"
    BY <1>2 DEF Updated, Done
  <2>1. CASE thrown = None
    <3>1. /\ at' = "throwOnMotionError" /\ step' \in {"error.wait", "returned"} /\ thrown' = None
          /\ UNCHANGED <<outcome, command_id_>>
      BY <1>2, <2>1 DEF Updated, CallThrowOnMotionError, Goto, Return
    <3>. QED BY <1>0, <1>2, <2>0, <3>1, GoesOnKeepsTruth DEF Updated, At
  <2>2. CASE thrown # None
    BY <1>0, <1>2, <2>0, <2>2, CancelKeepsTruth DEF Updated, TInv, BlameIsTrue
  <2>. QED BY <2>1, <2>2
<1>3. CASE Checked
  <2>0. at = "throwOnMotionError" /\ step = "returned"
    BY <1>3 DEF Checked, Done
  <2>1. CASE thrown = None
    <3>1. at' = "callbacks" /\ step' = "returned" /\ thrown' = None /\ UNCHANGED <<outcome, command_id_>>
      BY <1>3, <2>0, <2>1 DEF Checked
    <3>. QED BY <1>0, <1>3, <2>0, <3>1, GoesOnKeepsTruth DEF Checked, At
  <2>2. CASE thrown # None
    BY <1>0, <1>3, <2>0, <2>2, CancelKeepsTruth DEF Checked, TInv, BlameIsTrue
  <2>. QED BY <2>1, <2>2
<1>4. CASE CallbacksContinue
  <2>1. at = "callbacks" /\ at' = "update" /\ step' = "update.send" /\ motion_command' = "running"
    BY <1>4 DEF CallbacksContinue, CallUpdate
  <2>. QED BY <1>4, <2>1, GoesOnKeepsTruth DEF CallbacksContinue, At, netVars, None
<1>5. CASE CallbacksFinish
  <2>1. Running(cached)
    BY <1>5, InCall DEF CallbacksFinish, Flow, CallbacksRun
  <2>2. at = "callbacks" /\ at' = "finishMotion" /\ step' = "update.send" /\ motion_command' = "finished"
    BY <1>5, <2>1 DEF CallbacksFinish, CallFinishMotion, CallUpdate
  <2>. QED BY <1>5, <2>2, GoesOnKeepsTruth DEF CallbacksFinish, At, netVars, None
<1>6. CASE CallbacksThrow
  <2>1. at = "callbacks" /\ Cancel("UserException")
    BY <1>6 DEF CallbacksThrow
  <2>2. NeverCompleted(motion_id)
    BY <2>1 DEF OInv, Settled, Ends, CompletedOnRequest, NeverCompleted
  <2>. QED BY <1>0, <1>6, <2>1, <2>2, CancelKeepsTruth DEF CallbacksThrow
<1>7. CASE Finished
  <2>0. at = "finishMotion" /\ step = "returned"
    BY <1>7 DEF Finished, Done
  <2>1. CASE thrown = None
    BY <1>0, <1>7, <2>0, <2>1, LeaveKeepsTruth DEF Finished
  <2>2. CASE thrown # None
    BY <1>0, <1>7, <2>0, <2>2, CancelKeepsTruth DEF Finished, TInv, BlameIsTrue
  <2>. QED BY <2>1, <2>2
<1>8. CASE Cancelled
  <2>1. at = "cancelMotion" /\ step = "returned" /\ Leave(rethrow)
    BY <1>8 DEF Cancelled, Done
  <2>. QED BY <1>8, <2>1, LeaveKeepsTruth DEF Cancelled, netVars, implVars, TInv, BlameIsTrue
<1>. QED BY <1>1, <1>2, <1>3, <1>4, <1>5, <1>6, <1>7, <1>8 DEF LoopNext

LEMMA ConstructKeepsTruth ==
    ASSUME OInv, TInv, NEW modes \in MoveModes, Construct(modes)
    PROVE  TInv'
<1>0. at = "out" /\ UNCHANGED <<final, command, outcome>>
  BY DEF Construct, Done, serverVars
<1>1. \A id \in CommandId : id \in Nat
  BY IdsAreNumbers
<1>2. CASE Running(cached)
  <2>1. at' = "out" /\ step' = "returned" /\ UNCHANGED command_id_
    BY <1>2 DEF Construct, CallStartMotion, Throw
  <2>. QED BY <1>0, <2>1
       DEF TInv, BlameIsTrue, ReportsAreTrue, Unreported, NoTorquesAlone, Failed, NeverCompleted
<1>3. CASE ~Running(cached)
  <2>1. /\ at' = "startMotion" /\ step' = "start.wait" /\ motion_id' = command_id_
        /\ command_id_' = command_id_ + 1
    BY <1>3 DEF Construct, CallStartMotion, Goto, SendRequest
  <2>2. command_id_ \in CommandId
    BY InCall, BoundsAssumption DEF Construct, IdsFor, ImplTypeOK, CommandId
  <2>3. Unreported'
    BY <1>0, <1>1, <2>1, <2>2, InCall DEF TInv, Unreported
  <2>. QED BY <1>0, <2>1, <2>3
       DEF TInv, BlameIsTrue, ReportsAreTrue, NoTorquesAlone, Failed, NeverCompleted
<1>. QED BY <1>2, <1>3

LEMMA StopKeepsTruth ==
    ASSUME OInv, TInv, NEW c, Stop(c)
    PROVE  TInv'
<1>0. /\ UNCHANGED <<at, rethrow, outcome, step, thrown, motion_id, final, command, motion_command,
                     control_command>>
      /\ command_id_' = command_id_ + 1
  BY DEF Stop, OtherRequest, SendRequest, loopVars, serverVars
<1>1. \A id \in CommandId : id \in Nat
  BY IdsAreNumbers
<1>2. Unreported'
  BY <1>0, <1>1, InCall DEF TInv, Unreported
<1>. QED BY <1>0, <1>2
     DEF TInv, BlameIsTrue, ReportsAreTrue, NoTorquesAlone, Failed, NeverCompleted

LEMMA NextKeepsTruth == OInv /\ TInv /\ [Next]_vars => TInv'
<1>. SUFFICES ASSUME OInv, TInv, [Next]_vars PROVE TInv'
  OBVIOUS
<1>1. CASE OtherReceive /\ UNCHANGED loopVars
  <2>1. UNCHANGED <<at, rethrow, outcome, step, thrown, motion_id, final, command, motion_command,
                    control_command, command_id_>>
    BY <1>1 DEF OtherReceive, loopVars, serverVars
  <2>. QED BY <2>1
       DEF TInv, BlameIsTrue, ReportsAreTrue, Unreported, NoTorquesAlone, Failed, NeverCompleted
<1>2. CASE UNCHANGED vars
  BY <1>2 DEF vars, serverVars, netVars, implVars, loopVars, TInv, BlameIsTrue, ReportsAreTrue,
              Unreported, NoTorquesAlone, Failed, NeverCompleted
<1>. QED BY <1>1, <1>2, ServerKeepsTruth, ImplKeepsTruth, ConstructKeepsTruth, LoopKeepsTruth,
            StopKeepsTruth DEF Next

(* Whatever fails and whoever reads the responses, control() blames a      *)
(* motion only if the robot had rejected it or ended it without success,   *)
(* and throws a callback's exception only if the motion was not and will   *)
(* not be completed (robot_impl.cpp:63-96, 208-316,                        *)
(* control_loop.cpp:95-126).                                               *)
THEOREM ThrowsOnlyOnFailure == Spec => []ThrowsOnFailure
<1>1. Init => TInv
  BY DEF Init, ServerInit, ImplInit, TInv, BlameIsTrue, ReportsAreTrue, Unreported, NoTorquesAlone,
         Blame, None
<1>2. TInv => ThrowsOnFailure
  BY DEF TInv, ReportsAreTrue, ThrowsOnFailure, Blame, Failed, NeverCompleted
<1>. QED BY <1>1, <1>2, NextKeepsTruth, OutcomeInvariant, PTL DEF Spec

---------------------------------------------------------------------------
(* The final response is not lost.                                         *)

\* The thread that starts a motion is alone on the connection, and takes the
\* first response as soon as it is read.
StartsAlone ==
    /\ at = "startMotion" => other = NoMotion
    /\ at = "startMotion" /\ step = "start.wait" => received_responses_[motion_id] = None
    /\ other # NoMotion => other # motion_id /\ other < command_id_

LInv == StartsAlone /\ FinalNotLost

\* The final response of the current Move is in the map or on its way.
FinalThere ==
    \/ received_responses_[motion_id] = final[motion_id]
    \/ \E i \in DOMAIN toClient : toClient[i] = [id |-> motion_id, status |-> final[motion_id]]

\* A response that is read comes into the map, unless it is there already.
LEMMA PassKeepsFinal ==
    ASSUME TypeOK, motion_id \in CommandId, Passed(motion_id), UNCHANGED <<motion_id, final>>,
           received_responses_[motion_id] \in {None, final[motion_id]},
           final[motion_id] # None, FinalThere
    PROVE  FinalThere'
<1>. DEFINE entry == [id |-> motion_id, status |-> final[motion_id]]
<1>0. toClient \in Seq(Response) /\ motion_id' = motion_id /\ final' = final
  BY DEF TypeOK, ServerTypeOK
<1>1. CASE toClient' = toClient /\ received_responses_'[motion_id] = received_responses_[motion_id]
  BY <1>0, <1>1 DEF FinalThere
<1>2. CASE /\ toClient # <<>> /\ toClient' = Tail(toClient)
           /\ received_responses_'[motion_id] =
                 IF received_responses_[motion_id] = None /\ Head(toClient).id = motion_id
                 THEN Head(toClient).status ELSE received_responses_[motion_id]
  <2>1. CASE received_responses_[motion_id] = final[motion_id]
    BY <1>0, <1>2, <2>1 DEF FinalThere
  <2>2. CASE received_responses_[motion_id] = None
    <3>1. PICK i \in DOMAIN toClient : toClient[i] = entry
      BY <2>2 DEF FinalThere
    <3>2. CASE i = 1
      <4>1. Head(toClient) = entry
        BY <1>0, <1>2, <3>1, <3>2
      <4>. QED BY <1>0, <1>2, <2>2, <4>1 DEF FinalThere
    <3>3. CASE i # 1
      <4>1. i - 1 \in DOMAIN toClient' /\ toClient'[i - 1] = entry
        <5>. HIDE DEF entry
        <5>. QED BY <1>0, <1>2, <3>1, <3>3
      <4>. QED BY <1>0, <4>1 DEF FinalThere
    <3>. QED BY <3>2, <3>3
  <2>. QED BY <2>1, <2>2
<1>. QED BY <1>1, <1>2 DEF Passed

\* While control() awaits it, the map holds no other response of the Move.
LEMMA VerdictInMap ==
    ASSUME Replies, StartIsOver, StartsAlone, AwaitsFinal, motion_id # NoMotion
    PROVE  received_responses_[motion_id] \in {None, final[motion_id]}
BY DEF Replies, RepliesBelong, IsReply, Unstarted, StartIsOver, NoStart, StartsAlone, AwaitsFinal

\* A response that a pass leaves alone is not lost.
LEMMA PassKeepsLInv ==
    ASSUME OInv, LInv, AwaitsFinal, Passed(motion_id), UNCHANGED <<motion_id, final>>
    PROVE  FinalNotLost'
<1>1. TypeOK /\ Replies /\ StartIsOver /\ motion_id \in CommandId /\ motion_id # NoMotion
  BY NoneFacts DEF OInv, IInv, Settled, HasMove, TypeOK, ImplTypeOK, AwaitsFinal
<1>2. final[motion_id] # None => FinalThere
  BY DEF LInv, FinalNotLost, FinalThere
<1>3. final[motion_id] # None => FinalThere'
  BY <1>1, <1>2, VerdictInMap, PassKeepsFinal DEF LInv
<1>. QED BY <1>3 DEF FinalNotLost, FinalThere

\* StartsAlone rests on these variables.
LEMMA AloneStays ==
    ASSUME StartsAlone, UNCHANGED <<at, other, motion_id, command_id_>>,
           at = "startMotion" /\ step' = "start.wait" => received_responses_'[motion_id] = None
    PROVE  StartsAlone'
BY DEF StartsAlone

LEMMA ServerKeepsFinal ==
    ASSUME OInv, LInv, ServerNext, UNCHANGED <<implVars, loopVars>>
    PROVE  LInv'
<1>0. /\ TypeOK /\ MoveInExecution /\ VerdictsStay /\ toClient \in Seq(Response)
      /\ UNCHANGED <<at, other, motion_id, command_id_, step, thrown, received_responses_>>
      /\ at # "out" => motion_id \in CommandId
  BY ServerKeeps DEF OInv, IInv, Settled, HasMove, TypeOK, ServerTypeOK, ImplTypeOK, implVars,
                     loopVars
<1>1. StartsAlone'
  BY <1>0, AloneStays DEF LInv, StartsAlone
<1>2. PICK r \in Seq(Response) :
         /\ toClient' = toClient \o r
         /\ \A id \in CommandId : final'[id] # final[id] =>
              \E k \in DOMAIN r : r[k] = [id |-> id, status |-> final'[id]]
  BY <1>0, VerdictSent DEF TypeOK
<1>3. ASSUME AwaitsFinal, final'[motion_id] # None
      PROVE  FinalThere'
  <2>. DEFINE entry == [id |-> motion_id, status |-> final'[motion_id]]
  <2>0. motion_id \in CommandId
    BY <1>0, <1>3 DEF AwaitsFinal
  <2>1. ASSUME NEW i \in DOMAIN toClient', toClient'[i] = entry
        PROVE  FinalThere'
    BY <1>0, <2>1 DEF FinalThere
  <2>2. CASE final'[motion_id] # final[motion_id]
    <3>1. PICK k \in DOMAIN r : r[k] = entry
      BY <1>2, <2>0, <2>2
    <3>2. Len(toClient) + k \in DOMAIN toClient' /\ toClient'[Len(toClient) + k] = entry
      <4>. HIDE DEF entry
      <4>. QED BY <1>0, <1>2, <3>1
    <3>. QED BY <2>1, <3>2
  <2>3. CASE final'[motion_id] = final[motion_id]
    <3>1. \/ received_responses_[motion_id] = final[motion_id]
          \/ \E i \in DOMAIN toClient : toClient[i] = entry
      BY <1>3, <2>3 DEF LInv, FinalNotLost
    <3>2. ASSUME NEW i \in DOMAIN toClient, toClient[i] = entry
          PROVE  i \in DOMAIN toClient' /\ toClient'[i] = entry
      <4>. HIDE DEF entry
      <4>. QED BY <1>0, <1>2, <3>2
    <3>. QED BY <1>0, <2>1, <2>3, <3>1, <3>2 DEF FinalThere
  <2>. QED BY <2>2, <2>3
<1>4. FinalNotLost'
  BY <1>0, <1>3 DEF FinalNotLost, FinalThere, AwaitsFinal
<1>. QED BY <1>1, <1>4 DEF LInv

\* startMotion takes the first response, which was the next one to read.
LEMMA StartKeepsFinal ==
    ASSUME OInv, LInv, at = "startMotion", step = "start.wait", StartWait, UNCHANGED loopVars
    PROVE  LInv'
<1>0. /\ TypeOK /\ Received /\ Replies /\ motion_id \in CommandId /\ motion_id # NoMotion
      /\ UNCHANGED <<at, other, motion_id, command_id_, final>>
      /\ received_responses_[motion_id] = None /\ final[motion_id] # "kSuccess"
      /\ toClient \in Seq(Response) /\ StartsAlone /\ AwaitsFinal
      /\ final \in [CommandId -> MoveEnd \cup {None}]
  BY NoneFacts
  DEF OInv, IInv, Settled, HasMove, TypeOK, ServerTypeOK, ImplTypeOK, Received, LInv, StartsAlone,
      StartWait, loopVars, serverVars, Ends, CompletedOnRequest, AwaitsFinal
<1>1. CASE Wait(motion_id) /\ UNCHANGED <<step, thrown>>
  <2>1. received_responses_'[motion_id] = None
    BY <1>1 DEF Wait
  <2>. QED BY <1>0, <1>1, <2>1, WaitPassed, AloneStays, PassKeepsLInv DEF LInv
<1>2. ASSUME step' = "returned", thrown' # None
      PROVE  LInv'
  <2>1. StartsAlone'
    BY <1>0, <1>2, AloneStays
  <2>2. FinalNotLost'
    BY <1>2 DEF FinalNotLost, AwaitsFinal
  <2>. QED BY <2>1, <2>2 DEF LInv
<1>3. ASSUME NEW s \in Status, Take(motion_id, s), MoveException(s) = None, Goto("start.poll")
      PROVE  LInv'
  <2>1. PICK map \in Maps : /\ Read(map) /\ map[motion_id] = s
                            /\ received_responses_' = [map EXCEPT ![motion_id] = None]
    BY <1>3 DEF Take
  <2>2. IsReply(s) /\ s # None
    BY <1>0, <1>3, <2>1, FoundIsReply, StatusFacts DEF TypeOK
  <2>3. s = "kMotionStarted"
    BY <1>0, <1>3, <2>2 DEF IsReply, MoveException, None
  <2>4. /\ toClient # <<>> /\ map = Emplace(received_responses_, Head(toClient))
        /\ toClient' = Tail(toClient)
    BY <1>0, <2>1, <2>2 DEF Read, AfterReading
  <2>5. Head(toClient).status = s
    BY <1>0, <2>1, <2>2, <2>4, ResponseAtHead DEF Emplace, Received
  <2>6. ASSUME final[motion_id] # None
        PROVE  FinalThere'
    <3>. DEFINE entry == [id |-> motion_id, status |-> final[motion_id]]
    <3>1. PICK i \in DOMAIN toClient : toClient[i] = entry
      BY <1>0, <2>6 DEF LInv, FinalNotLost
    <3>2. entry.status # "kMotionStarted"
      BY <1>0 DEF MoveEnd, Rejection, None
    <3>3. i - 1 \in DOMAIN toClient' /\ toClient'[i - 1] = entry
      <4>. HIDE DEF entry
      <4>1. i # 1
        BY <1>0, <2>3, <2>4, <2>5, <3>1, <3>2
      <4>. QED BY <1>0, <2>4, <3>1, <4>1
    <3>. QED BY <1>0, <3>3 DEF FinalThere
  <2>7. StartsAlone'
    BY <1>0, <1>3, AloneStays DEF Goto
  <2>8. FinalNotLost'
    BY <1>0, <2>6 DEF FinalNotLost, FinalThere
  <2>. QED BY <2>7, <2>8 DEF LInv
<1>. QED BY <1>1, <1>2, <1>3, MoveExceptionType, NoneFacts DEF StartWait, Throw, Exception, None

LEMMA ImplKeepsFinal ==
    ASSUME OInv, LInv, ImplNext, UNCHANGED loopVars
    PROVE  LInv'
<1>0. /\ TypeOK /\ Received /\ Replies /\ Located /\ step \in Step /\ step # "returned"
      /\ UNCHANGED <<at, other, motion_id, command_id_, final>>
      /\ at # "out" /\ motion_id # NoMotion /\ motion_id \in CommandId /\ StartsAlone
  <2>1. TypeOK /\ Received /\ Replies /\ Located /\ step \in Step /\ step # "returned" /\ StartsAlone
    BY StepOf DEF OInv, IInv, Flow, Settled, TypeOK, ServerTypeOK, ImplTypeOK, Received, LInv
  <2>2. UNCHANGED <<at, motion_id, command_id_, final>>
    BY <2>1, ImplPass DEF TypeOK, loopVars, serverVars
  <2>3. UNCHANGED other
    BY DEF ImplNext, UpdateSend, UpdateClosed, UpdateReceive, StartWait, StartPoll, ErrorWait,
           FinishPoll, FinishWait, CancelWait, CancelReceive, CancelIgnore
  <2>4. at # "out" /\ motion_id # NoMotion /\ motion_id \in CommandId
    BY <2>1 DEF Located, OInv, Settled, HasMove, TypeOK, ImplTypeOK
  <2>. QED BY <2>1, <2>2, <2>3, <2>4
<1>1. CASE step = "start.wait"
  BY <1>0, <1>1, StepOf, StartKeepsFinal DEF Located, TypeOK, At
<1>2. CASE step # "start.wait"
  <2>1. step' # "start.wait"
    BY <1>2, <1>0 DEF ImplNext, UpdateSend, UpdateClosed, UpdateReceive, StartWait, StartPoll,
           ErrorWait, FinishPoll, FinishWait, CancelWait, CancelReceive, CancelIgnore, Goto, Return,
           Throw, CallUpdate, TypeOK, ImplTypeOK
  <2>2. StartsAlone'
    BY <1>0, <2>1, AloneStays
  <2>3. FinalNotLost'
    <3>1. CASE at = "cancelMotion"
      BY <1>0, <3>1 DEF FinalNotLost, AwaitsFinal
    <3>2. ASSUME step' = "returned", thrown' # None \/ at = "finishMotion"
          PROVE  FinalNotLost'
      BY <1>0, <3>2 DEF FinalNotLost, AwaitsFinal
    <3>. SUFFICES ASSUME at # "cancelMotion",
                         ~(step' = "returned" /\ (thrown' # None \/ at = "finishMotion"))
                  PROVE  Passed(motion_id)
      <4>1. at # "cancelMotion" => AwaitsFinal
        BY <1>0 DEF AwaitsFinal
      <4>. QED BY <1>0, <3>1, <3>2, <4>1, PassKeepsLInv
    <3>3. CASE step = "start.poll"
      <4>1. StartPoll /\ at = "startMotion" /\ ~Unstarted /\ final[motion_id] # "kSuccess"
        BY <1>0, <3>3, StepOf
        DEF Located, TypeOK, At, Unstarted, OInv, Settled, Ends, CompletedOnRequest
      <4>2. CASE UNCHANGED <<received_responses_, toClient>>
        BY <4>2, NothingPassed
      <4>3. ASSUME NEW map \in Maps, Read(map), received_responses_' = map
            PROVE  Passed(motion_id)
        BY <1>0, <4>3, MapPassed
      <4>4. ASSUME NEW map \in Maps, NEW s \in Status, map[motion_id] = s
            PROVE  MoveException(s) = "CommandException"
        BY <1>0, <4>1, <4>4, FoundIsVerdict DEF TypeOK, StartIsOver, OInv, Settled
      <4>. QED BY <4>1, <4>2, <4>3, <4>4 DEF StartPoll, Interrupted, None
    <3>4. CASE step = "error.wait"
      <4>1. ErrorWait
        BY <3>4, StepOf
      <4>. QED BY <1>0, <4>1, WaitPassed DEF ErrorWait, Throw, None
    <3>5. CASE step = "finish.wait"
      <4>1. FinishWait /\ at = "finishMotion"
        BY <1>0, <3>5, StepOf DEF Located, TypeOK, At
      <4>. QED BY <1>0, <4>1, WaitPassed DEF FinishWait, Throw, Return
    <3>6. CASE step \in {"update.send", "update.receive", "finish.poll"}
      BY <3>6, StepOf, NothingPassed DEF UpdateSend, UpdateClosed, UpdateReceive, FinishPoll, netVars
    <3>. QED BY <1>0, <1>2, <3>3, <3>4, <3>5, <3>6 DEF Step, Located, TypeOK, At
  <2>. QED BY <2>2, <2>3 DEF LInv
<1>. QED BY <1>1, <1>2

LEMMA OtherKeepsFinal ==
    ASSUME OInv, LInv, OtherReceive, UNCHANGED loopVars
    PROVE  LInv'
<1>0. /\ Received /\ other # NoMotion /\ at # "startMotion" /\ other # motion_id
      /\ UNCHANGED <<at, step, thrown, motion_id, command_id_, final>>
      /\ at # "out" => motion_id \in CommandId
  BY DEF OInv, IInv, Settled, HasMove, TypeOK, ServerTypeOK, ImplTypeOK, Received, LInv, StartsAlone,
         OtherReceive, loopVars, serverVars
<1>1. at # "out" => Passed(motion_id)
  BY <1>0, WaitPassed, TakePassed, NothingPassed DEF OtherReceive, Interrupted
<1>2. FinalNotLost'
  <2>1. CASE AwaitsFinal
    <3>1. at # "out"
      BY <2>1 DEF AwaitsFinal
    <3>. QED BY <1>0, <1>1, <2>1, <3>1, PassKeepsLInv
  <2>2. CASE ~AwaitsFinal
    BY <1>0, <2>2 DEF FinalNotLost, AwaitsFinal
  <2>. QED BY <2>1, <2>2
<1>3. other' \in {other, NoMotion}
  BY DEF OtherReceive
<1>4. StartsAlone'
  BY <1>0, <1>3 DEF LInv, StartsAlone
<1>. QED BY <1>2, <1>4 DEF LInv

LEMMA ConstructKeepsFinal ==
    ASSUME OInv, LInv, StopsWhenStarting = FALSE, NEW modes \in MoveModes, Construct(modes)
    PROVE  LInv'
<1>0. /\ other = NoMotion /\ other' = other /\ at = "out"
      /\ UNCHANGED <<final, received_responses_>>
  BY DEF Construct, Done, serverVars
<1>1. CASE Running(cached)
  <2>1. at' = "out"
    BY <1>1 DEF Construct
  <2>. QED BY <1>0, <2>1 DEF LInv, FinalNotLost, StartsAlone, AwaitsFinal
<1>2. CASE ~Running(cached)
  <2>1. motion_id' = command_id_
    BY <1>2 DEF Construct, CallStartMotion
  <2>2. command_id_ \in CommandId
    BY BoundsAssumption
    DEF OInv, IInv, Construct, IdsFor, TypeOK, ImplTypeOK, CommandId
  <2>3. received_responses_[command_id_] = None /\ final[command_id_] = None
    BY <2>2, IdsAreNumbers DEF OInv, Settled, Numbered
  <2>. QED BY <1>0, <2>1, <2>3 DEF LInv, FinalNotLost, StartsAlone
<1>. QED BY <1>1, <1>2

LEMMA StopKeepsFinal ==
    ASSUME OInv, LInv, StopsWhenStarting = FALSE,
           NEW c \in {"kStopMove", "kAutomaticErrorRecovery"}, Stop(c)
    PROVE  LInv'
<1>0. /\ at # "startMotion" /\ other' = command_id_ /\ command_id_' = command_id_ + 1
      /\ UNCHANGED <<at, step, thrown, motion_id, final, received_responses_, toClient>>
  BY DEF Stop, OtherRequest, SendRequest, loopVars, serverVars
<1>1. command_id_ \in Nat /\ command_id_ # motion_id
  <2>1. command_id_ \in Nat /\ motion_id \in Nat
    <3>1. motion_id \in CommandId \cup {NoMotion}
      BY DEF OInv, IInv, TypeOK, ImplTypeOK
    <3>. QED BY <3>1, BoundsAssumption, IdsAreNumbers DEF OInv, IInv, TypeOK, ImplTypeOK, NoMotion
  <2>. QED BY <2>1 DEF OInv, Settled, Numbered
<1>. QED BY <1>0, <1>1 DEF LInv, FinalNotLost, AwaitsFinal, StartsAlone

LEMMA LoopKeepsFinal ==
    ASSUME OInv, LInv, LoopNext
    PROVE  LInv'
<1>. USE DEF Done, Leave, Cancel, CallCancelMotion, Goto, SendRequest, netVars, implVars, serverVars
<1>1. at' # "startMotion" /\ UNCHANGED <<motion_id, final, received_responses_, toClient, other>>
  BY DEF LoopNext, Started, Updated, Checked, CallbacksContinue, CallbacksFinish, CallbacksThrow,
         Finished, Cancelled
<1>2. command_id_' \in {command_id_, command_id_ + 1}
  BY DEF LoopNext, Started, Updated, Checked, CallbacksContinue, CallbacksFinish, CallbacksThrow,
         Finished, Cancelled
<1>3. at = "callbacks" => step = "returned" /\ thrown = None
  BY DEF OInv, IInv, Flow, Located, NothingThrown
<1>4. AwaitsFinal' => AwaitsFinal
  BY <1>3 DEF LoopNext, Started, Updated, Checked, CallbacksContinue, CallbacksFinish,
              CallbacksThrow, Finished, Cancelled, AwaitsFinal
<1>5. FinalNotLost'
  BY <1>1, <1>4 DEF LInv, FinalNotLost
<1>6. other # NoMotion => other < command_id_'
  <2>1. command_id_ \in Nat /\ other \in CommandId \cup {NoMotion}
    BY BoundsAssumption DEF OInv, IInv, TypeOK, ImplTypeOK
  <2>2. other \in Nat
    BY <2>1, IdsAreNumbers DEF NoMotion
  <2>. QED BY <1>2, <2>1, <2>2 DEF LInv, StartsAlone
<1>7. StartsAlone'
  BY <1>1, <1>6 DEF LInv, StartsAlone
<1>. QED BY <1>5, <1>7 DEF LInv

LEMMA NextKeepsFinal ==
    ASSUME StopsWhenStarting = FALSE
    PROVE  OInv /\ LInv /\ [Next]_vars => LInv'
<1>. SUFFICES ASSUME OInv, LInv, [Next]_vars PROVE LInv'
  OBVIOUS
<1>1. CASE UNCHANGED vars
  BY <1>1 DEF vars, serverVars, netVars, implVars, loopVars, LInv, StartsAlone, FinalNotLost,
              AwaitsFinal
<1>. QED BY <1>1, ServerKeepsFinal, ImplKeepsFinal, OtherKeepsFinal, ConstructKeepsFinal,
            LoopKeepsFinal, StopKeepsFinal DEF Next

(* As long as no other thread sends commands during startMotion, the final *)
(* response of a Move is on the connection or in received_responses_ until *)
(* the thread of control() takes it, whichever thread read it and whatever *)
(* faults occur: emplace never drops it for the first response, which has  *)
(* the same id (network.h:133-183, robot_impl.cpp:208-316).                *)
THEOREM FinalIsNotLost ==
    ASSUME StopsWhenStarting = FALSE
    PROVE  Spec => []FinalNotLost
<1>1. Init => LInv
  BY DEF Init, ServerInit, ImplInit, LInv, StartsAlone, FinalNotLost, AwaitsFinal
<1>2. OInv /\ LInv /\ [Next]_vars => LInv'
  BY NextKeepsFinal
<1>3. LInv => FinalNotLost
  BY DEF LInv
<1>. QED BY <1>1, <1>2, <1>3, OutcomeInvariant, PTL DEF Spec

---------------------------------------------------------------------------
(* What the contract rests on, without faults.                             *)

\* The Move that control() runs.
current == IF at = "out" THEN NoMotion ELSE motion_id

\* A call that throws does so because of the verdict, ...
ThrownOnVerdict ==
    /\ step = "update.send" /\ motion_command = None => ~control_command
    /\ at = "startMotion" /\ step = "returned" /\ thrown # None => final[motion_id] # None
    /\ at = "finishMotion" /\ step = "returned" /\ thrown # None =>
          final[motion_id] \notin {None, "kSuccess"}

\* ... or cancelMotion waits for it.
CancelledAfterVerdict ==
    at = "cancelMotion" =>
        /\ rethrow # None
        /\ final[motion_id] # "kSuccess"
        /\ command.id = motion_id /\ command.finished => final[motion_id] # None
        /\ StopsFirst(motion_id)

CInv == link = "up" /\ InProgress(current) /\ ThrownOnVerdict /\ CancelledAfterVerdict

\* What the lemmas about the Move in progress need.
LEMMA MoveFacts ==
    ASSUME OInv, CInv
    PROVE  /\ TypeOK /\ ServerTypeOK /\ ImplTypeOK /\ MoveInExecution
           /\ Numbered /\ DecidedOnce /\ Replies /\ link = "up"
           /\ at # "out" => motion_id # NoMotion /\ motion_id \in CommandId /\ current = motion_id
           /\ at = "out" => current = NoMotion
           /\ at = "cancelMotion" => NoStart /\ StopsFirst(motion_id)
           /\ \E m : m = current /\ InProgress(m)
BY DEF OInv, IInv, TypeOK, ImplTypeOK, Settled, HasMove, StartIsOver, Unstarted, CInv,
       CancelledAfterVerdict, current

\* The conjuncts of CInv in terms of a constant m.
LEMMA MoveOf ==
    ASSUME NEW m, m = current', InProgress(m)', link' = "up", ThrownOnVerdict',
           at' = "cancelMotion" =>
               /\ rethrow' # None /\ final'[motion_id'] # "kSuccess"
               /\ command'.id = motion_id' /\ command'.finished => final'[motion_id'] # None
               /\ StopsFirst(m)'
    PROVE  CInv'
<1>1. InProgress(current)'
  BY DEF InProgress, Live, current
<1>2. CancelledAfterVerdict'
  BY DEF CancelledAfterVerdict, StopsFirst, Heard, current
<1>. QED BY <1>1, <1>2 DEF CInv

LEMMA ServerKeepsContract ==
    ASSUME Faults = {}, OInv, CInv, ServerNext, UNCHANGED <<implVars, loopVars>>
    PROVE  CInv'
<1>0. /\ UNCHANGED <<at, step, thrown, motion_id, motion_command, control_command, rethrow, link>>
      /\ UNCHANGED current
  BY LinkStays DEF implVars, loopVars, current
<1>1. PICK m : m = current /\ InProgress(m)
  BY MoveFacts
<1>2. /\ InProgress(m)'
      /\ m # NoMotion /\ NoStart /\ StopsFirst(m) => StopsFirst(m)'
      /\ m # NoMotion =>
           \/ final'[m] = final[m]
           \/ /\ final[m] = None /\ final'[m] \in MoveEnd
              /\ final'[m] = "kSuccess" => command.id = m /\ command.finished
      /\ command' \in {command, NoCommand}
  BY <1>1, MoveFacts, ServerKeepsMove
<1>3. ThrownOnVerdict'
  BY <1>0, <1>1, <1>2, MoveFacts, NoneFacts, StatusFacts DEF CInv, ThrownOnVerdict, None
<1>4. ASSUME at = "cancelMotion"
      PROVE  /\ rethrow' # None /\ final'[motion_id] # "kSuccess"
             /\ command'.id = motion_id /\ command'.finished => final'[motion_id] # None
             /\ StopsFirst(m)'
  <2>1. m = motion_id /\ m # NoMotion /\ NoStart /\ StopsFirst(m)
    BY <1>1, <1>4, MoveFacts
  <2>2. /\ rethrow # None /\ final[m] # "kSuccess"
        /\ command.id = m /\ command.finished => final[m] # None
    BY <1>4, <2>1 DEF CInv, CancelledAfterVerdict
  <2>3. NoCommand.id # m
    BY <2>1 DEF NoCommand
  <2>. QED BY <1>0, <1>2, <2>1, <2>2, <2>3, NoneFacts, StatusFacts
<1>. QED BY <1>0, <1>1, <1>2, <1>3, <1>4, MoveOf DEF CInv

\* Without faults, startMotion and finishMotion throw only on a verdict.
LEMMA ImplThrows ==
    ASSUME Faults = {}, OInv, CInv, ImplNext, UNCHANGED loopVars
    PROVE  ThrownOnVerdict'
<1>0. /\ TypeOK /\ ServerTypeOK /\ ImplTypeOK /\ Replies /\ Located
      /\ UNCHANGED <<at, motion_id, final>>
      /\ at # "out" /\ motion_id # NoMotion /\ motion_id \in CommandId
  <2>1. TypeOK /\ ServerTypeOK /\ ImplTypeOK /\ Located
    BY DEF OInv, IInv, Flow, TypeOK
  <2>2. UNCHANGED <<at, motion_id, final>> /\ at # "out"
    BY <2>1, ImplPass, StepOf DEF loopVars, serverVars, Located
  <2>. QED BY <2>1, <2>2, MoveFacts
<1>1. step' = "update.send" /\ motion_command' = None => ~control_command'
  BY <1>0 DEF ImplNext, UpdateSend, UpdateClosed, UpdateReceive, StartWait, StartPoll, ErrorWait,
         FinishPoll, FinishWait, CancelWait, CancelReceive, CancelIgnore, Goto, Return, Throw,
         CallUpdate, CInv, ThrownOnVerdict, ImplTypeOK, None
<1>2. ASSUME at \in {"startMotion", "finishMotion"}, step' = "returned", thrown' # None
      PROVE  final[motion_id] # None /\ (step = "finish.wait" => final[motion_id] # "kSuccess")
  <2>1. /\ step \notin {"error.wait", "cancel.wait", "cancel.receive", "cancel.ignore"}
        /\ step = "start.wait" => at = "startMotion" /\ ~Running(cached)
        /\ step # "start.wait" /\ step # "returned" => ~Unstarted
    BY <1>0, <1>2 DEF Located, Unstarted, OInv, Settled, Ends, CompletedOnRequest
  <2>2. step # "start.wait" => NoStart
    BY <2>1, StepOf DEF OInv, Settled, StartIsOver
  <2>3. step = "update.send" => IF motion_command = None THEN ~control_command
                                                         ELSE SendException = None
    BY <1>2, CommandAccepted DEF OInv, CInv, ThrownOnVerdict
  <2>. QED BY <1>0, <1>2, <2>1, <2>2, <2>3, ThrowsOnVerdict DEF CInv
<1>3. at = "finishMotion" /\ step' = "returned" /\ thrown' # None => step = "finish.wait"
  <2>1. step = "update.send" => UpdateSend
    BY StepOf DEF UpdateClosed, CInv
  <2>2. at = "finishMotion" /\ step = "update.send" =>
            IF motion_command = None THEN ~control_command ELSE SendException = None
    BY CommandAccepted DEF OInv, CInv, ThrownOnVerdict
  <2>3. at = "finishMotion" /\ step = "update.send" => step' # "returned"
    BY <2>1, <2>2 DEF UpdateSend, Goto
  <2>4. step = "update.receive" => UpdateReceive /\ ~Silence
    BY StepOf, NoFault DEF CInv
  <2>5. at = "finishMotion" /\ step = "update.receive" => thrown' = None \/ step' # "returned"
    BY <1>0, <2>4 DEF UpdateReceive, Located, Goto
  <2>6. step = "finish.poll" => step' # "returned"
    BY StepOf DEF FinishPoll, CallUpdate
  <2>. QED BY <1>0, <2>3, <2>5, <2>6, StepOf DEF Located
<1>. QED BY <1>0, <1>1, <1>2, <1>3 DEF ThrownOnVerdict

LEMMA ImplKeepsContract ==
    ASSUME Faults = {}, OInv, CInv, ImplNext, UNCHANGED loopVars
    PROVE  CInv'
<1>0. UNCHANGED <<at, rethrow, motion_id, final, current>> /\ Located
  BY MoveFacts, ImplPass DEF loopVars, serverVars, current, OInv, IInv, Flow
<1>1. PICK m : m = current /\ InProgress(m)
  BY MoveFacts
<1>2. InProgress(m)' /\ (StopsFirst(m) => StopsFirst(m)') /\ UNCHANGED link
  BY <1>1, MoveFacts, ImplKeepsMove
<1>3. at = "cancelMotion" => UNCHANGED command
  BY <1>0, StepOf DEF Located, CancelWait, CancelReceive, CancelIgnore
<1>4. at = "cancelMotion" => StopsFirst(m)
  BY <1>1, MoveFacts
<1>. QED BY <1>0, <1>1, <1>2, <1>3, <1>4, ImplThrows, MoveOf DEF CInv, CancelledAfterVerdict

LEMMA OtherKeepsContract ==
    ASSUME OInv, CInv, OtherReceive, UNCHANGED loopVars
    PROVE  CInv'
<1>0. UNCHANGED <<at, rethrow, step, thrown, motion_id, final, command, motion_command,
                  control_command, current>>
  BY DEF OtherReceive, loopVars, serverVars, current
<1>1. PICK m : m = current /\ InProgress(m)
  BY MoveFacts
<1>2. InProgress(m)' /\ (StopsFirst(m) => StopsFirst(m)') /\ UNCHANGED link
  BY <1>1, MoveFacts, OtherReceiveKeepsMove
<1>3. at = "cancelMotion" => StopsFirst(m)
  BY <1>1, MoveFacts
<1>4. ThrownOnVerdict'
  BY <1>0 DEF CInv, ThrownOnVerdict
<1>. QED BY <1>0, <1>1, <1>2, <1>3, <1>4, MoveOf DEF CInv, CancelledAfterVerdict

LEMMA StopKeepsContract ==
    ASSUME OInv, CInv, NEW c \in {"kStopMove", "kAutomaticErrorRecovery"}, Stop(c)
    PROVE  CInv'
<1>0. /\ SendRequest(c, IdleModes) /\ UNCHANGED serverVars
      /\ UNCHANGED <<at, rethrow, step, thrown, motion_id, stop_id, final, toClient, command, link,
                     received_responses_, motion_command, control_command, current>>
  BY DEF Stop, OtherRequest, loopVars, serverVars, current
<1>1. command_id_ \in CommandId /\ c \in Command \ {"kMove"}
  BY MoveFacts, BoundsAssumption DEF Stop, IdsFor, Reserved, ImplTypeOK, CommandId, Command
<1>2. PICK m : m = current /\ InProgress(m)
  BY MoveFacts
<1>3. InProgress(m)' /\ (StopsFirst(m) => StopsFirst(m)')
  BY <1>0, <1>1, <1>2, MoveFacts, RequestKeepsMove
<1>4. at = "cancelMotion" => StopsFirst(m)
  BY <1>2, MoveFacts
<1>5. ThrownOnVerdict'
  BY <1>0 DEF CInv, ThrownOnVerdict
<1>. QED BY <1>0, <1>2, <1>3, <1>4, <1>5, MoveOf DEF CInv, CancelledAfterVerdict

LEMMA ConstructKeepsContract ==
    ASSUME OInv, CInv, NEW modes \in MoveModes, Construct(modes)
    PROVE  CInv'
<1>0. /\ at = "out" /\ step = "returned" /\ current = NoMotion /\ InProgress(NoMotion)
      /\ UNCHANGED serverVars
      /\ UNCHANGED <<toClient, link, received_responses_, motion_command, control_command>>
  BY DEF Construct, Done, current, CInv
<1>1. CASE Running(cached)
  <2>1. at' = "out" /\ step' = "returned" /\ UNCHANGED <<toRobot, command_id_, motion_id>>
    BY <1>1 DEF Construct, CallStartMotion, Throw
  <2>2. InProgress(NoMotion)'
    BY <1>0, <2>1, MoveFacts, LocalKeepsMove
  <2>. QED BY <1>0, <2>1, <2>2, MoveOf DEF CInv, ThrownOnVerdict, current
<1>2. CASE ~Running(cached)
  <2>1. at' = "startMotion" /\ step' = "start.wait" /\ motion_id' = command_id_
    BY <1>2 DEF Construct, CallStartMotion, Goto
  <2>2. command_id_ \in CommandId
    BY MoveFacts, BoundsAssumption DEF Construct, IdsFor, ImplTypeOK, CommandId
  <2>3. PICK n \in CommandId : n = command_id_
    BY <2>2
  <2>4. InProgress(n)'
    BY <1>0, <1>2, <2>3, MoveFacts, StartKeepsMove DEF Construct
  <2>. QED BY <1>0, <2>1, <2>3, <2>4, MoveOf DEF CInv, ThrownOnVerdict, current
<1>. QED BY <1>1, <1>2

\* control() is left with a result that tells the verdict ...
Told(result) ==
    /\ final[motion_id] # None /\ result # None
    /\ result = "returned" <=> final[motion_id] = "kSuccess"

LEMMA LeaveKeepsContract ==
    ASSUME OInv, CInv, at # "out", NEW result, Leave(result), Told(result), step' = "returned",
           UNCHANGED serverVars,
           UNCHANGED <<toRobot, toClient, link, received_responses_, command_id_, motion_id,
                       motion_command, control_command>>
    PROVE  CInv'
<1>1. final[motion_id] # None /\ at' = "out" /\ current' = NoMotion
  BY DEF Told, Leave, current
<1>2. PICK m : m = current /\ InProgress(m)
  BY MoveFacts
<1>3. InProgress(NoMotion)
  BY <1>1, <1>2, MoveFacts, MoveIsOver
<1>4. InProgress(NoMotion)'
  BY <1>3, MoveFacts, LocalKeepsMove
<1>. QED BY <1>1, <1>4, MoveOf DEF CInv, ThrownOnVerdict

\* ... or the motion is cancelled first.
LEMMA CancelKeepsContract ==
    ASSUME OInv, CInv, NEW e, e # None, Cancel(e),
           \/ at \in {"update", "throwOnMotionError", "callbacks"}
           \/ at = "finishMotion" /\ step = "returned" /\ thrown # None,
           UNCHANGED serverVars,
           UNCHANGED <<motion_id, toClient, link, command, received_responses_, motion_command,
                       control_command>>
    PROVE  CInv'
<1>0. /\ at' = "cancelMotion" /\ rethrow' = e /\ step' = "cancel.wait" /\ stop_id' = command_id_
      /\ SendRequest("kStopMove", IdleModes) /\ UNCHANGED <<current, final>>
      /\ "kStopMove" \in Command \ {"kMove"} /\ command_id_ \in CommandId
  BY IdLeft DEF Cancel, CallCancelMotion, Goto, current, serverVars, Command, OInv, IInv
<1>1. PICK m : m = current /\ InProgress(m)
  BY MoveFacts
<1>2. InProgress(m)' /\ StopsFirst(m)'
  BY <1>0, <1>1, MoveFacts, RequestKeepsMove
<1>3. /\ final[motion_id] # "kSuccess"
      /\ command.id = motion_id /\ command.finished => final[motion_id] # None
  BY DEF OInv, Settled, Ends, CompletedOnRequest, CInv, ThrownOnVerdict
<1>. QED BY <1>0, <1>1, <1>2, <1>3, MoveOf DEF CInv, ThrownOnVerdict

\* The ways out of control().
LoopLeaves == at # "out" /\ \E result \in Outcome : Leave(result) /\ Told(result)

LEMMA LoopKeepsContract ==
    ASSUME OInv, CInv, LoopNext
    PROVE  /\ CInv'
           /\ UNCHANGED <<motion_id, final>>
           /\ LoopLeaves \/ (at # "out" /\ at' # "out" /\ UNCHANGED outcome)
<1>0. /\ UNCHANGED serverVars
      /\ UNCHANGED <<motion_id, final, toClient, link, command, received_responses_>>
      /\ Located /\ NothingThrown /\ CallbacksRun /\ Reports
      /\ thrown \in Exception \cup {None} /\ rethrow \in Outcome \cup {None}
  <2>1. /\ UNCHANGED serverVars
        /\ UNCHANGED <<motion_id, final, toClient, link, command, received_responses_>>
    BY DEF LoopNext, Started, Updated, Checked, CallbacksContinue, CallbacksFinish, CallbacksThrow,
           Finished, Cancelled, netVars, implVars, serverVars
  <2>. QED BY <2>1 DEF OInv, IInv, Flow, Settled, Ends, TypeOK, ImplTypeOK
<1>1. thrown # None => thrown \in Outcome /\ thrown # "returned"
  BY <1>0 DEF Exception, Outcome
<1>2. ASSUME at # "out", NEW result \in Outcome, Leave(result), Told(result), step' = "returned",
             UNCHANGED <<toRobot, command_id_, motion_command, control_command>>
      PROVE  CInv' /\ LoopLeaves
  BY <1>0, <1>2, LeaveKeepsContract DEF LoopLeaves
<1>3. ASSUME at \in {"startMotion", "update", "throwOnMotionError", "callbacks"},
             at' \in {"update", "throwOnMotionError", "callbacks", "finishMotion"},
             step' # "returned" \/ at' # "finishMotion",
             step' = "update.send" /\ motion_command' = None => ~control_command',
             UNCHANGED <<toRobot, command_id_>>
      PROVE  CInv' /\ at # "out" /\ at' # "out"
  <2>1. PICK m : m = current /\ InProgress(m)
    BY MoveFacts
  <2>2. m = current' /\ InProgress(m)'
    BY <1>0, <1>3, <2>1, MoveFacts, LocalKeepsMove DEF current
  <2>. QED BY <1>0, <1>3, <2>2, MoveOf DEF CInv, ThrownOnVerdict
<1>4. ASSUME NEW e, e # None, Cancel(e),
             \/ at \in {"update", "throwOnMotionError", "callbacks"}
             \/ at = "finishMotion" /\ step = "returned" /\ thrown # None,
             UNCHANGED <<motion_command, control_command>>
      PROVE  CInv' /\ at # "out" /\ at' # "out" /\ UNCHANGED outcome
  BY <1>0, <1>4, CancelKeepsContract DEF Cancel
<1>5. CASE Started
  <2>1. CASE thrown = None
    BY <1>0, <1>3, <1>5, <2>1 DEF Started, Done, CallUpdate, netVars
  <2>2. CASE thrown # None
    <3>1. /\ at = "startMotion" /\ step = "returned" /\ Leave(thrown)
          /\ UNCHANGED <<step, motion_command, control_command, toRobot, command_id_>>
      BY <1>5, <2>2 DEF Started, Done, netVars
    <3>2. Told(thrown)
      BY <1>1, <2>2, <3>1
      DEF Told, CInv, ThrownOnVerdict, OInv, Settled, Ends, CompletedOnRequest
    <3>. QED BY <1>0, <1>1, <1>2, <2>2, <3>1, <3>2
  <2>. QED BY <2>1, <2>2
<1>6. CASE Updated
  <2>1. CASE thrown = None
    BY <1>0, <1>3, <1>6, <2>1 DEF Updated, Done, CallThrowOnMotionError, Goto, Return
  <2>2. CASE thrown # None
    BY <1>0, <1>4, <1>6, <2>2 DEF Updated, Done
  <2>. QED BY <2>1, <2>2
<1>7. CASE Checked
  <2>1. CASE thrown = None
    BY <1>0, <1>3, <1>7, <2>1 DEF Checked, Done
  <2>2. CASE thrown # None
    BY <1>0, <1>4, <1>7, <2>2 DEF Checked, Done
  <2>. QED BY <2>1, <2>2
<1>8. CASE CallbacksContinue
  BY <1>0, <1>3, <1>8 DEF CallbacksContinue, CallUpdate, netVars, None
<1>9. CASE CallbacksFinish
  <2>1. Running(cached)
    BY <1>0, <1>9 DEF CallbacksFinish, CallbacksRun
  <2>2. /\ at = "callbacks" /\ at' = "finishMotion" /\ step' = "update.send"
        /\ motion_command' = "finished" /\ UNCHANGED <<toRobot, command_id_, outcome>>
    BY <1>9, <2>1 DEF CallbacksFinish, CallFinishMotion, CallUpdate, netVars
  <2>. QED BY <1>0, <1>3, <2>2 DEF None
<1>10. CASE CallbacksThrow
  <2>1. "UserException" # None
    BY DEF None
  <2>. QED BY <1>0, <1>4, <1>10, <2>1 DEF CallbacksThrow
<1>11. CASE Finished
  <2>1. CASE thrown = None
    <3>1. /\ at = "finishMotion" /\ step = "returned" /\ Leave("returned")
          /\ UNCHANGED <<step, motion_command, control_command, toRobot, command_id_>>
      BY <1>11, <2>1 DEF Finished, Done
    <3>2. Told("returned") /\ "returned" \in Outcome
      BY <1>0, <2>1, <3>1 DEF Told, Reports, None, Outcome
    <3>. QED BY <1>0, <1>2, <3>1, <3>2
  <2>2. CASE thrown # None
    BY <1>0, <1>4, <1>11, <2>2 DEF Finished, Done
  <2>. QED BY <2>1, <2>2
<1>12. CASE Cancelled
  <2>1. /\ at = "cancelMotion" /\ step = "returned" /\ Leave(rethrow)
        /\ UNCHANGED <<step, motion_command, control_command, toRobot, command_id_>>
    BY <1>12 DEF Cancelled, Done, implVars, netVars
  <2>2. Told(rethrow) /\ rethrow \in Outcome
    BY <1>0, <2>1 DEF Told, Reports, CInv, CancelledAfterVerdict, StopsFirst, Heard
  <2>. QED BY <1>0, <1>2, <2>1, <2>2
<1>. QED BY <1>5, <1>6, <1>7, <1>8, <1>9, <1>10, <1>11, <1>12 DEF LoopNext

LEMMA NextKeepsContract ==
    ASSUME Faults = {}
    PROVE  OInv /\ CInv /\ [Next]_vars => CInv'
<1>. SUFFICES ASSUME OInv, CInv, [Next]_vars PROVE CInv'
  OBVIOUS
<1>1. CASE UNCHANGED vars
  <2>1. /\ InProgress(current)' <=> InProgress(current)
        /\ ThrownOnVerdict' <=> ThrownOnVerdict
        /\ CancelledAfterVerdict' <=> CancelledAfterVerdict
        /\ link' = link
    BY <1>1 DEF vars, serverVars, netVars, implVars, loopVars, InProgress, Live, current,
                ThrownOnVerdict, CancelledAfterVerdict, StopsFirst, Heard
  <2>. QED BY <2>1 DEF CInv
<1>. QED BY <1>1, ServerKeepsContract, ImplKeepsContract, OtherKeepsContract,
            ConstructKeepsContract, LoopKeepsContract, StopKeepsContract DEF Next

---------------------------------------------------------------------------
(* The steps of the contract.                                              *)

reported(result) == IF result \in {None, "returned"} THEN result ELSE "thrown"
report == [id \in CommandId |-> reported(outcome[id])]

LEMMA ContractInit ==
    ASSUME current = NoMotion, final = [m \in CommandId |-> None],
           report = [m \in CommandId |-> None]
    PROVE  Contract!Init
BY DEF Contract!Init, current, report, reported

LEMMA ContractStutter ==
    ASSUME UNCHANGED <<current, final, report>>
    PROVE  UNCHANGED Contract!vars
BY DEF Contract!vars, current, report, reported

LEMMA ContractCall ==
    ASSUME NEW m \in CommandId, current = NoMotion, final[m] = None, current' = m,
           UNCHANGED <<final, report>>
    PROVE  Contract!Next
<1>1. Contract!Call(m)
  BY DEF Contract!Call, current, report, reported
<1>. QED BY <1>1 DEF Contract!Next

LEMMA ContractConclude ==
    ASSUME NEW s \in MoveEnd, current # NoMotion, final[current] = None,
           final' = [final EXCEPT ![current] = s], UNCHANGED <<current, report>>
    PROVE  Contract!Next
<1>1. Contract!Conclude(s)
  BY DEF Contract!Conclude, current, report, reported
<1>. QED BY <1>1 DEF Contract!Next

LEMMA ContractReport ==
    ASSUME current # NoMotion, final[current] # None,
           report' = [report EXCEPT ![current] =
                        IF final[current] = "kSuccess" THEN "returned" ELSE "thrown"],
           current' = NoMotion, UNCHANGED final
    PROVE  Contract!Next
<1>1. Contract!Report
  BY DEF Contract!Report, current, report, reported
<1>. QED BY <1>1 DEF Contract!Next

LEMMA StepIsInContract ==
    ASSUME Faults = {}, OInv, CInv, [Next]_vars
    PROVE  [Contract!Next]_(Contract!vars)
<1>0. /\ at # "out" => motion_id \in CommandId /\ motion_id # NoMotion
      /\ outcome \in [CommandId -> Outcome \cup {None}]
      /\ final \in [CommandId -> MoveEnd \cup {None}]
  BY DEF OInv, IInv, TypeOK, ServerTypeOK, ImplTypeOK, Settled, HasMove
<1>1. ASSUME UNCHANGED <<at, motion_id, final, outcome>>
      PROVE  UNCHANGED Contract!vars
  BY <1>1, ContractStutter DEF current, report, reported
<1>2. CASE ServerNext /\ UNCHANGED <<implVars, loopVars>>
  <2>1. UNCHANGED <<at, motion_id, outcome>>
    BY <1>2 DEF implVars, loopVars
  <2>2. CASE UNCHANGED final
    BY <1>1, <2>1, <2>2
  <2>3. PICK m : m = current /\ InProgress(m)
    BY MoveFacts
  <2>4. ASSUME NEW s \in MoveEnd, Decided(m, s)
        PROVE  Contract!Next
    <3>1. /\ current = m /\ current # NoMotion /\ final[current] = None
          /\ final' = [final EXCEPT ![current] = s] /\ UNCHANGED <<current, report>>
      BY <1>0, <2>1, <2>3, <2>4, NoneFacts DEF Decided, current, report, reported
    <3>. QED BY <3>1, ContractConclude
  <2>. QED BY <1>2, <2>2, <2>3, <2>4, MoveFacts, VerdictOfMove
<1>3. CASE ImplNext /\ UNCHANGED loopVars
  <2>1. UNCHANGED <<motion_id, final>>
    BY <1>3, ImplPass DEF OInv, IInv, TypeOK, serverVars
  <2>. QED BY <1>1, <1>3, <2>1 DEF loopVars
<1>4. CASE OtherReceive /\ UNCHANGED loopVars
  BY <1>1, <1>4 DEF OtherReceive, serverVars, loopVars
<1>5. ASSUME NEW modes \in MoveModes, Construct(modes)
      PROVE  [Contract!Next]_(Contract!vars)
  <2>0. at = "out" /\ UNCHANGED <<final, outcome>>
    BY <1>5 DEF Construct, Done, serverVars
  <2>1. CASE Running(cached)
    <3>1. at' = "out" /\ UNCHANGED motion_id
      BY <1>5, <2>1 DEF Construct, CallStartMotion
    <3>. QED BY <1>1, <2>0, <3>1
  <2>2. CASE ~Running(cached)
    <3>1. motion_id' = command_id_ /\ at' = "startMotion"
      BY <1>5, <2>2 DEF Construct, CallStartMotion
    <3>2. command_id_ \in CommandId
      BY <1>5, BoundsAssumption DEF OInv, IInv, Construct, IdsFor, TypeOK, ImplTypeOK, CommandId
    <3>3. final[command_id_] = None
      BY <3>2, IdsAreNumbers DEF OInv, Settled, Numbered
    <3>4. current = NoMotion /\ current' = command_id_ /\ UNCHANGED report
      BY <2>0, <3>1 DEF current, report, reported
    <3>. QED BY <2>0, <3>2, <3>3, <3>4, ContractCall
  <2>. QED BY <2>1, <2>2
<1>6. CASE LoopNext
  <2>1. /\ UNCHANGED <<motion_id, final>>
        /\ LoopLeaves \/ (at # "out" /\ at' # "out" /\ UNCHANGED outcome)
    BY <1>6, LoopKeepsContract
  <2>2. CASE at # "out" /\ at' # "out" /\ UNCHANGED outcome
    <3>1. UNCHANGED <<current, report>>
      BY <2>1, <2>2 DEF current, report, reported
    <3>. QED BY <2>1, <3>1, ContractStutter
  <2>3. CASE LoopLeaves
    <3>1. PICK result \in Outcome : Leave(result) /\ Told(result)
      BY <2>3 DEF LoopLeaves
    <3>2. /\ at # "out" /\ at' = "out" /\ outcome' = [outcome EXCEPT ![motion_id] = result]
          /\ current = motion_id /\ current' = NoMotion /\ final[motion_id] # None
          /\ motion_id \in CommandId /\ motion_id # NoMotion
      BY <1>0, <2>3, <3>1 DEF LoopLeaves, Leave, Told, current
    <3>3. reported(result) = IF final[motion_id] = "kSuccess" THEN "returned" ELSE "thrown"
      BY <3>1 DEF reported, Told
    <3>4. report' = [report EXCEPT ![motion_id] = reported(result)]
      BY <1>0, <3>2 DEF report
    <3>. QED BY <2>1, <3>2, <3>3, <3>4, ContractReport
  <2>. QED BY <2>1, <2>2, <2>3
<1>7. ASSUME NEW c \in {"kStopMove", "kAutomaticErrorRecovery"}, Stop(c)
      PROVE  UNCHANGED Contract!vars
  BY <1>1, <1>7 DEF Stop, OtherRequest, serverVars, loopVars
<1>8. CASE UNCHANGED vars
  BY <1>1, <1>8 DEF vars, serverVars, implVars, loopVars
<1>. QED BY <1>2, <1>3, <1>4, <1>5, <1>6, <1>7, <1>8 DEF Next

(* Without faults of the network, whatever commands other threads send and *)
(* whenever they do, control() leaves a motion only after the robot has    *)
(* decided on it: it returns if the robot completed the Move, and throws   *)
(* if it did not (control_loop.cpp:95-126, robot_impl.cpp:208-419).        *)
THEOREM ControlKeepsContract ==
    ASSUME Faults = {}
    PROVE  Spec => ImplementsMotionContract
<1>1. Init => CInv
  BY DEF Init, ServerInit, ImplInit, CInv, InProgress, Live, current, ThrownOnVerdict,
         CancelledAfterVerdict
<1>2. OInv /\ CInv /\ [Next]_vars => CInv'
  BY NextKeepsContract
<1>3. Init => Contract!Init
  <2>. SUFFICES ASSUME Init PROVE Contract!Init
    OBVIOUS
  <2>1. /\ current = NoMotion /\ final = [m \in CommandId |-> None]
        /\ report = [m \in CommandId |-> None]
    BY DEF Init, ServerInit, current, report, reported
  <2>. QED BY <2>1, ContractInit
<1>4. OInv /\ CInv /\ [Next]_vars => [Contract!Next]_(Contract!vars)
  BY StepIsInContract
<1>. QED BY <1>1, <1>2, <1>3, <1>4, OutcomeInvariant, PTL
     DEF Spec, ImplementsMotionContract, Contract!Spec
===========================================================================
