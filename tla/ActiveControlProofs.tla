------------------------ MODULE ActiveControlProofs -----------------------
(***************************************************************************)
(* ActiveControl for any Robots, motions and bounds: the variables keep    *)
(* their types, the lock excludes other operations, the next motion can    *)
(* start and the connection is used as a mailbox, with or without faults;  *)
(* while the connection is up, a motion is finished only on success;       *)
(* without faults, the robot moves only under the lock, and the control    *)
(* keeps MotionContract.                                                   *)
(***************************************************************************)
EXTENDS ActiveControl, RobotImplProofs

\* ~ActiveControl will find an id for the StopMove of cancelMotion.
IdsSuffice == Reserved = 1 /\ at # "terminated" => command_id_ <= MaxCommands

\* Where the calls of each operation can be.
Located ==
    /\ at \in {"user", "terminated"} => step = "returned"
    /\ at = "startMotion" =>
         /\ step \in {"returned", "start.wait", "start.poll", "update.send", "update.receive"}
         /\ step = "update.send" => motion_command = None
         /\ step \in {"update.send", "update.receive"} => resume = "start.poll"
    /\ at \in {"readOnce", "Robot::read"} =>
         /\ step \in {"returned", "update.send", "update.receive"}
         /\ step = "update.send" => motion_command = None
         /\ step \in {"update.send", "update.receive"} => resume = "returned"
    /\ at = "throwOnMotionError" => step \in {"returned", "error.wait"}
    /\ at = "writeOnce" =>
         /\ step \in {"returned", "update.send", "update.receive"}
         /\ step = "update.send" => motion_command = "running"
    /\ at = "finishMotion" =>
         /\ step \in {"returned", "update.send", "update.receive", "finish.poll", "finish.wait"}
         /\ step = "update.send" => motion_command = "finished"
         /\ step \in {"update.send", "update.receive"} => resume = "finish.poll"
    /\ at = "cancelMotion" => step \in {"returned", "cancel.wait", "cancel.receive", "cancel.ignore"}

\* The lock of the Robot belongs to the control from its start to its end.
LockKept ==
    /\ Unfinished => control_lock = impl_
    /\ at \in {"startMotion", "Robot::read"} => control_lock = impl_ /\ ~Unfinished
    /\ at = "startMotion" => ~alive
    /\ at \in {"readOnce", "throwOnMotionError", "writeOnce", "finishMotion", "cancelMotion",
               "terminated"} => Unfinished

\* finishMotion and cancelMotion end when a state shows the robot idle.
IdleAtEnd ==
    /\ step \in {"finish.wait", "cancel.ignore"} => ~Running(cached)
    /\ at \in {"finishMotion", "cancelMotion"} /\ step = "returned" /\ thrown = None =>
          ~Running(cached)
    /\ ReadyForNextMotion
    /\ at = "Robot::read" => ~fresh

\* The inductive invariant, with or without faults.
IInv == TypeOK /\ MoveInExecution /\ IdsSuffice /\ Located /\ LockKept /\ IdleAtEnd

---------------------------------------------------------------------------
(* Types.                                                                  *)
LEMMA StartTypes ==
    ASSUME TypeOK, NEW modes \in MoveModes, startControl(modes)
    PROVE  TypeOK'
<1>1. ServerTypeOK /\ ImplTypeOK /\ command_id_ \in CommandId
  BY BoundsAssumption DEF startControl, IdsFor, TypeOK, ImplTypeOK, CommandId
<1>2. CallStartMotion(modes)
  BY DEF startControl
<1>3. /\ toRobot' \in Seq(Request) /\ command_id_' \in 1 .. (MaxCommands + 1)
      /\ step' \in Step /\ thrown' \in Exception \cup {None}
      /\ current_move' \in Modes /\ motion_id' \in CommandId \cup {NoMotion}
  BY <1>1, <1>2, StartMotionTypes
<1>4. /\ at' \in At /\ control_lock' \in Robots \cup {None} /\ alive' \in BOOLEAN
      /\ reported' \in BOOLEAN
  BY DEF startControl, TypeOK, At
<1>. QED BY <1>3, <1>4 DEF startControl, TypeOK, ServerTypeOK, ImplTypeOK, serverVars

LEMMA StopTypes ==
    ASSUME TypeOK, NEW c \in {"kStopMove", "kAutomaticErrorRecovery"}, Stop(c)
    PROVE  TypeOK'
<1>1. ServerTypeOK /\ ImplTypeOK /\ command_id_ \in CommandId
  BY BoundsAssumption DEF Stop, IdsFor, Reserved, TypeOK, ImplTypeOK, CommandId
<1>. QED BY <1>1, OtherRequestTypes DEF Stop, TypeOK, activeVars

\* The states that have arrived are dropped.
LEMMA ReadTypes ==
    ASSUME ServerTypeOK, ImplTypeOK, CallReadOnce
    PROVE  ServerTypeOK' /\ ImplTypeOK'
<1>1. states' \in Seq(State)
  <2>1. PICK k \in 0 .. Len(states) : states' = SubSeq(states, k + 1, Len(states))
    BY DEF CallReadOnce, DrainStates
  <2>2. states \in Seq(State)
    BY DEF ServerTypeOK
  <2>. QED BY <2>1, <2>2
<1>2. step' \in Step /\ resume' \in {"returned", "start.poll", "finish.poll"}
  BY DEF CallReadOnce, Step
<1>3. ServerTypeOK'
  BY <1>1 DEF CallReadOnce, ServerTypeOK, serverVars
<1>. QED BY <1>2, <1>3 DEF CallReadOnce, ImplTypeOK

\* The robot and Robot::Impl are as before.
LEMMA FrameTypes ==
    ASSUME ServerTypeOK, ImplTypeOK, UNCHANGED <<serverVars, netVars, implVars>>
    PROVE  ServerTypeOK' /\ ImplTypeOK'
BY DEF ServerTypeOK, ImplTypeOK, serverVars, netVars, implVars

LEMMA CallEndsTypes ==
    ASSUME TypeOK, CallEnds
    PROVE  TypeOK'
<1>0. ServerTypeOK /\ ImplTypeOK
  BY DEF TypeOK
<1>1. CASE Started
  <2>1. ServerTypeOK' /\ ImplTypeOK'
    BY <1>0, <1>1, FrameTypes DEF Started
  <2>. QED BY <1>1, <2>1 DEF Started, TypeOK, At
<1>2. CASE ReadDone
  <2>1. ServerTypeOK' /\ ImplTypeOK'
    BY <1>0, <1>2
    DEF ReadDone, CallThrowOnMotionError, Goto, Return, Step, ServerTypeOK, ImplTypeOK, serverVars,
        netVars
  <2>. QED BY <1>2, <2>1 DEF ReadDone, TypeOK, At
<1>3. CASE StateReturned
  <2>1. ServerTypeOK' /\ ImplTypeOK'
    BY <1>0, <1>3, FrameTypes DEF StateReturned
  <2>. QED BY <1>3, <2>1 DEF StateReturned, TypeOK, At
<1>4. CASE RobotReadDone
  <2>1. ServerTypeOK' /\ ImplTypeOK'
    BY <1>0, <1>4, FrameTypes DEF RobotReadDone
  <2>. QED BY <1>4, <2>1 DEF RobotReadDone, TypeOK, At
<1>5. CASE WriteDone
  <2>1. ServerTypeOK' /\ ImplTypeOK'
    BY <1>0, <1>5 DEF WriteDone, Step, ServerTypeOK, ImplTypeOK, serverVars, netVars
  <2>. QED BY <1>5, <2>1 DEF WriteDone, TypeOK, At
<1>6. CASE Finished
  <2>1. ServerTypeOK' /\ ImplTypeOK'
    BY <1>0, <1>6, FrameTypes DEF Finished
  <2>. QED BY <1>6, <2>1 DEF Finished, TypeOK, At
<1>7. CASE Destroyed
  <2>1. ServerTypeOK' /\ ImplTypeOK'
    BY <1>0, <1>7, FrameTypes DEF Destroyed
  <2>. QED BY <1>7, <2>1 DEF Destroyed, TypeOK, At
<1>. QED BY <1>1, <1>2, <1>3, <1>4, <1>5, <1>6, <1>7 DEF CallEnds

LEMMA DestroyTypes ==
    ASSUME TypeOK, IdsSuffice, Destroy
    PROVE  TypeOK'
<1>0. ServerTypeOK /\ ImplTypeOK
  BY DEF TypeOK
<1>1. CASE control_finished
  <2>1. UNCHANGED <<toRobot, command_id_, stop_id, step, thrown, at>> /\ alive' = FALSE
    BY <1>1 DEF Destroy
  <2>2. ServerTypeOK' /\ ImplTypeOK'
    BY <1>0, <1>1, <2>1 DEF Destroy, ServerTypeOK, ImplTypeOK, serverVars
  <2>. QED BY <1>1, <2>1, <2>2 DEF Destroy, TypeOK
<1>2. CASE ~control_finished
  <2>1. CallCancelMotion /\ at' = "cancelMotion" /\ UNCHANGED alive
    BY <1>2 DEF Destroy
  <2>2. ServerTypeOK /\ ImplTypeOK /\ command_id_ \in CommandId
    BY <1>0, <1>2, BoundsAssumption DEF ImplTypeOK, Destroy, Done, IdsSuffice, Reserved, Unfinished, CommandId
  <2>3. /\ toRobot' \in Seq(Request) /\ command_id_' \in 1 .. (MaxCommands + 1)
        /\ stop_id' \in CommandId \cup {NoMotion}
        /\ step' \in Step /\ thrown' \in Exception \cup {None}
    BY <2>1, <2>2, CancelMotionTypes
  <2>4. ServerTypeOK' /\ ImplTypeOK'
    BY <1>0, <1>2, <2>3 DEF Destroy, ServerTypeOK, ImplTypeOK, serverVars
  <2>. QED BY <1>2, <2>1, <2>4 DEF Destroy, TypeOK, At
<1>. QED BY <1>1, <1>2

LEMMA UserTypes ==
    ASSUME TypeOK, IdsSuffice, User
    PROVE  TypeOK'
<1>0. ServerTypeOK /\ ImplTypeOK
  BY DEF TypeOK
<1>1. ASSUME NEW modes \in MoveModes, startControl(modes) PROVE TypeOK'
  BY <1>1, StartTypes
<1>2. ASSUME NEW torques \in BOOLEAN, writeOnce(torques) PROVE TypeOK'
  <2>1. CallUpdate("running", torques, "returned")
    BY <1>2 DEF writeOnce
  <2>. QED BY <1>2, <2>1, CallUpdateTypes
       DEF writeOnce, TypeOK, ServerTypeOK, ImplTypeOK, serverVars, netVars, At
<1>3. ASSUME NEW torques \in BOOLEAN, writeFinished(torques) PROVE TypeOK'
  <2>1. CallFinishMotion(torques)
    BY <1>3 DEF writeFinished
  <2>. QED BY <1>0, <1>3, <2>1, FinishMotionTypes
       DEF writeFinished, TypeOK, ServerTypeOK, ImplTypeOK, serverVars, netVars, At
<1>4. CASE readOnce
  BY <1>0, <1>4, ReadTypes DEF readOnce, TypeOK, At
<1>5. CASE RobotRead
  BY <1>0, <1>5, ReadTypes DEF RobotRead, TypeOK, At
<1>6. CASE RobotReadAgain
  <2>1. CallUpdate(None, FALSE, "returned")
    BY <1>6 DEF RobotReadAgain
  <2>2. /\ step' \in Step /\ motion_command' \in {None, "running", "finished"}
        /\ control_command' \in BOOLEAN /\ resume' \in {"returned", "start.poll", "finish.poll"}
    BY <2>1, CallUpdateTypes
  <2>3. ServerTypeOK' /\ ImplTypeOK'
    BY <1>0, <1>6, <2>2 DEF RobotReadAgain, ServerTypeOK, ImplTypeOK, serverVars, netVars
  <2>. QED BY <1>6, <2>3 DEF RobotReadAgain, TypeOK, activeVars
<1>7. CASE Destroy
  BY <1>7, DestroyTypes
<1>8. ASSUME NEW r \in Robots, MoveRobot(r) PROVE TypeOK'
  BY <1>8 DEF MoveRobot, TypeOK, ServerTypeOK, ImplTypeOK, serverVars, netVars, implVars
<1>9. ASSUME NEW c \in {"kStopMove", "kAutomaticErrorRecovery"}, Stop(c) PROVE TypeOK'
  BY <1>9, StopTypes
<1>. QED BY <1>1, <1>2, <1>3, <1>4, <1>5, <1>6, <1>7, <1>8, <1>9 DEF User

---------------------------------------------------------------------------
(* The calls and the lock.                                                 *)
lockVars == <<activeVars, command_id_, step, resume, motion_command, thrown, cached>>

LEMMA LockFrame ==
    ASSUME IdsSuffice, Located, LockKept, IdleAtEnd, UNCHANGED lockVars
    PROVE  IdsSuffice' /\ Located' /\ LockKept' /\ IdleAtEnd'
BY DEF lockVars, activeVars, IdsSuffice, Reserved, Unfinished, Located, LockKept, IdleAtEnd,
       ReadyForNextMotion, Running, motionGeneratorRunning, controllerRunning

LEMMA ImplLocated ==
    ASSUME TypeOK, Located, ImplStep
    PROVE  Located'
<1>. USE DEF Located, ImplStep, WriteSent, activeVars, Goto, Return, Throw, CallUpdate
<1>1. CASE UpdateSend
  BY <1>1 DEF UpdateSend
<1>2. CASE UpdateClosed
  BY <1>2 DEF UpdateClosed
<1>3. CASE UpdateReceive
  BY <1>3 DEF UpdateReceive
<1>4. CASE StartWait
  BY <1>4 DEF StartWait
<1>5. CASE StartPoll
  <2>1. /\ step = "start.poll" /\ step' \in {"returned", "update.send"}
        /\ step' = "update.send" => motion_command' = None /\ resume' = "start.poll"
    BY <1>5 DEF StartPoll
  <2>. HIDE DEF CallUpdate, Throw, Return
  <2>. QED BY <2>1
<1>6. CASE ErrorWait
  BY <1>6 DEF ErrorWait
<1>7. CASE FinishPoll
  BY <1>7 DEF FinishPoll
<1>8. CASE FinishWait
  BY <1>8 DEF FinishWait
<1>9. CASE CancelWait
  BY <1>9 DEF CancelWait
<1>10. CASE CancelReceive
  BY <1>10 DEF CancelReceive
<1>11. CASE CancelIgnore
  BY <1>11 DEF CancelIgnore
<1>. QED
  BY <1>1, <1>2, <1>3, <1>4, <1>5, <1>6, <1>7, <1>8, <1>9, <1>10, <1>11 DEF ImplNext

\* finishMotion and cancelMotion return only after a state showed an idle robot.
LEMMA ImplIdleAtEnd ==
    ASSUME TypeOK, Located, IdleAtEnd, ImplStep
    PROVE  IdleAtEnd'
<1>. USE DEF Located, IdleAtEnd, ReadyForNextMotion, Unfinished, ImplStep, WriteSent, activeVars,
             Goto, Return, Throw, CallUpdate, Running, motionGeneratorRunning, controllerRunning
<1>0. at # "user"
  BY DEF ImplNext, UpdateSend, UpdateClosed, UpdateReceive, StartWait, StartPoll, ErrorWait,
         FinishPoll, FinishWait, CancelWait, CancelReceive, CancelIgnore
<1>1. CASE UpdateSend
  <2>1. step = "update.send" /\ UNCHANGED cached
        /\ (step' = "update.receive" \/ (step' = "returned" /\ thrown' # None))
    BY <1>1 DEF UpdateSend, None, SendException
  <2>. QED BY <1>0, <2>1
<1>2. CASE UpdateClosed
  BY <1>0, <1>2 DEF UpdateClosed, None
<1>3. CASE UpdateReceive
  <2>1. step = "update.receive" /\ UNCHANGED resume
        /\ (step' = resume \/ (step' = "returned" /\ thrown' # None))
    BY <1>3 DEF UpdateReceive, None
  <2>. QED BY <1>0, <2>1 DEF TypeOK, ImplTypeOK
<1>4. CASE StartWait
  BY <1>0, <1>4 DEF StartWait
<1>5. CASE StartPoll
  <2>1. step = "start.poll" /\ step' \in {"returned", "update.send"} /\ UNCHANGED cached
    BY <1>5 DEF StartPoll
  <2>. HIDE DEF CallUpdate, Throw, Return
  <2>. QED BY <1>0, <2>1
<1>6. CASE ErrorWait
  BY <1>0, <1>6 DEF ErrorWait
<1>7. CASE FinishPoll
  BY <1>0, <1>7 DEF FinishPoll
<1>8. CASE FinishWait
  BY <1>0, <1>8 DEF FinishWait
<1>9. CASE CancelWait
  <2>1. step = "cancel.wait" /\ UNCHANGED cached
        /\ (step' \in {"cancel.wait", "cancel.receive"} \/ (step' = "returned" /\ thrown' # None))
    BY <1>9 DEF CancelWait, None
  <2>. QED BY <1>0, <2>1
<1>10. CASE CancelReceive
  <2>1. /\ step = "cancel.receive"
        /\ \/ step' = "cancel.receive"
           \/ step' = "cancel.ignore" /\ ~Running(cached')
           \/ step' = "returned" /\ thrown' # None
    BY <1>10 DEF CancelReceive, None
  <2>. QED BY <1>0, <2>1
<1>11. CASE CancelIgnore
  BY <1>0, <1>11 DEF CancelIgnore
<1>. QED
  BY <1>1, <1>2, <1>3, <1>4, <1>5, <1>6, <1>7, <1>8, <1>9, <1>10, <1>11 DEF ImplNext

LEMMA CallEndsKeepLock ==
    ASSUME TypeOK, IdsSuffice, Located, LockKept, IdleAtEnd, CallEnds
    PROVE  IdsSuffice' /\ Located' /\ LockKept' /\ IdleAtEnd'
<1>. USE DEF TypeOK, IdsSuffice, Reserved, Unfinished, Located, LockKept, IdleAtEnd,
             ReadyForNextMotion, Done, implVars, At, Running, motionGeneratorRunning, controllerRunning
<1>1. CASE Started
  BY <1>1 DEF Started
<1>2. CASE ReadDone
  BY <1>2 DEF ReadDone, CallThrowOnMotionError, Goto, Return
<1>3. CASE StateReturned
  BY <1>3 DEF StateReturned
<1>4. CASE RobotReadDone
  BY <1>4 DEF RobotReadDone
<1>5. CASE WriteDone
  BY <1>5 DEF WriteDone, WriteSent
<1>6. CASE Finished
  BY <1>6 DEF Finished
<1>7. CASE Destroyed
  BY <1>7 DEF Destroyed
<1>. QED BY <1>1, <1>2, <1>3, <1>4, <1>5, <1>6, <1>7 DEF CallEnds

LEMMA UserKeepsLock ==
    ASSUME TypeOK, IdsSuffice, Located, LockKept, IdleAtEnd, User
    PROVE  IdsSuffice' /\ Located' /\ LockKept' /\ IdleAtEnd'
<1>. USE DEF IdsSuffice, Reserved, Unfinished, Located, LockKept, IdleAtEnd,
             ReadyForNextMotion, Done, Running, motionGeneratorRunning, controllerRunning
<1>0. command_id_ \in Nat /\ impl_ \in Robots
  BY DEF TypeOK, ImplTypeOK
<1>1. ASSUME NEW modes \in MoveModes, startControl(modes)
      PROVE  IdsSuffice' /\ Located' /\ LockKept' /\ IdleAtEnd'
  <2>1. /\ at = "user" /\ step = "returned" /\ ~Unfinished
        /\ command_id_ + 1 <= MaxCommands
    BY <1>0, <1>1, BoundsAssumption DEF startControl, assertOwningLock, IdsFor
  <2>2. CASE Running(cached)
    BY <1>1, <2>1, <2>2 DEF startControl, CallStartMotion, Throw
  <2>3. CASE ~Running(cached)
    BY <1>0, <1>1, <2>1, <2>3, BoundsAssumption
    DEF startControl, CallStartMotion, Goto, SendRequest
  <2>. QED BY <2>2, <2>3
<1>2. ASSUME NEW torques \in BOOLEAN, writeOnce(torques)
      PROVE  IdsSuffice' /\ Located' /\ LockKept' /\ IdleAtEnd'
  BY <1>2 DEF writeOnce, WriteAccepted, CallUpdate
<1>3. ASSUME NEW torques \in BOOLEAN, writeFinished(torques)
      PROVE  IdsSuffice' /\ Located' /\ LockKept' /\ IdleAtEnd'
  BY <1>3 DEF writeFinished, WriteAccepted, CallFinishMotion, CallUpdate, Return
<1>4. CASE readOnce
  BY <1>4 DEF readOnce, CallReadOnce
<1>5. CASE RobotRead
  BY <1>5 DEF RobotRead, CallReadOnce, assertOwningLock
<1>6. CASE RobotReadAgain
  BY <1>6 DEF RobotReadAgain, CallUpdate, activeVars
<1>7. CASE Destroy
  <2>1. CASE control_finished
    <3>1. /\ at = "user" /\ ~Unfinished /\ ~Unfinished'
          /\ UNCHANGED <<at, step, thrown, cached, fresh, control_lock, impl_, command_id_>>
      BY <1>7, <2>1 DEF Destroy
    <3>. QED BY <1>7, <2>1, <3>1 DEF Destroy
  <2>2. CASE ~control_finished
    <3>1. /\ at = "user" /\ at' = "cancelMotion" /\ step' = "cancel.wait"
          /\ Unfinished /\ UNCHANGED <<cached, alive, control_finished, control_lock, impl_>>
      BY <1>7, <2>2 DEF Destroy, CallCancelMotion, Goto
    <3>. QED BY <3>1
  <2>. QED BY <2>1, <2>2
<1>8. ASSUME NEW r \in Robots, MoveRobot(r)
      PROVE  IdsSuffice' /\ Located' /\ LockKept' /\ IdleAtEnd'
  BY <1>8 DEF MoveRobot, implVars
<1>9. ASSUME NEW c \in {"kStopMove", "kAutomaticErrorRecovery"}, Stop(c)
      PROVE  IdsSuffice' /\ Located' /\ LockKept' /\ IdleAtEnd'
  <2>1. /\ UNCHANGED <<activeVars, step, resume, motion_command, thrown, cached>>
        /\ command_id_' = command_id_ + 1
    BY <1>9 DEF Stop, OtherRequest, SendRequest
  <2>2. IdsSuffice'
    BY <1>0, <1>9, <2>1, BoundsAssumption DEF Stop, IdsFor, activeVars
  <2>3. Located' /\ LockKept' /\ IdleAtEnd'
    BY <2>1 DEF activeVars
  <2>. QED BY <2>2, <2>3
<1>. QED BY <1>1, <1>2, <1>3, <1>4, <1>5, <1>6, <1>7, <1>8, <1>9 DEF User

---------------------------------------------------------------------------
(* The invariant.                                                          *)
LEMMA CallsAreNotTheServers ==
    ASSUME CallEnds \/ User
    PROVE  UNCHANGED <<phase, active>>
BY DEF CallEnds, Started, ReadDone, StateReturned, RobotReadDone, WriteDone, Finished, Destroyed,
       User, startControl, writeOnce, writeFinished, readOnce, RobotRead, CallReadOnce,
       RobotReadAgain, Destroy, MoveRobot, Stop, OtherRequest, serverVars

THEOREM InitInvariant == Init => IInv
<1>. SUFFICES ASSUME Init PROVE IInv
  OBVIOUS
<1>1. ServerTypeOK /\ ImplTypeOK /\ MoveInExecution
  BY InitTypes DEF Init
<1>2. TypeOK
  BY <1>1 DEF Init, TypeOK, At
<1>3. IdsSuffice /\ Located /\ LockKept
  BY DEF Init, ImplInit, IdsSuffice, Reserved, Unfinished, Located, LockKept
<1>4. IdleAtEnd
  BY DEF Init, ImplInit, IdleAtEnd, ReadyForNextMotion, Running, motionGeneratorRunning,
         controllerRunning, IdleModes
<1>. QED BY <1>1, <1>2, <1>3, <1>4 DEF IInv

\* IInv is inductive.
THEOREM NextInvariant == IInv /\ [Next]_vars => IInv'
<1>. SUFFICES ASSUME IInv, [Next]_vars PROVE IInv'
  OBVIOUS
<1>0. /\ TypeOK /\ ServerTypeOK /\ ImplTypeOK /\ MoveInExecution
      /\ IdsSuffice /\ Located /\ LockKept /\ IdleAtEnd
  BY DEF IInv, TypeOK
<1>1. CASE ServerNext /\ UNCHANGED <<implVars, activeVars>>
  <2>1. ServerTypeOK' /\ MoveInExecution'
    BY <1>0, <1>1, ServerTypes
  <2>2. TypeOK'
    BY <1>0, <1>1, <2>1 DEF TypeOK, ImplTypeOK, implVars, activeVars
  <2>3. UNCHANGED lockVars
    BY <1>1 DEF lockVars, implVars
  <2>. QED BY <1>0, <2>1, <2>2, <2>3, LockFrame DEF IInv
<1>2. CASE ImplStep
  <2>1. ImplNext /\ UNCHANGED activeVars
    BY <1>2 DEF ImplStep
  <2>2. ServerTypeOK' /\ ImplTypeOK'
    BY <1>0, <2>1, ImplTypes
  <2>3. TypeOK'
    BY <1>0, <2>1, <2>2 DEF TypeOK, activeVars
  <2>4. Located' /\ IdleAtEnd'
    BY <1>0, <1>2, ImplLocated, ImplIdleAtEnd
  <2>5. IdsSuffice' /\ LockKept'
    BY <1>0, <2>1, ImplKeepsIds DEF IdsSuffice, Reserved, Unfinished, LockKept, activeVars
  <2>6. UNCHANGED serverVars
    BY <2>1 DEF ImplNext, UpdateSend, UpdateClosed, UpdateReceive, StartWait, StartPoll,
                ErrorWait, FinishPoll, FinishWait, CancelWait, CancelReceive, CancelIgnore
  <2>. QED BY <1>0, <2>3, <2>4, <2>5, <2>6 DEF IInv, MoveInExecution, serverVars
<1>3. CASE OtherReceive /\ UNCHANGED activeVars
  <2>1. TypeOK'
    BY <1>0, <1>3, OtherReceiveTypes DEF TypeOK, activeVars
  <2>2. UNCHANGED lockVars /\ MoveInExecution'
    BY <1>0, <1>3 DEF lockVars, OtherReceive, MoveInExecution, serverVars
  <2>. QED BY <1>0, <2>1, <2>2, LockFrame DEF IInv
<1>4. CASE CallEnds
  BY <1>0, <1>4, CallEndsTypes, CallEndsKeepLock, CallsAreNotTheServers DEF IInv, MoveInExecution
<1>5. CASE User
  BY <1>0, <1>5, UserTypes, UserKeepsLock, CallsAreNotTheServers DEF IInv, MoveInExecution
<1>6. CASE UNCHANGED vars
  <2>1. TypeOK' /\ MoveInExecution'
    BY <1>0, <1>6
    DEF vars, serverVars, netVars, implVars, activeVars, TypeOK, ServerTypeOK, ImplTypeOK,
        MoveInExecution
  <2>2. UNCHANGED lockVars
    BY <1>6 DEF vars, implVars, lockVars
  <2>. QED BY <1>0, <2>1, <2>2, LockFrame DEF IInv
<1>. QED BY <1>1, <1>2, <1>3, <1>4, <1>5, <1>6 DEF Next

THEOREM InvariantHolds == Spec => []IInv
<1>. QED BY InitInvariant, NextInvariant, PTL DEF Spec

(* Every variable of the robot, of Robot::Impl, of the controls and of     *)
(* their lock keeps its type; command_id_ suffices for the StopMove of     *)
(* every destructor (active_control.cpp:22-26, robot_impl.cpp:393-411).    *)
THEOREM TypeCorrect == Spec => []TypeOK
<1>1. IInv => TypeOK
  BY DEF IInv
<1>. QED BY <1>1, InvariantHolds, PTL

(* The try_to_lock of startControl, Robot::readOnce and Robot::read is     *)
(* refused while a control is unfinished, also after the Robot was moved   *)
(* and with a link that is down (robot.cpp:17, 32-47, 252-284).            *)
THEOREM OperationsExcludeEachOther == Spec => OneOperationAtATime
<1>1. IInv /\ [Next]_vars
        => [at = "user" /\ at' \in {"startMotion", "Robot::read"} => ~Unfinished]_vars
  <2>. SUFFICES ASSUME IInv, Next, at = "user", at' \in {"startMotion", "Robot::read"}
                PROVE  ~Unfinished
    OBVIOUS
  <2>1. \/ RobotRead \/ \E modes \in MoveModes : startControl(modes)
    BY DEF Next, ImplStep, activeVars, CallEnds, Started, ReadDone, StateReturned, RobotReadDone,
           WriteDone, Finished, Destroyed, User, writeOnce, writeFinished, readOnce,
           RobotReadAgain, Destroy, MoveRobot, Stop
  <2>2. assertOwningLock
    BY <2>1 DEF RobotRead, startControl
  <2>. QED BY <2>2 DEF assertOwningLock, IInv, LockKept
<1>. QED BY <1>1, InvariantHolds, PTL DEF Spec, OneOperationAtATime

(* A control that was finished or destroyed leaves the modes of an idle    *)
(* robot behind, so that the next start is not refused as a second motion  *)
(* (robot_impl.cpp:213, 293-300, 402-405).                                 *)
THEOREM NextMotionMayStart == Spec => []ReadyForNextMotion
<1>1. IInv => ReadyForNextMotion
  BY DEF IInv, IdleAtEnd
<1>. QED BY <1>1, InvariantHolds, PTL
---------------------------------------------------------------------------
(* The connection is used as a mailbox.                                    *)

\* There is a current Move whose responses are waited for.
MoveIsKnown == at = "startMotion" \/ Unfinished => motion_id # NoMotion

AwaitedIsKnown == MoveIsKnown /\ StopIsKnown

LEMMA CallEndsIsQuiet ==
    ASSUME AwaitedIsKnown, CallEnds
    PROVE  UNCHANGED <<toClient, received_responses_>> /\ AwaitedIsKnown'
<1>1. UNCHANGED <<toClient, received_responses_, motion_id, stop_id>>
  BY DEF CallEnds, Started, ReadDone, StateReturned, RobotReadDone, WriteDone, Finished, Destroyed,
         netVars, implVars
<1>2. MoveIsKnown'
  BY <1>1
  DEF CallEnds, Started, ReadDone, StateReturned, RobotReadDone, WriteDone, Finished, Destroyed,
      AwaitedIsKnown, MoveIsKnown, Unfinished, Done
<1>3. CASE step' = step
  BY <1>1, <1>2, <1>3 DEF AwaitedIsKnown, StopIsKnown
<1>4. CASE step' # step
  <2>1. step' # "cancel.wait"
    BY <1>4 DEF CallEnds, Started, ReadDone, StateReturned, RobotReadDone, WriteDone, Finished, Destroyed,
                implVars, CallThrowOnMotionError, Goto, Return
  <2>. QED BY <1>1, <1>2, <2>1 DEF AwaitedIsKnown, StopIsKnown
<1>. QED BY <1>3, <1>4

LEMMA UserIsQuiet ==
    ASSUME ImplTypeOK, AwaitedIsKnown, User
    PROVE  UNCHANGED <<toClient, received_responses_>> /\ AwaitedIsKnown'
<1>1. ASSUME NEW modes, startControl(modes)
      PROVE  UNCHANGED <<toClient, received_responses_>> /\ AwaitedIsKnown'
  <2>1. command_id_ # NoMotion
    BY BoundsAssumption DEF ImplTypeOK, NoMotion
  <2>2. UNCHANGED <<toClient, received_responses_>> /\ StopIsKnown'
    BY <1>1 DEF startControl, CallStartMotion, Goto, Throw, StopIsKnown
  <2>3. MoveIsKnown'
    BY <1>1, <2>1 DEF startControl, Done, CallStartMotion, AwaitedIsKnown, MoveIsKnown, Unfinished
  <2>. QED BY <2>2, <2>3 DEF AwaitedIsKnown
<1>2. CASE Destroy
  <2>1. StopIsKnown'
    BY <1>2, CancelIsKnown DEF Destroy, AwaitedIsKnown, StopIsKnown
  <2>2. MoveIsKnown' /\ UNCHANGED <<toClient, received_responses_>>
    BY <1>2 DEF Destroy, AwaitedIsKnown, MoveIsKnown, Unfinished
  <2>. QED BY <2>1, <2>2 DEF AwaitedIsKnown
<1>3. ASSUME NEW torques, writeOnce(torques) \/ writeFinished(torques)
      PROVE  UNCHANGED <<toClient, received_responses_>> /\ AwaitedIsKnown'
  BY <1>3 DEF writeOnce, writeFinished, CallFinishMotion, CallUpdate, Return, Done, netVars,
              AwaitedIsKnown, MoveIsKnown, StopIsKnown, Unfinished
<1>4. CASE readOnce \/ RobotRead \/ RobotReadAgain
  BY <1>4 DEF readOnce, RobotRead, RobotReadAgain, CallReadOnce, CallUpdate, netVars, activeVars, Done,
              AwaitedIsKnown, MoveIsKnown, StopIsKnown, Unfinished
<1>5. ASSUME NEW r, MoveRobot(r)
      PROVE  UNCHANGED <<toClient, received_responses_>> /\ AwaitedIsKnown'
  BY <1>5 DEF MoveRobot, netVars, implVars, AwaitedIsKnown, MoveIsKnown, StopIsKnown, Unfinished
<1>6. ASSUME NEW c, Stop(c)
      PROVE  UNCHANGED <<toClient, received_responses_>> /\ AwaitedIsKnown'
  BY <1>6 DEF Stop, OtherRequest, activeVars, AwaitedIsKnown, MoveIsKnown, StopIsKnown, Unfinished
<1>. QED BY <1>1, <1>2, <1>3, <1>4, <1>5, <1>6 DEF User

(* Under active controls too, Robot::Impl makes mailbox steps only, one    *)
(* call at a time and whatever Robot has the implementation                *)
(* (network.h:149-259, robot_impl.cpp:63-96, 208-316, 393-411).            *)
THEOREM ActiveControlUsesMailbox == Spec => UsesMailbox
<1>1. Init => Mailbox!Init /\ AwaitedIsKnown
  BY InitUsesMailbox
  DEF Init, ImplInit, AwaitedIsKnown, MoveIsKnown, StopIsKnown, Unfinished
<1>2. IInv /\ AwaitedIsKnown /\ [Next]_vars => MailboxStep /\ AwaitedIsKnown'
  <2>. SUFFICES ASSUME IInv, AwaitedIsKnown, [Next]_vars PROVE MailboxStep /\ AwaitedIsKnown'
    OBVIOUS
  <2>0. /\ ServerTypeOK /\ ImplTypeOK /\ MoveInExecution /\ at \in At
        /\ step \notin {"returned", "update.send", "update.receive"} => motion_id # NoMotion
    BY DEF IInv, TypeOK, Located, LockKept, AwaitedIsKnown, MoveIsKnown, At
  <2>1. CASE ServerNext /\ UNCHANGED <<implVars, activeVars>>
    BY <2>0, <2>1, ServerUsesMailbox
    DEF implVars, activeVars, AwaitedIsKnown, MoveIsKnown, StopIsKnown, Unfinished
  <2>2. CASE ImplStep
    <3>1. ImplNext /\ UNCHANGED activeVars /\ step # "returned" /\ UNCHANGED motion_id
      BY <2>0, <2>2, StepOf, ImplPass DEF ImplStep
    <3>2. MailboxStep
      BY <2>0, <3>1, ImplUsesMailbox DEF AwaitedIsKnown
    <3>3. StopIsKnown'
      BY <2>0, <3>1, StopStaysKnown DEF AwaitedIsKnown
    <3>. QED BY <3>1, <3>2, <3>3 DEF activeVars, AwaitedIsKnown, MoveIsKnown, Unfinished
  <2>3. CASE OtherReceive /\ UNCHANGED activeVars
    BY <2>0, <2>3, OtherUsesMailbox
    DEF OtherReceive, activeVars, AwaitedIsKnown, MoveIsKnown, StopIsKnown, Unfinished
  <2>4. CASE CallEnds
    BY <2>4, CallEndsIsQuiet, QuietUsesMailbox
  <2>5. CASE User
    BY <2>0, <2>5, UserIsQuiet, QuietUsesMailbox
  <2>6. CASE UNCHANGED vars
    BY <2>6, QuietUsesMailbox
    DEF vars, netVars, implVars, activeVars, AwaitedIsKnown, MoveIsKnown, StopIsKnown, Unfinished
  <2>. QED BY <2>1, <2>2, <2>3, <2>4, <2>5, <2>6 DEF Next
<1>. QED BY <1>1, <1>2, InvariantHolds, PTL DEF Spec, UsesMailbox, Mailbox!PassSpec, MailboxStep

---------------------------------------------------------------------------
(* What the contract rests on, without faults.                             *)

\* The Move of the control in progress.
Current == at = "startMotion" \/ Unfinished
current == IF Current THEN motion_id ELSE NoMotion

\* The first response to the current Move may be on its way.
Unstarted ==
    at = "startMotion" /\ (step = "start.wait" \/ (step = "returned" /\ thrown # None))

HasMove == Current => motion_id # NoMotion
StartIsOver == Current /\ ~Unstarted => NoStart

\* The robot completes a motion only when finishMotion has asked for it.
CompletedOnRequest ==
    /\ step = "start.wait" => ~Running(cached)
    /\ command.id <= motion_id
    /\ Current /\ at # "finishMotion" =>
         /\ command.id = motion_id /\ command.finished => final[motion_id] # None
         /\ final[motion_id] # "kSuccess"

\* The modes of the current Move are known until finishMotion resets them, ...
MoveKnown ==
    /\ Current /\ at \notin {"cancelMotion", "terminated"}
    /\ ~(at = "finishMotion" /\ step = "returned" /\ thrown = None)
    => current_move.mg # "kIdle"

\* ... the caller writes when a state has shown them, ...
RunningUntilReported ==
    /\ \/ at \in {"user", "writeOnce"} /\ Unfinished /\ ~reported
       \/ at \in {"startMotion", "throwOnMotionError"} /\ step = "returned" /\ thrown = None
    => Running(cached)

\* ... and a command is one that sendRobotCommand accepts.
CommandFits ==
    /\ step = "update.send" /\ motion_command = None => ~control_command
    /\ \/ at = "writeOnce" /\ step = "update.send"
       \/ at = "finishMotion" /\ step \in {"update.send", "update.receive", "finish.poll"}
       => control_command = (current_move.ctl = "kExternalController")

\* A call that throws does so because of the verdict, reading a state does
\* not throw, and finishMotion returns on success.
ThrownOnVerdict ==
    /\ thrown # "NetworkException"
    /\ at = "readOnce" /\ step = "returned" => thrown = None
    /\ at \in {"startMotion", "throwOnMotionError"} /\ step = "returned" /\ thrown # None =>
          final[motion_id] # None
    /\ at = "throwOnMotionError" /\ step = "returned" /\ thrown # None =>
          thrown \in {"ControlException", "ProtocolException"}
    /\ at = "finishMotion" /\ step = "returned" /\ thrown # None =>
          final[motion_id] \notin {None, "kSuccess"}
    /\ at = "finishMotion" /\ step = "returned" /\ thrown = None => final[motion_id] = "kSuccess"

\* The StopMove of cancelMotion is answered only after the verdict.
StopMoveWaits == at \in {"cancelMotion", "terminated"} => StopsFirst(motion_id)

Flow == /\ HasMove /\ StartIsOver /\ CompletedOnRequest /\ MoveKnown /\ RunningUntilReported
        /\ CommandFits /\ ThrownOnVerdict

\* The inductive invariant, without faults.
CInv == /\ Numbered /\ DecidedOnce /\ Replies /\ link = "up" /\ InProgress(current)
        /\ Flow /\ StopMoveWaits

\* What the lemmas about the Move in progress need.
LEMMA MoveFacts ==
    ASSUME IInv, CInv
    PROVE  /\ TypeOK /\ ServerTypeOK /\ ImplTypeOK /\ MoveInExecution /\ Located /\ LockKept
           /\ Numbered /\ DecidedOnce /\ Replies /\ link = "up" /\ Flow
           /\ motion_id \in Nat /\ NoMotion \in Nat
           /\ Current => motion_id # NoMotion /\ motion_id \in CommandId /\ current = motion_id
           /\ Current /\ ~Unstarted => NoStart
           /\ ~Current => current = NoMotion
           /\ at \in {"readOnce", "throwOnMotionError", "writeOnce", "finishMotion", "cancelMotion",
                      "terminated"} => Current /\ NoStart
           /\ at \in {"cancelMotion", "terminated"} => StopsFirst(motion_id)
           /\ \E m : m = current /\ InProgress(m)
<1>1. motion_id \in CommandId \cup {NoMotion} /\ motion_id \in Nat /\ NoMotion \in Nat
  <2>1. motion_id \in CommandId \cup {NoMotion}
    BY DEF IInv, TypeOK, ImplTypeOK
  <2>. QED BY <2>1, IdsAreNumbers DEF NoMotion
<1>2. LockKept /\ HasMove /\ StartIsOver
  BY DEF IInv, CInv, Flow
<1>3. at \in {"readOnce", "throwOnMotionError", "writeOnce", "finishMotion", "cancelMotion",
             "terminated"} => Current /\ NoStart
  BY <1>2 DEF LockKept, StartIsOver, Current, Unstarted
<1>4. \E m : m = current /\ InProgress(m)
  BY DEF CInv
<1>. QED BY <1>1, <1>2, <1>3, <1>4
     DEF IInv, TypeOK, CInv, HasMove, StartIsOver, StopMoveWaits, current

\* The conjuncts of CInv in terms of a constant m.
LEMMA MoveOf ==
    ASSUME NEW m, m = current', InProgress(m)', link' = "up", Numbered', DecidedOnce', Replies', Flow',
           at' \in {"cancelMotion", "terminated"} => m = motion_id' /\ StopsFirst(m)'
    PROVE  CInv'
<1>1. InProgress(current)'
  BY DEF InProgress, Live, current, Current, Unfinished
<1>2. StopMoveWaits'
  BY DEF StopMoveWaits, StopsFirst, Heard
<1>. QED BY <1>1, <1>2 DEF CInv

\* Where the control is.
flowVars == <<at, alive, control_finished, reported, step, thrown, motion_id, motion_command,
              control_command, current_move, cached>>

LEMMA FlowFrame ==
    ASSUME Flow, UNCHANGED flowVars
    PROVE  /\ HasMove' /\ MoveKnown' /\ RunningUntilReported' /\ CommandFits'
           /\ current' = current /\ (Current' <=> Current) /\ (Unstarted' <=> Unstarted)
BY DEF flowVars, Flow, HasMove, MoveKnown, RunningUntilReported, CommandFits, current, Current,
       Unstarted, Unfinished, Running, motionGeneratorRunning, controllerRunning

LEMMA FlowStays ==
    ASSUME Flow, UNCHANGED flowVars, UNCHANGED <<command, final>>, NoStart => NoStart'
    PROVE  Flow'
<1>1. CompletedOnRequest' /\ ThrownOnVerdict'
  BY DEF flowVars, Flow, CompletedOnRequest, ThrownOnVerdict, Current, Unfinished, Running,
         motionGeneratorRunning, controllerRunning
<1>2. StartIsOver'
  BY FlowFrame DEF Flow, StartIsOver
<1>. QED BY <1>1, <1>2, FlowFrame DEF Flow

---------------------------------------------------------------------------
(* The robot, Robot::Impl and other threads.                               *)
LEMMA ServerKeepsContract ==
    ASSUME Faults = {}, IInv, CInv, ServerNext, UNCHANGED <<implVars, activeVars>>
    PROVE  CInv'
<1>0. UNCHANGED flowVars /\ UNCHANGED link
  BY LinkStays DEF implVars, activeVars, flowVars
<1>1. PICK m : m = current /\ InProgress(m)
  BY MoveFacts
<1>2. /\ InProgress(m)'
      /\ m # NoMotion /\ NoStart /\ StopsFirst(m) => StopsFirst(m)'
      /\ m # NoMotion =>
           \/ final'[m] = final[m]
           \/ /\ final[m] = None /\ final'[m] \in MoveEnd
              /\ final'[m] = "kSuccess" => command.id = m /\ command.finished
      /\ command' \in {command, NoCommand}
  BY <1>1, MoveFacts, ServerKeepsMove
<1>3. Numbered' /\ DecidedOnce' /\ Replies' /\ (NoStart => NoStart')
  BY MoveFacts, ServerKeeps DEF implVars
<1>4. /\ HasMove' /\ MoveKnown' /\ RunningUntilReported' /\ CommandFits'
      /\ current' = current /\ (Current' <=> Current) /\ (Unstarted' <=> Unstarted)
  BY <1>0, MoveFacts, FlowFrame
<1>5. StartIsOver'
  BY <1>3, <1>4, MoveFacts DEF StartIsOver
<1>6. CompletedOnRequest'
  <2>1. /\ step = "start.wait" => ~Running(cached)
        /\ command.id <= motion_id
        /\ Current /\ at # "finishMotion" =>
             /\ command.id = motion_id /\ command.finished => final[motion_id] # None
             /\ final[motion_id] # "kSuccess"
    BY MoveFacts DEF Flow, CompletedOnRequest
  <2>2. /\ command'.id <= motion_id
        /\ Current /\ command'.id = motion_id => command' = command
    BY <1>2, <2>1, MoveFacts DEF NoCommand, NoMotion
  <2>3. Current => m = motion_id /\ m # NoMotion
    BY <1>1, MoveFacts
  <2>4. Current /\ at # "finishMotion" =>
            /\ command'.id = motion_id /\ command'.finished => final'[motion_id] # None
            /\ final'[motion_id] # "kSuccess"
    BY <1>2, <2>1, <2>2, <2>3, StatusFacts, NoneFacts
  <2>. QED BY <1>0, <1>4, <2>1, <2>2, <2>4
       DEF flowVars, CompletedOnRequest, Running, motionGeneratorRunning, controllerRunning
<1>7. ThrownOnVerdict'
  <2>1. at \in {"startMotion", "throwOnMotionError", "finishMotion"} => m = motion_id /\ m # NoMotion
    BY <1>1, MoveFacts DEF Current
  <2>2. at \in {"startMotion", "throwOnMotionError", "finishMotion"} /\ final[motion_id] # None =>
            final'[motion_id] = final[motion_id]
    BY <1>2, <2>1
  <2>3. "kSuccess" # None
    BY DEF None
  <2>. QED BY <1>0, <2>2, <2>3, MoveFacts DEF flowVars, Flow, ThrownOnVerdict
<1>8. at' \in {"cancelMotion", "terminated"} => m = motion_id' /\ StopsFirst(m)'
  <2>1. ASSUME at \in {"cancelMotion", "terminated"}
        PROVE  m = motion_id /\ m # NoMotion /\ NoStart /\ StopsFirst(m)
    BY <1>1, <2>1, MoveFacts
  <2>. QED BY <1>0, <1>2, <2>1 DEF flowVars
<1>. QED BY <1>0, <1>1, <1>2, <1>3, <1>4, <1>5, <1>6, <1>7, <1>8, MoveFacts, MoveOf DEF Flow

LEMMA OtherKeepsContract ==
    ASSUME IInv, CInv, OtherReceive, UNCHANGED activeVars
    PROVE  CInv'
<1>0. UNCHANGED flowVars /\ UNCHANGED <<command, final>>
  BY DEF OtherReceive, activeVars, flowVars, serverVars
<1>1. PICK m : m = current /\ InProgress(m)
  BY MoveFacts
<1>2. InProgress(m)' /\ (StopsFirst(m) => StopsFirst(m)') /\ UNCHANGED link
  BY <1>1, MoveFacts, OtherReceiveKeepsMove
<1>3. Numbered' /\ DecidedOnce' /\ Replies' /\ (NoStart => NoStart')
  BY MoveFacts, OtherReceiveKeeps
<1>4. Flow' /\ current' = current
  BY <1>0, <1>3, MoveFacts, FlowFrame, FlowStays
<1>5. at' \in {"cancelMotion", "terminated"} => m = motion_id' /\ StopsFirst(m)'
  <2>1. at \in {"cancelMotion", "terminated"} => m = motion_id /\ StopsFirst(m)
    BY <1>1, MoveFacts
  <2>. QED BY <1>0, <1>2, <2>1 DEF flowVars
<1>. QED BY <1>1, <1>2, <1>3, <1>4, <1>5, MoveFacts, MoveOf

LEMMA StopKeepsContract ==
    ASSUME IInv, CInv, NEW c \in {"kStopMove", "kAutomaticErrorRecovery"}, Stop(c)
    PROVE  CInv'
<1>0. /\ SendRequest(c, IdleModes) /\ UNCHANGED flowVars
      /\ UNCHANGED <<serverVars, final, toClient, received_responses_, command, link, stop_id,
                     step, motion_id>>
  BY DEF Stop, OtherRequest, activeVars, flowVars, serverVars
<1>1. command_id_ \in CommandId /\ c \in Command \ {"kMove"} /\ c \in Command /\ IdleModes \in Modes
  BY MoveFacts, NoneFacts, BoundsAssumption DEF Stop, IdsFor, Reserved, ImplTypeOK, CommandId, Command
<1>2. PICK m : m = current /\ InProgress(m)
  BY MoveFacts
<1>3. InProgress(m)' /\ (StopsFirst(m) => StopsFirst(m)')
  BY <1>0, <1>1, <1>2, MoveFacts, RequestKeepsMove
<1>4. Numbered' /\ DecidedOnce' /\ Replies' /\ (NoStart => NoStart')
  BY <1>0, <1>1, MoveFacts, SendingKeeps
<1>5. Flow' /\ current' = current
  BY <1>0, <1>4, MoveFacts, FlowFrame, FlowStays
<1>6. at' \in {"cancelMotion", "terminated"} => m = motion_id' /\ StopsFirst(m)'
  <2>1. at \in {"cancelMotion", "terminated"} => m = motion_id /\ StopsFirst(m)
    BY <1>2, MoveFacts
  <2>. QED BY <1>0, <1>3, <2>1 DEF flowVars
<1>. QED BY <1>0, <1>2, <1>3, <1>4, <1>5, <1>6, MoveFacts, MoveOf

\* MoveException is no exception of the network.
LEMMA MoveExceptionIs ==
    ASSUME NEW s \in Status
    PROVE  MoveException(s) \in {None, "ProtocolException", "CommandException"}
BY DEF MoveException

\* No command that update() is called with is refused.
LEMMA CommandAccepted ==
    ASSUME IInv, Flow, at \in {"writeOnce", "finishMotion"}, step = "update.send",
           motion_command # None
    PROVE  SendException = None
<1>1. Current
  BY DEF IInv, LockKept, Current
<1>2. current_move.mg # "kIdle" /\ control_command = (current_move.ctl = "kExternalController")
  BY <1>1 DEF Flow, MoveKnown, CommandFits
<1>. QED BY <1>2 DEF SendException

\* Without faults, update() does not throw.
LEMMA UpdateReturns ==
    ASSUME Faults = {}, IInv, CInv, ImplStep, step \in {"update.send", "update.receive"}
    PROVE  /\ step = "update.send" => UpdateSend /\ step' = "update.receive" /\ thrown' = thrown
           /\ step = "update.receive" => /\ UpdateReceive
                                        /\ IF resume = "returned" THEN Return ELSE Goto(resume)
<1>0. ImplNext /\ link = "up" /\ Located /\ Flow /\ step \in Step /\ at \in At /\ LockKept
  BY DEF ImplStep, CInv, IInv, TypeOK, ImplTypeOK
<1>1. CASE step = "update.send"
  <2>1. UpdateSend
    BY <1>0, <1>1, StepOf DEF UpdateClosed
  <2>2. motion_command = None => ~control_command
    BY <1>0, <1>1 DEF Flow, CommandFits
  <2>3. motion_command # None => SendException = None
    BY <1>0, <1>1, CommandAccepted DEF Located, At
  <2>. QED BY <1>1, <2>1, <2>2, <2>3 DEF UpdateSend, Goto
<1>2. CASE step = "update.receive"
  BY <1>0, <1>2, StepOf, NoFault DEF UpdateReceive
<1>. QED BY <1>1, <1>2

\* What a step of Robot::Impl leaves.
LEMMA ImplFrame ==
    ASSUME ServerTypeOK, ImplTypeOK, ImplNext
    PROVE  /\ UNCHANGED <<final, motion_id, command_id_>>
           /\ \/ command' = command
              \/ (step = "update.send"
                  /\ command' = [id |-> motion_id, finished |-> motion_command = "finished"])
           /\ cached' = cached \/ step \in {"update.receive", "cancel.receive"}
           /\ current_move' = current_move
                \/ (step \in {"finish.wait", "cancel.ignore"} /\ step' = "returned" /\ thrown' = None)
           /\ step' = "start.wait" => step = "start.wait"
           /\ \/ (step' # "update.send" /\ UNCHANGED <<motion_command, control_command>>)
              \/ (step = "start.poll" /\ motion_command' = None /\ control_command' = FALSE)
              \/ (step = "finish.poll" /\ motion_command' = "finished"
                  /\ control_command' = control_command)
<1>0. UNCHANGED <<final, motion_id, command_id_>>
  BY ImplPass DEF serverVars
<1>1. /\ \/ command' = command
         \/ (step = "update.send"
             /\ command' = [id |-> motion_id, finished |-> motion_command = "finished"])
      /\ cached' = cached \/ step \in {"update.receive", "cancel.receive"}
  BY DEF ImplNext, UpdateSend, UpdateClosed, UpdateReceive, StartWait, StartPoll, ErrorWait,
         FinishPoll, FinishWait, CancelWait, CancelReceive, CancelIgnore, netVars
<1>2. current_move' = current_move
        \/ (step \in {"finish.wait", "cancel.ignore"} /\ step' = "returned" /\ thrown' = None)
  BY DEF ImplNext, UpdateSend, UpdateClosed, UpdateReceive, StartWait, StartPoll, ErrorWait,
         FinishPoll, FinishWait, CancelWait, CancelReceive, CancelIgnore, Return, Goto, Throw
<1>3. step' = "start.wait" => step = "start.wait"
  BY DEF ImplNext, UpdateSend, UpdateClosed, UpdateReceive, StartWait, StartPoll, ErrorWait,
         FinishPoll, FinishWait, CancelWait, CancelReceive, CancelIgnore, Return, Goto, Throw,
         CallUpdate, ImplTypeOK
<1>4. \/ (step' # "update.send" /\ UNCHANGED <<motion_command, control_command>>)
      \/ (step = "start.poll" /\ motion_command' = None /\ control_command' = FALSE)
      \/ (step = "finish.poll" /\ motion_command' = "finished"
          /\ control_command' = control_command)
  BY DEF ImplNext, UpdateSend, UpdateClosed, UpdateReceive, StartWait, StartPoll, ErrorWait,
         FinishPoll, FinishWait, CancelWait, CancelReceive, CancelIgnore, CallUpdate, Return, Goto,
         Throw, ImplTypeOK
<1>. QED BY <1>0, <1>1, <1>2, <1>3, <1>4

LEMMA ImplStarts ==
    ASSUME ServerTypeOK, ImplTypeOK, Numbered, DecidedOnce, Replies, HasMove, StartIsOver, ImplStep
    PROVE  StartIsOver'
<1>0. /\ ImplNext /\ UNCHANGED activeVars /\ (NoStart => NoStart')
      /\ Current => motion_id # NoMotion
      /\ Current /\ ~Unstarted => NoStart
  BY ImplKeeps DEF ImplStep, HasMove, StartIsOver
<1>1. UNCHANGED <<at, alive, control_finished>> /\ (Current' <=> Current)
  BY <1>0 DEF activeVars, Current, Unfinished
<1>2. ASSUME at = "startMotion", step = "start.wait"
      PROVE  Unstarted' \/ NoStart'
  <2>1. StartWait /\ motion_id # NoMotion
    BY <1>0, <1>2, StepOf DEF Current
  <2>2. CASE UNCHANGED <<step, thrown>>
    BY <1>1, <1>2, <2>2 DEF Unstarted
  <2>3. CASE Throw("NetworkException")
    BY <1>1, <1>2, <2>3 DEF Unstarted, Throw, None
  <2>4. ASSUME NEW s \in Status, Take(motion_id, s)
        PROVE  NoStart'
    BY <2>1, <2>4, TakingLeavesNoStart DEF StartWait
  <2>. QED BY <2>1, <2>2, <2>3, <2>4 DEF StartWait
<1>3. step # "returned"
  BY <1>0, StepOf
<1>. QED BY <1>0, <1>1, <1>2, <1>3 DEF StartIsOver, Unstarted

\* A call of Robot::Impl that returns.
LEMMA ImplReturns ==
    ASSUME Faults = {}, IInv, CInv, ImplStep
    PROVE  RunningUntilReported' /\ ThrownOnVerdict'
<1>0. /\ ServerTypeOK /\ ImplTypeOK /\ Located /\ Replies /\ ImplNext /\ Flow /\ link = "up"
      /\ UNCHANGED <<at, alive, control_finished, reported, final, motion_id>>
      /\ final \in [CommandId -> MoveEnd \cup {None}] /\ step # "returned" /\ at \in At
      /\ ~Interrupted /\ ~Silence
  BY MoveFacts, ImplFrame, StepOf, NoFault DEF ImplStep, activeVars, TypeOK, ServerTypeOK
<1>1. CASE at \in {"user", "terminated"}
  BY <1>0, <1>1 DEF Located
<1>2. CASE at = "startMotion"
  <2>0. /\ Current /\ motion_id # NoMotion /\ motion_id \in CommandId /\ current_move.mg # "kIdle"
        /\ final[motion_id] # "kSuccess" /\ (step # "start.wait" => NoStart)
        /\ (step = "start.wait" => ~Running(cached))
        /\ step \in {"start.wait", "start.poll", "update.send", "update.receive"}
    BY <1>0, <1>2, MoveFacts
    DEF Current, Flow, MoveKnown, CompletedOnRequest, Unstarted, Located
  <2>1. step' = "returned" /\ thrown' # None => final[motion_id] # None
    <3>1. step = "update.send" => motion_command = None /\ ~control_command
      BY <1>0, <1>2 DEF Located, Flow, CommandFits
    <3>. QED BY <1>0, <2>0, <3>1, ThrowsOnVerdict
  <2>2. step' = "returned" /\ thrown' = None => Running(cached')
    <3>1. CASE step = "start.poll"
      <4>1. StartPoll /\ UNCHANGED <<cached, current_move>>
        BY <1>0, <3>1, StepOf DEF StartPoll
      <4>2. CASE cached.modes = current_move
        BY <2>0, <4>1, <4>2 DEF Running, motionGeneratorRunning
      <4>3. ASSUME NEW map \in Maps, NEW s \in Status, map[motion_id] = s
            PROVE  MoveException(s) # None
        <5>1. s = final[motion_id] /\ (MoveException(s) = None => s = "kSuccess")
          BY <1>0, <2>0, <3>1, <4>3, FoundIsVerdict
        <5>. QED BY <2>0, <5>1
      <4>. QED BY <1>0, <4>1, <4>2, <4>3 DEF StartPoll, Throw, CallUpdate, None
    <3>2. CASE step = "start.wait"
      BY <1>0, <3>2, StepOf DEF StartWait, Goto, Throw
    <3>3. CASE step \in {"update.send", "update.receive"}
      BY <1>0, <1>2, <3>3, UpdateReturns DEF Located, Goto
    <3>. QED BY <2>0, <3>1, <3>2, <3>3
  <2>3. thrown' # "NetworkException"
    <3>1. CASE step = "start.wait"
      BY <1>0, <3>1, StepOf, MoveExceptionIs
      DEF StartWait, Goto, Throw, Flow, ThrownOnVerdict
    <3>2. CASE step = "start.poll"
      BY <1>0, <3>2, StepOf, MoveExceptionIs
      DEF StartPoll, Return, Throw, Flow, ThrownOnVerdict, None
    <3>3. CASE step \in {"update.send", "update.receive"}
      BY <1>0, <1>2, <3>3, UpdateReturns DEF Located, Goto, Flow, ThrownOnVerdict
    <3>. QED BY <2>0, <3>1, <3>2, <3>3
  <2>. QED BY <1>0, <1>2, <2>1, <2>2, <2>3
       DEF RunningUntilReported, ThrownOnVerdict, Running, motionGeneratorRunning, controllerRunning
<1>3. CASE at \in {"readOnce", "Robot::read", "writeOnce"}
  <2>1. step \in {"update.send", "update.receive"} /\ (at = "writeOnce" => step = "update.send")
    BY <1>0, <1>3 DEF Located, ImplStep, WriteSent
  <2>2. /\ step = "update.send" => step' = "update.receive" /\ thrown' = thrown /\ UNCHANGED cached
        /\ step = "update.receive" => IF resume = "returned" THEN Return ELSE Goto(resume)
    BY <1>0, <2>1, UpdateReturns, ImplFrame
  <2>. QED BY <1>0, <1>3, <2>1, <2>2
       DEF Return, Goto, Located, Flow, RunningUntilReported, ThrownOnVerdict, Unfinished, Running,
           motionGeneratorRunning, controllerRunning, None
<1>4. CASE at = "throwOnMotionError"
  <2>0. step = "error.wait" /\ motion_id # NoMotion /\ motion_id \in CommandId /\ NoStart
    BY <1>0, <1>4, MoveFacts DEF Located
  <2>1. ErrorWait
    BY <1>0, <2>0, StepOf
  <2>2. CASE UNCHANGED <<step, thrown>>
    BY <1>0, <1>4, <2>0, <2>2 DEF Flow, RunningUntilReported, ThrownOnVerdict
  <2>3. ASSUME NEW s \in Status, Take(motion_id, s),
               Throw(IF MoveException(s) = "CommandException"
                     THEN "ControlException" ELSE "ProtocolException")
        PROVE  RunningUntilReported' /\ ThrownOnVerdict'
    <3>1. PICK map \in Maps : map[motion_id] = s
      BY <2>3 DEF Take
    <3>2. final[motion_id] # None
      BY <1>0, <2>0, <3>1, FoundIsVerdict, StatusFacts
    <3>3. step' = "returned" /\ thrown' \in {"ControlException", "ProtocolException"}
      BY <2>3 DEF Throw
    <3>. QED BY <1>0, <1>4, <3>2, <3>3 DEF RunningUntilReported, ThrownOnVerdict, None
  <2>. QED BY <1>0, <2>1, <2>2, <2>3 DEF ErrorWait
<1>5. CASE at = "finishMotion"
  <2>0. /\ step \in {"update.send", "update.receive", "finish.poll", "finish.wait"}
        /\ motion_id # NoMotion /\ motion_id \in CommandId /\ NoStart
    BY <1>0, <1>5, MoveFacts DEF Located
  <2>1. CASE step = "finish.wait"
    <3>1. FinishWait
      BY <1>0, <2>1, StepOf
    <3>2. CASE UNCHANGED <<step, thrown>>
      BY <1>0, <1>5, <2>1, <3>2 DEF Flow, RunningUntilReported, ThrownOnVerdict
    <3>3. ASSUME NEW s \in Status, Take(motion_id, s),
                 IF MoveException(s) = None THEN Return
                 ELSE Throw(IF MoveException(s) = "CommandException"
                            THEN "ControlException" ELSE MoveException(s))
          PROVE  RunningUntilReported' /\ ThrownOnVerdict'
      <4>1. PICK map \in Maps : map[motion_id] = s
        BY <3>3 DEF Take
      <4>2. /\ s = final[motion_id] /\ s # None
            /\ MoveException(s) \in {None, "CommandException"}
            /\ MoveException(s) = None <=> s = "kSuccess"
        BY <1>0, <2>0, <4>1, FoundIsVerdict, StatusFacts DEF MoveException
      <4>3. /\ step' = "returned" /\ thrown' \in {None, "ControlException"}
            /\ thrown' = None <=> final[motion_id] = "kSuccess"
            /\ final[motion_id] # None
        BY <3>3, <4>2 DEF Return, Throw, None
      <4>. QED BY <1>0, <1>5, <4>3 DEF RunningUntilReported, ThrownOnVerdict, None
    <3>. QED BY <1>0, <3>1, <3>2, <3>3 DEF FinishWait
  <2>2. CASE step = "finish.poll"
    <3>1. step' # "returned" /\ thrown' = thrown
      BY <1>0, <2>2, StepOf DEF FinishPoll, CallUpdate
    <3>. QED BY <1>0, <1>5, <3>1 DEF Flow, RunningUntilReported, ThrownOnVerdict
  <2>3. CASE step \in {"update.send", "update.receive"}
    <3>1. step' # "returned" /\ thrown' = thrown
      BY <1>0, <1>5, <2>3, UpdateReturns DEF Located, Goto
    <3>. QED BY <1>0, <1>5, <3>1 DEF Flow, RunningUntilReported, ThrownOnVerdict
  <2>. QED BY <2>0, <2>1, <2>2, <2>3
<1>6. CASE at = "cancelMotion"
  <2>1. CancelWait \/ CancelReceive \/ CancelIgnore
    BY <1>0, <1>6, StepOf DEF Located
  <2>2. thrown' # "NetworkException"
    BY <1>0, <2>1
    DEF CancelWait, CancelReceive, CancelIgnore, Goto, Throw, Return, Flow, ThrownOnVerdict, None
  <2>. QED BY <1>0, <1>6, <2>2 DEF RunningUntilReported, ThrownOnVerdict
<1>. QED BY <1>0, <1>1, <1>2, <1>3, <1>4, <1>5, <1>6 DEF At

LEMMA ImplKeepsContract ==
    ASSUME Faults = {}, IInv, CInv, ImplStep
    PROVE  CInv'
<1>0. /\ ServerTypeOK /\ ImplTypeOK /\ Located /\ ImplNext /\ Flow /\ link = "up" /\ step # "returned"
      /\ UNCHANGED <<at, alive, control_finished, reported, final, motion_id>>
      /\ motion_id \in Nat /\ at \in At /\ (Current' <=> Current) /\ current' = current
  <2>1. /\ ServerTypeOK /\ ImplTypeOK /\ Located /\ Flow /\ link = "up" /\ motion_id \in Nat /\ at \in At
    BY MoveFacts DEF TypeOK
  <2>2. ImplNext /\ UNCHANGED <<at, alive, control_finished, reported>>
    BY DEF ImplStep, activeVars
  <2>3. UNCHANGED <<final, motion_id>> /\ step # "returned"
    BY <2>1, <2>2, ImplFrame, StepOf
  <2>. QED BY <2>1, <2>2, <2>3 DEF Current, Unfinished, current
<1>1. PICK m : m = current /\ InProgress(m)
  BY MoveFacts
<1>2. InProgress(m)' /\ (StopsFirst(m) => StopsFirst(m)') /\ UNCHANGED link
  BY <1>0, <1>1, ImplKeepsMove
<1>3. Numbered' /\ DecidedOnce' /\ Replies'
  BY <1>0, MoveFacts, ImplKeeps
<1>4. HasMove'
  BY <1>0 DEF Flow, HasMove
<1>5. CompletedOnRequest'
  <2>1. step' = "start.wait" => ~Running(cached')
    <3>1. step' = "start.wait" => step = "start.wait" /\ UNCHANGED cached
      BY <1>0, ImplFrame
    <3>. QED BY <1>0, <3>1
         DEF Flow, CompletedOnRequest, Running, motionGeneratorRunning, controllerRunning
  <2>2. CASE command' = command
    BY <1>0, <2>1, <2>2
    DEF Flow, CompletedOnRequest, Running, motionGeneratorRunning, controllerRunning
  <2>3. CASE /\ step = "update.send"
             /\ command' = [id |-> motion_id, finished |-> motion_command = "finished"]
    <3>1. at # "finishMotion" => motion_command # "finished"
      BY <1>0, <2>3 DEF Located, At, None
    <3>2. command'.id = motion_id /\ (at # "finishMotion" => ~command'.finished)
      BY <2>3, <3>1
    <3>3. Current' /\ at' # "finishMotion" => final'[motion_id'] # "kSuccess"
      BY <1>0 DEF Flow, CompletedOnRequest
    <3>. QED BY <1>0, <2>1, <3>2, <3>3
         DEF Flow, CompletedOnRequest, Running, motionGeneratorRunning, controllerRunning
  <2>. QED BY <1>0, <2>2, <2>3, ImplFrame
<1>6. MoveKnown'
  <2>1. current_move' = current_move
          \/ (step \in {"finish.wait", "cancel.ignore"} /\ step' = "returned" /\ thrown' = None)
    BY <1>0, ImplFrame
  <2>2. step = "finish.wait" => at = "finishMotion"
    BY <1>0 DEF Located, At
  <2>3. step = "cancel.ignore" => at = "cancelMotion"
    BY <1>0 DEF Located, At
  <2>. QED BY <1>0, <2>1, <2>2, <2>3 DEF Flow, MoveKnown
<1>7. CommandFits'
  <2>1. /\ \/ (step' # "update.send" /\ UNCHANGED <<motion_command, control_command>>)
           \/ (step = "start.poll" /\ motion_command' = None /\ control_command' = FALSE)
           \/ (step = "finish.poll" /\ motion_command' = "finished"
               /\ control_command' = control_command)
        /\ step' # "returned" => current_move' = current_move
    BY <1>0, ImplFrame
  <2>2. step' = "update.send" => step \in {"start.poll", "finish.poll"}
    BY <1>0 DEF ImplNext, UpdateSend, UpdateClosed, UpdateReceive, StartWait, StartPoll, ErrorWait,
                FinishPoll, FinishWait, CancelWait, CancelReceive, CancelIgnore, Return, Goto, Throw,
                ImplTypeOK
  <2>3. step' \in {"update.receive", "finish.poll"} =>
            step \in {"update.send", "update.receive", "finish.poll"}
    BY <1>0 DEF ImplNext, UpdateSend, UpdateClosed, UpdateReceive, StartWait, StartPoll, ErrorWait,
                FinishPoll, FinishWait, CancelWait, CancelReceive, CancelIgnore, Return, Goto, Throw,
                CallUpdate
  <2>4. /\ step = "start.poll" => at = "startMotion"
        /\ step = "finish.poll" => at = "finishMotion"
    BY <1>0 DEF Located, At
  <2>. QED BY <1>0, <2>1, <2>2, <2>3, <2>4 DEF Flow, CommandFits, None
<1>8. RunningUntilReported' /\ ThrownOnVerdict' /\ StartIsOver'
  BY ImplReturns, MoveFacts, ImplStarts DEF Flow
<1>9. at' \in {"cancelMotion", "terminated"} => m = motion_id' /\ StopsFirst(m)'
  <2>1. at \in {"cancelMotion", "terminated"} => m = motion_id /\ StopsFirst(m)
    BY <1>1, MoveFacts
  <2>. QED BY <1>0, <1>2, <2>1
<1>. QED BY <1>0, <1>1, <1>2, <1>3, <1>4, <1>5, <1>6, <1>7, <1>8, <1>9, MoveOf DEF Flow

---------------------------------------------------------------------------
(* The calls of the user, and how they end.                                *)

\* A call tells how the motion ended, or goes on with it.
Tells ==
    /\ Current /\ ~Current' /\ final[motion_id] # None
    /\ outcome' = [outcome EXCEPT ![motion_id] =
                     IF final[motion_id] = "kSuccess" THEN "returned" ELSE "thrown"]
GoesOn == (Current' <=> Current) /\ UNCHANGED outcome

LEMMA LocalSettles ==
    ASSUME IInv, CInv, Tells \/ GoesOn,
           UNCHANGED <<serverVars, toRobot, toClient, received_responses_, command_id_, motion_id>>
    PROVE  /\ Numbered' /\ DecidedOnce' /\ Replies' /\ (NoStart => NoStart')
           /\ \E m : m = current' /\ InProgress(m)'
           /\ \A m : m = current /\ UNCHANGED <<stop_id, step>> /\ StopsFirst(m) => StopsFirst(m)'
<1>1. Numbered' /\ DecidedOnce' /\ Replies' /\ (NoStart => NoStart')
  BY MoveFacts, LocalKeeps
<1>2. PICK m : m = current /\ InProgress(m)
  BY MoveFacts
<1>3. ASSUME GoesOn PROVE \E n : n = current' /\ InProgress(n)'
  <2>1. m = current' /\ InProgress(m)'
    BY <1>2, <1>3, MoveFacts, LocalKeepsMove DEF GoesOn, current
  <2>. QED BY <2>1
<1>4. ASSUME Tells PROVE \E n : n = current' /\ InProgress(n)'
  <2>1. InProgress(NoMotion)
    BY <1>2, <1>4, MoveFacts, MoveIsOver DEF Tells
  <2>2. InProgress(NoMotion)'
    BY <2>1, MoveFacts, LocalKeepsMove
  <2>3. NoMotion = current'
    BY <1>4 DEF Tells, current
  <2>. QED BY <2>2, <2>3
<1>5. \E n : n = current' /\ InProgress(n)'
  BY <1>3, <1>4
<1>6. ASSUME NEW n, n = current, UNCHANGED <<stop_id, step>>, StopsFirst(n)
      PROVE  StopsFirst(n)'
  BY <1>2, <1>6, MoveFacts, LocalKeepsMove
<1>. QED BY <1>1, <1>5, <1>6

LEMMA CallEndsFlow ==
    ASSUME IInv, CInv, CallEnds, NoStart => NoStart'
    PROVE  Flow' /\ (Tells \/ GoesOn)
<1>0. Flow /\ LockKept /\ Located /\ at \in At
  BY DEF IInv, CInv, TypeOK
<1>. USE DEF Flow, HasMove, StartIsOver, CompletedOnRequest, MoveKnown, RunningUntilReported,
             CommandFits, ThrownOnVerdict, Current, Unfinished, Unstarted, LockKept, Done, Tells, GoesOn,
             serverVars, netVars, implVars, Running, motionGeneratorRunning, controllerRunning
<1>1. CASE Started
  BY <1>0, <1>1 DEF Started
<1>2. CASE ReadDone
  <2>1. thrown = None /\ at = "readOnce" /\ Unfinished /\ current_move.mg # "kIdle"
    BY <1>0, <1>2 DEF ReadDone
  <2>2. /\ at' = "throwOnMotionError"
        /\ \/ step' = "error.wait" /\ UNCHANGED thrown
           \/ step' = "returned" /\ thrown' = None /\ Running(cached)
    BY <1>2, <2>1, NoErrorMeansRunning DEF ReadDone, CallThrowOnMotionError, Goto, Return
  <2>3. UNCHANGED <<alive, control_finished, reported, outcome, motion_id, final, command,
                    motion_command, control_command, current_move, cached>>
    BY <1>2 DEF ReadDone
  <2>. QED BY <1>0, <2>1, <2>2, <2>3
<1>3. CASE StateReturned
  BY <1>0, <1>3 DEF StateReturned
<1>4. CASE RobotReadDone
  BY <1>0, <1>4 DEF RobotReadDone
<1>5. CASE WriteDone
  BY <1>0, <1>5 DEF WriteDone, WriteSent
<1>6. CASE Finished
  <2>1. CASE thrown = None
    <3>1. /\ at = "finishMotion" /\ Unfinished /\ ~Unfinished' /\ at' = "user" /\ reported'
          /\ final[motion_id] = "kSuccess" /\ "kSuccess" # None
          /\ outcome' = [outcome EXCEPT ![motion_id] = "returned"]
      BY <1>0, <1>6, <2>1 DEF Finished, None
    <3>2. Tells
      BY <1>6, <3>1 DEF Finished
    <3>. QED BY <1>0, <1>6, <2>1, <3>1, <3>2 DEF Finished
  <2>2. CASE thrown # None
    BY <1>0, <1>6, <2>2 DEF Finished
  <2>. QED BY <2>1, <2>2
<1>7. CASE Destroyed
  <2>0. /\ at = "cancelMotion" /\ step = "returned" /\ Unfinished
        /\ final[motion_id] \notin {None, "kSuccess"}
    BY <1>0, <1>7, MoveFacts DEF Destroyed, StopsFirst, Heard
  <2>1. CASE thrown = None
    BY <1>0, <1>7, <2>0, <2>1 DEF Destroyed
  <2>2. CASE thrown # None
    BY <1>0, <1>7, <2>0, <2>2 DEF Destroyed
  <2>. QED BY <2>1, <2>2
<1>. QED BY <1>1, <1>2, <1>3, <1>4, <1>5, <1>6, <1>7 DEF CallEnds

LEMMA CallEndsKeepContract ==
    ASSUME IInv, CInv, CallEnds
    PROVE  CInv' /\ (Tells \/ GoesOn) /\ UNCHANGED <<motion_id, final>>
<1>1. UNCHANGED <<serverVars, toRobot, toClient, received_responses_, command_id_, motion_id, link, final>>
  BY DEF CallEnds, Started, ReadDone, StateReturned, RobotReadDone, WriteDone, Finished, Destroyed,
         serverVars, netVars, implVars
<1>2. NoStart => NoStart'
  BY <1>1, MoveFacts, LocalKeeps
<1>3. Flow' /\ (Tells \/ GoesOn)
  BY <1>2, CallEndsFlow
<1>4. PICK m : m = current' /\ InProgress(m)'
  BY <1>1, <1>3, LocalSettles
<1>5. ASSUME at' \in {"cancelMotion", "terminated"}
      PROVE  m = motion_id' /\ StopsFirst(m)'
  <2>1. at = "cancelMotion" /\ Unfinished /\ Unfinished' /\ UNCHANGED <<stop_id, step>>
    BY <1>5, MoveFacts
    DEF CallEnds, Started, ReadDone, StateReturned, RobotReadDone, WriteDone, Finished, Destroyed,
        Done, implVars, LockKept, Unfinished
  <2>2. m = motion_id' /\ m = current /\ StopsFirst(m)
    BY <1>1, <1>4, <2>1, MoveFacts DEF current, Current
  <2>. QED BY <1>1, <1>3, <2>1, <2>2, LocalSettles
<1>6. Numbered' /\ DecidedOnce' /\ Replies'
  BY <1>1, <1>3, LocalSettles
<1>. QED BY <1>1, <1>3, <1>4, <1>5, <1>6, MoveFacts, MoveOf

\* A call begins in which nothing is sent over TCP.
LocalCall ==
    \/ \E torques \in BOOLEAN : writeOnce(torques) \/ writeFinished(torques)
    \/ readOnce \/ RobotRead \/ RobotReadAgain
    \/ \E r \in Robots \ {impl_} : MoveRobot(r)

LEMMA LocalCallFlow ==
    ASSUME IInv, CInv, LocalCall, NoStart => NoStart'
    PROVE  Flow' /\ GoesOn
<1>0. Flow /\ LockKept /\ Located /\ at \in At
  BY DEF IInv, CInv, TypeOK
<1>. USE DEF Flow, HasMove, StartIsOver, CompletedOnRequest, MoveKnown, RunningUntilReported,
             CommandFits, ThrownOnVerdict, Current, Unfinished, Unstarted, LockKept, Done, GoesOn,
             serverVars, netVars, implVars, Running, motionGeneratorRunning, controllerRunning
<1>1. ASSUME NEW torques \in BOOLEAN, writeOnce(torques)
      PROVE  Flow' /\ GoesOn
  BY <1>0, <1>1 DEF writeOnce, WriteAccepted, CallUpdate, None
<1>2. ASSUME NEW torques \in BOOLEAN, writeFinished(torques)
      PROVE  Flow' /\ GoesOn
  <2>1. Running(cached) /\ Unfinished /\ at = "user"
    BY <1>0, <1>2 DEF writeFinished, WriteAccepted
  <2>2. /\ CallUpdate("finished", torques, "finish.poll") /\ UNCHANGED <<thrown, current_move>>
        /\ torques = (current_move.ctl = "kExternalController") /\ at' = "finishMotion"
        /\ UNCHANGED <<alive, control_finished, reported, outcome, motion_id, final, command, cached>>
    BY <1>2, <2>1 DEF writeFinished, WriteAccepted, CallFinishMotion
  <2>. QED BY <1>0, <2>1, <2>2 DEF CallUpdate, None
<1>3. CASE readOnce
  BY <1>0, <1>3 DEF readOnce, CallReadOnce
<1>4. CASE RobotRead
  BY <1>0, <1>4 DEF RobotRead, CallReadOnce, assertOwningLock
<1>5. CASE RobotReadAgain
  BY <1>0, <1>5 DEF RobotReadAgain, CallUpdate, activeVars
<1>6. ASSUME NEW r, MoveRobot(r)
      PROVE  Flow' /\ GoesOn
  BY <1>0, <1>6 DEF MoveRobot
<1>. QED BY <1>1, <1>2, <1>3, <1>4, <1>5, <1>6 DEF LocalCall

LEMMA LocalCallKeepsContract ==
    ASSUME IInv, CInv, LocalCall
    PROVE  CInv' /\ GoesOn /\ UNCHANGED <<motion_id, final>>
<1>1. /\ UNCHANGED <<serverVars, toRobot, toClient, received_responses_, command_id_, motion_id, link, final>>
      /\ at' \notin {"cancelMotion", "terminated"}
  BY DEF LocalCall, writeOnce, writeFinished, readOnce, RobotRead, RobotReadAgain, MoveRobot,
         CallReadOnce, Done, serverVars, netVars, implVars, activeVars
<1>2. NoStart => NoStart'
  BY <1>1, MoveFacts, LocalKeeps
<1>3. Flow' /\ GoesOn
  BY <1>2, LocalCallFlow
<1>4. PICK m : m = current' /\ InProgress(m)'
  BY <1>1, <1>3, LocalSettles
<1>5. Numbered' /\ DecidedOnce' /\ Replies'
  BY <1>1, <1>3, LocalSettles
<1>. QED BY <1>1, <1>3, <1>4, <1>5, MoveFacts, MoveOf

LEMMA DestroyKeepsContract ==
    ASSUME IInv, CInv, Destroy
    PROVE  CInv' /\ GoesOn /\ UNCHANGED <<motion_id, final>>
<1>0. /\ UNCHANGED <<serverVars, final, motion_id, toClient, received_responses_, link, command, cached,
                     current_move, motion_command, control_command, control_finished, reported, outcome>>
      /\ at = "user" /\ step = "returned" /\ alive
  BY DEF Destroy, Done, serverVars
<1>1. CASE control_finished
  <2>1. UNCHANGED <<at, toRobot, command_id_, stop_id, step, thrown>> /\ alive' = FALSE
    BY <1>1 DEF Destroy
  <2>2. GoesOn
    BY <1>0, <1>1, <2>1 DEF GoesOn, Current, Unfinished
  <2>3. NoStart => NoStart'
    BY <1>0, <2>1, MoveFacts, LocalKeeps
  <2>4. Flow'
    BY <1>0, <1>1, <2>1, <2>3, MoveFacts
    DEF Flow, HasMove, StartIsOver, CompletedOnRequest, MoveKnown, RunningUntilReported, CommandFits,
        ThrownOnVerdict, Current, Unfinished, Running, motionGeneratorRunning, controllerRunning
  <2>5. PICK m : m = current' /\ InProgress(m)'
    BY <1>0, <2>1, <2>2, LocalSettles
  <2>6. Numbered' /\ DecidedOnce' /\ Replies'
    BY <1>0, <2>1, <2>2, LocalSettles
  <2>. QED BY <1>0, <2>1, <2>2, <2>4, <2>5, <2>6, MoveFacts, MoveOf
<1>2. CASE ~control_finished
  <2>1. /\ at' = "cancelMotion" /\ step' = "cancel.wait" /\ stop_id' = command_id_
        /\ SendRequest("kStopMove", IdleModes) /\ UNCHANGED <<alive, thrown>>
        /\ "kStopMove" \in Command \ {"kMove"} /\ "kStopMove" \in Command /\ IdleModes \in Modes
    BY <1>2, NoneFacts DEF Destroy, CallCancelMotion, Goto, Command
  <2>2. command_id_ \in CommandId
    BY <1>0, <1>2, BoundsAssumption
    DEF IInv, TypeOK, ImplTypeOK, IdsSuffice, Reserved, Unfinished, CommandId
  <2>3. PICK m : m = current /\ InProgress(m)
    BY MoveFacts
  <2>4. InProgress(m)' /\ StopsFirst(m)'
    BY <1>0, <2>1, <2>2, <2>3, MoveFacts, RequestKeepsMove
  <2>5. Numbered' /\ DecidedOnce' /\ Replies' /\ (NoStart => NoStart')
    BY <1>0, <2>1, <2>2, MoveFacts, SendingKeeps
  <2>6. Current /\ Current' /\ GoesOn /\ ~Unstarted
    BY <1>0, <1>2, <2>1 DEF Current, Unfinished, GoesOn, Unstarted
  <2>7. Flow'
    BY <1>0, <1>2, <2>1, <2>5, <2>6, MoveFacts
    DEF Flow, HasMove, StartIsOver, CompletedOnRequest, MoveKnown, RunningUntilReported, CommandFits,
        ThrownOnVerdict
  <2>8. m = current' /\ m = motion_id'
    BY <1>0, <2>3, <2>6 DEF current
  <2>. QED BY <1>0, <2>4, <2>5, <2>6, <2>7, <2>8, MoveFacts, MoveOf
<1>. QED BY <1>1, <1>2

LEMMA StartKeepsContract ==
    ASSUME IInv, CInv, NEW modes \in MoveModes, startControl(modes)
    PROVE  /\ CInv' /\ UNCHANGED <<final, outcome>> /\ ~Current
           /\ \/ UNCHANGED motion_id /\ ~Current'
              \/ /\ Current' /\ motion_id' = command_id_ /\ command_id_ \in CommandId
                 /\ final[command_id_] = None
<1>0. /\ UNCHANGED <<serverVars, final, toClient, received_responses_, link, command, cached,
                     motion_command, control_command, control_finished, outcome>>
      /\ at = "user" /\ step = "returned" /\ ~Unfinished /\ ~Current
  BY MoveFacts
  DEF startControl, assertOwningLock, Done, serverVars, LockKept, Current
<1>1. CASE Running(cached)
  <2>1. /\ UNCHANGED <<at, alive, reported, current_move, command_id_, motion_id, toRobot, step>>
        /\ thrown' = "ControlException"
    BY <1>0, <1>1 DEF startControl, CallStartMotion, Throw
  <2>2. GoesOn /\ ~Current'
    BY <1>0, <2>1 DEF GoesOn, Current, Unfinished
  <2>3. NoStart => NoStart'
    BY <1>0, <2>1, MoveFacts, LocalKeeps
  <2>4. Flow'
    BY <1>0, <2>1, <2>2, MoveFacts
    DEF Flow, HasMove, StartIsOver, CompletedOnRequest, MoveKnown, RunningUntilReported, CommandFits,
        ThrownOnVerdict, Current, Unfinished, Running, motionGeneratorRunning, controllerRunning
  <2>5. PICK m : m = current' /\ InProgress(m)'
    BY <1>0, <2>1, <2>2, LocalSettles
  <2>6. Numbered' /\ DecidedOnce' /\ Replies'
    BY <1>0, <2>1, <2>2, LocalSettles
  <2>. QED BY <1>0, <2>1, <2>2, <2>4, <2>5, <2>6, MoveFacts, MoveOf
<1>2. CASE ~Running(cached)
  <2>1. /\ at' = "startMotion" /\ step' = "start.wait" /\ motion_id' = command_id_
        /\ current_move' = modes /\ UNCHANGED thrown
        /\ CallStartMotion(modes) /\ SendRequest("kMove", modes)
        /\ "kMove" \in Command /\ modes \in Modes /\ modes.mg # "kIdle"
    BY <1>2, MoveModesAssumption DEF startControl, CallStartMotion, Goto, Command, Modes
  <2>2. command_id_ \in CommandId
    BY MoveFacts, BoundsAssumption DEF startControl, IdsFor, ImplTypeOK, CommandId
  <2>3. PICK n \in CommandId : n = command_id_
    BY <2>2
  <2>4. InProgress(NoMotion)
    BY <1>0, MoveFacts
  <2>5. InProgress(n)'
    BY <1>0, <1>2, <2>1, <2>3, <2>4, MoveFacts, StartKeepsMove
  <2>6. Numbered' /\ DecidedOnce' /\ Replies'
    BY <1>0, <2>1, <2>2, MoveFacts, SendingKeeps
  <2>7. Current' /\ Unstarted' /\ current' = n /\ n # NoMotion
    BY <2>1, <2>3, NoneFacts DEF Current, Unstarted, current
  <2>8. final[command_id_] = None /\ motion_id < command_id_ /\ command_id_ \in Nat
    BY <2>2, MoveFacts, IdsAreNumbers DEF Numbered
  <2>9. CompletedOnRequest'
    <3>1. command.id <= motion_id /\ command.id \in Nat /\ motion_id \in Nat
      <4>1. command.id \in CommandId \cup {NoMotion}
        BY MoveFacts DEF ServerTypeOK
      <4>. QED BY <4>1, MoveFacts, IdsAreNumbers DEF Flow, CompletedOnRequest
    <3>2. command.id < command_id_
      BY <2>8, <3>1
    <3>3. final[command_id_] # "kSuccess"
      BY <2>8 DEF None
    <3>4. step' = "start.wait" => ~Running(cached')
      BY <1>0, <1>2 DEF Running, motionGeneratorRunning, controllerRunning
    <3>. QED BY <1>0, <2>1, <2>8, <3>1, <3>2, <3>3, <3>4
         DEF CompletedOnRequest, Running, motionGeneratorRunning, controllerRunning
  <2>10. Flow'
    BY <1>0, <2>1, <2>3, <2>7, <2>9, MoveFacts
    DEF Flow, HasMove, StartIsOver, MoveKnown, RunningUntilReported, CommandFits, ThrownOnVerdict
  <2>. QED BY <1>0, <2>1, <2>2, <2>5, <2>6, <2>7, <2>8, <2>10, MoveFacts, MoveOf
<1>. QED BY <1>1, <1>2

LEMMA NextKeepsContract ==
    ASSUME Faults = {}
    PROVE  IInv /\ CInv /\ [Next]_vars => CInv'
<1>. SUFFICES ASSUME IInv, CInv, [Next]_vars PROVE CInv'
  OBVIOUS
<1>1. CASE UNCHANGED vars
  <2>1. GoesOn
    BY <1>1 DEF vars, activeVars, GoesOn, Current, Unfinished
  <2>2. UNCHANGED flowVars
    BY <1>1 DEF vars, implVars, activeVars, flowVars
  <2>3. UNCHANGED <<serverVars, netVars, implVars, at>>
    BY <1>1 DEF vars, activeVars
  <2>4. UNCHANGED <<serverVars, toRobot, toClient, received_responses_, command_id_, motion_id,
                    link, command, final, stop_id, step>>
    BY <2>3 DEF serverVars, netVars, implVars
  <2>5. Numbered' /\ DecidedOnce' /\ Replies' /\ (NoStart => NoStart')
    BY <2>1, <2>4, LocalSettles
  <2>6. Flow' /\ current' = current
    BY <2>2, <2>4, <2>5, MoveFacts, FlowStays, FlowFrame
  <2>7. PICK m : m = current' /\ InProgress(m)'
    BY <2>1, <2>4, LocalSettles
  <2>8. at \in {"cancelMotion", "terminated"} => m = motion_id' /\ StopsFirst(m)'
    BY <2>1, <2>4, <2>6, <2>7, MoveFacts, LocalSettles
  <2>. QED BY <2>3, <2>4, <2>5, <2>6, <2>7, <2>8, MoveFacts, MoveOf
<1>2. CASE User
  BY <1>2, StartKeepsContract, LocalCallKeepsContract, DestroyKeepsContract, StopKeepsContract
  DEF User, LocalCall
<1>. QED BY <1>1, <1>2, ServerKeepsContract, ImplKeepsContract, OtherKeepsContract,
            CallEndsKeepContract DEF Next

---------------------------------------------------------------------------
(* The steps of the contract.                                              *)
LEMMA ContractStutter ==
    ASSUME UNCHANGED <<motion_id, final>>, GoesOn
    PROVE  UNCHANGED Contract!vars
BY DEF Contract!vars, GoesOn, Current, Unfinished

LEMMA ContractCall ==
    ASSUME NEW m \in CommandId, ~Current, final[m] = None, Current', motion_id' = m,
           UNCHANGED <<final, outcome>>
    PROVE  Contract!Next
<1>1. Contract!Call(m)
  BY DEF Contract!Call, Current, Unfinished
<1>. QED BY <1>1 DEF Contract!Next

LEMMA ContractConclude ==
    ASSUME NEW s \in MoveEnd, Current, motion_id # NoMotion, Decided(motion_id, s), GoesOn,
           UNCHANGED motion_id
    PROVE  Contract!Next
<1>1. Contract!Conclude(s)
  BY DEF Contract!Conclude, Current, Unfinished, Decided, GoesOn
<1>. QED BY <1>1 DEF Contract!Next

LEMMA ContractReport ==
    ASSUME Tells, motion_id # NoMotion, UNCHANGED <<final>>
    PROVE  Contract!Next
<1>1. Contract!Report
  BY DEF Contract!Report, Tells, Current, Unfinished
<1>. QED BY <1>1 DEF Contract!Next

LEMMA StepIsInContract ==
    ASSUME Faults = {}, IInv, CInv, [Next]_vars
    PROVE  [Contract!Next]_(Contract!vars)
<1>0. UNCHANGED activeVars => GoesOn
  BY DEF activeVars, GoesOn, Current, Unfinished
<1>1. CASE ServerNext /\ UNCHANGED <<implVars, activeVars>>
  <2>1. GoesOn /\ UNCHANGED motion_id
    BY <1>0, <1>1 DEF implVars
  <2>2. PICK m : m = current /\ InProgress(m)
    BY MoveFacts
  <2>3. ASSUME NEW s \in MoveEnd, Decided(m, s)
        PROVE  Contract!Next
    <3>1. Current /\ m = motion_id /\ motion_id # NoMotion
      BY <2>2, <2>3, MoveFacts, NoneFacts DEF Decided
    <3>. QED BY <2>1, <2>3, <3>1, ContractConclude
  <2>. QED BY <1>1, <2>1, <2>2, <2>3, MoveFacts, VerdictOfMove, ContractStutter
<1>2. CASE ImplStep
  <2>1. UNCHANGED <<motion_id, final>>
    BY <1>2, MoveFacts, ImplFrame DEF ImplStep
  <2>. QED BY <1>0, <1>2, <2>1, ContractStutter DEF ImplStep
<1>3. CASE OtherReceive /\ UNCHANGED activeVars
  BY <1>0, <1>3, ContractStutter DEF OtherReceive, serverVars
<1>4. CASE CallEnds
  <2>1. (Tells \/ GoesOn) /\ UNCHANGED <<motion_id, final>>
    BY <1>4, CallEndsKeepContract
  <2>. QED BY <2>1, MoveFacts, ContractReport, ContractStutter DEF Tells
<1>5. ASSUME NEW modes \in MoveModes, startControl(modes)
      PROVE  [Contract!Next]_(Contract!vars)
  <2>1. /\ UNCHANGED <<final, outcome>> /\ ~Current
        /\ \/ UNCHANGED motion_id /\ ~Current'
           \/ /\ Current' /\ motion_id' = command_id_ /\ command_id_ \in CommandId
              /\ final[command_id_] = None
    BY <1>5, StartKeepsContract
  <2>2. CASE UNCHANGED motion_id /\ ~Current'
    BY <2>1, <2>2, ContractStutter DEF GoesOn
  <2>3. CASE Current'
    BY <2>1, <2>3, ContractCall
  <2>. QED BY <2>1, <2>2, <2>3
<1>6. CASE LocalCall \/ Destroy
  BY <1>6, LocalCallKeepsContract, DestroyKeepsContract, ContractStutter
<1>7. ASSUME NEW c \in {"kStopMove", "kAutomaticErrorRecovery"}, Stop(c)
      PROVE  UNCHANGED Contract!vars
  BY <1>0, <1>7, ContractStutter DEF Stop, OtherRequest, serverVars
<1>8. CASE UNCHANGED vars
  BY <1>0, <1>8, ContractStutter DEF vars, serverVars, implVars
<1>. QED BY <1>1, <1>2, <1>3, <1>4, <1>5, <1>6, <1>7, <1>8 DEF Next, User, LocalCall

LEMMA InitContract == Init => CInv /\ Contract!Init
<1>. SUFFICES ASSUME Init PROVE CInv /\ Contract!Init
  OBVIOUS
<1>. USE DEF Init, ServerInit, ImplInit
<1>1. Numbered /\ DecidedOnce
  BY BoundsAssumption DEF Numbered, DecidedOnce, NoMotion
<1>2. Replies
  BY DEF Replies, RepliesBelong, StartedFirst, UndecidedIsSilent
<1>3. ~Current /\ current = NoMotion
  BY DEF Current, Unfinished, current
<1>4. InProgress(current)
  BY <1>3 DEF InProgress, Live
<1>5. Flow
  BY <1>3 DEF Flow, HasMove, StartIsOver, CompletedOnRequest, MoveKnown, RunningUntilReported,
             CommandFits, ThrownOnVerdict, Unfinished, NoCommand, NoMotion, None
<1>6. StopMoveWaits
  BY DEF StopMoveWaits
<1>7. Contract!Init
  BY DEF Contract!Init, Unfinished
<1>. QED BY <1>1, <1>2, <1>4, <1>5, <1>6, <1>7 DEF CInv

\* CInv is inductive, relative to IInv.
LEMMA ContractInvariant ==
    ASSUME Faults = {}
    PROVE  Spec => []CInv
<1>1. Init => CInv
  BY InitContract
<1>2. IInv /\ CInv /\ [Next]_vars => CInv'
  BY NextKeepsContract
<1>. QED BY <1>1, <1>2, InvariantHolds, PTL DEF Spec

(* Without faults of the network, the robot executes a motion only while   *)
(* the control of this very motion holds control_mutex_ of the Robot that  *)
(* has the implementation, whatever the user and other threads do          *)
(* (robot.cpp:17, 32-47, 252-284, active_control.cpp:14-26).               *)
THEOREM RobotMovesUnderLock ==
    ASSUME Faults = {}
    PROVE  Spec => []MotionHoldsLock
<1>1. IInv /\ CInv => MotionHoldsLock
  <2>. SUFFICES ASSUME IInv, CInv, phase \in {"accepted", "moving"}
                PROVE  control_lock = impl_ /\ motion_id = active
    BY DEF MotionHoldsLock
  <2>1. active \in CommandId /\ active = current
    BY DEF IInv, MoveInExecution, CInv, InProgress, Live
  <2>2. Current /\ active = motion_id
    BY <2>1, NoneFacts DEF current
  <2>. QED BY <2>2 DEF Current, IInv, LockKept
<1>. QED BY <1>1, InvariantHolds, ContractInvariant, PTL

(* Without faults, ~ActiveControl lets an exception of cancelMotion escape *)
(* only when the robot had rejected or ended the motion without it         *)
(* (active_control.cpp:22-26, robot_impl.cpp:393-411).                     *)
THEOREM TerminationIsAfterEnd ==
    ASSUME Faults = {}
    PROVE  Spec => []TerminatesOnlyAfterEnd
<1>1. IInv /\ CInv => TerminatesOnlyAfterEnd
  <2>. SUFFICES ASSUME IInv, CInv, at = "terminated"
                PROVE  final[motion_id] \in MoveEnd \ {"kSuccess"}
    BY DEF TerminatesOnlyAfterEnd
  <2>1. /\ Current /\ motion_id \in CommandId /\ StopsFirst(motion_id) /\ Located /\ Flow
        /\ final \in [CommandId -> MoveEnd \cup {None}]
    BY MoveFacts DEF ServerTypeOK
  <2>2. final[motion_id] # None
    BY <2>1 DEF StopsFirst, Heard, Located
  <2>3. final[motion_id] # "kSuccess"
    BY <2>1 DEF Flow, CompletedOnRequest
  <2>. QED BY <2>1, <2>2, <2>3
<1>. QED BY <1>1, InvariantHolds, ContractInvariant, PTL

(* Without faults, a control reports an end only after the robot has       *)
(* decided on its Move, and once: writeOnce(MotionFinished) returns if the *)
(* robot completed it, and the lock is given back in no other way than by  *)
(* such a report (active_control.cpp:22-26, active_torque_control.cpp,     *)
(* active_motion_generator.cpp, robot_impl.cpp:208-411).                   *)
THEOREM ActiveControlKeepsContract ==
    ASSUME Faults = {}
    PROVE  Spec => ImplementsMotionContract
<1>1. Init => Contract!Init
  BY InitContract
<1>2. IInv /\ CInv /\ [Next]_vars => [Contract!Next]_(Contract!vars)
  BY StepIsInContract
<1>. QED BY <1>1, <1>2, InvariantHolds, ContractInvariant, PTL
     DEF Spec, ImplementsMotionContract, Contract!Spec
---------------------------------------------------------------------------
(* How writeOnce(MotionFinished) ends while the connection is up, with     *)
(* robot states missing at any time.                                       *)

\* The writeOnce that finishes a motion returns only if the robot completed it.
WriteThrowsOnFailure == \A id \in CommandId : outcome[id] = "returned" => final[id] = "kSuccess"

\* While a motion starts, nothing has asked the robot to complete it.
NotFinishedYet ==
    /\ command.id <= motion_id
    /\ at = "startMotion" => command.id # motion_id /\ final[motion_id] # "kSuccess"

\* After any call that told nothing of an end, a NetworkException included, ...
NothingTold ==
    \/ at \in {"user", "writeOnce"} /\ Unfinished /\ ~reported
    \/ at = "readOnce" /\ (step # "returned" \/ thrown # None)
    \/ at \in {"startMotion", "throwOnMotionError"} /\ step = "returned" /\ thrown = None
    \/ at = "finishMotion" /\ \/ step \in {"update.send", "update.receive"}
                              \/ step = "returned" /\ thrown = "NetworkException"

\* ... the last state shows the motion: finishMotion does not return early.
StillRunning == NothingTold => Running(cached)

\* update(nullptr, nullptr) commands nothing.
ReadsOnly == step = "update.send" /\ motion_command = None => ~control_command

\* throwOnMotionError throws what readOnce reports as the end.
ErrorIsTold ==
    at = "throwOnMotionError" /\ thrown # None => thrown \in {"ControlException", "ProtocolException"}

FinishesOnSuccess ==
    at = "finishMotion" /\ step = "returned" /\ thrown = None => final[motion_id] = "kSuccess"

Finishing == /\ HasMove /\ StartIsOver /\ MoveKnown
             /\ NotFinishedYet /\ StillRunning /\ ReadsOnly /\ ErrorIsTold /\ FinishesOnSuccess
             /\ WriteThrowsOnFailure

\* The inductive invariant: a lost connection is never restored.
WInv == Numbered /\ DecidedOnce /\ Replies /\ (link = "up" => Finishing)

LEMMA FinishingFacts ==
    ASSUME IInv, WInv
    PROVE  /\ TypeOK /\ ServerTypeOK /\ ImplTypeOK /\ MoveInExecution /\ Located /\ LockKept
           /\ Numbered /\ DecidedOnce /\ Replies /\ at \in At
           /\ command_id_ \in Nat /\ motion_id \in Nat /\ command.id \in Nat /\ NoMotion \in Nat
           /\ final \in [CommandId -> MoveEnd \cup {None}]
           /\ HasMove => (Current => motion_id # NoMotion /\ motion_id \in CommandId)
           /\ at \in {"readOnce", "throwOnMotionError", "writeOnce", "finishMotion", "cancelMotion",
                      "terminated"} => Current /\ ~Unstarted
<1>1. motion_id \in CommandId \cup {NoMotion} /\ command.id \in CommandId \cup {NoMotion}
  BY DEF IInv, TypeOK, ServerTypeOK, ImplTypeOK
<1>2. /\ motion_id \in Nat /\ command.id \in Nat /\ NoMotion \in Nat
      /\ HasMove => (Current => motion_id # NoMotion /\ motion_id \in CommandId)
  BY <1>1, IdsAreNumbers DEF NoMotion, HasMove
<1>3. command_id_ \in Nat
  BY BoundsAssumption DEF IInv, TypeOK, ImplTypeOK
<1>. QED BY <1>2, <1>3 DEF IInv, WInv, TypeOK, ServerTypeOK, LockKept, Current, Unstarted

\* Nothing but the requests, the responses or the robot has changed.
LEMMA FinishingStays ==
    ASSUME IInv, WInv, Finishing, UNCHANGED flowVars, UNCHANGED outcome, VerdictsStay,
           NoStart => NoStart', NotFinishedYet'
    PROVE  Finishing'
<1>1. /\ Current => motion_id \in CommandId
      /\ HasMove /\ StartIsOver /\ MoveKnown /\ StillRunning /\ ReadsOnly /\ ErrorIsTold
      /\ FinishesOnSuccess
      /\ WriteThrowsOnFailure /\ "kSuccess" # None
      /\ at = "finishMotion" => Current
  BY FinishingFacts DEF Finishing, None
<1>2. HasMove' /\ StartIsOver' /\ MoveKnown' /\ ReadsOnly' /\ ErrorIsTold'
  BY <1>1 DEF flowVars, HasMove, StartIsOver, MoveKnown, ReadsOnly, ErrorIsTold, Current, Unstarted, Unfinished
<1>3. StillRunning'
  BY <1>1 DEF flowVars, StillRunning, NothingTold, Unfinished, Running, motionGeneratorRunning,
              controllerRunning
<1>4. FinishesOnSuccess'
  <2>1. at = "finishMotion" /\ final[motion_id] = "kSuccess" => final'[motion_id] = "kSuccess"
    BY <1>1, FinishingFacts DEF VerdictsStay
  <2>. QED BY <1>1, <2>1 DEF flowVars, FinishesOnSuccess
<1>5. WriteThrowsOnFailure'
  BY <1>1 DEF WriteThrowsOnFailure, VerdictsStay
<1>. QED BY <1>2, <1>3, <1>4, <1>5 DEF Finishing

\* What holds of the connection and the robot's verdicts after every step.
LEMMA NextKeepsReplies ==
    ASSUME IInv, WInv, [Next]_vars
    PROVE  /\ Numbered' /\ DecidedOnce' /\ Replies' /\ VerdictsStay
           /\ motion_id' = motion_id => (NoStart => NoStart')
<1>. DEFINE Kept4 == UNCHANGED <<serverVars, toRobot, toClient, received_responses_, command_id_, motion_id>>
            Goal == /\ Numbered' /\ DecidedOnce' /\ Replies' /\ VerdictsStay
                    /\ motion_id' = motion_id => (NoStart => NoStart')
<1>0. Kept4 => Goal
  BY FinishingFacts, LocalKeeps
<1>1. CASE ServerNext /\ UNCHANGED <<implVars, activeVars>>
  BY <1>1, FinishingFacts, ServerKeeps
<1>2. CASE ImplStep
  BY <1>2, FinishingFacts, ImplKeeps DEF ImplStep
<1>3. CASE OtherReceive /\ UNCHANGED activeVars
  BY <1>3, FinishingFacts, OtherReceiveKeeps
<1>4. CASE CallEnds
  <2>1. Kept4
    BY <1>4 DEF CallEnds, Started, ReadDone, StateReturned, RobotReadDone, WriteDone, Finished,
                Destroyed, serverVars, netVars, implVars
  <2>. QED BY <1>0, <2>1
<1>5. ASSUME NEW modes \in MoveModes, startControl(modes) PROVE Goal
  <2>1. CASE Running(cached)
    <3>1. Kept4
      BY <1>5, <2>1 DEF startControl, CallStartMotion, serverVars
    <3>. QED BY <1>0, <3>1
  <2>2. CASE ~Running(cached)
    <3>1. /\ SendRequest("kMove", modes) /\ motion_id' = command_id_ /\ "kMove" \in Command /\ modes \in Modes
          /\ UNCHANGED <<serverVars, toClient, received_responses_>>
      BY <1>5, <2>2, MoveModesAssumption DEF startControl, CallStartMotion, Command, Modes
    <3>2. command_id_ \in CommandId
      BY <1>5, FinishingFacts, BoundsAssumption DEF startControl, IdsFor, ImplTypeOK, CommandId
    <3>. QED BY <3>1, <3>2, FinishingFacts, SendingKeeps
  <2>. QED BY <2>1, <2>2
<1>6. CASE LocalCall
  <2>1. Kept4
    BY <1>6 DEF LocalCall, writeOnce, writeFinished, readOnce, RobotRead, RobotReadAgain, MoveRobot,
                CallReadOnce, serverVars, netVars, implVars, activeVars
  <2>. QED BY <1>0, <2>1
<1>7. CASE Destroy
  <2>1. CASE control_finished
    <3>1. Kept4
      BY <1>7, <2>1 DEF Destroy, serverVars
    <3>. QED BY <1>0, <3>1
  <2>2. CASE ~control_finished
    <3>1. /\ SendRequest("kStopMove", IdleModes) /\ UNCHANGED motion_id
          /\ "kStopMove" \in Command /\ IdleModes \in Modes
          /\ UNCHANGED <<serverVars, toClient, received_responses_>>
      BY <1>7, <2>2, NoneFacts DEF Destroy, CallCancelMotion, Command
    <3>2. command_id_ \in CommandId
      BY <1>7, <2>2, FinishingFacts, BoundsAssumption
      DEF Destroy, Done, IInv, ImplTypeOK, IdsSuffice, Reserved, Unfinished, CommandId
    <3>. QED BY <3>1, <3>2, FinishingFacts, SendingKeeps
  <2>. QED BY <2>1, <2>2
<1>8. ASSUME NEW c \in {"kStopMove", "kAutomaticErrorRecovery"}, Stop(c) PROVE Goal
  <2>1. /\ SendRequest(c, IdleModes) /\ UNCHANGED motion_id /\ c \in Command /\ IdleModes \in Modes
        /\ UNCHANGED <<serverVars, toClient, received_responses_>>
    BY <1>8, NoneFacts DEF Stop, OtherRequest, Command
  <2>2. command_id_ \in CommandId
    BY <1>8, FinishingFacts, BoundsAssumption DEF Stop, IdsFor, Reserved, ImplTypeOK, CommandId
  <2>. QED BY <2>1, <2>2, FinishingFacts, SendingKeeps
<1>9. CASE UNCHANGED vars
  <2>1. Kept4
    BY <1>9 DEF vars, serverVars, netVars, implVars
  <2>. QED BY <1>0, <2>1
<1>. QED BY <1>1, <1>2, <1>3, <1>4, <1>5, <1>6, <1>7, <1>8, <1>9 DEF Next, User, LocalCall

\* A call of Robot::Impl that returns.
LEMMA ImplFinishes ==
    ASSUME IInv, WInv, Finishing, link = "up", ImplStep
    PROVE  StillRunning' /\ ErrorIsTold' /\ FinishesOnSuccess'
<1>0. /\ ServerTypeOK /\ ImplTypeOK /\ Located /\ Replies /\ ImplNext /\ at \in At /\ step # "returned"
      /\ UNCHANGED <<at, alive, control_finished, reported, final, motion_id>>
      /\ Current => motion_id # NoMotion /\ motion_id \in CommandId
      /\ cached' = cached \/ step \in {"update.receive", "cancel.receive"}
      /\ ~Interrupted /\ link = "up"
  BY FinishingFacts, ImplFrame, StepOf DEF ImplStep, activeVars, Finishing, Interrupted
<1>01. /\ Current /\ ~Unstarted => NoStart
       /\ NothingTold => Running(cached)
       /\ Current /\ at \notin {"cancelMotion", "terminated"} => current_move.mg # "kIdle"
  BY <1>0 DEF Finishing, StartIsOver, StillRunning, MoveKnown
<1>02. cached' = cached => (Running(cached') <=> Running(cached))
  BY DEF Running, motionGeneratorRunning, controllerRunning
<1>1. CASE at \in {"user", "terminated"}
  BY <1>0, <1>1 DEF Located
<1>2. CASE at = "startMotion"
  <2>0. /\ Current /\ motion_id # NoMotion /\ motion_id \in CommandId /\ current_move.mg # "kIdle"
        /\ final[motion_id] # "kSuccess" /\ (step # "start.wait" => NoStart)
        /\ step \in {"start.wait", "start.poll", "update.send", "update.receive"}
    BY <1>0, <1>01, <1>2 DEF Current, Finishing, NotFinishedYet, Unstarted, Located
  <2>1. step' = "returned" /\ thrown' = None => Running(cached')
    <3>1. CASE step = "start.poll"
      <4>1. StartPoll /\ UNCHANGED <<cached, current_move>>
        BY <1>0, <3>1, StepOf DEF StartPoll
      <4>2. CASE cached.modes = current_move
        BY <2>0, <4>1, <4>2 DEF Running, motionGeneratorRunning
      <4>3. ASSUME NEW map \in Maps, NEW s \in Status, map[motion_id] = s
            PROVE  MoveException(s) # None
        <5>1. s = final[motion_id] /\ (MoveException(s) = None => s = "kSuccess")
          BY <1>0, <2>0, <3>1, <4>3, FoundIsVerdict
        <5>. QED BY <2>0, <5>1
      <4>. QED BY <1>0, <4>1, <4>2, <4>3 DEF StartPoll, Throw, CallUpdate, None
    <3>2. CASE step = "start.wait"
      BY <1>0, <3>2, StepOf DEF StartWait, Goto, Throw
    <3>3. CASE step = "update.send"
      BY <1>0, <3>3, StepOf DEF UpdateSend, UpdateClosed, Goto, Throw
    <3>4. CASE step = "update.receive"
      BY <1>0, <1>2, <3>4, StepOf DEF Located, UpdateReceive, Goto, Throw, None
    <3>. QED BY <2>0, <3>1, <3>2, <3>3, <3>4
  <2>. QED BY <1>0, <1>2, <2>1 DEF StillRunning, NothingTold, ErrorIsTold, FinishesOnSuccess
<1>3. CASE at = "Robot::read"
  BY <1>0, <1>3 DEF StillRunning, NothingTold, ErrorIsTold, FinishesOnSuccess
<1>4. CASE at = "readOnce"
  <2>1. step \in {"update.send", "update.receive"} /\ Running(cached)
    BY <1>0, <1>01, <1>4 DEF Located, NothingTold
  <2>2. \/ Running(cached')
        \/ step' = "returned" /\ thrown' = None
    <3>1. CASE step = "update.send"
      BY <1>0, <1>02, <2>1, <3>1
    <3>2. CASE step = "update.receive"
      <4>1. resume = "returned" /\ UpdateReceive
        BY <1>0, <1>4, <3>2, StepOf DEF Located
      <4>. QED BY <1>02, <2>1, <4>1 DEF UpdateReceive, Return, Silence
    <3>. QED BY <2>1, <3>1, <3>2
  <2>. QED BY <1>0, <1>4, <2>2 DEF StillRunning, NothingTold, ErrorIsTold, FinishesOnSuccess
<1>5. CASE at = "writeOnce"
  <2>1. step = "update.send" /\ (Unfinished /\ ~reported => Running(cached))
    BY <1>0, <1>01, <1>5 DEF Located, ImplStep, WriteSent, NothingTold
  <2>. QED BY <1>0, <1>02, <1>5, <2>1
       DEF StillRunning, NothingTold, ErrorIsTold, FinishesOnSuccess, Unfinished
<1>6. CASE at = "throwOnMotionError"
  <2>1. ErrorWait
    BY <1>0, <1>6, StepOf DEF Located
  <2>2. \/ UNCHANGED <<step, thrown>>
        \/ step' = "returned" /\ thrown' \in {"ControlException", "ProtocolException"}
    BY <1>0, <2>1 DEF ErrorWait, Throw
  <2>. QED BY <1>0, <1>6, <2>2
       DEF Finishing, StillRunning, NothingTold, ErrorIsTold, FinishesOnSuccess, None
<1>7. CASE at = "finishMotion"
  <2>0. /\ step \in {"update.send", "update.receive", "finish.poll", "finish.wait"}
        /\ motion_id # NoMotion /\ motion_id \in CommandId /\ NoStart
    BY <1>0, <1>01, <1>7, FinishingFacts DEF Located
  <2>1. /\ step' \in {"update.send", "update.receive"} => Running(cached')
        /\ step' = "returned" /\ thrown' = "NetworkException" => Running(cached')
        /\ step' = "returned" /\ thrown' = None => final[motion_id] = "kSuccess"
    <3>1. CASE step = "update.send"
      <4>1. Running(cached')
        BY <1>0, <1>01, <1>02, <1>7, <3>1 DEF NothingTold
      <4>2. step' = "returned" => thrown' # None
        BY <1>0, <3>1, StepOf DEF UpdateSend, UpdateClosed, Goto, Throw, None
      <4>. QED BY <4>1, <4>2
    <3>2. CASE step = "update.receive"
      <4>1. resume = "finish.poll" /\ UpdateReceive /\ Running(cached)
        BY <1>0, <1>01, <1>7, <3>2, StepOf DEF Located, NothingTold
      <4>. QED BY <1>02, <4>1 DEF UpdateReceive, Goto, Throw, Silence, None
    <3>3. CASE step = "finish.poll"
      <4>1. FinishPoll
        BY <1>0, <3>3, StepOf
      <4>. QED BY <1>02, <4>1 DEF FinishPoll, CallUpdate
    <3>4. CASE step = "finish.wait"
      <4>1. FinishWait
        BY <1>0, <3>4, StepOf
      <4>2. CASE UNCHANGED <<step, thrown>>
        BY <3>4, <4>2
      <4>3. ASSUME NEW s \in Status, Take(motion_id, s),
                   IF MoveException(s) = None THEN Return
                   ELSE Throw(IF MoveException(s) = "CommandException"
                              THEN "ControlException" ELSE MoveException(s))
            PROVE  /\ step' = "returned" /\ thrown' \in {None, "ControlException"}
                   /\ thrown' = None => final[motion_id] = "kSuccess"
        <5>1. PICK map \in Maps : map[motion_id] = s
          BY <4>3 DEF Take
        <5>2. /\ s = final[motion_id]
              /\ MoveException(s) \in {None, "CommandException"}
              /\ MoveException(s) = None => s = "kSuccess"
          BY <1>0, <2>0, <5>1, FoundIsVerdict
        <5>. QED BY <4>3, <5>2 DEF Return, Throw, None
      <4>. QED BY <1>0, <4>1, <4>2, <4>3 DEF FinishWait, None
    <3>. QED BY <2>0, <3>1, <3>2, <3>3, <3>4
  <2>. QED BY <1>0, <1>7, <2>1 DEF StillRunning, NothingTold, ErrorIsTold, FinishesOnSuccess
<1>8. CASE at = "cancelMotion"
  BY <1>0, <1>8 DEF StillRunning, NothingTold, ErrorIsTold, FinishesOnSuccess
<1>. QED BY <1>0, <1>1, <1>2, <1>3, <1>4, <1>5, <1>6, <1>7, <1>8 DEF At

LEMMA ImplKeepsFinishing ==
    ASSUME IInv, WInv, Finishing, link = "up", ImplStep
    PROVE  Finishing'
<1>0. /\ ServerTypeOK /\ ImplTypeOK /\ Numbered /\ DecidedOnce /\ Replies /\ ImplNext /\ Located /\ at \in At
      /\ UNCHANGED <<at, alive, control_finished, reported, outcome, final, motion_id>> /\ step # "returned"
      /\ motion_id \in Nat
  BY FinishingFacts, ImplFrame, StepOf DEF ImplStep, activeVars
<1>1. HasMove' /\ StartIsOver'
  BY <1>0, ImplStarts DEF Finishing, HasMove, Current, Unfinished
<1>2. MoveKnown'
  <2>1. current_move' = current_move
          \/ (step \in {"finish.wait", "cancel.ignore"} /\ step' = "returned" /\ thrown' = None)
    BY <1>0, ImplFrame
  <2>2. /\ step = "finish.wait" => at = "finishMotion"
        /\ step = "cancel.ignore" => at = "cancelMotion"
    BY <1>0 DEF Located, At
  <2>. QED BY <1>0, <2>1, <2>2 DEF Finishing, MoveKnown, Current, Unfinished
<1>3. NotFinishedYet'
  <2>1. \/ command' = command
        \/ (step = "update.send"
            /\ command' = [id |-> motion_id, finished |-> motion_command = "finished"])
    BY <1>0, ImplFrame
  <2>2. CASE command' = command
    BY <1>0, <2>2 DEF Finishing, NotFinishedYet
  <2>3. CASE at # "startMotion"
    BY <1>0, <2>1, <2>3 DEF Finishing, NotFinishedYet
  <2>4. CASE at = "startMotion" /\ step = "update.send"
    <3>1. motion_command = None /\ ~control_command
      BY <1>0, <2>4 DEF Located, Finishing, ReadsOnly
    <3>2. UNCHANGED command
      BY <1>0, <2>4, <3>1, StepOf DEF UpdateSend, UpdateClosed, netVars
    <3>. QED BY <2>2, <3>2
  <2>. QED BY <2>1, <2>2, <2>3, <2>4
<1>4. WriteThrowsOnFailure'
  BY <1>0 DEF Finishing, WriteThrowsOnFailure
<1>5. ReadsOnly'
  BY <1>0, ImplFrame DEF Finishing, ReadsOnly, None
<1>. QED BY <1>1, <1>2, <1>3, <1>4, <1>5, ImplFinishes DEF Finishing

LEMMA ServerKeepsFinishing ==
    ASSUME IInv, WInv, Finishing, ServerNext, UNCHANGED <<implVars, activeVars>>
    PROVE  Finishing'
<1>0. /\ VerdictsStay /\ (NoStart => NoStart') /\ UNCHANGED flowVars /\ UNCHANGED outcome
      /\ UNCHANGED <<at, motion_id>>
  BY FinishingFacts, ServerKeeps DEF implVars, activeVars, flowVars
<1>1. /\ command.id <= motion_id /\ motion_id \in Nat /\ NoMotion = 0
      /\ at = "startMotion" => /\ command.id # motion_id /\ final[motion_id] # "kSuccess"
                               /\ motion_id # NoMotion /\ motion_id \in CommandId
  BY FinishingFacts DEF Finishing, NotFinishedYet, Current, NoMotion
<1>2. \/ /\ command' = command
         /\ \A id \in CommandId : final'[id] = "kSuccess" => final[id] = "kSuccess"
      \/ /\ command.id = active /\ command.finished /\ command' = NoCommand
         /\ \A id \in CommandId \ {active} : final'[id] = final[id]
  BY FinishingFacts, CompletedByCommand
<1>3. NotFinishedYet'
  BY <1>0, <1>1, <1>2 DEF NotFinishedYet, NoCommand
<1>. QED BY <1>0, <1>3, FinishingStays

\* The calls of the user, and how they end.
LEMMA CallEndsKeepFinishing ==
    ASSUME IInv, WInv, Finishing, CallEnds, NoStart => NoStart'
    PROVE  Finishing'
<1>0. /\ LockKept /\ Located /\ at \in At /\ HasMove /\ StartIsOver /\ MoveKnown /\ NotFinishedYet
      /\ StillRunning /\ ReadsOnly /\ ErrorIsTold /\ FinishesOnSuccess
      /\ motion_id \in Nat
  BY FinishingFacts DEF Finishing
<1>. USE DEF HasMove, StartIsOver, MoveKnown, NotFinishedYet, StillRunning, NothingTold, ReadsOnly, ErrorIsTold,
             FinishesOnSuccess, Current, Unfinished, Unstarted, LockKept, Done,
             serverVars, netVars, implVars, Running, motionGeneratorRunning, controllerRunning
<1>1. ASSUME UNCHANGED <<outcome, final>>
      PROVE  WriteThrowsOnFailure'
  BY <1>1 DEF Finishing, WriteThrowsOnFailure
<1>2. CASE Started
  <2>1. WriteThrowsOnFailure'
    BY <1>2 DEF Started, Finishing, WriteThrowsOnFailure, TypeOK, IInv
  <2>. QED BY <1>0, <1>2, <2>1 DEF Started, Finishing
<1>3. CASE ReadDone
  <2>1. CASE thrown = None
    <3>1. at = "readOnce" /\ Unfinished /\ current_move.mg # "kIdle"
      BY <1>0, <1>3 DEF ReadDone
    <3>2. /\ at' = "throwOnMotionError"
          /\ \/ step' = "error.wait" /\ UNCHANGED thrown
             \/ step' = "returned" /\ thrown' = None /\ Running(cached)
      BY <1>3, <2>1, <3>1, NoErrorMeansRunning DEF ReadDone, CallThrowOnMotionError, Goto, Return
    <3>3. UNCHANGED <<alive, control_finished, reported, outcome, motion_id, final, command,
                      motion_command, control_command, current_move, cached>>
      BY <1>3 DEF ReadDone
    <3>. QED BY <1>0, <1>1, <2>1, <3>1, <3>2, <3>3 DEF Finishing
  <2>2. CASE thrown # None
    BY <1>0, <1>1, <1>3, <2>2 DEF ReadDone, Finishing
  <2>. QED BY <2>1, <2>2
<1>4. CASE StateReturned
  <2>1. thrown \notin {"ControlException", "ProtocolException"} => Running(cached)
    BY <1>0, <1>4 DEF StateReturned
  <2>. QED BY <1>0, <1>1, <1>4, <2>1 DEF StateReturned, Finishing
<1>5. CASE RobotReadDone
  BY <1>0, <1>1, <1>5 DEF RobotReadDone, Finishing
<1>6. CASE WriteDone
  BY <1>0, <1>1, <1>6 DEF WriteDone, WriteSent, Finishing
<1>7. CASE Finished
  <2>1. CASE thrown = None
    <3>1. final[motion_id] = "kSuccess" /\ ~Unfinished' /\ at' = "user"
          /\ outcome' = [outcome EXCEPT ![motion_id] = "returned"]
      BY <1>0, <1>7, <2>1 DEF Finished
    <3>2. WriteThrowsOnFailure'
      BY <1>7, <3>1 DEF Finished, Finishing, WriteThrowsOnFailure, TypeOK, IInv
    <3>. QED BY <1>0, <1>7, <3>1, <3>2 DEF Finished, Finishing
  <2>2. CASE thrown # None
    BY <1>0, <1>1, <1>7, <2>2 DEF Finished, Finishing
  <2>. QED BY <2>1, <2>2
<1>8. CASE Destroyed
  <2>1. WriteThrowsOnFailure'
    BY <1>8 DEF Destroyed, Finishing, WriteThrowsOnFailure, TypeOK, IInv
  <2>. QED BY <1>0, <1>8, <2>1 DEF Destroyed, Finishing
<1>. QED BY <1>2, <1>3, <1>4, <1>5, <1>6, <1>7, <1>8 DEF CallEnds

LEMMA LocalCallKeepsFinishing ==
    ASSUME IInv, WInv, Finishing, LocalCall, NoStart => NoStart'
    PROVE  Finishing'
<1>0. /\ LockKept /\ Located /\ at \in At /\ HasMove /\ StartIsOver /\ MoveKnown /\ NotFinishedYet
      /\ StillRunning /\ ReadsOnly /\ ErrorIsTold /\ FinishesOnSuccess
      /\ motion_id \in Nat
  BY FinishingFacts DEF Finishing
<1>1. UNCHANGED <<outcome, final>>
  BY DEF LocalCall, writeOnce, writeFinished, readOnce, RobotRead, RobotReadAgain, MoveRobot,
         CallReadOnce, serverVars, activeVars
<1>2. WriteThrowsOnFailure'
  BY <1>1 DEF Finishing, WriteThrowsOnFailure
<1>. USE DEF HasMove, StartIsOver, MoveKnown, NotFinishedYet, StillRunning, NothingTold, ReadsOnly, ErrorIsTold,
             FinishesOnSuccess, Current, Unfinished, Unstarted, LockKept, Done,
             serverVars, netVars, implVars, Running, motionGeneratorRunning, controllerRunning
<1>3. ASSUME NEW torques \in BOOLEAN, writeOnce(torques)
      PROVE  Finishing'
  BY <1>0, <1>2, <1>3 DEF writeOnce, WriteAccepted, CallUpdate, None, Finishing
<1>4. ASSUME NEW torques \in BOOLEAN, writeFinished(torques)
      PROVE  Finishing'
  <2>1. Running(cached) /\ Unfinished /\ at = "user"
    BY <1>0, <1>4 DEF writeFinished, WriteAccepted
  <2>2. /\ CallUpdate("finished", torques, "finish.poll") /\ UNCHANGED <<thrown, current_move>>
        /\ at' = "finishMotion"
        /\ UNCHANGED <<alive, control_finished, reported, outcome, motion_id, final, command, cached>>
    BY <1>4, <2>1 DEF writeFinished, WriteAccepted, CallFinishMotion
  <2>. QED BY <1>0, <1>2, <2>1, <2>2 DEF CallUpdate, None, Finishing
<1>5. CASE readOnce
  BY <1>0, <1>2, <1>5 DEF readOnce, CallReadOnce, Finishing
<1>6. CASE RobotRead
  BY <1>0, <1>2, <1>6 DEF RobotRead, CallReadOnce, assertOwningLock, Finishing
<1>7. CASE RobotReadAgain
  BY <1>0, <1>2, <1>7 DEF RobotReadAgain, CallUpdate, activeVars, Finishing
<1>8. ASSUME NEW r, MoveRobot(r)
      PROVE  Finishing'
  BY <1>0, <1>2, <1>8 DEF MoveRobot, Finishing
<1>. QED BY <1>3, <1>4, <1>5, <1>6, <1>7, <1>8 DEF LocalCall

LEMMA StartKeepsFinishing ==
    ASSUME IInv, WInv, Finishing, NEW modes \in MoveModes, startControl(modes),
           motion_id' = motion_id => (NoStart => NoStart')
    PROVE  Finishing'
<1>0. /\ UNCHANGED <<final, command, cached, motion_command, control_command, control_finished, outcome>>
      /\ at = "user" /\ step = "returned" /\ ~Unfinished /\ ~Current
  BY FinishingFacts
  DEF startControl, assertOwningLock, Done, serverVars, LockKept, Current
<1>1. WriteThrowsOnFailure'
  BY <1>0 DEF Finishing, WriteThrowsOnFailure
<1>. USE DEF HasMove, StartIsOver, MoveKnown, NotFinishedYet, StillRunning, NothingTold, ReadsOnly, ErrorIsTold,
             FinishesOnSuccess, Current, Unfinished, Unstarted
<1>2. CASE Running(cached)
  <2>1. UNCHANGED <<at, alive, reported, current_move, motion_id, step>>
    BY <1>0, <1>2 DEF startControl, CallStartMotion, Throw
  <2>. QED BY <1>0, <1>1, <2>1 DEF Finishing
<1>3. CASE ~Running(cached)
  <2>1. /\ at' = "startMotion" /\ step' = "start.wait" /\ motion_id' = command_id_
        /\ current_move' = modes /\ modes.mg # "kIdle" /\ alive' = FALSE
    BY <1>3, MoveModesAssumption DEF startControl, CallStartMotion, Goto
  <2>2. command_id_ \in CommandId
    BY FinishingFacts, BoundsAssumption DEF startControl, IdsFor, ImplTypeOK, CommandId
  <2>3. final[command_id_] # "kSuccess" /\ motion_id < command_id_ /\ command.id <= motion_id
    BY <2>2, FinishingFacts DEF Numbered, Finishing, None
  <2>4. command.id < command_id_ /\ command_id_ # NoMotion
    BY <2>3, FinishingFacts DEF NoMotion
  <2>5. NotFinishedYet'
    BY <1>0, <2>1, <2>3, <2>4, FinishingFacts
  <2>. QED BY <1>0, <1>1, <2>1, <2>4, <2>5 DEF Finishing
<1>. QED BY <1>2, <1>3

LEMMA DestroyKeepsFinishing ==
    ASSUME IInv, WInv, Finishing, Destroy, NoStart => NoStart'
    PROVE  Finishing'
<1>0. /\ UNCHANGED <<final, motion_id, command, cached, current_move, motion_command, control_command,
                     control_finished, reported, outcome>>
      /\ at = "user" /\ step = "returned" /\ alive
  BY DEF Destroy, Done, serverVars
<1>1. WriteThrowsOnFailure'
  BY <1>0 DEF Finishing, WriteThrowsOnFailure
<1>. USE DEF HasMove, StartIsOver, MoveKnown, NotFinishedYet, StillRunning, NothingTold, ReadsOnly, ErrorIsTold,
             FinishesOnSuccess, Current, Unfinished, Unstarted
<1>2. CASE control_finished
  <2>1. UNCHANGED <<at, step, thrown>> /\ alive' = FALSE
    BY <1>2 DEF Destroy
  <2>. QED BY <1>0, <1>1, <1>2, <2>1 DEF Finishing
<1>3. CASE ~control_finished
  <2>1. at' = "cancelMotion" /\ step' = "cancel.wait" /\ UNCHANGED <<alive, thrown>>
    BY <1>3 DEF Destroy, CallCancelMotion, Goto
  <2>. QED BY <1>0, <1>1, <1>3, <2>1 DEF Finishing
<1>. QED BY <1>2, <1>3

\* A lost connection is never restored.
LEMMA LinkWasUp ==
    ASSUME [Next]_vars, link' = "up"
    PROVE  link = "up"
<1>1. ASSUME ServerNext PROVE link = "up"
  BY <1>1 DEF ServerNext, ServerAnswer, AcceptMove, RejectMove, StopRunningMove, StopNothing, Recover,
              Answer, PublishState, BeginMove, AbortMove, CompleteMove, Settle, LoseLink, netVars
<1>2. ASSUME ImplStep PROVE link = "up"
  BY <1>2 DEF ImplStep, ImplNext, UpdateSend, UpdateClosed, UpdateReceive, StartWait, StartPoll, ErrorWait,
              FinishPoll, FinishWait, CancelWait, CancelReceive, CancelIgnore, netVars
<1>3. ASSUME CallEnds \/ User PROVE link = "up"
  BY <1>3 DEF CallEnds, Started, ReadDone, StateReturned, RobotReadDone, WriteDone, Finished, Destroyed,
              User, startControl, writeOnce, writeFinished, readOnce, RobotRead, RobotReadAgain,
              CallReadOnce, Destroy, MoveRobot, Stop, OtherRequest, netVars
<1>. QED BY <1>1, <1>2, <1>3 DEF Next, OtherReceive, vars, netVars

(* While the connection is up, the writeOnce that finishes a motion has    *)
(* returned only for motions the robot completed, whatever states went     *)
(* missing and whatever calls failed with a NetworkException before: the   *)
(* early return of finishMotion is not taken (robot_impl.cpp:281-285,      *)
(* active_torque_control.cpp:16-29, active_torque_control.h:28-30).        *)
THEOREM FinishedOnlyOnSuccess == Spec => [](link = "up" => WriteThrowsOnFailure)
<1>1. Init => WInv
  <2>. SUFFICES ASSUME Init PROVE WInv
    OBVIOUS
  <2>1. Numbered /\ DecidedOnce /\ Replies
    BY InitContract DEF CInv
  <2>2. Finishing
    BY NoneFacts DEF Init, ServerInit, ImplInit, Finishing, HasMove, StartIsOver, MoveKnown, NotFinishedYet,
                StillRunning, NothingTold, ReadsOnly, ErrorIsTold, FinishesOnSuccess, WriteThrowsOnFailure,
                Current, Unfinished, NoCommand, NoMotion, None
  <2>. QED BY <2>1, <2>2 DEF WInv
<1>2. IInv /\ WInv /\ [Next]_vars => WInv'
  <2>. SUFFICES ASSUME IInv, WInv, [Next]_vars PROVE WInv'
    OBVIOUS
  <2>0. /\ Numbered' /\ DecidedOnce' /\ Replies' /\ VerdictsStay
        /\ motion_id' = motion_id => (NoStart => NoStart')
    BY NextKeepsReplies
  <2>. SUFFICES ASSUME Finishing, link = "up" PROVE Finishing'
    BY <2>0, LinkWasUp DEF WInv
  <2>1. CASE ServerNext /\ UNCHANGED <<implVars, activeVars>>
    BY <2>1, ServerKeepsFinishing
  <2>2. CASE ImplStep
    BY <2>2, ImplKeepsFinishing
  <2>3. ASSUME UNCHANGED flowVars, UNCHANGED outcome, UNCHANGED <<command, final>>
        PROVE  Finishing'
    <3>1. NotFinishedYet' /\ (NoStart => NoStart')
      BY <2>0, <2>3 DEF Finishing, NotFinishedYet, flowVars
    <3>. QED BY <2>0, <2>3, <3>1, FinishingStays
  <2>4. CASE OtherReceive /\ UNCHANGED activeVars
    BY <2>3, <2>4 DEF OtherReceive, activeVars, flowVars, serverVars
  <2>5. CASE CallEnds
    <3>1. UNCHANGED motion_id
      BY <2>5 DEF CallEnds, Started, ReadDone, StateReturned, RobotReadDone, WriteDone, Finished, Destroyed,
                  implVars
    <3>. QED BY <2>0, <2>5, <3>1, CallEndsKeepFinishing
  <2>6. CASE LocalCall
    <3>1. UNCHANGED motion_id
      BY <2>6 DEF LocalCall, writeOnce, writeFinished, readOnce, RobotRead, RobotReadAgain, MoveRobot,
                  CallReadOnce, implVars
    <3>. QED BY <2>0, <2>6, <3>1, LocalCallKeepsFinishing
  <2>7. CASE Destroy
    <3>1. UNCHANGED motion_id
      BY <2>7 DEF Destroy
    <3>. QED BY <2>0, <2>7, <3>1, DestroyKeepsFinishing
  <2>8. ASSUME NEW modes \in MoveModes, startControl(modes) PROVE Finishing'
    BY <2>0, <2>8, StartKeepsFinishing
  <2>9. ASSUME NEW c \in {"kStopMove", "kAutomaticErrorRecovery"}, Stop(c) PROVE Finishing'
    BY <2>3, <2>9 DEF Stop, OtherRequest, activeVars, flowVars, serverVars
  <2>10. CASE UNCHANGED vars
    BY <2>3, <2>10 DEF vars, netVars, implVars, activeVars, flowVars, serverVars
  <2>. QED BY <2>1, <2>2, <2>4, <2>5, <2>6, <2>7, <2>8, <2>9, <2>10 DEF Next, User, LocalCall
<1>3. WInv => (link = "up" => WriteThrowsOnFailure)
  BY DEF WInv, Finishing
<1>. QED BY <1>1, <1>2, <1>3, InvariantHolds, PTL DEF Spec
===========================================================================
