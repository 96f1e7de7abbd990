-------------------------- MODULE RobotImplProofs --------------------------
(***************************************************************************)
(* What holds of the robot, the network and Robot::Impl whoever calls it,  *)
(* a control loop or the owner of an active control: the types, how        *)
(* requests are numbered and decided on, and which responses there can be  *)
(* under the id of the current Move.                                       *)
(***************************************************************************)
EXTENDS RobotImpl, SequenceTheorems, TLAPS

\* A Move in execution was requested.
MoveInExecution == phase \in {"accepted", "moving"} => active \in CommandId

---------------------------------------------------------------------------
(* The robot.                                                              *)
LEMMA StatusFacts ==
    /\ Rejection \subseteq MoveEnd /\ MoveEnd \subseteq Status
    /\ "kSuccess" \in MoveEnd /\ "kPreempted" \in MoveEnd /\ "kReflexAborted" \in MoveEnd
    /\ "kStartAtSingularPoseRejected" \in MoveEnd /\ "kCommandNotPossibleRejected" \in MoveEnd
    /\ "kMotionStarted" \in Status /\ "kSuccess" \in Status
    /\ None \notin Status
BY DEF Rejection, MoveEnd, Status, None

LEMMA RequestAtHead ==
    ASSUME ServerTypeOK, toRobot # <<>>
    PROVE  /\ Head(toRobot).id \in CommandId
           /\ Head(toRobot).modes \in Modes
           /\ Tail(toRobot) \in Seq(Request)
<1>1. toRobot \in Seq(Request)
  BY DEF ServerTypeOK
<1>2. Head(toRobot) \in Request /\ Tail(toRobot) \in Seq(Request)
  BY <1>1
<1>. QED BY <1>2 DEF Request

LEMMA ReplyType ==
    ASSUME NEW id \in CommandId, NEW s \in Status
    PROVE  Reply(id, s) \in Seq(Response)
BY DEF Reply, Response

LEMMA AnswerTypes ==
    ASSUME ServerTypeOK, toRobot # <<>>, NEW r \in Seq(Response), Answer(r)
    PROVE  /\ toRobot' \in Seq(Request)
           /\ toClient' \in Seq(Response)
           /\ UNCHANGED <<states, command, link>>
BY RequestAtHead DEF Answer, ServerTypeOK

LEMMA EndMoveTypes ==
    ASSUME ServerTypeOK, NEW s \in MoveEnd, NEW p \in {"idle", "reflex"}, EndMove(s, p)
    PROVE  /\ phase' \in {"idle", "settling", "reflex"}
           /\ rest' \in {"idle", "reflex"}
           /\ final' \in [CommandId -> MoveEnd \cup {None}]
           /\ active' \in CommandId \cup {NoMotion} /\ demanded' \in Modes
           /\ active \in CommandId => final'[active] = s
BY DEF EndMove, ServerTypeOK

LEMMA ShownTypes ==
    ASSUME ServerTypeOK
    PROVE  Shown \subseteq State
<1>1. demanded \in Modes /\ IdleModes \in Modes
  BY DEF ServerTypeOK, IdleModes, Modes, MotionGeneratorMode, ControllerMode
<1>2. [mode : {"kMove"}, modes : [mg : {demanded.mg, "kIdle"}, ctl : {demanded.ctl, "kOther"}]]
        \subseteq State
  BY <1>1 DEF State, Modes, RobotMode, MotionGeneratorMode, ControllerMode
<1>3. /\ [mode |-> "kIdle", modes |-> IdleModes] \in State
      /\ [mode |-> "kMove", modes |-> demanded] \in State
      /\ [mode |-> "kReflex", modes |-> IdleModes] \in State
  BY <1>1 DEF State, RobotMode
<1>4. phase \in {"idle", "accepted", "moving", "settling", "reflex"}
  BY DEF ServerTypeOK
<1>. QED BY <1>2, <1>3, <1>4 DEF Shown

LEMMA ServerTypes ==
    ASSUME ServerTypeOK, MoveInExecution, ServerNext
    PROVE  ServerTypeOK' /\ MoveInExecution'
<1>1. CASE AcceptMove
  <2>1. /\ toRobot # <<>> /\ phase' = "accepted" /\ active' = Head(toRobot).id
        /\ demanded' = Head(toRobot).modes /\ UNCHANGED <<rest, final>>
        /\ Answer(Reply(Head(toRobot).id, "kMotionStarted"))
    BY <1>1 DEF AcceptMove, Requested
  <2>2. Reply(Head(toRobot).id, "kMotionStarted") \in Seq(Response)
    BY <2>1, RequestAtHead, ReplyType, StatusFacts
  <2>3. /\ toRobot' \in Seq(Request) /\ toClient' \in Seq(Response)
        /\ UNCHANGED <<states, command, link>>
    BY <2>1, <2>2, AnswerTypes
  <2>. QED BY <2>1, <2>3, RequestAtHead DEF ServerTypeOK, MoveInExecution
<1>2. CASE RejectMove
  <2>1. PICK s \in Rejection : /\ final' = [final EXCEPT ![Head(toRobot).id] = s]
                               /\ Answer(Reply(Head(toRobot).id, s))
    BY <1>2 DEF RejectMove
  <2>2. toRobot # <<>> /\ UNCHANGED <<phase, active, demanded, rest>>
    BY <1>2 DEF RejectMove, Requested
  <2>3. final' \in [CommandId -> MoveEnd \cup {None}]
    BY <2>1, StatusFacts DEF ServerTypeOK
  <2>4. Reply(Head(toRobot).id, s) \in Seq(Response)
    BY <2>1, <2>2, RequestAtHead, ReplyType, StatusFacts
  <2>5. /\ toRobot' \in Seq(Request) /\ toClient' \in Seq(Response)
        /\ UNCHANGED <<states, command, link>>
    BY <2>1, <2>2, <2>4, AnswerTypes
  <2>. QED BY <2>2, <2>3, <2>5 DEF ServerTypeOK, MoveInExecution
<1>3. CASE StopRunningMove
  <2>. DEFINE stopped == Reply(Head(toRobot).id, "kSuccess")
              preempted == Reply(active, "kPreempted")
  <2>1. /\ toRobot # <<>> /\ phase \in {"accepted", "moving"} /\ EndMove("kPreempted", "idle")
        /\ Answer(preempted \o stopped) \/ Answer(stopped \o preempted)
    BY <1>3 DEF StopRunningMove, Requested
  <2>2. active \in CommandId
    BY <2>1 DEF MoveInExecution
  <2>3. stopped \in Seq(Response) /\ preempted \in Seq(Response)
    BY <2>1, <2>2, RequestAtHead, ReplyType, StatusFacts
  <2>. HIDE DEF stopped, preempted
  <2>4. preempted \o stopped \in Seq(Response) /\ stopped \o preempted \in Seq(Response)
    BY <2>3
  <2>5. /\ toRobot' \in Seq(Request) /\ toClient' \in Seq(Response)
        /\ UNCHANGED <<states, command, link>>
    BY <2>1, <2>4, AnswerTypes
  <2>6. /\ phase' \in {"idle", "settling", "reflex"} /\ rest' \in {"idle", "reflex"}
        /\ final' \in [CommandId -> MoveEnd \cup {None}]
        /\ active' \in CommandId \cup {NoMotion} /\ demanded' \in Modes
    BY <2>1, EndMoveTypes, StatusFacts
  <2>. QED BY <2>5, <2>6 DEF ServerTypeOK, MoveInExecution
<1>4. CASE StopNothing
  <2>1. PICK s \in {"kSuccess", "kCommandNotPossibleRejected"} : Answer(Reply(Head(toRobot).id, s))
    BY <1>4 DEF StopNothing
  <2>2. toRobot # <<>> /\ UNCHANGED serverVars
    BY <1>4 DEF StopNothing, Requested
  <2>3. Reply(Head(toRobot).id, s) \in Seq(Response)
    BY <2>1, <2>2, RequestAtHead, ReplyType, StatusFacts
  <2>4. /\ toRobot' \in Seq(Request) /\ toClient' \in Seq(Response)
        /\ UNCHANGED <<states, command, link>>
    BY <2>1, <2>2, <2>3, AnswerTypes
  <2>. QED BY <2>2, <2>4 DEF ServerTypeOK, MoveInExecution, serverVars
<1>5. CASE Recover
  <2>1. PICK s \in {"kSuccess", "kCommandNotPossibleRejected"} : Answer(Reply(Head(toRobot).id, s))
    BY <1>5 DEF Recover
  <2>2. toRobot # <<>> /\ phase' \in {phase, "idle"} /\ UNCHANGED <<active, demanded, rest, final>>
    BY <1>5 DEF Recover, Requested
  <2>3. Reply(Head(toRobot).id, s) \in Seq(Response)
    BY <2>1, <2>2, RequestAtHead, ReplyType, StatusFacts
  <2>4. /\ toRobot' \in Seq(Request) /\ toClient' \in Seq(Response)
        /\ UNCHANGED <<states, command, link>>
    BY <2>1, <2>2, <2>3, AnswerTypes
  <2>. QED BY <2>2, <2>4 DEF ServerTypeOK, MoveInExecution
<1>6. CASE PublishState
  <2>1. PICK s \in Shown : states' = Append(states, s)
    BY <1>6 DEF PublishState
  <2>2. states' \in Seq(State)
    BY <2>1, ShownTypes DEF ServerTypeOK
  <2>. QED BY <1>6, <2>2 DEF PublishState, ServerTypeOK, MoveInExecution, serverVars
<1>7. CASE BeginMove
  BY <1>7 DEF BeginMove, ServerTypeOK, MoveInExecution, netVars
<1>8. CASE AbortMove
  <2>1. phase \in {"accepted", "moving"} /\ UNCHANGED <<toRobot, states, command, link>>
    BY <1>8 DEF AbortMove
  <2>2. PICK s \in MoveEnd, p \in {"idle", "reflex"} : EndMove(s, p)
    BY <1>8, StatusFacts DEF AbortMove
  <2>3. active \in CommandId
    BY <2>1 DEF MoveInExecution
  <2>4. /\ phase' \in {"idle", "settling", "reflex"} /\ rest' \in {"idle", "reflex"}
        /\ final' \in [CommandId -> MoveEnd \cup {None}] /\ final'[active] = s
        /\ active' \in CommandId \cup {NoMotion} /\ demanded' \in Modes
    BY <2>2, <2>3, EndMoveTypes
  <2>5. toClient' = toClient \o Reply(active, s) /\ Reply(active, s) \in Seq(Response)
    BY <1>8, <2>3, <2>4, ReplyType, StatusFacts DEF AbortMove
  <2>6. toClient' \in Seq(Response)
    BY <2>5 DEF ServerTypeOK
  <2>. QED BY <2>1, <2>4, <2>6 DEF ServerTypeOK, MoveInExecution
<1>9. CASE CompleteMove
  <2>1. /\ phase = "moving" /\ EndMove("kSuccess", "idle")
        /\ toClient' = toClient \o Reply(active, "kSuccess")
        /\ command' = NoCommand /\ UNCHANGED <<toRobot, states, link>>
    BY <1>9 DEF CompleteMove
  <2>2. Reply(active, "kSuccess") \in Seq(Response)
    BY <2>1, ReplyType, StatusFacts DEF MoveInExecution
  <2>3. toClient' \in Seq(Response)
    BY <2>1, <2>2 DEF ServerTypeOK
  <2>4. /\ phase' \in {"idle", "settling", "reflex"} /\ rest' \in {"idle", "reflex"}
        /\ final' \in [CommandId -> MoveEnd \cup {None}]
        /\ active' \in CommandId \cup {NoMotion} /\ demanded' \in Modes
    BY <2>1, EndMoveTypes, StatusFacts
  <2>5. command' \in [id : CommandId \cup {NoMotion}, finished : BOOLEAN]
    BY <2>1 DEF NoCommand
  <2>. QED BY <2>1, <2>3, <2>4, <2>5 DEF ServerTypeOK, MoveInExecution
<1>10. CASE Settle
  BY <1>10 DEF Settle, ServerTypeOK, MoveInExecution, netVars
<1>11. CASE LoseLink
  BY <1>11 DEF LoseLink, ServerTypeOK, MoveInExecution, serverVars
<1>. QED
  BY <1>1, <1>2, <1>3, <1>4, <1>5, <1>6, <1>7, <1>8, <1>9, <1>10, <1>11
  DEF ServerNext, ServerAnswer

---------------------------------------------------------------------------
(* Robot::Impl.                                                            *)

\* The types of what a pass over the connection changes.
Received ==
    /\ received_responses_ \in [CommandId -> Status \cup {None}]
    /\ toClient \in Seq(Response)

LEMMA ResponseAtHead ==
    ASSUME Received, toClient # <<>>
    PROVE  /\ Head(toClient).id \in CommandId /\ Head(toClient).status \in Status
           /\ Tail(toClient) \in Seq(Response)
<1>1. Head(toClient) \in Response /\ Tail(toClient) \in Seq(Response)
  BY DEF Received
<1>. QED BY <1>1 DEF Response

LEMMA MapType ==
    ASSUME Received, NEW map \in Maps
    PROVE  map \in [CommandId -> Status \cup {None}]
<1>1. AfterReading(0) \in [CommandId -> Status \cup {None}]
  BY DEF Received, AfterReading
<1>2. CASE toClient = <<>>
  BY <1>1, <1>2 DEF Maps
<1>3. CASE toClient # <<>>
  <2>1. AfterReading(1) \in [CommandId -> Status \cup {None}]
    BY <1>3, ResponseAtHead DEF Received, AfterReading, Emplace
  <2>. QED BY <1>1, <2>1 DEF Maps
<1>. QED BY <1>2, <1>3

LEMMA ReadType ==
    ASSUME Received, NEW map, Read(map)
    PROVE  toClient' \in Seq(Response)
BY ResponseAtHead DEF Received, Read

LEMMA TakeType ==
    ASSUME Received, NEW id, NEW s, Take(id, s)
    PROVE  Received'
<1>1. PICK map \in Maps : Read(map) /\ received_responses_' = [map EXCEPT ![id] = None]
  BY DEF Take
<1>2. toClient' \in Seq(Response)
  BY <1>1, ReadType
<1>3. received_responses_' \in [CommandId -> Status \cup {None}]
  BY <1>1, MapType
<1>. QED BY <1>2, <1>3 DEF Received

LEMMA WaitType ==
    ASSUME Received, NEW id, Wait(id)
    PROVE  Received'
<1>1. toClient # <<>> /\ Read(AfterReading(1)) /\ received_responses_' = AfterReading(1)
  BY DEF Wait
<1>2. AfterReading(1) \in Maps
  BY <1>1 DEF Maps
<1>. QED BY <1>1, <1>2, MapType, ReadType DEF Received

LEMMA ReceiveStateType ==
    ASSUME ServerTypeOK, ReceiveState
    PROVE  cached' \in State /\ states' \in Seq(State)
<1>1. states \in Seq(State)
  BY DEF ServerTypeOK
<1>2. PICK k \in 1 .. Len(states) : /\ cached' = states[k]
                                   /\ states' = SubSeq(states, k + 1, Len(states))
  BY DEF ReceiveState
<1>. QED BY <1>1, <1>2

LEMMA MoveExceptionType ==
    ASSUME NEW s \in Status
    PROVE  MoveException(s) \in Exception \cup {None}
BY DEF MoveException, Exception

LEMMA NoneFacts ==
    /\ None \notin Exception /\ None \notin Status
    /\ IdleModes \in Modes /\ NoMotion \notin CommandId
BY DEF None, Exception, Status, MoveEnd, Rejection, IdleModes, Modes, MotionGeneratorMode,
       ControllerMode, NoMotion, CommandId

LEMMA SendRequestTypes ==
    ASSUME ServerTypeOK, command_id_ \in CommandId, NEW c \in Command, NEW modes \in Modes,
           SendRequest(c, modes)
    PROVE  toRobot' \in Seq(Request) /\ command_id_' \in 1 .. (MaxCommands + 1)
<1>1. [command |-> c, id |-> command_id_, modes |-> modes] \in Request
  BY DEF Request
<1>2. toRobot' \in Seq(Request)
  BY <1>1 DEF SendRequest, ServerTypeOK
<1>3. command_id_' = command_id_ + 1
  BY DEF SendRequest
<1>. QED BY <1>2, <1>3, BoundsAssumption DEF CommandId

LEMMA ImplTypes ==
    ASSUME ServerTypeOK, ImplTypeOK, ImplNext
    PROVE  ServerTypeOK' /\ ImplTypeOK'
<1>0. Received
  BY DEF Received, ServerTypeOK, ImplTypeOK
<1>1. CASE UpdateSend
  <2>1. step' \in Step /\ thrown' \in Exception \cup {None}
    BY <1>1 DEF UpdateSend, SendException, Goto, Throw, Step, Exception, ImplTypeOK
  <2>2. command' \in [id : CommandId \cup {NoMotion}, finished : BOOLEAN]
    <3>1. command' \in {command, [id |-> motion_id, finished |-> motion_command = "finished"]}
      BY <1>1 DEF UpdateSend
    <3>2. [id |-> motion_id, finished |-> motion_command = "finished"]
            \in [id : CommandId \cup {NoMotion}, finished : BOOLEAN]
      BY DEF ImplTypeOK
    <3>. QED BY <3>1, <3>2 DEF ServerTypeOK
  <2>3. ServerTypeOK'
    BY <1>1, <2>2 DEF UpdateSend, ServerTypeOK, serverVars
  <2>. QED BY <1>1, <2>1, <2>3 DEF UpdateSend, ImplTypeOK
<1>2. CASE UpdateClosed
  <2>1. step' \in Step /\ thrown' \in Exception \cup {None}
    BY <1>2 DEF UpdateClosed, Throw, Step, Exception
  <2>. QED BY <1>2, <2>1 DEF UpdateClosed, ImplTypeOK, ServerTypeOK, serverVars, netVars
<1>3. CASE UpdateReceive
  <2>1. cached' \in State /\ states' \in Seq(State)
    BY <1>3, ReceiveStateType DEF UpdateReceive, Silence, ImplTypeOK, ServerTypeOK
  <2>2. step' \in Step /\ thrown' \in Exception \cup {None}
    BY <1>3 DEF UpdateReceive, Goto, Throw, Return, Step, Exception, ImplTypeOK
  <2>3. ServerTypeOK'
    BY <1>3, <2>1 DEF UpdateReceive, ServerTypeOK, serverVars
  <2>. QED BY <1>3, <2>1, <2>2, <2>3 DEF UpdateReceive, ImplTypeOK
<1>4. CASE StartWait
  <2>1. Received'
    BY <1>0, <1>4, TakeType, WaitType DEF StartWait, Interrupted, Received
  <2>2. step' \in Step /\ thrown' \in Exception \cup {None}
    BY <1>4, MoveExceptionType DEF StartWait, Goto, Throw, Step, ImplTypeOK, Exception
  <2>3. ServerTypeOK'
    BY <1>4, <2>1 DEF StartWait, ServerTypeOK, serverVars, Received
  <2>. QED BY <1>4, <2>1, <2>2, <2>3 DEF StartWait, ImplTypeOK, Received
<1>5. CASE StartPoll
  <2>1. Received'
    <3>1. UNCHANGED <<received_responses_, toClient>> => Received'
      BY <1>0 DEF Received
    <3>2. ASSUME NEW map \in Maps, Read(map),
                 received_responses_' \in {map, [map EXCEPT ![motion_id] = None]}
          PROVE  Received'
      <4>1. map \in [CommandId -> Status \cup {None}]
        BY <1>0, MapType
      <4>2. toClient' \in Seq(Response)
        BY <1>0, <3>2, ReadType
      <4>. QED BY <3>2, <4>1, <4>2 DEF Received
    <3>. QED BY <1>5, <3>1, <3>2 DEF StartPoll, Interrupted
  <2>2. step' \in Step /\ thrown' \in Exception \cup {None}
    BY <1>5, MoveExceptionType
    DEF StartPoll, CallUpdate, Throw, Return, Step, ImplTypeOK, Exception
  <2>3. /\ motion_command' \in {None, "running", "finished"} /\ control_command' \in BOOLEAN
        /\ resume' \in {"returned", "start.poll", "finish.poll"}
    BY <1>5 DEF StartPoll, CallUpdate, ImplTypeOK
  <2>4. ServerTypeOK'
    BY <1>5, <2>1 DEF StartPoll, ServerTypeOK, serverVars, Received
  <2>. QED BY <1>5, <2>1, <2>2, <2>3, <2>4 DEF StartPoll, ImplTypeOK, Received
<1>6. CASE ErrorWait
  <2>1. Received'
    BY <1>0, <1>6, TakeType, WaitType DEF ErrorWait, Interrupted, Received
  <2>2. step' \in Step /\ thrown' \in Exception \cup {None}
    BY <1>6 DEF ErrorWait, Throw, Step, ImplTypeOK, Exception
  <2>3. ServerTypeOK'
    BY <1>6, <2>1 DEF ErrorWait, ServerTypeOK, serverVars, Received
  <2>. QED BY <1>6, <2>1, <2>2, <2>3 DEF ErrorWait, ImplTypeOK, Received
<1>7. CASE FinishPoll
  <2>1. /\ step' \in Step
        /\ motion_command' \in {None, "running", "finished"} /\ control_command' \in BOOLEAN
        /\ resume' \in {"returned", "start.poll", "finish.poll"}
    BY <1>7 DEF FinishPoll, CallUpdate, Step, ImplTypeOK
  <2>. QED BY <1>7, <2>1 DEF FinishPoll, ImplTypeOK, ServerTypeOK, serverVars, netVars
<1>8. CASE FinishWait
  <2>1. Received'
    BY <1>0, <1>8, TakeType, WaitType DEF FinishWait, Interrupted, Received
  <2>2. step' \in Step /\ thrown' \in Exception \cup {None}
    BY <1>8, MoveExceptionType DEF FinishWait, Return, Throw, Step, ImplTypeOK, Exception
  <2>3. current_move' \in Modes
    BY <1>8, NoneFacts DEF FinishWait, ResetCurrentMove, ImplTypeOK
  <2>4. ServerTypeOK'
    BY <1>8, <2>1 DEF FinishWait, ServerTypeOK, serverVars, Received
  <2>. QED BY <1>8, <2>1, <2>2, <2>3, <2>4 DEF FinishWait, ImplTypeOK, Received
<1>9. CASE CancelWait
  <2>1. Received'
    BY <1>0, <1>9, TakeType, WaitType DEF CancelWait, Interrupted, Received
  <2>2. step' \in Step /\ thrown' \in Exception \cup {None}
    BY <1>9 DEF CancelWait, Goto, Throw, Step, ImplTypeOK, Exception
  <2>3. ServerTypeOK'
    BY <1>9, <2>1 DEF CancelWait, ServerTypeOK, serverVars, Received
  <2>. QED BY <1>9, <2>1, <2>2, <2>3 DEF CancelWait, ImplTypeOK, Received
<1>10. CASE CancelReceive
  <2>1. cached' \in State /\ states' \in Seq(State)
    BY <1>10, ReceiveStateType DEF CancelReceive, Silence, ImplTypeOK, ServerTypeOK
  <2>2. step' \in Step /\ thrown' \in Exception \cup {None}
    BY <1>10 DEF CancelReceive, Goto, Throw, Step, Exception, ImplTypeOK
  <2>3. ServerTypeOK'
    BY <1>10, <2>1 DEF CancelReceive, ServerTypeOK, serverVars
  <2>. QED BY <1>10, <2>1, <2>2, <2>3 DEF CancelReceive, ImplTypeOK
<1>11. CASE CancelIgnore
  <2>1. Received'
    <3>1. UNCHANGED <<received_responses_, toClient>> => Received'
      BY <1>0 DEF Received
    <3>2. ASSUME NEW map \in Maps, Read(map),
                 received_responses_' = [map EXCEPT ![motion_id] = None]
          PROVE  Received'
      <4>1. map \in [CommandId -> Status \cup {None}]
        BY <1>0, MapType
      <4>2. toClient' \in Seq(Response)
        BY <1>0, <3>2, ReadType
      <4>. QED BY <3>2, <4>1, <4>2 DEF Received
    <3>. QED BY <1>11, <3>1, <3>2 DEF CancelIgnore, Interrupted
  <2>2. step' \in Step /\ thrown' \in Exception \cup {None} /\ current_move' \in Modes
    BY <1>11, NoneFacts
    DEF CancelIgnore, Throw, Return, ResetCurrentMove, Step, ImplTypeOK, Exception
  <2>3. ServerTypeOK'
    BY <1>11, <2>1 DEF CancelIgnore, ServerTypeOK, serverVars, Received
  <2>. QED BY <1>11, <2>1, <2>2, <2>3 DEF CancelIgnore, ImplTypeOK, Received
<1>. QED
  BY <1>1, <1>2, <1>3, <1>4, <1>5, <1>6, <1>7, <1>8, <1>9, <1>10, <1>11 DEF ImplNext

LEMMA CallUpdateTypes ==
    ASSUME NEW m \in {None, "running", "finished"}, NEW c \in BOOLEAN,
           NEW r \in {"returned", "start.poll", "finish.poll"}, CallUpdate(m, c, r)
    PROVE  /\ step' \in Step /\ motion_command' \in {None, "running", "finished"}
           /\ control_command' \in BOOLEAN /\ resume' \in {"returned", "start.poll", "finish.poll"}
BY DEF CallUpdate, Step

LEMMA ImplKeepsIds ==
    ASSUME ImplNext
    PROVE  UNCHANGED command_id_
BY DEF ImplNext, UpdateSend, UpdateClosed, UpdateReceive, StartWait, StartPoll, ErrorWait,
       FinishPoll, FinishWait, CancelWait, CancelReceive, CancelIgnore, netVars

\* The modes of a Move that runs are the modes of the state.
LEMMA NoErrorMeansRunning ==
    ASSUME ~MotionError, current_move.mg # "kIdle"
    PROVE  Running(cached)
BY DEF MotionError, Running, motionGeneratorRunning

LEMMA InitTypes ==
    ASSUME ServerInit, ImplInit
    PROVE  ServerTypeOK /\ ImplTypeOK /\ MoveInExecution
<1>1. ServerTypeOK /\ MoveInExecution
  <2>1. <<>> \in Seq(Request) /\ <<>> \in Seq(Response) /\ <<>> \in Seq(State)
    OBVIOUS
  <2>2. NoCommand \in [id : CommandId \cup {NoMotion}, finished : BOOLEAN]
    BY DEF NoCommand
  <2>. QED BY <2>1, <2>2, NoneFacts DEF ServerInit, ServerTypeOK, MoveInExecution
<1>2. ImplTypeOK
  <2>1. [mode |-> "kIdle", modes |-> IdleModes] \in State
    BY NoneFacts DEF State, RobotMode
  <2>2. current_move \in Modes
    BY DEF ImplInit, Modes, MotionGeneratorMode
  <2>3. command_id_ \in 1 .. (MaxCommands + 1)
    BY BoundsAssumption DEF ImplInit
  <2>4. received_responses_ \in [CommandId -> Status \cup {None}] /\ cached \in State
    BY <2>1 DEF ImplInit
  <2>. QED BY <2>2, <2>3, <2>4 DEF ImplInit, ImplTypeOK, Step
<1>. QED BY <1>1, <1>2

\* A request of another thread, and its response.
LEMMA OtherRequestTypes ==
    ASSUME ServerTypeOK, ImplTypeOK, command_id_ \in CommandId,
           NEW c \in {"kStopMove", "kAutomaticErrorRecovery"}, OtherRequest(c)
    PROVE  ServerTypeOK' /\ ImplTypeOK'
<1>1. SendRequest(c, IdleModes) /\ c \in Command
  BY DEF OtherRequest, Command
<1>2. toRobot' \in Seq(Request) /\ command_id_' \in 1 .. (MaxCommands + 1)
  BY <1>1, SendRequestTypes, NoneFacts
<1>3. other' \in CommandId \cup {NoMotion}
  BY DEF OtherRequest
<1>. QED BY <1>2, <1>3 DEF OtherRequest, ServerTypeOK, ImplTypeOK, serverVars

LEMMA OtherReceiveTypes ==
    ASSUME ServerTypeOK, ImplTypeOK, OtherReceive
    PROVE  ServerTypeOK' /\ ImplTypeOK'
<1>1. Received
  BY DEF ServerTypeOK, ImplTypeOK, Received
<1>2. Received'
  BY <1>1, TakeType, WaitType DEF OtherReceive, Interrupted, Received
<1>3. other' \in CommandId \cup {NoMotion}
  BY DEF OtherReceive, ImplTypeOK
<1>. QED BY <1>2, <1>3 DEF OtherReceive, ServerTypeOK, ImplTypeOK, serverVars, Received

\* startMotion, cancelMotion and finishMotion are called.
LEMMA StartMotionTypes ==
    ASSUME ServerTypeOK, ImplTypeOK, command_id_ \in CommandId, NEW modes \in MoveModes,
           CallStartMotion(modes)
    PROVE  /\ toRobot' \in Seq(Request) /\ command_id_' \in 1 .. (MaxCommands + 1)
           /\ step' \in Step /\ thrown' \in Exception \cup {None}
           /\ current_move' \in Modes /\ motion_id' \in CommandId \cup {NoMotion}
<1>1. modes \in Modes
  BY MoveModesAssumption DEF Modes
<1>2. CASE Running(cached)
  BY <1>2 DEF CallStartMotion, Throw, Step, Exception, ServerTypeOK, ImplTypeOK
<1>3. CASE ~Running(cached)
  <2>1. SendRequest("kMove", modes)
    BY <1>3 DEF CallStartMotion
  <2>2. toRobot' \in Seq(Request) /\ command_id_' \in 1 .. (MaxCommands + 1)
    BY <1>1, <2>1, SendRequestTypes DEF Command
  <2>. QED BY <1>1, <1>3, <2>2 DEF CallStartMotion, Goto, Step, ImplTypeOK
<1>. QED BY <1>2, <1>3

LEMMA CancelMotionTypes ==
    ASSUME ServerTypeOK, ImplTypeOK, command_id_ \in CommandId, CallCancelMotion
    PROVE  /\ toRobot' \in Seq(Request) /\ command_id_' \in 1 .. (MaxCommands + 1)
           /\ stop_id' \in CommandId \cup {NoMotion}
           /\ step' \in Step /\ thrown' \in Exception \cup {None}
<1>1. toRobot' \in Seq(Request) /\ command_id_' \in 1 .. (MaxCommands + 1)
  BY SendRequestTypes, NoneFacts DEF CallCancelMotion, Command
<1>. QED BY <1>1 DEF ImplTypeOK, CallCancelMotion, Goto, Step

LEMMA FinishMotionTypes ==
    ASSUME ImplTypeOK, NEW c \in BOOLEAN, CallFinishMotion(c)
    PROVE  /\ step' \in Step /\ thrown' \in Exception \cup {None} /\ current_move' \in Modes
           /\ motion_command' \in {None, "running", "finished"}
           /\ control_command' \in BOOLEAN /\ resume' \in {"returned", "start.poll", "finish.poll"}
BY NoneFacts DEF CallFinishMotion, CallUpdate, Return, ResetCurrentMove, Step, ImplTypeOK

---------------------------------------------------------------------------
(* Requests, verdicts and responses.                                       *)

\* Requests are numbered in the order they are sent, and no response or
\* verdict bears a number that was not used.
Numbered ==
    /\ motion_id < command_id_
    /\ active < command_id_
    /\ \A i \in DOMAIN toRobot : toRobot[i].id < command_id_
    /\ \A i \in DOMAIN toClient : toClient[i].id < command_id_
    /\ \A id \in CommandId : id >= command_id_ => received_responses_[id] = None /\ final[id] = None

\* The robot decides on each Move once, in the order of the requests.
DecidedOnce ==
    /\ \A i \in DOMAIN toRobot : active < toRobot[i].id /\ final[toRobot[i].id] = None
    /\ \A i, j \in DOMAIN toRobot : i < j => toRobot[i].id < toRobot[j].id
    /\ phase \in {"accepted", "moving"} => final[active] = None

\* A response under the current Move's id is one of this Move.
IsReply(s) == s \in {final[motion_id], "kMotionStarted"}

RepliesBelong ==
    motion_id # NoMotion =>
        /\ received_responses_[motion_id] # None => IsReply(received_responses_[motion_id])
        /\ \A i \in DOMAIN toClient : toClient[i].id = motion_id => IsReply(toClient[i].status)

\* kMotionStarted comes before any other response to its Move.
StartedFirst ==
    motion_id # NoMotion =>
        \A i \in DOMAIN toClient :
            toClient[i].id = motion_id /\ toClient[i].status = "kMotionStarted" =>
                /\ received_responses_[motion_id] = None
                /\ \A j \in DOMAIN toClient : j < i => toClient[j].id # motion_id

\* A Move that has not been decided on has no response.
UndecidedIsSilent ==
    motion_id # NoMotion =>
        \A i \in DOMAIN toRobot : toRobot[i].id = motion_id =>
            /\ toRobot[i].command = "kMove"
            /\ received_responses_[motion_id] = None
            /\ \A j \in DOMAIN toClient : toClient[j].id # motion_id

Replies == RepliesBelong /\ StartedFirst /\ UndecidedIsSilent

\* The first response to the current Move was taken: nothing under its id
\* can start it any more.  Only a new Move ends this.
NoStart ==
    motion_id # NoMotion =>
        /\ received_responses_[motion_id] # "kMotionStarted"
        /\ \A i \in DOMAIN toClient :
              toClient[i].id = motion_id => toClient[i].status # "kMotionStarted"
        /\ \A i \in DOMAIN toRobot : toRobot[i].id # motion_id

---------------------------------------------------------------------------
(* Sequences and passes over the connection.                               *)
LEMMA ConcatElement ==
    ASSUME NEW S, NEW s \in Seq(S), NEW r \in Seq(S), NEW i \in DOMAIN (s \o r)
    PROVE  \/ i \in DOMAIN s /\ (s \o r)[i] = s[i]
           \/ i > Len(s) /\ i - Len(s) \in DOMAIN r /\ (s \o r)[i] = r[i - Len(s)]
OBVIOUS

LEMMA TailElement ==
    ASSUME NEW S, NEW s \in Seq(S), s # <<>>, NEW i \in DOMAIN Tail(s)
    PROVE  i \in Nat /\ i + 1 \in DOMAIN s /\ Tail(s)[i] = s[i + 1]
OBVIOUS

LEMMA AppendElement ==
    ASSUME NEW S, NEW s \in Seq(S), NEW e \in S, NEW i \in DOMAIN Append(s, e)
    PROVE  \/ i \in DOMAIN s /\ Append(s, e)[i] = s[i]
           \/ i = Len(s) + 1 /\ Append(s, e)[i] = e
BY AppendProperties

\* A pass that reads no response, or takes one away from the map, ...
Kept ==
    /\ toClient' = toClient
    /\ \A id \in CommandId : received_responses_'[id] \in {received_responses_[id], None}

\* ... and one that reads a response.
Moved ==
    /\ toClient # <<>> /\ toClient' = Tail(toClient)
    /\ \A id \in CommandId :
         \/ received_responses_'[id] \in {received_responses_[id], None}
         \/ /\ received_responses_[id] = None /\ Head(toClient).id = id
            /\ received_responses_'[id] = Head(toClient).status

LEMMA PassEffect ==
    ASSUME Received, NEW map \in Maps, Read(map),
           \A id \in CommandId : received_responses_'[id] \in {map[id], None}
    PROVE  Kept \/ Moved
<1>1. CASE map = AfterReading(0) /\ UNCHANGED toClient
  BY <1>1 DEF AfterReading, Kept
<1>2. CASE toClient # <<>> /\ map = AfterReading(1) /\ toClient' = Tail(toClient)
  <2>1. map = Emplace(received_responses_, Head(toClient)) /\ Head(toClient).id \in CommandId
    BY <1>2, ResponseAtHead DEF AfterReading
  <2>2. ASSUME NEW id \in CommandId
        PROVE  \/ map[id] = received_responses_[id]
               \/ /\ received_responses_[id] = None /\ Head(toClient).id = id
                  /\ map[id] = Head(toClient).status
    BY <2>1 DEF Emplace, Received
  <2>. QED BY <1>2, <2>2 DEF Moved
<1>. QED BY <1>1, <1>2 DEF Read

LEMMA TakeEffect ==
    ASSUME Received, NEW id, NEW s, Take(id, s)
    PROVE  Kept \/ Moved
<1>1. PICK map \in Maps : Read(map) /\ received_responses_' = [map EXCEPT ![id] = None]
  BY DEF Take
<1>2. map \in [CommandId -> Status \cup {None}]
  BY <1>1, MapType
<1>. QED BY <1>1, <1>2, PassEffect

LEMMA WaitEffect ==
    ASSUME Received, NEW id, Wait(id)
    PROVE  Kept \/ Moved
<1>1. toClient # <<>> /\ Read(AfterReading(1)) /\ received_responses_' = AfterReading(1)
  BY DEF Wait
<1>2. AfterReading(1) \in Maps
  BY <1>1 DEF Maps
<1>. QED BY <1>1, <1>2, PassEffect

LEMMA NothingRead ==
    ASSUME UNCHANGED <<received_responses_, toClient>>
    PROVE  Kept
BY DEF Kept

\* The responses of the current Move, and the requests, survive a pass.
LEMMA PassKeepsReplies ==
    ASSUME ServerTypeOK, ImplTypeOK, Replies, Kept \/ Moved,
           UNCHANGED <<motion_id, toRobot, final>>
    PROVE  Replies' /\ (NoStart => NoStart')
<1>. SUFFICES ASSUME motion_id # NoMotion
              PROVE  Replies' /\ (NoStart => NoStart')
  BY DEF Replies, RepliesBelong, StartedFirst, UndecidedIsSilent, NoStart
<1>0. /\ motion_id \in CommandId /\ toClient \in Seq(Response)
      /\ motion_id' = motion_id /\ toRobot' = toRobot /\ final' = final
  BY DEF ServerTypeOK, ImplTypeOK
<1>1. /\ received_responses_[motion_id] # None => IsReply(received_responses_[motion_id])
      /\ \A i \in DOMAIN toClient : toClient[i].id = motion_id => IsReply(toClient[i].status)
  BY DEF Replies, RepliesBelong
<1>2. ASSUME NEW i \in DOMAIN toClient,
             toClient[i].id = motion_id, toClient[i].status = "kMotionStarted"
      PROVE  /\ received_responses_[motion_id] = None
             /\ \A j \in DOMAIN toClient : j < i => toClient[j].id # motion_id
  BY <1>2 DEF Replies, StartedFirst
<1>3. ASSUME NEW i \in DOMAIN toRobot, toRobot[i].id = motion_id
      PROVE  /\ toRobot[i].command = "kMove"
             /\ received_responses_[motion_id] = None
             /\ \A j \in DOMAIN toClient : toClient[j].id # motion_id
  BY <1>3 DEF Replies, UndecidedIsSilent
<1>4. \A s : IsReply(s)' <=> s' \in {final[motion_id], "kMotionStarted"}
  BY <1>0 DEF IsReply
<1>5. \A i \in DOMAIN toClient' : \E j \in DOMAIN toClient : toClient'[i] = toClient[j]
  BY <1>0, TailElement DEF Kept, Moved
<1>6. CASE Kept
  <2>1. /\ toClient' = toClient
        /\ received_responses_'[motion_id] \in {received_responses_[motion_id], None}
    BY <1>0, <1>6 DEF Kept
  <2>2. RepliesBelong' /\ StartedFirst' /\ UndecidedIsSilent'
    BY <1>0, <1>1, <1>2, <1>3, <2>1 DEF RepliesBelong, StartedFirst, UndecidedIsSilent, IsReply
  <2>3. NoStart => NoStart'
    BY <1>0, <2>1 DEF NoStart, None
  <2>. QED BY <2>2, <2>3 DEF Replies
<1>7. CASE Moved
  <2>1. /\ toClient # <<>> /\ toClient' = Tail(toClient) /\ 1 \in DOMAIN toClient
        /\ Head(toClient) = toClient[1]
    BY <1>0, <1>7 DEF Moved
  <2>2. \/ received_responses_'[motion_id] \in {received_responses_[motion_id], None}
        \/ /\ received_responses_[motion_id] = None /\ toClient[1].id = motion_id
           /\ received_responses_'[motion_id] = toClient[1].status
    BY <1>0, <1>7, <2>1 DEF Moved
  <2>3. \A i \in DOMAIN toClient' :
            i \in Nat /\ i + 1 \in DOMAIN toClient /\ toClient'[i] = toClient[i + 1]
    BY <1>0, <2>1, TailElement
  <2>4. RepliesBelong'
    <3>1. received_responses_'[motion_id] # None => IsReply(received_responses_'[motion_id])
      BY <1>1, <2>1, <2>2
    <3>2. \A i \in DOMAIN toClient' : toClient'[i].id = motion_id => IsReply(toClient'[i].status)
      BY <1>1, <2>3
    <3>. QED BY <1>0, <3>1, <3>2 DEF RepliesBelong, IsReply
  <2>5. StartedFirst'
    <3>1. ASSUME NEW i \in DOMAIN toClient',
                 toClient'[i].id = motion_id, toClient'[i].status = "kMotionStarted"
          PROVE  /\ received_responses_'[motion_id] = None
                 /\ \A j \in DOMAIN toClient' : j < i => toClient'[j].id # motion_id
      <4>1. /\ received_responses_[motion_id] = None
            /\ \A j \in DOMAIN toClient : j < i + 1 => toClient[j].id # motion_id
        BY <1>2, <2>3, <3>1
      <4>2. toClient[1].id # motion_id
        BY <2>1, <2>3, <4>1
      <4>. QED BY <2>2, <2>3, <4>1, <4>2
    <3>. QED BY <1>0, <3>1 DEF StartedFirst
  <2>6. UndecidedIsSilent'
    <3>1. ASSUME NEW i \in DOMAIN toRobot, toRobot[i].id = motion_id
          PROVE  /\ toRobot[i].command = "kMove"
                 /\ received_responses_'[motion_id] = None
                 /\ \A j \in DOMAIN toClient' : toClient'[j].id # motion_id
      BY <1>3, <2>1, <2>2, <2>3, <3>1
    <3>. QED BY <1>0, <3>1 DEF UndecidedIsSilent
  <2>7. NoStart => NoStart'
    BY <1>0, <1>5, <2>1, <2>2 DEF NoStart, None
  <2>. QED BY <2>4, <2>5, <2>6, <2>7 DEF Replies
<1>. QED BY <1>6, <1>7

---------------------------------------------------------------------------
(* The robot answers.                                                      *)

\* What the responses r may be: replies to the current Move as long as none
\* of its requests is left, or responses to other commands.
Proper(r) ==
    motion_id # NoMotion =>
        \A k \in DOMAIN r : r[k].id = motion_id =>
            /\ \/ r[k].status = final'[motion_id]
               \/ /\ r[k].status = "kMotionStarted" /\ ~NoStart
                  /\ Len(r) = 1
                  /\ received_responses_[motion_id] = None
                  /\ \A j \in DOMAIN toClient : toClient[j].id # motion_id
            /\ \A i \in DOMAIN toRobot' : toRobot'[i].id # motion_id

LEMMA AnsweringKeepsReplies ==
    ASSUME ServerTypeOK, ImplTypeOK, Replies, NEW r \in Seq(Response), toClient' = toClient \o r, Proper(r),
           final' \in [CommandId -> MoveEnd \cup {None}],
           UNCHANGED <<motion_id, received_responses_>>,
           \A i \in DOMAIN toRobot' : \E j \in DOMAIN toRobot : toRobot'[i] = toRobot[j],
           motion_id # NoMotion => final[motion_id] \in {None, final'[motion_id]}
    PROVE  Replies' /\ (NoStart => NoStart')
<1>. SUFFICES ASSUME motion_id # NoMotion
              PROVE  Replies' /\ (NoStart => NoStart')
  BY DEF Replies, RepliesBelong, StartedFirst, UndecidedIsSilent, NoStart
<1>0. /\ motion_id \in CommandId /\ toClient \in Seq(Response)
      /\ motion_id' = motion_id /\ received_responses_' = received_responses_
      /\ final'[motion_id] # "kMotionStarted"
  BY DEF ServerTypeOK, ImplTypeOK, MoveEnd, Rejection, None
<1>1. /\ received_responses_[motion_id] # None => IsReply(received_responses_[motion_id])
      /\ \A i \in DOMAIN toClient : toClient[i].id = motion_id => IsReply(toClient[i].status)
  BY DEF Replies, RepliesBelong
<1>2. \A k \in DOMAIN r : r[k].id = motion_id =>
          /\ \/ r[k].status = final'[motion_id]
             \/ /\ r[k].status = "kMotionStarted" /\ ~NoStart
                /\ Len(r) = 1
                /\ received_responses_[motion_id] = None
                /\ \A j \in DOMAIN toClient : toClient[j].id # motion_id
          /\ \A i \in DOMAIN toRobot' : toRobot'[i].id # motion_id
  BY DEF Proper
<1>3. \A i \in DOMAIN toClient' :
          \/ i \in DOMAIN toClient /\ toClient'[i] = toClient[i]
          \/ i > Len(toClient) /\ i - Len(toClient) \in DOMAIN r /\ toClient'[i] = r[i - Len(toClient)]
  BY <1>0, ConcatElement
<1>. DEFINE StillReply(s) == s \in {final'[motion_id], "kMotionStarted"}
<1>4. ASSUME NEW s, s # None, IsReply(s)
      PROVE  StillReply(s)
  BY <1>4 DEF IsReply
<1>5. RepliesBelong'
  <2>1. received_responses_[motion_id] # None => StillReply(received_responses_[motion_id])
    BY <1>1, <1>4
  <2>2. ASSUME NEW i \in DOMAIN toClient', toClient'[i].id = motion_id
        PROVE  StillReply(toClient'[i].status)
    <3>1. CASE i \in DOMAIN toClient /\ toClient'[i] = toClient[i]
      <4>1. toClient[i] \in Response
        BY <1>0, <3>1
      <4>2. toClient[i].status # None
        BY <4>1, NoneFacts DEF Response
      <4>. QED BY <1>1, <1>4, <2>2, <3>1, <4>2
    <3>2. CASE i - Len(toClient) \in DOMAIN r /\ toClient'[i] = r[i - Len(toClient)]
      BY <1>2, <2>2, <3>2
    <3>. QED BY <1>3, <3>1, <3>2
  <2>. QED BY <1>0, <2>1, <2>2 DEF RepliesBelong, IsReply
<1>6. StartedFirst'
  <2>1. ASSUME NEW i \in DOMAIN toClient',
               toClient'[i].id = motion_id, toClient'[i].status = "kMotionStarted"
        PROVE  /\ received_responses_[motion_id] = None
               /\ \A j \in DOMAIN toClient' : j < i => toClient'[j].id # motion_id
    <3>1. CASE i \in DOMAIN toClient /\ toClient'[i] = toClient[i]
      <4>1. /\ received_responses_[motion_id] = None
            /\ \A j \in DOMAIN toClient : j < i => toClient[j].id # motion_id
        BY <2>1, <3>1 DEF Replies, StartedFirst
      <4>2. \A j \in DOMAIN toClient' : j < i => j \in DOMAIN toClient /\ toClient'[j] = toClient[j]
        BY <1>0, <1>3, <3>1
      <4>. QED BY <4>1, <4>2
    <3>2. CASE i - Len(toClient) \in DOMAIN r /\ toClient'[i] = r[i - Len(toClient)]
      <4>1. /\ Len(r) = 1 /\ received_responses_[motion_id] = None
            /\ \A j \in DOMAIN toClient : toClient[j].id # motion_id
        BY <1>0, <1>2, <2>1, <3>2
      <4>2. i = Len(toClient) + 1
        BY <1>0, <3>2, <4>1
      <4>3. \A j \in DOMAIN toClient' : j < i => j \in DOMAIN toClient /\ toClient'[j] = toClient[j]
        BY <1>0, <1>3, <4>2
      <4>. QED BY <4>1, <4>3
    <3>. QED BY <1>3, <3>1, <3>2
  <2>. QED BY <1>0, <2>1 DEF StartedFirst
<1>7. UndecidedIsSilent'
  <2>1. ASSUME NEW i \in DOMAIN toRobot', toRobot'[i].id = motion_id
        PROVE  /\ toRobot'[i].command = "kMove"
               /\ received_responses_[motion_id] = None
               /\ \A j \in DOMAIN toClient' : toClient'[j].id # motion_id
    <3>1. PICK j \in DOMAIN toRobot : toRobot'[i] = toRobot[j]
      OBVIOUS
    <3>2. /\ toRobot[j].command = "kMove"
          /\ received_responses_[motion_id] = None
          /\ \A k \in DOMAIN toClient : toClient[k].id # motion_id
      BY <2>1, <3>1 DEF Replies, UndecidedIsSilent
    <3>. QED BY <1>2, <1>3, <2>1, <3>1, <3>2
  <2>. QED BY <1>0, <2>1 DEF UndecidedIsSilent
<1>8. ASSUME NoStart
      PROVE  NoStart'
  <2>1. ASSUME NEW i \in DOMAIN toClient', toClient'[i].id = motion_id
        PROVE  toClient'[i].status # "kMotionStarted"
    BY <1>0, <1>2, <1>3, <1>8, <2>1 DEF NoStart
  <2>2. \A i \in DOMAIN toRobot' : toRobot'[i].id # motion_id
    BY <1>8 DEF NoStart
  <2>. QED BY <1>0, <1>8, <2>1, <2>2 DEF NoStart
<1>. QED BY <1>5, <1>6, <1>7, <1>8 DEF Replies

LEMMA IdsAreNumbers ==
    ASSUME NEW id \in CommandId
    PROVE  id \in Nat /\ id # NoMotion
BY BoundsAssumption DEF CommandId, NoMotion

\* A verdict stays.
VerdictsStay == \A id \in CommandId : final[id] # None => final'[id] = final[id]

\* The robot deals with the commands of ids H, the first of those it has.
LEMMA DealingKeepsNumbers ==
    ASSUME ServerTypeOK, ImplTypeOK, ServerTypeOK', Numbered, DecidedOnce,
           NEW H, \A h \in H : h \in Nat /\ h < command_id_
                               /\ \A i \in DOMAIN toRobot' : h < toRobot'[i].id,
           active' \in H \cup {active},
           toRobot' = toRobot \/ (toRobot # <<>> /\ toRobot' = Tail(toRobot)),
           NEW r \in Seq(Response), toClient' = toClient \o r, \A k \in DOMAIN r : r[k].id \in H,
           \A id \in CommandId \ H : final'[id] = final[id],
           phase' \in {"accepted", "moving"} => final'[active'] = None,
           UNCHANGED <<motion_id, command_id_, received_responses_>>
    PROVE  Numbered' /\ DecidedOnce'
<1>1. /\ command_id_ \in Nat /\ active \in Nat
      /\ toRobot \in Seq(Request) /\ toRobot' \in Seq(Request) /\ toClient \in Seq(Response)
  <2>1. /\ command_id_ \in 1 .. (MaxCommands + 1) /\ active \in CommandId \cup {NoMotion}
        /\ toRobot \in Seq(Request) /\ toRobot' \in Seq(Request) /\ toClient \in Seq(Response)
    BY DEF ServerTypeOK, ImplTypeOK
  <2>. QED BY <2>1, BoundsAssumption DEF CommandId, NoMotion
<1>2. \A i \in DOMAIN toRobot : toRobot[i].id \in CommandId /\ toRobot[i].id \in Nat
  <2>1. \A i \in DOMAIN toRobot : toRobot[i] \in Request
    BY <1>1
  <2>2. \A i \in DOMAIN toRobot : toRobot[i].id \in CommandId
    BY <2>1 DEF Request
  <2>. QED BY <2>2, IdsAreNumbers
<1>3. \A i \in DOMAIN toRobot' : \E d \in {0, 1} :
          i \in Nat /\ i + d \in DOMAIN toRobot /\ toRobot'[i] = toRobot[i + d]
                    /\ (d = 0 <=> toRobot' = toRobot)
  <2>1. CASE toRobot' = toRobot
    BY <1>1, <2>1
  <2>2. CASE toRobot # <<>> /\ toRobot' = Tail(toRobot) /\ toRobot' # toRobot
    BY <1>1, <2>2, TailElement
  <2>. QED BY <2>1, <2>2
<1>4. Numbered'
  <2>1. ASSUME NEW i \in DOMAIN toClient'
        PROVE  toClient'[i].id < command_id_
    BY <1>1, ConcatElement DEF Numbered
  <2>2. \A i \in DOMAIN toRobot' : toRobot'[i].id < command_id_
    BY <1>3 DEF Numbered
  <2>3. active' < command_id_
    BY DEF Numbered
  <2>4. ASSUME NEW id \in CommandId, id >= command_id_
        PROVE  received_responses_[id] = None /\ final'[id] = None
    BY <1>1, <2>4 DEF Numbered, CommandId
  <2>. QED BY <2>1, <2>2, <2>3, <2>4 DEF Numbered
<1>5. DecidedOnce'
  <2>1. ASSUME NEW i \in DOMAIN toRobot'
        PROVE  active' < toRobot'[i].id /\ final'[toRobot'[i].id] = None
    <3>1. PICK j \in DOMAIN toRobot : toRobot'[i] = toRobot[j]
      BY <1>3
    <3>2. /\ active < toRobot[j].id /\ final[toRobot[j].id] = None
          /\ toRobot[j].id \in CommandId /\ toRobot[j].id \in Nat
      BY <1>2 DEF DecidedOnce
    <3>3. toRobot[j].id \notin H
      BY <3>1, <3>2
    <3>. QED BY <3>1, <3>2, <3>3
  <2>2. ASSUME NEW i \in DOMAIN toRobot', NEW j \in DOMAIN toRobot', i < j
        PROVE  toRobot'[i].id < toRobot'[j].id
    BY <1>3, <2>2 DEF DecidedOnce
  <2>. QED BY <2>1, <2>2 DEF DecidedOnce
<1>. QED BY <1>4, <1>5

\* The request at the head is the one to decide on.
LEMMA NextRequest ==
    ASSUME ServerTypeOK, ImplTypeOK, Numbered, DecidedOnce, Replies, toRobot # <<>>,
           toRobot' = Tail(toRobot)
    PROVE  LET h == Head(toRobot).id IN
           /\ h \in CommandId /\ h \in Nat /\ active < h /\ h < command_id_ /\ final[h] = None
           /\ \A i \in DOMAIN toRobot' : h < toRobot'[i].id
           /\ \A i \in DOMAIN toRobot' : \E j \in DOMAIN toRobot : toRobot'[i] = toRobot[j]
           /\ h = motion_id =>
                /\ Head(toRobot).command = "kMove" /\ ~NoStart
                /\ received_responses_[motion_id] = None
                /\ \A j \in DOMAIN toClient : toClient[j].id # motion_id
<1>1. /\ toRobot \in Seq(Request) /\ 1 \in DOMAIN toRobot /\ Head(toRobot) = toRobot[1]
      /\ \A i \in DOMAIN toRobot' : i \in Nat \ {0} /\ i + 1 \in DOMAIN toRobot
                                    /\ toRobot'[i] = toRobot[i + 1]
  BY TailElement DEF ServerTypeOK
<1>2. Head(toRobot).id \in CommandId /\ Head(toRobot).id \in Nat /\ Head(toRobot).id # NoMotion
  BY RequestAtHead, IdsAreNumbers
<1>3. /\ active < toRobot[1].id /\ toRobot[1].id < command_id_ /\ final[toRobot[1].id] = None
  BY <1>1 DEF Numbered, DecidedOnce
<1>4. \A i \in DOMAIN toRobot' : toRobot[1].id < toRobot'[i].id
  BY <1>1 DEF DecidedOnce
<1>5. toRobot[1].id = motion_id =>
        /\ toRobot[1].command = "kMove" /\ ~NoStart
        /\ received_responses_[motion_id] = None
        /\ \A j \in DOMAIN toClient : toClient[j].id # motion_id
  BY <1>1, <1>2 DEF Replies, UndecidedIsSilent, NoStart
<1>. QED BY <1>1, <1>2, <1>3, <1>4, <1>5

LEMMA ReplyElement ==
    ASSUME NEW id, NEW s
    PROVE  /\ DOMAIN Reply(id, s) = {1} /\ Len(Reply(id, s)) = 1
           /\ Reply(id, s)[1].id = id /\ Reply(id, s)[1].status = s
BY DEF Reply

\* The robot answers the request at the head with the responses r.
LEMMA AnswerKeeps ==
    ASSUME ServerTypeOK, ImplTypeOK, ServerTypeOK', Numbered, DecidedOnce, Replies,
           toRobot # <<>>,
           NEW r \in Seq(Response), Answer(r), UNCHANGED implVars,
           NEW H \in SUBSET {Head(toRobot).id, active}, active' \in H \cup {active},
           \A k \in DOMAIN r : r[k].id \in H, Proper(r),
           \A id \in CommandId \ H : final'[id] = final[id],
           \A id \in H \cap CommandId : final[id] \in {None, final'[id]},
           phase' \in {"accepted", "moving"} => final'[active'] = None
    PROVE  Numbered' /\ DecidedOnce' /\ Replies' /\ VerdictsStay /\ (NoStart => NoStart')
<1>1. toRobot' = Tail(toRobot) /\ toClient' = toClient \o r
  BY DEF Answer
<1>2. \A i \in DOMAIN toRobot' : Head(toRobot).id < toRobot'[i].id
  BY <1>1, NextRequest
<1>3. /\ Head(toRobot).id \in Nat /\ active \in Nat /\ active < Head(toRobot).id
      /\ Head(toRobot).id < command_id_
  BY <1>1, NextRequest, IdsAreNumbers DEF ServerTypeOK, NoMotion
<1>4. \A i \in DOMAIN toRobot' : toRobot'[i].id \in Nat
  <2>1. \A i \in DOMAIN toRobot' : toRobot'[i] \in Request
    BY DEF ServerTypeOK
  <2>. QED BY <2>1, IdsAreNumbers DEF Request
<1>5. \A i \in DOMAIN toRobot' : active < toRobot'[i].id
  BY <1>2, <1>3, <1>4
<1>6. \A h \in H : h \in Nat /\ h < command_id_ /\ \A i \in DOMAIN toRobot' : h < toRobot'[i].id
  BY <1>2, <1>3, <1>5 DEF Numbered
<1>7. Numbered' /\ DecidedOnce'
  <2>1. UNCHANGED <<motion_id, command_id_, received_responses_>>
    BY DEF implVars
  <2>. QED BY <1>1, <1>6, <2>1, DealingKeepsNumbers
<1>8. Replies' /\ (NoStart => NoStart')
  <2>1. UNCHANGED <<motion_id, received_responses_>>
    BY DEF implVars
  <2>2. final' \in [CommandId -> MoveEnd \cup {None}]
    BY DEF ServerTypeOK
  <2>3. motion_id # NoMotion => final[motion_id] \in {None, final'[motion_id]}
    BY DEF ImplTypeOK
  <2>. QED BY <1>1, <2>1, <2>2, <2>3, NextRequest, AnsweringKeepsReplies
<1>. QED BY <1>7, <1>8 DEF VerdictsStay

\* The Move in execution ends by itself.
LEMMA EndKeeps ==
    ASSUME ServerTypeOK, ImplTypeOK, ServerTypeOK', Numbered, DecidedOnce, Replies,
           phase \in {"accepted", "moving"},
           active \in CommandId, NEW s \in MoveEnd, NEW p \in {"idle", "reflex"}, EndMove(s, p),
           toClient' = toClient \o Reply(active, s), UNCHANGED <<toRobot, implVars>>
    PROVE  Numbered' /\ DecidedOnce' /\ Replies' /\ VerdictsStay /\ (NoStart => NoStart')
<1>1. /\ final' = [final EXCEPT ![active] = s] /\ active' = active
      /\ phase' \notin {"accepted", "moving"}
      /\ final \in [CommandId -> MoveEnd \cup {None}]
  BY DEF EndMove, ServerTypeOK
<1>2. final[active] = None /\ active \in Nat /\ active < command_id_
  BY IdsAreNumbers DEF DecidedOnce, Numbered
<1>3. \A i \in DOMAIN toRobot' : active < toRobot'[i].id
  BY DEF DecidedOnce
<1>4. Reply(active, s) \in Seq(Response)
  BY ReplyType, StatusFacts
<1>5. UNCHANGED <<motion_id, command_id_, received_responses_>>
  BY DEF implVars
<1>6. Numbered' /\ DecidedOnce'
  <2>. DEFINE H == {active}
  <2>1. \A h \in H : h \in Nat /\ h < command_id_ /\ \A i \in DOMAIN toRobot' : h < toRobot'[i].id
    BY <1>2, <1>3
  <2>2. \A k \in DOMAIN Reply(active, s) : Reply(active, s)[k].id \in H
    BY ReplyElement
  <2>3. \A id \in CommandId \ H : final'[id] = final[id]
    BY <1>1
  <2>4. active' \in H \cup {active}
    BY <1>1
  <2>. HIDE DEF H
  <2>. QED BY <1>1, <1>4, <1>5, <2>1, <2>2, <2>3, <2>4, DealingKeepsNumbers
<1>7. Replies' /\ (NoStart => NoStart')
  <2>1. final'[active] = s
    BY <1>1
  <2>2. Proper(Reply(active, s))
    BY <1>2, <1>3, <2>1, ReplyElement DEF Proper
  <2>3. motion_id # NoMotion => final[motion_id] \in {None, final'[motion_id]}
    BY <1>1, <1>2 DEF ImplTypeOK
  <2>4. \A i \in DOMAIN toRobot' : \E j \in DOMAIN toRobot : toRobot'[i] = toRobot[j]
    OBVIOUS
  <2>5. final' \in [CommandId -> MoveEnd \cup {None}]
    BY DEF ServerTypeOK
  <2>. QED BY <1>4, <1>5, <2>2, <2>3, <2>4, <2>5, AnsweringKeepsReplies
<1>. QED BY <1>1, <1>2, <1>6, <1>7 DEF VerdictsStay

LEMMA ServerKeeps ==
    ASSUME ServerTypeOK, ImplTypeOK, MoveInExecution, Numbered, DecidedOnce, Replies,
           ServerNext, UNCHANGED implVars
    PROVE  Numbered' /\ DecidedOnce' /\ Replies' /\ VerdictsStay /\ (NoStart => NoStart')
<1>. DEFINE h == Head(toRobot).id
<1>0. ServerTypeOK'
  BY ServerTypes
<1>1. CASE AcceptMove
  <2>1. /\ toRobot # <<>> /\ phase = "idle" /\ active' = h /\ UNCHANGED final
        /\ Answer(Reply(h, "kMotionStarted"))
    BY <1>1 DEF AcceptMove, Requested
  <2>2. toRobot' = Tail(toRobot)
    BY <2>1 DEF Answer
  <2>3. /\ h \in CommandId /\ final[h] = None
        /\ \A i \in DOMAIN toRobot' : h < toRobot'[i].id /\ toRobot'[i].id # h
        /\ h = motion_id =>
             /\ ~NoStart /\ received_responses_[motion_id] = None
             /\ \A j \in DOMAIN toClient : toClient[j].id # motion_id
    BY <1>0, <2>1, <2>2, NextRequest
  <2>4. Reply(h, "kMotionStarted") \in Seq(Response)
    BY <2>3, ReplyType, StatusFacts
  <2>. HIDE DEF h
  <2>5. Proper(Reply(h, "kMotionStarted"))
    BY <2>3, ReplyElement DEF Proper
  <2>6. \A k \in DOMAIN Reply(h, "kMotionStarted") : Reply(h, "kMotionStarted")[k].id \in {h}
    BY ReplyElement
  <2>7. {h} \in SUBSET {Head(toRobot).id, active}
    BY DEF h
  <2>. QED BY <1>0, <2>1, <2>3, <2>4, <2>5, <2>6, <2>7, AnswerKeeps
<1>2. CASE RejectMove
  <2>1. PICK s \in Rejection : final' = [final EXCEPT ![h] = s] /\ Answer(Reply(h, s))
    BY <1>2 DEF RejectMove
  <2>2. toRobot # <<>> /\ toRobot' = Tail(toRobot) /\ UNCHANGED <<phase, active>>
    BY <1>2, <2>1 DEF RejectMove, Requested, Answer
  <2>3. /\ h \in CommandId /\ h \in Nat /\ active < h /\ final[h] = None
        /\ \A i \in DOMAIN toRobot' : h < toRobot'[i].id /\ toRobot'[i].id # h
    BY <1>0, <2>2, NextRequest
  <2>4. Reply(h, s) \in Seq(Response)
    BY <2>3, ReplyType, StatusFacts
  <2>. HIDE DEF h
  <2>5. /\ final'[h] = s /\ \A id \in CommandId \ {h} : final'[id] = final[id]
    BY <1>0, <2>1, <2>3 DEF ServerTypeOK
  <2>6. Proper(Reply(h, s))
    BY <2>3, <2>5, ReplyElement DEF Proper
  <2>7. \A k \in DOMAIN Reply(h, s) : Reply(h, s)[k].id \in {h}
    BY ReplyElement
  <2>8. {h} \in SUBSET {Head(toRobot).id, active}
    BY DEF h
  <2>9. phase' \in {"accepted", "moving"} => final'[active'] = None
    <3>1. ASSUME phase \in {"accepted", "moving"}
          PROVE  final[active] = None /\ active \in CommandId /\ active # h
      BY <1>0, <2>3, <3>1, IdsAreNumbers DEF DecidedOnce, MoveInExecution
    <3>. QED BY <2>2, <2>5, <3>1
  <2>. QED BY <1>0, <2>1, <2>2, <2>3, <2>4, <2>5, <2>6, <2>7, <2>8, <2>9, AnswerKeeps
<1>3. CASE StopRunningMove
  <2>. DEFINE stopped == Reply(h, "kSuccess")
              preempted == Reply(active, "kPreempted")
  <2>1. /\ toRobot # <<>> /\ Head(toRobot).command = "kStopMove"
        /\ phase \in {"accepted", "moving"} /\ EndMove("kPreempted", "idle")
    BY <1>3 DEF StopRunningMove, Requested
  <2>2. PICK r \in {preempted \o stopped, stopped \o preempted} : Answer(r)
    BY <1>3 DEF StopRunningMove
  <2>3. toRobot' = Tail(toRobot)
    BY <2>2 DEF Answer
  <2>4. /\ h \in CommandId /\ active \in CommandId /\ active < h /\ h # motion_id
        /\ final[h] = None /\ final[active] = None
        /\ \A i \in DOMAIN toRobot' : h < toRobot'[i].id
    BY <1>0, <2>1, <2>3, NextRequest DEF MoveInExecution, DecidedOnce
  <2>5. stopped \in Seq(Response) /\ preempted \in Seq(Response)
    BY <2>4, ReplyType, StatusFacts
  <2>6. r \in Seq(Response)
    <3>. HIDE DEF stopped, preempted
    <3>1. preempted \o stopped \in Seq(Response) /\ stopped \o preempted \in Seq(Response)
      BY <2>5
    <3>. QED BY <2>2, <3>1
  <2>7. \A k \in DOMAIN r : r[k] \in {[id |-> h, status |-> "kSuccess"],
                                       [id |-> active, status |-> "kPreempted"]}
    <3>1. CASE r = preempted \o stopped
      <4>1. /\ DOMAIN r = {1, 2} /\ r[1] = [id |-> active, status |-> "kPreempted"]
            /\ r[2] = [id |-> h, status |-> "kSuccess"]
        BY <3>1 DEF Reply
      <4>. HIDE DEF stopped, preempted, h
      <4>. QED BY <4>1
    <3>2. CASE r = stopped \o preempted
      <4>1. /\ DOMAIN r = {1, 2} /\ r[1] = [id |-> h, status |-> "kSuccess"]
            /\ r[2] = [id |-> active, status |-> "kPreempted"]
        BY <3>2 DEF Reply
      <4>. HIDE DEF stopped, preempted, h
      <4>. QED BY <4>1
    <3>. QED BY <2>2, <3>1, <3>2
  <2>. HIDE DEF h, stopped, preempted
  <2>8. /\ active' = active /\ phase' \notin {"accepted", "moving"}
        /\ final'[active] = "kPreempted"
        /\ \A id \in CommandId \ {active} : final'[id] = final[id]
    BY <1>0, <2>1, <2>4 DEF EndMove, ServerTypeOK
  <2>9. \A i \in DOMAIN toRobot' : toRobot'[i].id # active
    <3>1. \A i \in DOMAIN toRobot' : \E j \in DOMAIN toRobot : toRobot'[i] = toRobot[j]
      BY <1>0, <2>1, <2>3, NextRequest
    <3>2. \A j \in DOMAIN toRobot : toRobot[j].id # active
      BY <2>4, IdsAreNumbers DEF DecidedOnce
    <3>. QED BY <3>1, <3>2
  <2>10. Proper(r)
    BY <2>4, <2>7, <2>8, <2>9 DEF Proper
  <2>11. \A k \in DOMAIN r : r[k].id \in {h, active}
    BY <2>7
  <2>12. {h, active} \in SUBSET {Head(toRobot).id, active}
    BY DEF h
  <2>. QED BY <1>0, <2>1, <2>2, <2>4, <2>6, <2>8, <2>10, <2>11, <2>12, AnswerKeeps
<1>4. CASE StopNothing \/ Recover
  <2>1. PICK s \in {"kSuccess", "kCommandNotPossibleRejected"} : Answer(Reply(h, s))
    BY <1>4 DEF StopNothing, Recover
  <2>2. /\ toRobot # <<>> /\ Head(toRobot).command # "kMove"
        /\ phase' \in {phase, "idle"} /\ UNCHANGED <<active, final>>
    BY <1>4 DEF StopNothing, Recover, Requested, serverVars
  <2>3. toRobot' = Tail(toRobot)
    BY <2>1 DEF Answer
  <2>4. h \in CommandId /\ h # motion_id /\ final[h] = None
    BY <1>0, <2>2, <2>3, NextRequest
  <2>5. Reply(h, s) \in Seq(Response)
    BY <2>4, ReplyType, StatusFacts
  <2>. HIDE DEF h
  <2>6. Proper(Reply(h, s))
    BY <2>4, ReplyElement DEF Proper
  <2>7. \A k \in DOMAIN Reply(h, s) : Reply(h, s)[k].id \in {h}
    BY ReplyElement
  <2>8. {h} \in SUBSET {Head(toRobot).id, active}
    BY DEF h
  <2>9. phase' \in {"accepted", "moving"} => final'[active'] = None
    BY <2>2 DEF DecidedOnce
  <2>. QED BY <1>0, <2>1, <2>2, <2>4, <2>5, <2>6, <2>7, <2>8, <2>9, AnswerKeeps
<1>5. CASE AbortMove
  <2>1. phase \in {"accepted", "moving"} /\ UNCHANGED toRobot
    BY <1>5 DEF AbortMove
  <2>2. PICK s \in MoveEnd, p \in {"idle", "reflex"} : EndMove(s, p)
    BY <1>5, StatusFacts DEF AbortMove
  <2>3. active \in CommandId
    BY <1>0, <2>1 DEF MoveInExecution
  <2>4. final'[active] = s
    BY <1>0, <2>2, <2>3, EndMoveTypes
  <2>5. toClient' = toClient \o Reply(active, s)
    BY <1>5, <2>4 DEF AbortMove
  <2>. QED BY <1>0, <2>1, <2>2, <2>3, <2>5, EndKeeps
<1>6. CASE CompleteMove
  BY <1>0, <1>6, EndKeeps, StatusFacts DEF CompleteMove, MoveInExecution
<1>7. CASE PublishState \/ BeginMove \/ Settle \/ LoseLink
  <2>1. /\ UNCHANGED <<toRobot, toClient, final, active, motion_id, command_id_,
                       received_responses_>>
        /\ phase' \in {"accepted", "moving"} => phase \in {"accepted", "moving"}
    BY <1>0, <1>7 DEF PublishState, BeginMove, Settle, LoseLink, serverVars, netVars, implVars,
                      ServerTypeOK
  <2>2. Numbered' /\ DecidedOnce'
    BY <2>1 DEF Numbered, DecidedOnce
  <2>3. Replies' /\ (NoStart => NoStart')
    BY <2>1 DEF Replies, RepliesBelong, StartedFirst, UndecidedIsSilent, IsReply, NoStart
  <2>. QED BY <2>1, <2>2, <2>3 DEF VerdictsStay
<1>. QED BY <1>1, <1>2, <1>3, <1>4, <1>5, <1>6, <1>7 DEF ServerNext, ServerAnswer

---------------------------------------------------------------------------
(* Robot::Impl receives.                                                   *)

\* What a pass finds under the current Move's id is a reply to it.
LEMMA FoundIsReply ==
    ASSUME ServerTypeOK, ImplTypeOK, Replies, motion_id # NoMotion, NEW map \in Maps, NEW s \in Status,
           map[motion_id] = s
    PROVE  IsReply(s) /\ (NoStart => s # "kMotionStarted")
<1>0. Received /\ motion_id \in CommandId /\ s # None
  BY NoneFacts DEF ServerTypeOK, ImplTypeOK, Received
<1>1. CASE map = received_responses_
  BY <1>0, <1>1 DEF Replies, RepliesBelong, NoStart
<1>2. CASE toClient # <<>> /\ map = Emplace(received_responses_, Head(toClient))
  <2>1. 1 \in DOMAIN toClient /\ Head(toClient) = toClient[1] /\ Head(toClient).id \in CommandId
    BY <1>0, <1>2, ResponseAtHead DEF Received
  <2>2. \/ s = received_responses_[motion_id]
        \/ toClient[1].id = motion_id /\ s = toClient[1].status
    BY <1>0, <1>2, <2>1 DEF Emplace, Received
  <2>. QED BY <1>0, <2>1, <2>2 DEF Replies, RepliesBelong, NoStart
<1>. QED BY <1>1, <1>2 DEF Maps, AfterReading

\* The first reply is the only one that can start the Move.
LEMMA TakingLeavesNoStart ==
    ASSUME ServerTypeOK, ImplTypeOK, Replies, motion_id # NoMotion, NEW s \in Status, Take(motion_id, s),
           UNCHANGED <<motion_id, toRobot>>
    PROVE  NoStart'
<1>0. /\ Received /\ motion_id \in CommandId /\ s # None /\ toClient \in Seq(Response)
      /\ motion_id' = motion_id /\ toRobot' = toRobot
  BY NoneFacts DEF ServerTypeOK, ImplTypeOK, Received
<1>1. PICK map \in Maps : /\ Read(map) /\ map[motion_id] = s
                          /\ received_responses_' = [map EXCEPT ![motion_id] = None]
  BY DEF Take
<1>2. received_responses_'[motion_id] = None
  BY <1>0, <1>1, MapType
<1>3. CASE received_responses_[motion_id] # None
  <2>1. \A i \in DOMAIN toClient :
            toClient[i].id = motion_id => toClient[i].status # "kMotionStarted"
    BY <1>3 DEF Replies, StartedFirst
  <2>2. \A i \in DOMAIN toRobot : toRobot[i].id # motion_id
    BY <1>3 DEF Replies, UndecidedIsSilent
  <2>3. \A i \in DOMAIN toClient' : \E j \in DOMAIN toClient : toClient'[i] = toClient[j]
    BY <1>0, <1>1, TailElement DEF Read
  <2>. QED BY <1>0, <1>2, <2>1, <2>2, <2>3 DEF NoStart, None
<1>4. CASE received_responses_[motion_id] = None
  <2>1. toClient # <<>> /\ map = Emplace(received_responses_, Head(toClient))
        /\ toClient' = Tail(toClient)
    BY <1>0, <1>1, <1>4 DEF Read, AfterReading
  <2>2. /\ 1 \in DOMAIN toClient /\ Head(toClient) = toClient[1]
        /\ Head(toClient).id \in CommandId
    BY <1>0, <2>1, ResponseAtHead
  <2>3. toClient[1].id = motion_id
    BY <1>0, <1>1, <1>4, <2>1, <2>2 DEF Emplace, Received
  <2>4. \A i \in DOMAIN toRobot : toRobot[i].id # motion_id
    BY <2>2, <2>3 DEF Replies, UndecidedIsSilent
  <2>5. ASSUME NEW i \in DOMAIN toClient', toClient'[i].id = motion_id,
               toClient'[i].status = "kMotionStarted"
        PROVE  FALSE
    <3>1. i \in Nat \ {0} /\ i + 1 \in DOMAIN toClient /\ toClient'[i] = toClient[i + 1]
      BY <1>0, <2>1, TailElement
    <3>. QED BY <2>2, <2>3, <2>5, <3>1 DEF Replies, StartedFirst
  <2>. QED BY <1>0, <1>2, <2>4, <2>5 DEF NoStart, None
<1>. QED BY <1>3, <1>4

\* Each step of Robot::Impl is such a pass, or none.
LEMMA ImplPass ==
    ASSUME ServerTypeOK, ImplTypeOK, ImplNext
    PROVE  /\ Kept \/ Moved
           /\ UNCHANGED <<serverVars, toRobot, command_id_, motion_id>>
<1>0. Received
  BY DEF ServerTypeOK, ImplTypeOK, Received
<1>1. CASE UpdateSend \/ UpdateClosed \/ UpdateReceive \/ FinishPoll \/ CancelReceive
  BY <1>1, NothingRead DEF UpdateSend, UpdateClosed, UpdateReceive, FinishPoll, CancelReceive, netVars
<1>2. CASE StartWait
  BY <1>0, <1>2, TakeEffect, WaitEffect, NothingRead DEF StartWait, Interrupted
<1>3. CASE ErrorWait
  BY <1>0, <1>3, TakeEffect, WaitEffect, NothingRead DEF ErrorWait, Interrupted
<1>4. CASE FinishWait
  BY <1>0, <1>4, TakeEffect, WaitEffect, NothingRead DEF FinishWait, Interrupted
<1>5. CASE CancelWait
  BY <1>0, <1>5, TakeEffect, WaitEffect, NothingRead DEF CancelWait, Interrupted
<1>6. ASSUME NEW map \in Maps, Read(map),
             received_responses_' \in {map, [map EXCEPT ![motion_id] = None]}
      PROVE  Kept \/ Moved
  <2>1. map \in [CommandId -> Status \cup {None}]
    BY <1>0, <1>6, MapType
  <2>2. \A id \in CommandId : received_responses_'[id] \in {map[id], None}
    BY <1>6, <2>1
  <2>. QED BY <1>0, <1>6, <2>2, PassEffect
<1>7. CASE StartPoll
  <2>1. Kept \/ Moved
    BY <1>6, <1>7, NothingRead DEF StartPoll, Interrupted
  <2>. QED BY <1>7, <2>1 DEF StartPoll
<1>8. CASE CancelIgnore
  <2>1. Kept \/ Moved
    BY <1>6, <1>8, NothingRead DEF CancelIgnore, Interrupted
  <2>. QED BY <1>8, <2>1 DEF CancelIgnore
<1>. QED BY <1>1, <1>2, <1>3, <1>4, <1>5, <1>7, <1>8 DEF ImplNext

\* What a pass leaves of the numbering, the verdicts and the replies.
LEMMA PassKeeps ==
    ASSUME ServerTypeOK, ImplTypeOK, Numbered, DecidedOnce, Replies, Kept \/ Moved,
           UNCHANGED <<serverVars, toRobot, command_id_, motion_id>>
    PROVE  Numbered' /\ DecidedOnce' /\ Replies' /\ VerdictsStay /\ (NoStart => NoStart')
<1>0. /\ UNCHANGED <<phase, active, final>>
      /\ toClient \in Seq(Response) /\ command_id_ \in Nat
  BY BoundsAssumption DEF serverVars, ServerTypeOK, ImplTypeOK
<1>1. Replies' /\ (NoStart => NoStart')
  BY <1>0, PassKeepsReplies
<1>2. \A i \in DOMAIN toClient' : \E j \in DOMAIN toClient : toClient'[i] = toClient[j]
  BY <1>0, TailElement DEF Kept, Moved
<1>3. ASSUME NEW id \in CommandId, id >= command_id_
      PROVE  received_responses_'[id] = None
  <2>1. received_responses_[id] = None
    BY <1>3 DEF Numbered
  <2>2. CASE Kept
    BY <2>1, <2>2 DEF Kept
  <2>3. CASE Moved
    <3>1. 1 \in DOMAIN toClient /\ Head(toClient) = toClient[1]
      BY <1>0, <2>3 DEF Moved
    <3>2. toClient[1].id < command_id_
      BY <3>1 DEF Numbered
    <3>3. toClient[1].id # id
      BY <1>0, <1>3, <3>2, IdsAreNumbers
    <3>. QED BY <2>1, <2>3, <3>1, <3>3 DEF Moved
  <2>. QED BY <2>2, <2>3
<1>4. Numbered'
  BY <1>0, <1>2, <1>3 DEF Numbered
<1>5. DecidedOnce'
  BY <1>0 DEF DecidedOnce
<1>. QED BY <1>0, <1>1, <1>4, <1>5 DEF VerdictsStay

LEMMA ImplKeeps ==
    ASSUME ServerTypeOK, ImplTypeOK, Numbered, DecidedOnce, Replies, ImplNext
    PROVE  Numbered' /\ DecidedOnce' /\ Replies' /\ VerdictsStay /\ (NoStart => NoStart')
BY ImplPass, PassKeeps

LEMMA OtherReceiveKeeps ==
    ASSUME ServerTypeOK, ImplTypeOK, Numbered, DecidedOnce, Replies, OtherReceive
    PROVE  Numbered' /\ DecidedOnce' /\ Replies' /\ VerdictsStay /\ (NoStart => NoStart')
<1>1. Received
  BY DEF ServerTypeOK, ImplTypeOK, Received
<1>2. Kept \/ Moved
  BY <1>1, TakeEffect, WaitEffect, NothingRead DEF OtherReceive, Interrupted
<1>3. UNCHANGED <<serverVars, toRobot, command_id_, motion_id>>
  BY DEF OtherReceive
<1>. QED BY <1>2, <1>3, PassKeeps

\* Nothing is sent or received.
LEMMA LocalKeeps ==
    ASSUME ServerTypeOK, ImplTypeOK, Numbered, DecidedOnce, Replies,
           UNCHANGED <<serverVars, toRobot, toClient, received_responses_, command_id_, motion_id>>
    PROVE  Numbered' /\ DecidedOnce' /\ Replies' /\ VerdictsStay /\ (NoStart => NoStart')
<1>1. Kept
  BY DEF Kept
<1>. QED BY <1>1, PassKeeps

\* A request with a fresh id is sent.
LEMMA SendingKeeps ==
    ASSUME ServerTypeOK, ImplTypeOK, Numbered, DecidedOnce, Replies, command_id_ \in CommandId,
           NEW c \in Command, NEW modes \in Modes, SendRequest(c, modes),
           UNCHANGED <<serverVars, toClient, received_responses_>>,
           motion_id' = motion_id \/ (motion_id' = command_id_ /\ c = "kMove")
    PROVE  /\ Numbered' /\ DecidedOnce' /\ Replies' /\ VerdictsStay
           /\ motion_id' = motion_id => (NoStart => NoStart')
<1>01. command_id_ \in Nat
  BY IdsAreNumbers
<1>02. active \in Nat /\ motion_id \in Nat
  <2>1. /\ active \in CommandId \cup {NoMotion}
        /\ motion_id \in CommandId \cup {NoMotion}
    BY DEF ServerTypeOK, ImplTypeOK
  <2>. QED BY <2>1, IdsAreNumbers DEF NoMotion
<1>03. motion_id < command_id_ /\ active < command_id_
  BY DEF Numbered
<1>04. motion_id' \in Nat /\ motion_id' <= command_id_ /\ motion_id # command_id_
  BY <1>01, <1>02, <1>03
<1>05. /\ command_id_' = command_id_ + 1
       /\ toRobot' = Append(toRobot, [command |-> c, id |-> command_id_, modes |-> modes])
       /\ UNCHANGED <<phase, active, final>>
  BY DEF SendRequest, serverVars
<1>0. /\ command_id_' = command_id_ + 1 /\ command_id_ \in Nat
      /\ toRobot' = Append(toRobot, [command |-> c, id |-> command_id_, modes |-> modes])
      /\ UNCHANGED <<phase, active, final>> /\ active \in Nat
      /\ motion_id \in Nat /\ motion_id' \in Nat /\ motion_id # command_id_
  BY <1>01, <1>02, <1>04, <1>05
<1>1. \A i \in DOMAIN toRobot' :
          \/ i \in DOMAIN toRobot /\ toRobot'[i] = toRobot[i]
          \/ i = Len(toRobot) + 1 /\ toRobot'[i].id = command_id_ /\ toRobot'[i].command = c
  <2>1. [command |-> c, id |-> command_id_, modes |-> modes] \in Request /\ toRobot \in Seq(Request)
    BY DEF Request, ServerTypeOK
  <2>. QED BY <1>0, <2>1, AppendElement
<1>2. \A i \in DOMAIN toRobot : toRobot[i].id \in Nat /\ toRobot[i].id < command_id_
  <2>1. \A i \in DOMAIN toRobot : toRobot[i] \in Request
    BY DEF ServerTypeOK
  <2>. QED BY <2>1, IdsAreNumbers DEF Request, Numbered
<1>3. \A i \in DOMAIN toClient : toClient[i].id \in Nat /\ toClient[i].id < command_id_
  <2>1. \A i \in DOMAIN toClient : toClient[i] \in Response
    BY DEF ServerTypeOK
  <2>. QED BY <2>1, IdsAreNumbers DEF Response, Numbered
<1>4. Numbered'
  <2>1. motion_id' < command_id_' /\ active' < command_id_'
    BY <1>0, <1>03, <1>04
  <2>2. \A i \in DOMAIN toRobot' : toRobot'[i].id < command_id_'
    BY <1>0, <1>1, <1>2
  <2>3. \A i \in DOMAIN toClient' : toClient'[i].id < command_id_'
    BY <1>0, <1>3
  <2>4. \A id \in CommandId : id >= command_id_' => received_responses_'[id] = None /\ final'[id] = None
    BY <1>0, IdsAreNumbers DEF Numbered
  <2>. QED BY <2>1, <2>2, <2>3, <2>4 DEF Numbered
<1>5. DecidedOnce'
  <2>1. \A i \in DOMAIN toRobot' : active < toRobot'[i].id /\ final[toRobot'[i].id] = None
    BY <1>0, <1>1 DEF Numbered, DecidedOnce
  <2>2. ASSUME NEW i \in DOMAIN toRobot', NEW j \in DOMAIN toRobot', i < j
        PROVE  toRobot'[i].id < toRobot'[j].id
    <3>1. toRobot \in Seq(Request)
      BY DEF ServerTypeOK
    <3>. QED BY <1>1, <1>2, <2>2, <3>1 DEF DecidedOnce
  <2>. QED BY <1>0, <2>1, <2>2 DEF DecidedOnce
<1>6. CASE motion_id' = motion_id
  <2>1. RepliesBelong' /\ StartedFirst'
    BY <1>0, <1>6 DEF Replies, RepliesBelong, StartedFirst, IsReply
  <2>2. UndecidedIsSilent'
    <3>1. \A i \in DOMAIN toRobot' :
             toRobot'[i].id = motion_id => i \in DOMAIN toRobot /\ toRobot'[i] = toRobot[i]
      BY <1>0, <1>1
    <3>. QED BY <1>6, <3>1 DEF Replies, UndecidedIsSilent
  <2>3. NoStart => NoStart'
    BY <1>0, <1>1, <1>6 DEF NoStart
  <2>. QED BY <1>0, <1>4, <1>5, <2>1, <2>2, <2>3 DEF Replies, VerdictsStay
<1>7. CASE motion_id' = command_id_ /\ c = "kMove"
  <2>1. received_responses_[command_id_] = None
    BY <1>0 DEF Numbered
  <2>2. \A i \in DOMAIN toClient : toClient[i].id # command_id_
    BY <1>0, <1>3
  <2>3. RepliesBelong' /\ StartedFirst'
    BY <1>7, <2>1, <2>2 DEF RepliesBelong, StartedFirst
  <2>4. \A i \in DOMAIN toRobot' : toRobot'[i].id = command_id_ => toRobot'[i].command = "kMove"
    BY <1>0, <1>1, <1>2, <1>7
  <2>5. UndecidedIsSilent'
    BY <1>7, <2>1, <2>2, <2>4 DEF UndecidedIsSilent
  <2>. QED BY <1>0, <1>7, <1>4, <1>5, <2>3, <2>5 DEF Replies, VerdictsStay
<1>. QED BY <1>6, <1>7

---------------------------------------------------------------------------
(* What the steps of the robot and of Robot::Impl mean for its end.         *)
\* Only a finished command for the Move in execution makes the robot complete it.
LEMMA CompletedByCommand ==
    ASSUME ServerTypeOK, MoveInExecution, ServerNext
    PROVE  \/ /\ command' = command
              /\ \A id \in CommandId : final'[id] = "kSuccess" => final[id] = "kSuccess"
           \/ /\ command.id = active /\ command.finished /\ command' = NoCommand
              /\ \A id \in CommandId \ {active} : final'[id] = final[id]
<1>0. /\ final \in [CommandId -> MoveEnd \cup {None}]
      /\ \A s \in Rejection : s # "kSuccess"
  BY DEF ServerTypeOK, Rejection
<1>1. CASE CompleteMove
  BY <1>0, <1>1 DEF CompleteMove, EndMove
<1>2. CASE AbortMove
  BY <1>0, <1>2 DEF AbortMove, EndMove
<1>3. CASE RejectMove
  BY <1>0, <1>3 DEF RejectMove, Answer
<1>4. CASE StopRunningMove
  BY <1>0, <1>4 DEF StopRunningMove, EndMove, Answer
<1>5. CASE AcceptMove \/ StopNothing \/ Recover
  BY <1>5 DEF AcceptMove, StopNothing, Recover, serverVars, Answer
<1>6. CASE PublishState \/ BeginMove \/ Settle \/ LoseLink
  BY <1>6 DEF PublishState, BeginMove, Settle, LoseLink, serverVars, netVars
<1>. QED BY <1>1, <1>2, <1>3, <1>4, <1>5, <1>6 DEF ServerNext, ServerAnswer

\* After the start of the Move, only its verdict is found under its id.
LEMMA FoundIsVerdict ==
    ASSUME ServerTypeOK, ImplTypeOK, Replies, motion_id # NoMotion, NoStart, NEW map \in Maps, NEW s \in Status,
           map[motion_id] = s
    PROVE  /\ s = final[motion_id]
           /\ MoveException(s) \in {None, "CommandException"}
           /\ MoveException(s) = None => s = "kSuccess"
<1>1. s = final[motion_id]
  BY FoundIsReply DEF IsReply
<1>2. motion_id \in CommandId /\ final \in [CommandId -> MoveEnd \cup {None}] /\ None \notin Status
  BY StatusFacts DEF ServerTypeOK, ImplTypeOK
<1>3. s \in MoveEnd
  BY <1>1, <1>2
<1>4. s # "kMotionStarted"
  BY <1>3 DEF MoveEnd, Rejection
<1>. QED BY <1>1, <1>4 DEF MoveException, None

\* Where a step of Robot::Impl goes.
LEMMA StepOf ==
    ASSUME ImplNext
    PROVE  /\ step # "returned"
           /\ step = "start.wait" => StartWait
           /\ step = "start.poll" => StartPoll
           /\ step = "error.wait" => ErrorWait
           /\ step = "finish.poll" => FinishPoll
           /\ step = "finish.wait" => FinishWait
           /\ step = "update.send" => UpdateSend \/ UpdateClosed
           /\ step = "update.receive" => UpdateReceive
           /\ step \in {"cancel.wait", "cancel.receive", "cancel.ignore"} =>
                CancelWait \/ CancelReceive \/ CancelIgnore
BY DEF ImplNext, UpdateSend, UpdateClosed, UpdateReceive, StartWait, StartPoll, ErrorWait,
       FinishPoll, FinishWait, CancelWait, CancelReceive, CancelIgnore

---------------------------------------------------------------------------
(* The Move in progress, and the thread that waits for its end.            *)

Live == phase \in {"accepted", "moving"}

\* The robot has, or will get, no Move but m, which is live until it is
\* decided on; m is the current Move, or NoMotion if none is in progress.
InProgress(m) ==
    /\ m \in {NoMotion, motion_id}
    /\ Live => active = m
    /\ \A i \in DOMAIN toRobot : toRobot[i].command = "kMove" => toRobot[i].id = m
    /\ m # NoMotion /\ final[m] = None => Live \/ \E i \in DOMAIN toRobot : toRobot[i].id = m

\* The response to the StopMove of cancelMotion was taken, or can be.
Heard ==
    \/ step # "cancel.wait"
    \/ received_responses_[stop_id] # None
    \/ \E i \in DOMAIN toClient : toClient[i].id = stop_id

\* It comes only after the verdict on the Move.
StopsFirst(m) ==
    /\ stop_id \in CommandId /\ stop_id < command_id_
    /\ \A i \in DOMAIN toRobot : toRobot[i].id = stop_id => toRobot[i].command = "kStopMove"
    /\ Heard => final[m] # None

\* Move m gets verdict s.
Decided(m, s) ==
    /\ m \in CommandId /\ final[m] = None
    /\ final' = [final EXCEPT ![m] = s]
    /\ s = "kSuccess" => command.id = m /\ command.finished

\* The robot decides on the Move in progress, and on no other.
LEMMA VerdictOfMove ==
    ASSUME ServerTypeOK, MoveInExecution, DecidedOnce, NEW m, InProgress(m), ServerNext
    PROVE  UNCHANGED final \/ \E s \in MoveEnd : Decided(m, s)
<1>0. toRobot \in Seq(Request)
  BY DEF ServerTypeOK
<1>1. ASSUME Live
      PROVE  active = m /\ m \in CommandId /\ final[m] = None
  BY <1>1 DEF Live, MoveInExecution, InProgress, DecidedOnce
<1>2. CASE AbortMove
  <2>1. Live /\ (EndMove("kStartAtSingularPoseRejected", "idle") \/ EndMove("kReflexAborted", "reflex"))
    BY <1>2 DEF AbortMove, Live
  <2>. QED BY <1>1, <2>1, StatusFacts DEF EndMove, Decided
<1>3. CASE StopRunningMove
  BY <1>1, <1>3, StatusFacts DEF StopRunningMove, EndMove, Live, Decided
<1>4. CASE CompleteMove
  BY <1>1, <1>4, StatusFacts DEF CompleteMove, EndMove, Live, Decided
<1>5. CASE RejectMove
  <2>1. PICK s \in Rejection : final' = [final EXCEPT ![Head(toRobot).id] = s]
    BY <1>5 DEF RejectMove
  <2>2. /\ 1 \in DOMAIN toRobot /\ Head(toRobot) = toRobot[1] /\ toRobot[1].command = "kMove"
        /\ toRobot[1].id \in CommandId
    BY <1>0, <1>5, RequestAtHead DEF RejectMove, Requested
  <2>3. toRobot[1].id = m /\ final[toRobot[1].id] = None
    BY <2>2 DEF InProgress, DecidedOnce
  <2>4. s \in MoveEnd /\ s # "kSuccess"
    BY StatusFacts DEF Rejection
  <2>. QED BY <2>1, <2>2, <2>3, <2>4 DEF Decided
<1>6. CASE AcceptMove \/ StopNothing \/ Recover
  BY <1>6 DEF AcceptMove, StopNothing, Recover, serverVars
<1>7. CASE PublishState \/ BeginMove \/ Settle \/ LoseLink
  BY <1>7 DEF PublishState, BeginMove, Settle, LoseLink, serverVars
<1>. QED BY <1>2, <1>3, <1>4, <1>5, <1>6, <1>7 DEF ServerNext, ServerAnswer

\* Once its start is over, an undecided Move is live.
LEMMA UndecidedIsLive ==
    ASSUME Replies, NoStart, InProgress(motion_id), motion_id # NoMotion,
           final[motion_id] = None
    PROVE  Live
BY DEF InProgress, Replies, UndecidedIsSilent, NoStart

\* What a step of the robot does to Move m and to the connection.
Handled(m, r) ==
    /\ toClient' = toClient \o r
    /\ toRobot' = toRobot \/ (toRobot # <<>> /\ toRobot' = Tail(toRobot))
    /\ Live' => Live \/ (toRobot # <<>> /\ Head(toRobot).command = "kMove"
                         /\ active' = Head(toRobot).id)
    /\ Live' /\ Live => active' = active
    /\ m # NoMotion /\ final[m] = None /\ final'[m] = None =>
         /\ Live => Live'
         /\ toRobot' # toRobot /\ Head(toRobot).id = m => Live'
    /\ m # NoMotion /\ NoStart /\ StopsFirst(m) =>
         \A k \in DOMAIN r : r[k].id = stop_id => final'[m] # None

LEMMA ServerHandles ==
    ASSUME ServerTypeOK, ImplTypeOK, MoveInExecution, Numbered, DecidedOnce, Replies,
           NEW m, InProgress(m), ServerNext
    PROVE  \E r \in Seq(Response) : Handled(m, r)
<1>. DEFINE h == Head(toRobot).id
<1>0. /\ toClient \in Seq(Response) /\ final \in [CommandId -> MoveEnd \cup {None}]
      /\ m # NoMotion => m = motion_id /\ m \in CommandId
  BY DEF ServerTypeOK, ImplTypeOK, InProgress
<1>1. ASSUME toRobot # <<>>, toRobot' = Tail(toRobot)
      PROVE  /\ h \in CommandId
             /\ h = m => Head(toRobot).command = "kMove"
             /\ StopsFirst(m) /\ h = stop_id => Head(toRobot).command = "kStopMove"
             /\ Head(toRobot).command = "kMove" => h = m
  <2>1. 1 \in DOMAIN toRobot /\ Head(toRobot) = toRobot[1]
    BY <1>1 DEF ServerTypeOK
  <2>. QED BY <1>0, <1>1, <2>1, NextRequest, IdsAreNumbers DEF InProgress, StopsFirst
<1>2. Live => active = m /\ m \in CommandId
  BY DEF Live, InProgress, MoveInExecution
<1>3. CASE AcceptMove
  <2>1. /\ toRobot # <<>> /\ Head(toRobot).command = "kMove" /\ active' = h /\ UNCHANGED final
        /\ Answer(Reply(h, "kMotionStarted")) /\ ~Live /\ Live'
    BY <1>3 DEF AcceptMove, Requested, Live
  <2>2. toRobot' = Tail(toRobot) /\ toClient' = toClient \o Reply(h, "kMotionStarted")
    BY <2>1 DEF Answer
  <2>3. h \in CommandId /\ (StopsFirst(m) => h # stop_id)
    BY <1>1, <2>1, <2>2
  <2>4. Reply(h, "kMotionStarted") \in Seq(Response)
    BY <2>3, ReplyType, StatusFacts
  <2>5. \A k \in DOMAIN Reply(h, "kMotionStarted") : Reply(h, "kMotionStarted")[k].id = h
    BY ReplyElement
  <2>6. Handled(m, Reply(h, "kMotionStarted"))
    BY <2>1, <2>2, <2>3, <2>5 DEF Handled
  <2>. QED BY <2>4, <2>6
<1>4. CASE RejectMove
  <2>1. PICK s \in Rejection : final' = [final EXCEPT ![h] = s] /\ Answer(Reply(h, s))
    BY <1>4 DEF RejectMove
  <2>2. /\ toRobot # <<>> /\ toRobot' = Tail(toRobot) /\ Head(toRobot).command = "kMove"
        /\ toClient' = toClient \o Reply(h, s) /\ (Live' <=> Live) /\ UNCHANGED active
    BY <1>4, <2>1 DEF RejectMove, Requested, Answer, Live
  <2>3. h \in CommandId /\ h = m
    BY <1>1, <2>2
  <2>4. Reply(h, s) \in Seq(Response)
    BY <2>3, ReplyType, StatusFacts
  <2>5. final'[m] # None
    BY <1>0, <2>1, <2>3 DEF Rejection, None
  <2>6. Handled(m, Reply(h, s))
    BY <2>2, <2>5 DEF Handled
  <2>. QED BY <2>4, <2>6
<1>5. CASE StopRunningMove
  <2>. DEFINE stopped == Reply(h, "kSuccess")
              preempted == Reply(active, "kPreempted")
  <2>1. PICK r \in {preempted \o stopped, stopped \o preempted} : Answer(r)
    BY <1>5 DEF StopRunningMove
  <2>2. /\ Live /\ toRobot # <<>> /\ toRobot' = Tail(toRobot) /\ toClient' = toClient \o r
        /\ final' = [final EXCEPT ![active] = "kPreempted"] /\ ~Live'
    BY <1>5, <2>1 DEF StopRunningMove, EndMove, Requested, Live, Answer
  <2>3. stopped \in Seq(Response) /\ preempted \in Seq(Response)
    BY <1>1, <1>2, <2>2, ReplyType, StatusFacts
  <2>4. r \in Seq(Response)
    <3>. HIDE DEF stopped, preempted
    <3>1. preempted \o stopped \in Seq(Response) /\ stopped \o preempted \in Seq(Response)
      BY <2>3
    <3>. QED BY <2>1, <3>1
  <2>5. final'[m] # None
    BY <1>0, <1>2, <2>2 DEF None
  <2>6. Handled(m, r)
    BY <2>2, <2>5 DEF Handled
  <2>. QED BY <2>4, <2>6
<1>6. CASE StopNothing \/ Recover
  <2>1. PICK s \in {"kSuccess", "kCommandNotPossibleRejected"} : Answer(Reply(h, s))
    BY <1>6 DEF StopNothing, Recover
  <2>2. /\ toRobot # <<>> /\ toRobot' = Tail(toRobot) /\ toClient' = toClient \o Reply(h, s)
        /\ Head(toRobot).command # "kMove"
        /\ Head(toRobot).command = "kStopMove" => ~Live
        /\ (Live' <=> Live) /\ UNCHANGED <<active, final>>
    BY <1>6, <2>1 DEF StopNothing, Recover, Requested, serverVars, Answer, Live
  <2>3. /\ h \in CommandId /\ h # m
        /\ StopsFirst(m) /\ h = stop_id => ~Live
    BY <1>1, <2>2
  <2>4. Reply(h, s) \in Seq(Response)
    BY <2>3, ReplyType, StatusFacts
  <2>5. \A k \in DOMAIN Reply(h, s) : Reply(h, s)[k].id = h
    BY ReplyElement
  <2>6. m # NoMotion /\ NoStart /\ StopsFirst(m) /\ h = stop_id => final[m] # None
    BY <1>0, <2>3, UndecidedIsLive
  <2>7. Handled(m, Reply(h, s))
    BY <2>2, <2>3, <2>5, <2>6 DEF Handled
  <2>. QED BY <2>4, <2>7
<1>7. CASE AbortMove \/ CompleteMove
  <2>1. Live /\ UNCHANGED toRobot
    BY <1>7 DEF AbortMove, CompleteMove, Live
  <2>2. PICK s \in MoveEnd, p \in {"idle", "reflex"} : EndMove(s, p)
    BY <1>7, StatusFacts DEF AbortMove, CompleteMove
  <2>3. final'[active] = s /\ active = m /\ ~Live'
    BY <1>0, <1>2, <2>1, <2>2 DEF EndMove, Live
  <2>4. toClient' = toClient \o Reply(active, s) /\ Reply(active, s) \in Seq(Response)
    <3>1. toClient' = toClient \o Reply(active, final'[active])
      <4>1. CASE AbortMove
        BY <4>1 DEF AbortMove
      <4>2. CASE CompleteMove
        BY <1>0, <1>2, <2>1, <4>2 DEF CompleteMove, EndMove
      <4>. QED BY <1>7, <4>1, <4>2
    <3>. QED BY <1>2, <2>1, <2>3, <3>1, ReplyType, StatusFacts
  <2>5. final'[m] # None
    BY <2>3, NoneFacts, StatusFacts
  <2>6. Handled(m, Reply(active, s))
    BY <2>1, <2>3, <2>4, <2>5 DEF Handled
  <2>. QED BY <2>4, <2>6
<1>8. CASE PublishState \/ BeginMove \/ Settle \/ LoseLink
  <2>1. UNCHANGED <<toRobot, toClient, final, active>> /\ (Live' <=> Live)
    BY <1>0, <1>8
    DEF PublishState, BeginMove, Settle, LoseLink, serverVars, netVars, Live, ServerTypeOK
  <2>2. toClient' = toClient \o <<>> /\ <<>> \in Seq(Response)
    BY <1>0, <2>1
  <2>3. Handled(m, <<>>)
    BY <2>1, <2>2 DEF Handled
  <2>. QED BY <2>2, <2>3
<1>. QED BY <1>3, <1>4, <1>5, <1>6, <1>7, <1>8 DEF ServerNext, ServerAnswer


\* No step of the robot changes the Move in progress or what stops it.
LEMMA ServerKeepsMove ==
    ASSUME ServerTypeOK, ImplTypeOK, MoveInExecution, Numbered, DecidedOnce, Replies,
           NEW m, InProgress(m), ServerNext, UNCHANGED implVars
    PROVE  /\ InProgress(m)'
           /\ m # NoMotion /\ NoStart /\ StopsFirst(m) => StopsFirst(m)'
           /\ m # NoMotion =>
                \/ final'[m] = final[m]
                \/ /\ final[m] = None /\ final'[m] \in MoveEnd
                   /\ final'[m] = "kSuccess" => command.id = m /\ command.finished
           /\ command' \in {command, NoCommand}
<1>0. /\ toRobot \in Seq(Request) /\ toClient \in Seq(Response) /\ VerdictsStay
      /\ final \in [CommandId -> MoveEnd \cup {None}]
      /\ UNCHANGED <<motion_id, stop_id, step, command_id_, received_responses_>>
      /\ m # NoMotion => m \in CommandId
  BY ServerKeeps DEF ServerTypeOK, ImplTypeOK, InProgress, implVars
<1>1. PICK r \in Seq(Response) : Handled(m, r)
  BY ServerHandles
<1>2. m # NoMotion =>
         \/ final'[m] = final[m]
         \/ /\ final[m] = None /\ final'[m] \in MoveEnd
            /\ final'[m] = "kSuccess" => command.id = m /\ command.finished
  BY <1>0, VerdictOfMove DEF Decided
<1>3. ASSUME NEW i \in DOMAIN toRobot'
      PROVE  \E j \in DOMAIN toRobot : toRobot'[i] = toRobot[j]
  <2>1. toRobot' = toRobot \/ (toRobot # <<>> /\ toRobot' = Tail(toRobot))
    BY <1>1 DEF Handled
  <2>. QED BY <1>0, <1>3, <2>1, TailElement
<1>4. Live' => active' = m
  <2>1. CASE Live
    BY <1>1, <2>1 DEF Handled, InProgress
  <2>2. CASE toRobot # <<>> /\ Head(toRobot).command = "kMove" /\ active' = Head(toRobot).id
    <3>1. 1 \in DOMAIN toRobot /\ Head(toRobot) = toRobot[1]
      BY <1>0, <2>2
    <3>. QED BY <2>2, <3>1 DEF InProgress
  <2>. QED BY <1>1, <2>1, <2>2 DEF Handled
<1>5. ASSUME m # NoMotion, final'[m] = None
      PROVE  Live' \/ \E i \in DOMAIN toRobot' : toRobot'[i].id = m
  <2>1. final[m] = None
    BY <1>0, <1>5 DEF VerdictsStay
  <2>2. CASE Live
    BY <1>1, <1>5, <2>1, <2>2 DEF Handled
  <2>3. ASSUME NEW i \in DOMAIN toRobot, toRobot[i].id = m, toRobot' # toRobot
        PROVE  Live' \/ \E j \in DOMAIN toRobot' : toRobot'[j].id = m
    <3>1. toRobot # <<>> /\ toRobot' = Tail(toRobot)
      BY <1>1, <2>3 DEF Handled
    <3>2. CASE i = 1
      <4>1. Head(toRobot).id = m
        BY <1>0, <2>3, <3>1, <3>2
      <4>. QED BY <1>1, <1>5, <2>1, <2>3, <4>1 DEF Handled
    <3>3. CASE i # 1
      <4>1. i - 1 \in DOMAIN toRobot' /\ toRobot'[i - 1] = toRobot[i]
        BY <1>0, <2>3, <3>1, <3>3
      <4>. QED BY <2>3, <4>1
    <3>. QED BY <3>2, <3>3
  <2>. QED BY <1>5, <2>1, <2>2, <2>3 DEF InProgress
<1>6. InProgress(m)'
  <2>1. \A i \in DOMAIN toRobot' : toRobot'[i].command = "kMove" => toRobot'[i].id = m
    BY <1>3 DEF InProgress
  <2>2. m \in {NoMotion, motion_id'}
    BY <1>0 DEF InProgress
  <2>. QED BY <1>4, <1>5, <2>1, <2>2 DEF InProgress
<1>7. ASSUME m # NoMotion, NoStart, StopsFirst(m)
      PROVE  StopsFirst(m)'
  <2>1. ASSUME Heard'
        PROVE  final'[m] # None
    <3>1. CASE Heard
      <4>1. final[m] # None
        BY <1>7, <3>1 DEF StopsFirst
      <4>. QED BY <1>0, <1>7, <4>1 DEF VerdictsStay
    <3>2. CASE ~Heard
      <4>1. PICK i \in DOMAIN toClient' : toClient'[i].id = stop_id
        BY <1>0, <2>1, <3>2 DEF Heard
      <4>2. i - Len(toClient) \in DOMAIN r /\ toClient'[i] = r[i - Len(toClient)]
        BY <1>0, <1>1, <3>2, <4>1, ConcatElement DEF Handled, Heard
      <4>. QED BY <1>1, <1>7, <4>1, <4>2 DEF Handled
    <3>. QED BY <3>1, <3>2
  <2>. QED BY <1>0, <1>3, <1>7, <2>1 DEF StopsFirst
<1>8. command' \in {command, NoCommand}
  BY CompletedByCommand
<1>. QED BY <1>2, <1>6, <1>7, <1>8

LEMMA LinkStays ==
    ASSUME Faults = {}, ServerNext
    PROVE  UNCHANGED link
BY DEF ServerNext, ServerAnswer, AcceptMove, RejectMove, StopRunningMove, StopNothing, Recover,
       Answer, PublishState, BeginMove, AbortMove, CompleteMove, Settle, LoseLink, netVars
\* The robot sends each verdict it comes to.
LEMMA VerdictSent ==
    ASSUME ServerTypeOK, MoveInExecution, ServerNext
    PROVE  \E r \in Seq(Response) :
             /\ toClient' = toClient \o r
             /\ \A id \in CommandId : final'[id] # final[id] =>
                  \E k \in DOMAIN r : r[k] = [id |-> id, status |-> final'[id]]
<1>0. toClient \in Seq(Response) /\ final \in [CommandId -> MoveEnd \cup {None}]
  BY DEF ServerTypeOK
<1>1. ASSUME NEW r \in Seq(Response), toClient' = toClient \o r, UNCHANGED final
      PROVE  \E q \in Seq(Response) :
               /\ toClient' = toClient \o q
               /\ \A id \in CommandId : final'[id] # final[id] =>
                    \E k \in DOMAIN q : q[k] = [id |-> id, status |-> final'[id]]
  BY <1>1
<1>2. CASE AcceptMove \/ StopNothing \/ Recover
  <2>1. PICK s \in Status : Answer(Reply(Head(toRobot).id, s))
    BY <1>2, StatusFacts DEF AcceptMove, StopNothing, Recover
  <2>2. toRobot # <<>> /\ UNCHANGED final
    BY <1>2 DEF AcceptMove, StopNothing, Recover, Requested, serverVars
  <2>3. Reply(Head(toRobot).id, s) \in Seq(Response)
    BY <1>0, <2>2, RequestAtHead, ReplyType
  <2>. QED BY <1>1, <2>1, <2>2, <2>3 DEF Answer
<1>3. CASE RejectMove
  <2>. DEFINE h == Head(toRobot).id
  <2>1. PICK s \in Rejection : final' = [final EXCEPT ![h] = s] /\ Answer(Reply(h, s))
    BY <1>3 DEF RejectMove
  <2>2. h \in CommandId
    BY <1>0, <1>3, RequestAtHead DEF RejectMove, Requested
  <2>3. Reply(h, s) \in Seq(Response) /\ toClient' = toClient \o Reply(h, s)
    BY <2>1, <2>2, ReplyType, StatusFacts DEF Answer
  <2>. HIDE DEF h
  <2>4. \A id \in CommandId : final'[id] # final[id] => id = h /\ final'[id] = s
    BY <1>0, <2>1, <2>2
  <2>5. DOMAIN Reply(h, s) = {1} /\ Reply(h, s)[1] = [id |-> h, status |-> s]
    BY DEF Reply
  <2>. QED BY <2>3, <2>4, <2>5
<1>4. ASSUME NEW s \in MoveEnd, active \in CommandId, final' = [final EXCEPT ![active] = s],
             NEW r \in Seq(Response), toClient' = toClient \o r,
             \E k \in DOMAIN r : r[k] = [id |-> active, status |-> s]
      PROVE  \E q \in Seq(Response) :
               /\ toClient' = toClient \o q
               /\ \A id \in CommandId : final'[id] # final[id] =>
                    \E k \in DOMAIN q : q[k] = [id |-> id, status |-> final'[id]]
  <2>1. \A id \in CommandId : final'[id] # final[id] => id = active /\ final'[id] = s
    BY <1>0, <1>4
  <2>. QED BY <1>4, <2>1
<1>5. ASSUME NEW s \in MoveEnd, active \in CommandId
      PROVE  /\ Reply(active, s) \in Seq(Response)
             /\ \E k \in DOMAIN Reply(active, s) :
                   Reply(active, s)[k] = [id |-> active, status |-> s]
  <2>1. DOMAIN Reply(active, s) = {1} /\ Reply(active, s)[1] = [id |-> active, status |-> s]
    BY DEF Reply
  <2>. QED BY <1>5, <2>1, ReplyType, StatusFacts
<1>6. CASE AbortMove
  <2>1. active \in CommandId
    BY <1>6 DEF AbortMove, MoveInExecution
  <2>2. PICK s \in MoveEnd, p \in {"idle", "reflex"} : EndMove(s, p)
    BY <1>6, StatusFacts DEF AbortMove
  <2>3. final' = [final EXCEPT ![active] = s] /\ final'[active] = s
    BY <1>0, <2>1, <2>2 DEF EndMove
  <2>4. toClient' = toClient \o Reply(active, s)
    BY <1>6, <2>3 DEF AbortMove
  <2>. QED BY <1>4, <1>5, <2>1, <2>3, <2>4
<1>7. CASE CompleteMove
  <2>1. /\ active \in CommandId /\ final' = [final EXCEPT ![active] = "kSuccess"]
        /\ toClient' = toClient \o Reply(active, "kSuccess")
    BY <1>7 DEF CompleteMove, MoveInExecution, EndMove
  <2>2. "kSuccess" \in MoveEnd
    BY StatusFacts
  <2>3. /\ Reply(active, "kSuccess") \in Seq(Response)
        /\ \E k \in DOMAIN Reply(active, "kSuccess") :
              Reply(active, "kSuccess")[k] = [id |-> active, status |-> "kSuccess"]
    BY <1>5, <2>1, <2>2
  <2>. QED BY <1>4, <2>1, <2>2, <2>3
<1>8. CASE StopRunningMove
  <2>. DEFINE h == Head(toRobot).id
              stopped == Reply(h, "kSuccess")
              preempted == Reply(active, "kPreempted")
  <2>1. PICK r \in {preempted \o stopped, stopped \o preempted} : Answer(r)
    BY <1>8 DEF StopRunningMove
  <2>2. active \in CommandId /\ h \in CommandId /\ final' = [final EXCEPT ![active] = "kPreempted"]
    BY <1>0, <1>8, RequestAtHead DEF StopRunningMove, MoveInExecution, EndMove, Requested
  <2>3. stopped \in Seq(Response) /\ preempted \in Seq(Response)
    BY <2>2, ReplyType, StatusFacts
  <2>4. \E k \in DOMAIN r : r[k] = [id |-> active, status |-> "kPreempted"]
    <3>1. CASE r = preempted \o stopped
      <4>1. 1 \in DOMAIN r /\ r[1] = [id |-> active, status |-> "kPreempted"]
        BY <3>1 DEF Reply
      <4>. QED BY <4>1
    <3>2. CASE r = stopped \o preempted
      <4>1. 2 \in DOMAIN r /\ r[2] = [id |-> active, status |-> "kPreempted"]
        BY <3>2 DEF Reply
      <4>. QED BY <4>1
    <3>. QED BY <2>1, <3>1, <3>2
  <2>5. r \in Seq(Response)
    <3>. HIDE DEF stopped, preempted
    <3>1. preempted \o stopped \in Seq(Response) /\ stopped \o preempted \in Seq(Response)
      BY <2>3
    <3>. QED BY <2>1, <3>1
  <2>. QED BY <1>4, <2>1, <2>2, <2>4, <2>5, StatusFacts DEF Answer
<1>9. CASE PublishState \/ BeginMove \/ Settle \/ LoseLink
  <2>1. UNCHANGED <<toClient, final>>
    BY <1>9 DEF PublishState, BeginMove, Settle, LoseLink, serverVars, netVars
  <2>2. <<>> \in Seq(Response) /\ toClient' = toClient \o <<>>
    BY <1>0, <2>1
  <2>. QED BY <1>1, <2>1, <2>2
<1>. QED BY <1>2, <1>3, <1>6, <1>7, <1>8, <1>9 DEF ServerNext, ServerAnswer

\* A pass that leaves the response with this id to its thread.
Passed(id) ==
    \/ toClient' = toClient /\ received_responses_'[id] = received_responses_[id]
    \/ /\ toClient # <<>> /\ toClient' = Tail(toClient)
       /\ received_responses_'[id] =
             IF received_responses_[id] = None /\ Head(toClient).id = id
             THEN Head(toClient).status ELSE received_responses_[id]

LEMMA MapPassed ==
    ASSUME Received, NEW map \in Maps, Read(map), NEW id \in CommandId,
           received_responses_'[id] = map[id]
    PROVE  Passed(id)
<1>1. CASE map = AfterReading(0) /\ UNCHANGED toClient
  BY <1>1 DEF AfterReading, Passed
<1>2. CASE toClient # <<>> /\ map = AfterReading(1) /\ toClient' = Tail(toClient)
  <2>1. map = Emplace(received_responses_, Head(toClient)) /\ Head(toClient).id \in CommandId
    BY <1>2, ResponseAtHead DEF AfterReading
  <2>2. map[id] = IF received_responses_[id] = None /\ Head(toClient).id = id
                  THEN Head(toClient).status ELSE received_responses_[id]
    BY <2>1 DEF Emplace, Received
  <2>. QED BY <1>2, <2>2 DEF Passed
<1>. QED BY <1>1, <1>2 DEF Read

LEMMA WaitPassed ==
    ASSUME Received, NEW own, Wait(own), NEW id \in CommandId
    PROVE  Passed(id)
<1>1. toClient # <<>> /\ Read(AfterReading(1)) /\ received_responses_' = AfterReading(1)
  BY DEF Wait
<1>2. AfterReading(1) \in Maps
  BY <1>1 DEF Maps
<1>. QED BY <1>1, <1>2, MapPassed

LEMMA TakePassed ==
    ASSUME Received, NEW own, NEW s, Take(own, s), NEW id \in CommandId, id # own
    PROVE  Passed(id)
<1>1. PICK map \in Maps : Read(map) /\ received_responses_' = [map EXCEPT ![own] = None]
  BY DEF Take
<1>2. map \in [CommandId -> Status \cup {None}]
  BY <1>1, MapType
<1>. QED BY <1>1, <1>2, MapPassed

LEMMA NothingPassed ==
    ASSUME UNCHANGED <<received_responses_, toClient>>, NEW id
    PROVE  Passed(id)
BY DEF Passed

\* A pass makes nothing heard that was not on its way.
LEMMA PassHears ==
    ASSUME ServerTypeOK, Kept \/ Moved, stop_id \in CommandId, UNCHANGED stop_id,
           step' # "cancel.wait" => step # "cancel.wait", Heard'
    PROVE  Heard
<1>0. toClient \in Seq(Response) /\ stop_id' = stop_id
  BY DEF ServerTypeOK
<1>1. CASE step' # "cancel.wait"
  BY <1>1 DEF Heard
<1>2. CASE received_responses_'[stop_id] # None
  <2>1. CASE Kept
    BY <1>2, <2>1 DEF Kept, Heard
  <2>2. CASE Moved
    <3>1. 1 \in DOMAIN toClient /\ Head(toClient) = toClient[1]
      BY <1>0, <2>2 DEF Moved
    <3>. QED BY <1>2, <2>2, <3>1 DEF Moved, Heard
  <2>. QED BY <2>1, <2>2
<1>3. ASSUME NEW i \in DOMAIN toClient', toClient'[i].id = stop_id
      PROVE  Heard
  <2>1. \E j \in DOMAIN toClient : toClient'[i] = toClient[j]
    BY <1>0, TailElement DEF Kept, Moved
  <2>. QED BY <1>3, <2>1 DEF Heard
<1>. QED BY <1>0, <1>1, <1>2, <1>3 DEF Heard

\* What cancelMotion takes was on its way.
LEMMA TakenIsHeard ==
    ASSUME ServerTypeOK, ImplTypeOK, stop_id \in CommandId, NEW s \in Status, Take(stop_id, s)
    PROVE  Heard
<1>0. Received /\ toClient \in Seq(Response) /\ s # None
  BY NoneFacts DEF ServerTypeOK, ImplTypeOK, Received
<1>1. PICK map \in Maps : map[stop_id] = s
  BY DEF Take
<1>2. CASE map = received_responses_
  BY <1>0, <1>1, <1>2 DEF Heard
<1>3. CASE toClient # <<>> /\ map = Emplace(received_responses_, Head(toClient))
  <2>1. 1 \in DOMAIN toClient /\ Head(toClient) = toClient[1] /\ Head(toClient).id \in CommandId
    BY <1>0, <1>3, ResponseAtHead
  <2>2. received_responses_[stop_id] # None \/ toClient[1].id = stop_id
    BY <1>0, <1>1, <1>3, <2>1 DEF Emplace, Received
  <2>. QED BY <2>1, <2>2 DEF Heard
<1>. QED BY <1>1, <1>2, <1>3 DEF Maps, AfterReading

\* Neither does a pass over the connection that takes no response to the
\* StopMove before it was heard ...
LEMMA PassKeepsMove ==
    ASSUME ServerTypeOK, Kept \/ Moved, NEW m, InProgress(m),
           UNCHANGED <<serverVars, toRobot, command_id_, motion_id, stop_id>>
    PROVE  /\ InProgress(m)'
           /\ StopsFirst(m) /\ (Heard' => Heard) => StopsFirst(m)'
           /\ StopsFirst(m) /\ (step' # "cancel.wait" => step # "cancel.wait") => StopsFirst(m)'
<1>1. InProgress(m)'
  BY DEF InProgress, Live, serverVars
<1>2. StopsFirst(m) /\ (Heard' => Heard) => StopsFirst(m)'
  BY DEF StopsFirst, serverVars
<1>. QED BY <1>1, <1>2, PassHears DEF StopsFirst

\* ... nor a step of Robot::Impl, or of a thread that receives a response.
LEMMA ImplKeepsMove ==
    ASSUME ServerTypeOK, ImplTypeOK, NEW m, InProgress(m), ImplNext
    PROVE  InProgress(m)' /\ (StopsFirst(m) /\ link = "up" => StopsFirst(m)') /\ UNCHANGED link
<1>1. /\ Kept \/ Moved
      /\ UNCHANGED <<serverVars, toRobot, command_id_, motion_id>>
  BY ImplPass
<1>2. UNCHANGED <<link, stop_id>>
  BY DEF ImplNext, UpdateSend, UpdateClosed, UpdateReceive, StartWait, StartPoll, ErrorWait,
         FinishPoll, FinishWait, CancelWait, CancelReceive, CancelIgnore, netVars
<1>3. ASSUME StopsFirst(m), link = "up"
      PROVE  Heard' => Heard
  <2>1. stop_id \in CommandId
    BY <1>3 DEF StopsFirst
  <2>2. CASE step # "cancel.wait"
    BY <2>2 DEF Heard
  <2>3. CASE step = "cancel.wait"
    <3>1. CancelWait
      BY <2>3, StepOf DEF CancelReceive, CancelIgnore
    <3>2. CASE UNCHANGED step
      BY <1>1, <1>2, <2>1, <3>2, PassHears
    <3>3. ASSUME NEW s \in Status, Take(stop_id, s)
          PROVE  Heard
      BY <2>1, <3>3, TakenIsHeard
    <3>. QED BY <1>3, <3>1, <3>2, <3>3, StatusFacts DEF CancelWait, Interrupted
  <2>. QED BY <2>2, <2>3
<1>. QED BY <1>1, <1>2, <1>3, PassKeepsMove

LEMMA OtherReceiveKeepsMove ==
    ASSUME ServerTypeOK, ImplTypeOK, NEW m, InProgress(m), OtherReceive
    PROVE  InProgress(m)' /\ (StopsFirst(m) => StopsFirst(m)') /\ UNCHANGED link
<1>1. Received
  BY DEF ServerTypeOK, ImplTypeOK, Received
<1>2. Kept \/ Moved
  BY <1>1, TakeEffect, WaitEffect, NothingRead DEF OtherReceive, Interrupted
<1>. QED BY <1>2, PassKeepsMove DEF OtherReceive

\* Nothing is sent or received, and no StopMove is begun to be waited for.
LEMMA LocalKeepsMove ==
    ASSUME ServerTypeOK, NEW m, InProgress(m),
           UNCHANGED <<serverVars, toRobot, toClient, received_responses_, command_id_, motion_id>>
    PROVE  /\ InProgress(m)'
           /\ StopsFirst(m) /\ UNCHANGED <<stop_id, step>> => StopsFirst(m)'
BY DEF InProgress, Live, StopsFirst, Heard, serverVars

\* A decided Move is no longer in progress.
LEMMA MoveIsOver ==
    ASSUME DecidedOnce, NEW m, InProgress(m), final[m] # None
    PROVE  InProgress(NoMotion)
BY DEF InProgress, DecidedOnce, Live

\* A request other than a Move is no matter of the Move in progress.
LEMMA RequestKeepsMove ==
    ASSUME ServerTypeOK, ImplTypeOK, Numbered, command_id_ \in CommandId,
           NEW c \in Command \ {"kMove"}, NEW m, InProgress(m), SendRequest(c, IdleModes),
           UNCHANGED <<serverVars, motion_id>>
    PROVE  /\ InProgress(m)'
           /\ StopsFirst(m) /\ UNCHANGED <<stop_id, step, toClient, received_responses_>>
                => StopsFirst(m)'
           /\ /\ c = "kStopMove" /\ stop_id' = command_id_ /\ step' = "cancel.wait"
              /\ UNCHANGED <<toClient, received_responses_>>
              => StopsFirst(m)'
<1>. DEFINE request == [command |-> c, id |-> command_id_, modes |-> IdleModes]
<1>1. /\ toRobot' = Append(toRobot, request) /\ toRobot \in Seq(Request) /\ request \in Request
      /\ command_id_' = command_id_ + 1 /\ request.id = command_id_ /\ request.command = c
      /\ command_id_ \in Nat
  BY NoneFacts, IdsAreNumbers DEF SendRequest, ServerTypeOK, Request
<1>. HIDE DEF request
<1>2. \A i \in DOMAIN toRobot' :
          \/ i \in DOMAIN toRobot /\ toRobot'[i] = toRobot[i]
          \/ toRobot'[i].id = command_id_ /\ toRobot'[i].command = c
  BY <1>1, AppendElement
<1>3. \A i \in DOMAIN toRobot : i \in DOMAIN toRobot' /\ toRobot'[i] = toRobot[i]
  BY <1>1
<1>4. InProgress(m)'
  BY <1>2, <1>3 DEF InProgress, Live, serverVars
<1>5. ASSUME StopsFirst(m), UNCHANGED <<stop_id, step, toClient, received_responses_>>
      PROVE  StopsFirst(m)'
  <2>1. stop_id # command_id_ /\ stop_id < command_id_'
    BY <1>1, <1>5, IdsAreNumbers DEF StopsFirst
  <2>2. Heard' <=> Heard
    BY <1>5 DEF Heard
  <2>. QED BY <1>2, <1>5, <2>1, <2>2 DEF StopsFirst, serverVars
<1>6. ASSUME c = "kStopMove", stop_id' = command_id_, step' = "cancel.wait",
             UNCHANGED <<toClient, received_responses_>>
      PROVE  StopsFirst(m)'
  <2>1. \A i \in DOMAIN toRobot : toRobot[i].id # command_id_
    <3>1. \A i \in DOMAIN toRobot : toRobot[i] \in Request
      BY <1>1
    <3>2. \A i \in DOMAIN toRobot : toRobot[i].id \in Nat /\ toRobot[i].id < command_id_
      BY <3>1, IdsAreNumbers DEF Request, Numbered
    <3>. QED BY <1>1, <3>2
  <2>2. \A i \in DOMAIN toClient : toClient[i].id # command_id_
    <3>1. \A i \in DOMAIN toClient : toClient[i] \in Response
      BY DEF ServerTypeOK
    <3>2. \A i \in DOMAIN toClient : toClient[i].id \in Nat /\ toClient[i].id < command_id_
      BY <3>1, IdsAreNumbers DEF Response, Numbered
    <3>. QED BY <1>1, <3>2
  <2>3. received_responses_[command_id_] = None
    BY <1>1 DEF Numbered
  <2>4. ~Heard'
    BY <1>6, <2>2, <2>3 DEF Heard
  <2>5. \A i \in DOMAIN toRobot' : toRobot'[i].id = command_id_ => toRobot'[i].command = "kStopMove"
    BY <1>2, <1>6, <2>1
  <2>. QED BY <1>1, <1>6, <2>4, <2>5 DEF StopsFirst
<1>. QED BY <1>4, <1>5, <1>6

\* A Move is requested.
LEMMA StartKeepsMove ==
    ASSUME ServerTypeOK, ImplTypeOK, MoveInExecution, InProgress(NoMotion),
           NEW modes \in MoveModes, NEW n \in CommandId, n = command_id_, ~Running(cached),
           CallStartMotion(modes), UNCHANGED serverVars
    PROVE  InProgress(n)'
<1>. DEFINE request == [command |-> "kMove", id |-> n, modes |-> modes]
<1>1. /\ motion_id' = n /\ toRobot' = Append(toRobot, request) /\ toRobot \in Seq(Request)
      /\ request.id = n /\ request \in Request
  BY MoveModesAssumption DEF CallStartMotion, SendRequest, ServerTypeOK, Request, Command, Modes
<1>. HIDE DEF request
<1>2. \A i \in DOMAIN toRobot' :
          (i \in DOMAIN toRobot /\ toRobot'[i] = toRobot[i]) \/ toRobot'[i].id = n
  BY <1>1, AppendElement
<1>3. Len(toRobot) + 1 \in DOMAIN toRobot' /\ toRobot'[Len(toRobot) + 1].id = n
  BY <1>1
<1>4. ~Live' /\ \A i \in DOMAIN toRobot : toRobot[i].command # "kMove"
  <2>1. \A i \in DOMAIN toRobot : toRobot[i].id \in CommandId
    <3>1. \A i \in DOMAIN toRobot : toRobot[i] \in Request
      BY DEF ServerTypeOK
    <3>. QED BY <3>1 DEF Request
  <2>. QED BY <2>1, NoneFacts DEF InProgress, Live, MoveInExecution, serverVars
<1>. QED BY <1>1, <1>2, <1>3, <1>4 DEF InProgress

\* The exceptions that say that the robot refused or ended the motion.
Blame == {"CommandException", "ControlException"}
Failed(id) == final[id] \in MoveEnd \ {"kSuccess"}

\* Whatever fails, all exceptions but one come with the verdict.
LEMMA BlamesOnVerdict ==
    ASSUME ServerTypeOK, ImplTypeOK, Replies, motion_id # NoMotion,
           ImplNext, step' = "returned", thrown' \notin {None, "NetworkException"},
           step \notin {"cancel.wait", "cancel.receive", "cancel.ignore"},
           step = "start.wait" => ~Running(cached),
           step # "start.wait" => NoStart,
           step = "update.send" => IF motion_command = None THEN ~control_command
                                                            ELSE SendException = None
    PROVE  final[motion_id] # None /\ (step = "finish.wait" => final[motion_id] # "kSuccess")
<1>0. /\ step \in Step /\ step # "returned" /\ motion_id \in CommandId
      /\ thrown' # None /\ thrown' # "NetworkException"
      /\ resume \in {"returned", "start.poll", "finish.poll"}
  BY StepOf DEF ImplTypeOK
<1>1. CASE step = "start.wait"
  <2>1. StartWait /\ ~Running(cached)
    BY <1>1, StepOf
  <2>2. PICK s \in Status : Take(motion_id, s) /\ MoveException(s) # None
    BY <1>0, <1>1, <2>1 DEF StartWait, Goto, Throw
  <2>3. PICK map \in Maps : map[motion_id] = s
    BY <2>2 DEF Take
  <2>4. s # "kMotionStarted" /\ s # None
    BY <2>1, <2>2, StatusFacts DEF MoveException, Running
  <2>. QED BY <1>1, <2>3, <2>4, FoundIsReply DEF IsReply
<1>2. CASE step = "start.poll"
  <2>1. StartPoll
    BY <1>2, StepOf
  <2>2. PICK map \in Maps, s \in Status : map[motion_id] = s
    BY <1>0, <2>1 DEF StartPoll, Return, CallUpdate, Throw
  <2>. QED BY <1>2, <2>2, FoundIsVerdict, StatusFacts
<1>3. CASE step = "error.wait"
  <2>1. ErrorWait
    BY <1>3, StepOf
  <2>2. PICK s \in Status : Take(motion_id, s)
    BY <1>0, <1>3, <2>1 DEF ErrorWait, Throw
  <2>3. PICK map \in Maps : map[motion_id] = s
    BY <2>2 DEF Take
  <2>. QED BY <1>3, <2>3, FoundIsVerdict, StatusFacts
<1>4. CASE step = "finish.wait"
  <2>1. FinishWait
    BY <1>4, StepOf
  <2>2. PICK s \in Status : Take(motion_id, s) /\ MoveException(s) # None
    BY <1>0, <1>4, <2>1 DEF FinishWait, Return, Throw
  <2>3. PICK map \in Maps : map[motion_id] = s
    BY <2>2 DEF Take
  <2>4. s \notin {None, "kSuccess"}
    BY <2>2, StatusFacts DEF MoveException
  <2>. QED BY <1>4, <2>3, <2>4, FoundIsVerdict
<1>5. CASE step = "update.send"
  <2>1. UpdateSend
    BY <1>0, <1>5, StepOf DEF UpdateClosed, Throw
  <2>. QED BY <1>5, <2>1 DEF UpdateSend, Goto
<1>6. CASE step = "update.receive"
  <2>1. UpdateReceive
    BY <1>6, StepOf
  <2>. QED BY <1>0, <2>1 DEF UpdateReceive, Goto, Return, Throw
<1>7. CASE step = "finish.poll"
  BY <1>7, StepOf DEF FinishPoll, CallUpdate
<1>. QED BY <1>0, <1>1, <1>2, <1>3, <1>4, <1>5, <1>6, <1>7 DEF Step

\* No step of Robot::Impl sees the network fail.
LEMMA NoFault ==
    ASSUME Faults = {}, link = "up"
    PROVE  ~Interrupted /\ ~Silence
BY DEF Interrupted, Silence

\* Without faults, what startMotion and finishMotion throw is the verdict.
LEMMA ThrowsOnVerdict ==
    ASSUME Faults = {}, link = "up", ServerTypeOK, ImplTypeOK, Replies, motion_id # NoMotion,
           ImplNext, step' = "returned", thrown' # None,
           step \notin {"error.wait", "cancel.wait", "cancel.receive", "cancel.ignore"},
           step = "start.wait" => ~Running(cached),
           step # "start.wait" => NoStart,
           step = "update.send" => IF motion_command = None THEN ~control_command
                                                            ELSE SendException = None
    PROVE  final[motion_id] # None /\ (step = "finish.wait" => final[motion_id] # "kSuccess")
<1>1. ~Interrupted /\ ~Silence /\ \A s \in Status : MoveException(s) # "NetworkException"
  BY NoFault DEF MoveException, None
<1>2. step = "start.wait" => thrown' # "NetworkException"
  BY <1>1, StepOf DEF StartWait, Goto, Throw
<1>3. step = "start.poll" => thrown' # "NetworkException"
  BY <1>1, StepOf DEF StartPoll, Return, Throw, CallUpdate, None
<1>4. step = "finish.wait" => thrown' # "NetworkException"
  BY <1>1, StepOf DEF FinishWait, Return, Throw, None
<1>5. step \in {"update.send", "update.receive", "finish.poll"} => thrown' # "NetworkException"
  BY <1>1, StepOf DEF UpdateSend, UpdateClosed, UpdateReceive, FinishPoll, CallUpdate, Goto, Return,
                     Throw, SendException, None
<1>6. step \in Step /\ step # "returned"
  BY StepOf DEF ImplTypeOK
<1>. QED BY <1>2, <1>3, <1>4, <1>5, <1>6, BlamesOnVerdict DEF Step

---------------------------------------------------------------------------
(* The robot and Robot::Impl use the connection as a mailbox.              *)

MailboxStep == [Mailbox!PassNext]_(Mailbox!vars)

Boxed(map) ==
    [id \in CommandId |-> IF map[id] = None THEN NoResponse ELSE [id |-> id, status |-> map[id]]]

LEMMA BoxedFacts ==
    ASSUME NEW map, NEW id \in CommandId
    PROVE  /\ map[id] = None => Boxed(map)[id] = NoResponse
           /\ map[id] # None => Boxed(map)[id] = [id |-> id, status |-> map[id]]
           /\ Boxed(map)[id] = NoResponse => map[id] = None
BY DEF Boxed, NoResponse

\* A response emplaced in the map is a response delivered to the mailbox.
LEMMA BoxedEmplace ==
    ASSUME Received, NEW r \in Response
    PROVE  Boxed(Emplace(received_responses_, r)) =
           IF Boxed(received_responses_)[r.id] = NoResponse
           THEN [Boxed(received_responses_) EXCEPT ![r.id] = r] ELSE Boxed(received_responses_)
<1>1. r.id \in CommandId /\ r.status \in Status /\ r = [id |-> r.id, status |-> r.status]
      /\ r.status # None
  BY NoneFacts DEF Response
<1>2. CASE received_responses_[r.id] = None
  <2>1. Emplace(received_responses_, r) = [received_responses_ EXCEPT ![r.id] = r.status]
    BY <1>2 DEF Emplace
  <2>2. Boxed(received_responses_)[r.id] = NoResponse
    BY <1>1, <1>2, BoxedFacts
  <2>3. Boxed([received_responses_ EXCEPT ![r.id] = r.status])
        = [Boxed(received_responses_) EXCEPT ![r.id] = r]
    BY <1>1 DEF Boxed, Received
  <2>. QED BY <2>1, <2>2, <2>3
<1>3. CASE received_responses_[r.id] # None
  <2>1. Emplace(received_responses_, r) = received_responses_
    BY <1>3 DEF Emplace
  <2>2. Boxed(received_responses_)[r.id] # NoResponse
    BY <1>1, <1>3, BoxedFacts
  <2>. QED BY <2>1, <2>2
<1>. QED BY <1>2, <1>3

LEMMA BoxedErase ==
    ASSUME NEW map \in [CommandId -> Status \cup {None}], NEW id \in CommandId
    PROVE  /\ Boxed([map EXCEPT ![id] = None]) = [Boxed(map) EXCEPT ![id] = NoResponse]
           /\ map[id] = None => [map EXCEPT ![id] = None] = map
BY DEF Boxed

\* One pass over the connection, after which the entry of id may be erased.
LEMMA PassUsesMailbox ==
    ASSUME Received, NEW map \in Maps, Read(map), NEW id \in CommandId,
           received_responses_' \in {map, [map EXCEPT ![id] = None]}
    PROVE  MailboxStep
<1>. DEFINE old == Boxed(received_responses_)
            now == Boxed(map)
<1>1. map \in [CommandId -> Status \cup {None}]
  BY MapType
<1>2. Boxed(received_responses_') \in {now, [now EXCEPT ![id] = NoResponse]}
  BY <1>1, BoxedErase
<1>3. now[id] = NoResponse => Boxed(received_responses_') = now
  <2>1. now[id] = NoResponse => map[id] = None
    BY BoxedFacts
  <2>2. map[id] = None => received_responses_' = map
    BY <1>1, BoxedErase
  <2>. HIDE DEF now
  <2>. QED BY <2>1, <2>2 DEF now
<1>4. CASE map = received_responses_ /\ UNCHANGED toClient
  <2>1. CASE Boxed(received_responses_') = old
    BY <1>4, <2>1 DEF MailboxStep, Mailbox!vars, Boxed
  <2>2. CASE Boxed(received_responses_') # old
    <3>1. old[id] # NoResponse /\ Boxed(received_responses_') = [old EXCEPT ![id] = NoResponse]
      BY <1>2, <1>3, <1>4, <2>2
    <3>2. Mailbox!TakeFrom(id)
      BY <1>4, <3>1 DEF Mailbox!TakeFrom, Boxed
    <3>. QED BY <3>2 DEF MailboxStep, Mailbox!PassNext, Mailbox!Next
  <2>. QED BY <2>1, <2>2
<1>5. CASE toClient # <<>> /\ map = Emplace(received_responses_, Head(toClient)) /\ toClient' = Tail(toClient)
  <2>1. Head(toClient) \in Response
    BY <1>5 DEF Received
  <2>2. now = Mailbox!Delivered
    <3>1. now = IF old[Head(toClient).id] = NoResponse
                THEN [old EXCEPT ![Head(toClient).id] = Head(toClient)] ELSE old
      BY <1>5, <2>1, BoxedEmplace
    <3>2. Mailbox!Delivered = IF old[Head(toClient).id] = NoResponse
                              THEN [old EXCEPT ![Head(toClient).id] = Head(toClient)] ELSE old
      BY DEF Mailbox!Delivered, Boxed
    <3>. QED BY <3>1, <3>2
  <2>3. CASE Boxed(received_responses_') = now
    <3>1. Mailbox!Deliver
      BY <1>5, <2>2, <2>3 DEF Mailbox!Deliver, Boxed
    <3>. QED BY <3>1 DEF MailboxStep, Mailbox!PassNext, Mailbox!Next
  <2>4. CASE Boxed(received_responses_') # now
    <3>1. now[id] # NoResponse /\ Boxed(received_responses_') = [now EXCEPT ![id] = NoResponse]
      BY <1>2, <1>3, <2>4
    <3>2. Mailbox!Receive(id)
      BY <1>5, <2>2, <3>1 DEF Mailbox!Receive, Boxed
    <3>. QED BY <3>2 DEF MailboxStep, Mailbox!PassNext
  <2>. QED BY <2>3, <2>4
<1>. QED BY <1>4, <1>5 DEF Read, AfterReading, Maps

LEMMA QuietUsesMailbox ==
    ASSUME UNCHANGED <<toClient, received_responses_>>
    PROVE  MailboxStep
BY DEF MailboxStep, Mailbox!vars

LEMMA TakeUsesMailbox ==
    ASSUME Received, NEW id \in CommandId, NEW s, Take(id, s)
    PROVE  MailboxStep
<1>1. PICK map \in Maps : Read(map) /\ received_responses_' = [map EXCEPT ![id] = None]
  BY DEF Take
<1>. QED BY <1>1, PassUsesMailbox

LEMMA WaitUsesMailbox ==
    ASSUME Received, NEW id \in CommandId, Wait(id)
    PROVE  MailboxStep
<1>1. AfterReading(1) \in Maps
  BY DEF Wait, Maps
<1>. QED BY <1>1, PassUsesMailbox DEF Wait

\* The robot appends its responses, one or two at a time.
LEMMA ServerSends ==
    ASSUME ServerTypeOK, MoveInExecution, ServerNext
    PROVE  toClient' = toClient \/ \E r \in Seq(Response) : toClient' = toClient \o r
<1>0. ASSUME toRobot # <<>>, NEW s \in Status
      PROVE  Reply(Head(toRobot).id, s) \in Seq(Response)
  BY <1>0, RequestAtHead, ReplyType
<1>1. CASE AcceptMove
  <2>1. toRobot # <<>> /\ toClient' = toClient \o Reply(Head(toRobot).id, "kMotionStarted")
    BY <1>1 DEF AcceptMove, Requested, Answer
  <2>. QED BY <1>0, <2>1, StatusFacts
<1>2. CASE RejectMove
  <2>1. PICK s \in Rejection : toClient' = toClient \o Reply(Head(toRobot).id, s)
    BY <1>2 DEF RejectMove, Answer
  <2>2. toRobot # <<>>
    BY <1>2 DEF RejectMove, Requested
  <2>. QED BY <1>0, <2>1, <2>2, StatusFacts
<1>3. CASE StopRunningMove
  <2>. DEFINE stopped == Reply(Head(toRobot).id, "kSuccess")
              preempted == Reply(active, "kPreempted")
  <2>1. /\ toRobot # <<>> /\ active \in CommandId
        /\ \/ toClient' = toClient \o (preempted \o stopped)
           \/ toClient' = toClient \o (stopped \o preempted)
    BY <1>3 DEF StopRunningMove, Requested, Answer, MoveInExecution
  <2>2. stopped \in Seq(Response) /\ preempted \in Seq(Response)
    BY <1>0, <2>1, ReplyType, StatusFacts
  <2>. HIDE DEF stopped, preempted
  <2>3. preempted \o stopped \in Seq(Response) /\ stopped \o preempted \in Seq(Response)
    BY <2>2
  <2>. QED BY <2>1, <2>3
<1>4. CASE StopNothing \/ Recover
  <2>1. PICK s \in {"kSuccess", "kCommandNotPossibleRejected"} :
            toClient' = toClient \o Reply(Head(toRobot).id, s)
    BY <1>4 DEF StopNothing, Recover, Answer
  <2>2. toRobot # <<>>
    BY <1>4 DEF StopNothing, Recover, Requested
  <2>. QED BY <1>0, <2>1, <2>2, StatusFacts
<1>5. CASE AbortMove
  <2>1. PICK s \in MoveEnd, p \in {"idle", "reflex"} : EndMove(s, p)
    BY <1>5, StatusFacts DEF AbortMove
  <2>2. active \in CommandId
    BY <1>5 DEF AbortMove, MoveInExecution
  <2>3. toClient' = toClient \o Reply(active, s)
    BY <1>5, <2>1, <2>2, EndMoveTypes DEF AbortMove
  <2>. QED BY <2>2, <2>3, ReplyType, StatusFacts
<1>6. CASE CompleteMove
  BY <1>6, ReplyType, StatusFacts DEF CompleteMove, MoveInExecution
<1>7. CASE PublishState \/ BeginMove \/ Settle \/ LoseLink
  BY <1>7 DEF PublishState, BeginMove, Settle, LoseLink, netVars
<1>. QED BY <1>1, <1>2, <1>3, <1>4, <1>5, <1>6, <1>7 DEF ServerNext, ServerAnswer

LEMMA ServerUsesMailbox ==
    ASSUME ServerTypeOK, MoveInExecution, ServerNext, UNCHANGED received_responses_
    PROVE  MailboxStep
<1>1. toClient \in Seq(Response) /\ toClient' \in Seq(Response)
  BY ServerTypes DEF ServerTypeOK
<1>2. ASSUME NEW r, toClient' = toClient \o r, r \in Seq(Response)
      PROVE  MailboxStep
  <2>1. /\ Len(toClient \o r) = Len(toClient) + Len(r) /\ Len(r) \in Nat
        /\ \A i \in DOMAIN toClient : (toClient \o r)[i] = toClient[i]
    BY <1>1, <1>2
  <2>2. CASE r = <<>>
    <3>1. toClient' = toClient
      BY <1>1, <1>2, <2>2
    <3>. QED BY <3>1, QuietUsesMailbox
  <2>3. CASE r # <<>>
    <3>1. Len(r) > 0
      BY <1>2, <2>3
    <3>2. Mailbox!Send
      BY <1>1, <1>2, <2>1, <3>1 DEF Mailbox!Send
    <3>. QED BY <3>2 DEF MailboxStep, Mailbox!PassNext, Mailbox!Next
  <2>. QED BY <2>2, <2>3
<1>. QED BY <1>2, ServerSends, QuietUsesMailbox

\* cancelMotion waits for the id of its own StopMove.
StopIsKnown == step = "cancel.wait" => stop_id # NoMotion

\* Every pass of Robot::Impl is a delivery, a response taken, both or none.
LEMMA ImplUsesMailbox ==
    ASSUME ServerTypeOK, ImplTypeOK, ImplNext, StopIsKnown,
           step \notin {"update.send", "update.receive"} => motion_id # NoMotion
    PROVE  MailboxStep
<1>0. Received /\ (step \notin {"update.send", "update.receive"} => motion_id \in CommandId)
  BY DEF ServerTypeOK, ImplTypeOK, Received
<1>1. CASE UpdateSend \/ UpdateClosed \/ UpdateReceive \/ FinishPoll \/ CancelReceive
  BY <1>1, QuietUsesMailbox DEF UpdateSend, UpdateClosed, UpdateReceive, FinishPoll, CancelReceive, netVars
<1>2. CASE StartWait
  BY <1>0, <1>2, TakeUsesMailbox, WaitUsesMailbox, QuietUsesMailbox DEF StartWait, Interrupted
<1>3. CASE ErrorWait
  BY <1>0, <1>3, TakeUsesMailbox, WaitUsesMailbox, QuietUsesMailbox DEF ErrorWait, Interrupted
<1>4. CASE FinishWait
  BY <1>0, <1>4, TakeUsesMailbox, WaitUsesMailbox, QuietUsesMailbox DEF FinishWait, Interrupted
<1>5. CASE CancelWait
  <2>1. stop_id \in CommandId
    BY <1>5 DEF CancelWait, ImplTypeOK, StopIsKnown
  <2>. QED BY <1>0, <1>5, <2>1, TakeUsesMailbox, WaitUsesMailbox, QuietUsesMailbox
       DEF CancelWait, Interrupted
<1>6. CASE StartPoll
  BY <1>0, <1>6, PassUsesMailbox, QuietUsesMailbox DEF StartPoll, Interrupted
<1>7. CASE CancelIgnore
  BY <1>0, <1>7, PassUsesMailbox, QuietUsesMailbox DEF CancelIgnore, Interrupted
<1>. QED BY <1>1, <1>2, <1>3, <1>4, <1>5, <1>6, <1>7 DEF ImplNext

LEMMA OtherUsesMailbox ==
    ASSUME ServerTypeOK, ImplTypeOK, OtherReceive
    PROVE  MailboxStep
<1>1. Received /\ other \in CommandId
  BY DEF OtherReceive, ServerTypeOK, ImplTypeOK, Received
<1>. QED BY <1>1, TakeUsesMailbox, WaitUsesMailbox, QuietUsesMailbox DEF OtherReceive, Interrupted

LEMMA StopStaysKnown ==
    ASSUME ImplTypeOK, StopIsKnown, ImplNext
    PROVE  StopIsKnown'
<1>1. UNCHANGED stop_id
  BY DEF ImplNext, UpdateSend, UpdateClosed, UpdateReceive, StartWait, StartPoll, ErrorWait,
         FinishPoll, FinishWait, CancelWait, CancelReceive, CancelIgnore
<1>2. CASE step = "cancel.wait"
  BY <1>1, <1>2 DEF StopIsKnown
<1>3. CASE step # "cancel.wait"
  <2>1. step' # "cancel.wait"
    BY <1>3
    DEF ImplNext, UpdateSend, UpdateClosed, UpdateReceive, StartWait, StartPoll, ErrorWait, FinishPoll,
        FinishWait, CancelWait, CancelReceive, CancelIgnore, Goto, Return, Throw, CallUpdate, ImplTypeOK
  <2>. QED BY <2>1 DEF StopIsKnown
<1>. QED BY <1>2, <1>3

\* Calling cancelMotion sends it, and leaves the responses alone.
LEMMA CancelIsKnown ==
    ASSUME ImplTypeOK, CallCancelMotion
    PROVE  StopIsKnown'
<1>1. stop_id' = command_id_ /\ command_id_ \in 1 .. (MaxCommands + 1)
  BY DEF CallCancelMotion, ImplTypeOK
<1>. QED BY <1>1, BoundsAssumption DEF StopIsKnown, NoMotion

LEMMA InitUsesMailbox ==
    ASSUME ServerInit, ImplInit
    PROVE  Mailbox!Init
BY DEF ServerInit, ImplInit, Mailbox!Init
===========================================================================
