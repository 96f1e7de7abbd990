-------------------------- MODULE ServicesProofs --------------------------
(***************************************************************************)
(* Services, for any number of threads, calls and states, any set of       *)
(* commands and any loads.                                                 *)
(***************************************************************************)
EXTENDS Services, SequenceTheorems, TLAPS

\* Every request has an id of its own, and is open until it is answered.
RequestsAreOpen ==
    /\ \A i \in DOMAIN requests :
          /\ requests[i].id < command_id_
          /\ requests[i].id # motion
          /\ result[requests[i].id] = "open"
          /\ requests[i].command \in Commands(device) \cup {"Connect"}
    /\ \A i, j \in DOMAIN requests : requests[i].id = requests[j].id => i = j
    /\ motion # None => /\ motion < command_id_ /\ result[motion] = "open"
                        /\ device # "robot"
    /\ \A id \in Id : result[id] # "open" => id < command_id_

\* There is an id left for each call that may still be made.
IdsAreLeft ==
    /\ command_id_ <= calls + 1
    /\ client = "new" => command_id_ = 0

\* A response says what became of the request with its id.
ResponsesAreTrue ==
    /\ \A i \in DOMAIN wire : result[wire[i].id] = ResultOf(wire[i].status)
    /\ \A id \in Id :
          received_responses_[id] # "none" => result[id] = ResultOf(received_responses_[id])

\* What is under way for a thread that waits belongs to its command.
CallIsAnswered(t) ==
    LET id == call[t].id
        command == call[t].command
    IN
    /\ id \in Id /\ id < command_id_ /\ command \in Commands(device)
    /\ \A i \in DOMAIN requests : requests[i].id = id => requests[i].command = command
    /\ \A i \in DOMAIN wire : wire[i].id = id => wire[i].status \in Status(device, command)
    /\ received_responses_[id] \in Status(device, command) \cup {"none"}

CallsAreAnswered == \A t \in Thread : pc[t] = "wait" => CallIsAnswered(t)

\* A thread that waits for a state reads only what arrived since its call.
SocketIsFresh ==
    \A t \in Thread :
        /\ start[t] <= arrived
        /\ pc[t] \in {"drain", "receive", "receiving"} => device # "robot"
        /\ pc[t] \in {"receive", "receiving"} => \A i \in DOMAIN socket : start[t] < socket[i]

\* Where a thread that loads the model is, and what it has.
Loading(t) ==
    /\ pc[t] \in {"save", "load", "loaded", "symbols"} =>
          call[t].id \in Id /\ result[call[t].id] = "done"
    /\ pc[t] = "wait" /\ call[t].command = "LoadModelLibrary" => ~model[t]
    /\ pc[t] \in {"save", "load", "loaded", "not_loaded", "symbols"} => ~model[t]
    /\ pc[t] \in {"loaded", "symbols"} => library[t]
    /\ pc[t] \notin {"loaded", "symbols"} => (library[t] <=> model[t])
    /\ pc[t] \notin {"load", "loaded", "not_loaded"} => file[t] \in {"none", "registered"}

IInv == /\ TypeOK /\ RequestsAreOpen /\ IdsAreLeft /\ ResponsesAreTrue /\ CallsAreAnswered
        /\ SocketIsFresh /\ (\A t \in Thread : Loading(t))
        /\ OutcomeIsTheDevices /\ StatusesUnderstood /\ ReadsFresh

---------------------------------------------------------------------------
(* Statuses, commands and what the handlers make of them.                  *)

LEMMA ResultFacts ==
    ASSUME NEW status
    PROVE  ResultOf(status) \in {"done", "missed", "refused", "aborted"}
BY DEF ResultOf

LEMMA StatusFacts ==
    ASSUME NEW d \in Device, NEW c \in Commands(d)
    PROVE  Status(d, c) \subseteq Statuses /\ "none" \notin Status(d, c) /\ "none" \notin Statuses
<1>1. "none" \notin Statuses
  BY DEF Statuses, ConnectStatus, GetterSetterStatus, StopMoveStatus, RecoveryStatus,
         LoadModelStatus, GripperStatus, VacuumGripperStatus
<1>2. Status(d, c) \in {GetterSetterStatus, StopMoveStatus, RecoveryStatus, LoadModelStatus,
                        GripperStatus, VacuumGripperStatus}
  BY DEF Status, Commands, Device, RobotCommand, GripperCommand, VacuumGripperCommand, Setters
<1>3. Status(d, c) \subseteq Statuses
  BY <1>2 DEF Statuses
<1>. QED BY <1>1, <1>3

\* Each status a command can have is handled, and says what the device did.
LEMMA OutcomeFacts ==
    ASSUME NEW d \in Device, NEW c \in Commands(d) \ {"LoadModelLibrary"}, NEW s \in Status(d, c)
    PROVE  /\ Outcome(d, c, s) \in {"returns", "true", "false", "CommandException"}
           /\ Outcome(d, c, s) \in {"returns", "true"} => ResultOf(s) = "done"
           /\ Outcome(d, c, s) = "false" => ResultOf(s) = "missed"
           /\ Outcome(d, c, s) = "CommandException" => ResultOf(s) \in {"refused", "aborted"}
<1>1. CASE d = "gripper"
  <2>1. s \in GripperStatus /\ Outcome(d, c, s) = executeGripperCommand(s)
    BY <1>1 DEF Status, Outcome, Commands, GripperCommand, Setters
  <2>. QED BY <2>1 DEF GripperStatus, executeGripperCommand, ResultOf
<1>2. CASE d = "vacuum_gripper"
  <2>1. s \in VacuumGripperStatus /\ Outcome(d, c, s) = executeVacuumGripperCommand(s)
    BY <1>2 DEF Status, Outcome, Commands, VacuumGripperCommand, Setters
  <2>. QED BY <2>1 DEF VacuumGripperStatus, executeVacuumGripperCommand, ResultOf
<1>3. CASE d = "robot" /\ c \in Setters
  <2>1. s \in GetterSetterStatus /\ Outcome(d, c, s) = handleGetterSetterResponse(s)
    BY <1>3 DEF Status, Outcome, Setters
  <2>. QED BY <2>1 DEF GetterSetterStatus, handleGetterSetterResponse, ResultOf
<1>4. CASE d = "robot" /\ c = "StopMove"
  <2>1. s \in StopMoveStatus /\ Outcome(d, c, s) = handleStopMoveResponse(s)
    BY <1>4 DEF Status, Outcome, Setters
  <2>. QED BY <2>1 DEF StopMoveStatus, handleStopMoveResponse, ResultOf
<1>5. CASE d = "robot" /\ c = "AutomaticErrorRecovery"
  <2>1. s \in RecoveryStatus /\ Outcome(d, c, s) = handleRecoveryResponse(s)
    BY <1>5 DEF Status, Outcome, Setters
  <2>. QED BY <2>1 DEF RecoveryStatus, handleRecoveryResponse, ResultOf
<1>6. d = "robot" => c \in Setters \cup {"StopMove", "AutomaticErrorRecovery"}
  BY DEF Commands, RobotCommand
<1>. QED BY <1>1, <1>2, <1>3, <1>4, <1>5, <1>6 DEF Device

\* Which device a command is for.
LEMMA CommandFacts ==
    ASSUME NEW d \in Device, NEW c \in Commands(d) \cup {"Connect"}
    PROVE  /\ c \in RobotCommand => d = "robot"
           /\ c \in Motions \cup {"Stop"} => d # "robot"
           /\ c \in Commands(d) => c # "Connect"
           /\ d # "robot" => c # "LoadModelLibrary"
           /\ d # "robot" => \A e \in Commands(d) :
                                Status(d, e) = {"kSuccess", "kFail", "kUnsuccessful", "kAborted"}
BY DEF Commands, Device, RobotCommand, GripperCommand, VacuumGripperCommand, Setters, Motions,
       Status, GripperStatus, VacuumGripperStatus

---------------------------------------------------------------------------
(* Queues.                                                                 *)

\* An element of s appended to, or of its tail, is an element of s or new.
LEMMA AppendElements ==
    ASSUME NEW S, NEW s \in Seq(S), NEW e \in S
    PROVE  /\ Append(s, e) \in Seq(S)
           /\ \A i \in DOMAIN Append(s, e) :
                 \/ i \in DOMAIN s /\ Append(s, e)[i] = s[i]
                 \/ i = Len(s) + 1 /\ Append(s, e)[i] = e
           /\ Len(s) + 1 \notin DOMAIN s
OBVIOUS

LEMMA AppendTwo ==
    ASSUME NEW S, NEW s \in Seq(S), NEW e \in S, NEW f \in S
    PROVE  /\ s \o <<e, f>> \in Seq(S)
           /\ \A i \in DOMAIN (s \o <<e, f>>) :
                 \/ i \in DOMAIN s /\ (s \o <<e, f>>)[i] = s[i]
                 \/ (s \o <<e, f>>)[i] = e
                 \/ (s \o <<e, f>>)[i] = f
<1>1. <<e, f>> \in Seq(S) /\ Len(<<e, f>>) = 2 /\ <<e, f>>[1] = e /\ <<e, f>>[2] = f
  OBVIOUS
<1>2. /\ s \o <<e, f>> \in Seq(S) /\ Len(s \o <<e, f>>) = Len(s) + 2 /\ Len(s) \in Nat
      /\ \A i \in 1 .. Len(s) + 2 : (s \o <<e, f>>)[i] =
            IF i <= Len(s) THEN s[i] ELSE <<e, f>>[i - Len(s)]
  BY <1>1, ConcatProperties
<1>3. DOMAIN (s \o <<e, f>>) = 1 .. (Len(s) + 2) /\ DOMAIN s = 1 .. Len(s)
  BY <1>2
<1>4. ASSUME NEW i \in 1 .. (Len(s) + 2), ~(i <= Len(s))
      PROVE  (s \o <<e, f>>)[i] = e \/ (s \o <<e, f>>)[i] = f
  <2>1. i - Len(s) = 1 \/ i - Len(s) = 2
    BY <1>2, <1>4
  <2>. QED BY <1>1, <1>2, <1>4, <2>1
<1>. QED BY <1>2, <1>3, <1>4

LEMMA TailElements ==
    ASSUME NEW S, NEW s \in Seq(S), s # <<>>
    PROVE  /\ Head(s) \in S /\ 1 \in DOMAIN s /\ Head(s) = s[1]
           /\ Tail(s) \in Seq(S)
           /\ \A i \in DOMAIN Tail(s) : i + 1 \in DOMAIN s /\ i + 1 # 1 /\ Tail(s)[i] = s[i + 1]
<1>1. /\ Head(s) = s[1] /\ Len(s) >= 1 /\ Len(s) \in Nat /\ DOMAIN s = 1 .. Len(s)
      /\ Tail(s) \in Seq(S) /\ Len(Tail(s)) = Len(s) - 1
      /\ DOMAIN Tail(s) = 1 .. (Len(s) - 1)
  OBVIOUS
<1>2. \A i \in 1 .. (Len(s) - 1) : Tail(s)[i] = s[i + 1]
  OBVIOUS
<1>. QED BY <1>1, <1>2

---------------------------------------------------------------------------
(* Steps of the device and of the connection.                              *)

RequestType == [id : Id, command : Used \cup {"Connect"}, load : Loads]
ResponseType == [id : Id, status : Statuses]

clientVars == <<client, link, callVars, arrived, readVars, modelVars>>

\* What a thread knows does not change when requests that are open get an
\* answer.
LEMMA KnownStays ==
    ASSUME IInv, UNCHANGED <<device, clientVars>>,
           \A id \in Id : result[id] # "open" => result'[id] = result[id]
    PROVE  /\ IdsAreLeft' /\ SocketIsFresh' /\ (\A t \in Thread : Loading(t))'
           /\ OutcomeIsTheDevices' /\ StatusesUnderstood' /\ ReadsFresh'
<1>. USE DEF clientVars, callVars, readVars, modelVars
<1>1. IdsAreLeft' /\ StatusesUnderstood'
  BY DEF IInv, IdsAreLeft, StatusesUnderstood
<1>2. SocketIsFresh'
  BY DEF IInv, SocketIsFresh
<1>3. ReadsFresh'
  BY DEF IInv, ReadsFresh, StateFields
<1>4. \A t \in Thread : Loading(t)'
  BY DEF IInv, Loading, Id
<1>5. OutcomeIsTheDevices'
  <2>1. \A t \in Thread : call[t].id # None => call[t].id \in Id
    BY DEF IInv, TypeOK
  <2>. QED BY <2>1 DEF IInv, OutcomeIsTheDevices
<1>. QED BY <1>1, <1>2, <1>3, <1>4, <1>5

LEMMA QueueTypes ==
    ASSUME TypeOK
    PROVE  /\ \A i \in DOMAIN requests : requests[i].id \in Id /\ requests[i].load \in Loads
           /\ \A i \in DOMAIN wire : wire[i].id \in Id /\ wire[i].status \in Statuses
<1>1. requests \in Seq(RequestType) /\ wire \in Seq(ResponseType)
  BY DEF TypeOK, RequestType, ResponseType
<1>2. (\A i \in DOMAIN requests : requests[i] \in RequestType) /\ (\A i \in DOMAIN wire : wire[i] \in ResponseType)
  BY <1>1
<1>. QED BY <1>2 DEF RequestType, ResponseType

\* The request that is read next is open.
LEMMA HeadRequest ==
    ASSUME IInv, requests # <<>>
    PROVE  LET r == Head(requests) IN
           /\ r \in RequestType /\ r = requests[1] /\ 1 \in DOMAIN requests
           /\ r.id \in Id /\ r.id < command_id_ /\ r.id # motion /\ result[r.id] = "open"
           /\ r.command \in Commands(device) \cup {"Connect"}
           /\ r.load \in Loads
           /\ Tail(requests) \in Seq(RequestType)
           /\ \A i \in DOMAIN Tail(requests) :
                 /\ Tail(requests)[i].id # r.id
                 /\ i + 1 \in DOMAIN requests /\ Tail(requests)[i] = requests[i + 1]
<1>1. requests \in Seq(RequestType)
  BY DEF IInv, TypeOK, RequestType
<1>2. /\ Head(requests) \in RequestType /\ 1 \in DOMAIN requests /\ Head(requests) = requests[1]
      /\ Tail(requests) \in Seq(RequestType)
      /\ \A i \in DOMAIN Tail(requests) :
            i + 1 \in DOMAIN requests /\ i + 1 # 1 /\ Tail(requests)[i] = requests[i + 1]
  BY <1>1, TailElements
<1>3. Head(requests).id \in Id /\ Head(requests).load \in Loads
  BY <1>2 DEF RequestType
<1>4. /\ Head(requests).id < command_id_ /\ Head(requests).id # motion
      /\ result[Head(requests).id] = "open"
      /\ Head(requests).command \in Commands(device) \cup {"Connect"}
  BY <1>2 DEF IInv, RequestsAreOpen
<1>5. \A i \in DOMAIN Tail(requests) : Tail(requests)[i].id # Head(requests).id
  BY <1>2 DEF IInv, RequestsAreOpen
<1>. QED BY <1>2, <1>3, <1>4, <1>5

\* The status says what happened, and is one that the waiting call knows.
TrueAnswer(m) ==
    /\ result'[m.id] = ResultOf(m.status)
    /\ \A t \in Thread : pc[t] = "wait" /\ call[t].id = m.id =>
          m.status \in Status(device, call[t].command)

\* A step of the device: it reads a request or none, and answers requests
\* that were open, the ones in S.
LEMMA DeviceKeeps ==
    ASSUME IInv, NEW S \in SUBSET Id,
           UNCHANGED <<device, compatible, clientVars>>,
           load' \in [ee : Loads, load : Loads],
           \/ requests' = requests
           \/ requests # <<>> /\ requests' = Tail(requests),
           motion' \in Id \cup {None},
           motion' # None => /\ motion' < command_id_ /\ motion' \notin S
                             /\ result[motion'] = "open" /\ device # "robot",
           \A i \in DOMAIN requests' : requests'[i].id \notin S /\ requests'[i].id # motion',
           result' \in [Id -> {"open", "done", "missed", "refused", "aborted"}],
           \A id \in Id \ S : result'[id] = result[id],
           \A id \in S : result[id] = "open" /\ id < command_id_,
           wire' \in Seq(ResponseType),
           \A i \in DOMAIN wire' : \/ i \in DOMAIN wire /\ wire'[i] = wire[i]
                                   \/ wire'[i].id \in S /\ TrueAnswer(wire'[i])
    PROVE  IInv'
<1>1. Id' = Id /\ UNCHANGED <<command_id_, received_responses_, pc, call>>
  BY DEF Id, clientVars, callVars
<1>2. /\ requests' \in Seq(RequestType)
      /\ \A i \in DOMAIN requests' : requests'[i].id \in Id
      /\ \/ \A i \in DOMAIN requests' : i \in DOMAIN requests /\ requests'[i] = requests[i]
         \/ \A i \in DOMAIN requests' : i + 1 \in DOMAIN requests /\ requests'[i] = requests[i + 1]
  <2>1. requests \in Seq(RequestType)
    BY DEF IInv, TypeOK, RequestType
  <2>2. CASE requests' = requests
    BY <2>1, <2>2, QueueTypes DEF IInv
  <2>3. CASE requests # <<>> /\ requests' = Tail(requests)
    <3>1. \A i \in DOMAIN requests' : i + 1 \in DOMAIN requests /\ requests'[i] = requests[i + 1]
      BY <2>1, <2>3, TailElements
    <3>. QED BY <2>1, <2>3, <3>1, TailElements, QueueTypes DEF IInv
  <2>. QED BY <2>2, <2>3
<1>3. TypeOK'
  <2>1. requests' \in Seq(RequestType') /\ wire' \in Seq(ResponseType')
    BY <1>1, <1>2 DEF RequestType, ResponseType
  <2>. QED BY <1>1, <2>1 DEF IInv, TypeOK, RequestType, ResponseType, clientVars, callVars,
                             readVars, modelVars, StateFields
<1>4. RequestsAreOpen'
  <2>1. \A i \in DOMAIN requests' : \E j \in DOMAIN requests : requests'[i] = requests[j]
    BY <1>2
  <2>2. \A i \in DOMAIN requests' :
            /\ requests'[i].id < command_id_' /\ requests'[i].id # motion'
            /\ result'[requests'[i].id] = "open"
            /\ requests'[i].command \in Commands(device') \cup {"Connect"}
    BY <1>1, <1>2, <2>1 DEF IInv, RequestsAreOpen
  <2>3. ASSUME NEW i \in DOMAIN requests', NEW j \in DOMAIN requests', requests'[i].id = requests'[j].id
        PROVE  i = j
    <3>1. i \in Int /\ j \in Int
      BY <1>2
    <3>. QED BY <1>2, <2>3, <3>1 DEF IInv, RequestsAreOpen
  <2>4. motion' # None => /\ motion' < command_id_' /\ result'[motion'] = "open"
                          /\ device' # "robot"
    BY <1>1
  <2>5. \A id \in Id' : result'[id] # "open" => id < command_id_'
    BY <1>1 DEF IInv, RequestsAreOpen
  <2>. QED BY <2>2, <2>3, <2>4, <2>5 DEF RequestsAreOpen
<1>5. ResponsesAreTrue'
  <2>1. \A i \in DOMAIN wire : wire[i].id \in Id \ S
    <3>1. \A i \in DOMAIN wire : result[wire[i].id] # "open"
      BY ResultFacts DEF IInv, ResponsesAreTrue
    <3>. QED BY <3>1, QueueTypes DEF IInv
  <2>2. \A id \in S : received_responses_[id] = "none"
    BY ResultFacts DEF IInv, ResponsesAreTrue
  <2>. QED BY <1>1, <2>1, <2>2 DEF IInv, ResponsesAreTrue, TrueAnswer
<1>6. CallsAreAnswered'
  <2>. SUFFICES ASSUME NEW t \in Thread, pc[t] = "wait" PROVE CallIsAnswered(t)'
    BY <1>1 DEF CallsAreAnswered
  <2>1. CallIsAnswered(t)
    BY DEF IInv, CallsAreAnswered
  <2>2. \A i \in DOMAIN requests' : requests'[i].id = call[t].id => requests'[i].command = call[t].command
    <3>1. \A i \in DOMAIN requests' : \E j \in DOMAIN requests : requests'[i] = requests[j]
      BY <1>2
    <3>2. \A j \in DOMAIN requests : requests[j].id = call[t].id => requests[j].command = call[t].command
      BY <2>1 DEF CallIsAnswered
    <3>. QED BY <3>1, <3>2
  <2>3. \A i \in DOMAIN wire' :
            wire'[i].id = call[t].id => wire'[i].status \in Status(device, call[t].command)
    BY <2>1 DEF CallIsAnswered, TrueAnswer
  <2>. QED BY <1>1, <2>1, <2>2, <2>3 DEF CallIsAnswered
<1>7. \A id \in Id : result[id] # "open" => result'[id] = result[id]
  OBVIOUS
<1>. QED BY <1>3, <1>4, <1>5, <1>6, <1>7, KnownStays DEF IInv

\* The call that waits for the request that is read next is for its command.
LEMMA HeadIsOfCall ==
    ASSUME IInv, requests # <<>>, NEW t \in Thread, pc[t] = "wait", call[t].id = Head(requests).id
    PROVE  /\ Head(requests).command = call[t].command
           /\ Head(requests).command \in Commands(device)
           /\ Head(requests).command # "Connect"
<1>1. Head(requests) = requests[1] /\ 1 \in DOMAIN requests
  BY HeadRequest
<1>2. Head(requests).command = call[t].command /\ call[t].command \in Commands(device)
  BY <1>1 DEF IInv, CallsAreAnswered, CallIsAnswered
<1>. QED BY <1>2, CommandFacts DEF IInv, TypeOK

\* The device answers a request with a status that its command can have.
LEMMA AnswerKeeps ==
    ASSUME IInv, NEW status \in Statuses, Answer(status), UNCHANGED clientVars,
           load' \in [ee : Loads, load : Loads],
           Head(requests).command # "Connect" => status \in Status(device, Head(requests).command)
    PROVE  IInv'
<1>. DEFINE r == Head(requests)
            m == [id |-> r.id, status |-> status]
            S == {r.id}
<1>1. /\ requests # <<>> /\ requests' = Tail(requests) /\ wire' = Append(wire, m)
      /\ result' = [result EXCEPT ![r.id] = ResultOf(status)]
      /\ UNCHANGED <<device, compatible, motion>>
  BY DEF Answer
<1>2. /\ r.id \in Id /\ r.id < command_id_ /\ r.id # motion /\ result[r.id] = "open"
      /\ \A i \in DOMAIN Tail(requests) :
            /\ Tail(requests)[i].id # r.id
            /\ i + 1 \in DOMAIN requests /\ Tail(requests)[i] = requests[i + 1]
  BY <1>1, HeadRequest
<1>3. /\ result \in [Id -> {"open", "done", "missed", "refused", "aborted"}]
      /\ wire \in Seq(ResponseType) /\ m \in ResponseType
  BY <1>2 DEF IInv, TypeOK, ResponseType
<1>4. /\ wire' \in Seq(ResponseType)
      /\ \A i \in DOMAIN wire' : (i \in DOMAIN wire /\ wire'[i] = wire[i]) \/ wire'[i] = m
  BY <1>1, <1>3, AppendElements
<1>5. /\ result' \in [Id -> {"open", "done", "missed", "refused", "aborted"}]
      /\ result'[r.id] = ResultOf(status)
      /\ \A id \in Id \ S : result'[id] = result[id]
  BY <1>1, <1>2, <1>3, ResultFacts
<1>6. m.id \in S /\ TrueAnswer(m)
  BY <1>1, <1>5, HeadIsOfCall DEF TrueAnswer
<1>7. motion' \in Id \cup {None} /\ (motion' # None => /\ motion' < command_id_ /\ motion' \notin S
                                     /\ result[motion'] = "open" /\ device # "robot")
  BY <1>1, <1>2 DEF IInv, TypeOK, RequestsAreOpen
<1>8. \A i \in DOMAIN requests' : requests'[i].id \notin S /\ requests'[i].id # motion'
  BY <1>1, <1>2 DEF IInv, RequestsAreOpen
<1>9. S \in SUBSET Id /\ \A id \in S : result[id] = "open" /\ id < command_id_
  BY <1>2
<1>10. \A i \in DOMAIN wire' : \/ i \in DOMAIN wire /\ wire'[i] = wire[i]
                               \/ wire'[i].id \in S /\ TrueAnswer(wire'[i])
  BY <1>4, <1>6
<1>. HIDE DEF S
<1>. QED BY <1>1, <1>4, <1>5, <1>7, <1>8, <1>9, <1>10, DeviceKeeps

LEMMA GripperStatusFacts ==
    {"kSuccess", "kFail", "kUnsuccessful", "kAborted"} \subseteq Statuses
BY DEF Statuses, GripperStatus

\* A motion of a gripper begins, ...
LEMMA BeginKeeps ==
    ASSUME IInv, BeginMotion, UNCHANGED clientVars
    PROVE  IInv'
<1>. DEFINE r == Head(requests)
<1>0. requests # <<>> /\ r.command \in Motions /\ UNCHANGED load
  BY DEF BeginMotion
<1>1. /\ r.id \in Id /\ r.id < command_id_ /\ result[r.id] = "open"
      /\ r.command \in Commands(device) \cup {"Connect"}
      /\ Tail(requests) \in Seq(RequestType)
      /\ \A i \in DOMAIN Tail(requests) : Tail(requests)[i].id # r.id
  BY <1>0, HeadRequest
<1>2. device # "robot" /\ device \in Device /\ r.command # "Connect"
  <2>1. device \in Device
    BY DEF IInv, TypeOK
  <2>. QED BY <1>0, <1>1, <2>1, CommandFacts DEF Motions
<1>3. CASE motion = None
  <2>1. motion' = r.id /\ requests' = Tail(requests) /\ UNCHANGED <<device, compatible, result, wire>>
    BY <1>3 DEF BeginMotion
  <2>2. /\ result' \in [Id -> {"open", "done", "missed", "refused", "aborted"}]
        /\ wire' \in Seq(ResponseType) /\ load' \in [ee : Loads, load : Loads]
    BY <1>0, <2>1 DEF IInv, TypeOK, ResponseType
  <2>. DEFINE S == {}
  <2>3. S \in SUBSET Id /\ (\A id \in S : result[id] = "open" /\ id < command_id_)
        /\ (\A id \in Id \ S : result'[id] = result[id])
    BY <2>1
  <2>4. \A i \in DOMAIN requests' : requests'[i].id \notin S /\ requests'[i].id # motion'
    BY <1>1, <2>1
  <2>5. \A i \in DOMAIN wire' : i \in DOMAIN wire /\ wire'[i] = wire[i]
    BY <2>1
  <2>6. motion' \in Id \cup {None} /\ motion' < command_id_ /\ motion' \notin S
        /\ result[motion'] = "open" /\ device # "robot"
    BY <1>1, <1>2, <2>1
  <2>. HIDE DEF S
  <2>. QED BY <1>0, <2>1, <2>2, <2>3, <2>4, <2>5, <2>6, DeviceKeeps
<1>4. CASE motion # None
  <2>1. Answer("kFail")
    BY <1>4 DEF BeginMotion
  <2>2. "kFail" \in Status(device, r.command)
    BY <1>1, <1>2, CommandFacts
  <2>3. load' \in [ee : Loads, load : Loads]
    BY <1>0 DEF IInv, TypeOK
  <2>. QED BY <2>1, <2>2, <2>3, GripperStatusFacts, AnswerKeeps
<1>. QED BY <1>3, <1>4

\* A status of a gripper is one that every call of a gripper knows.
LEMMA GripperAnswer ==
    ASSUME IInv, device # "robot", NEW m \in ResponseType,
           m.status \in {"kSuccess", "kFail", "kUnsuccessful", "kAborted"},
           result'[m.id] = ResultOf(m.status)
    PROVE  TrueAnswer(m)
<1>1. \A t \in Thread : pc[t] = "wait" => call[t].command \in Commands(device) /\ device \in Device
  BY DEF IInv, CallsAreAnswered, CallIsAnswered, TypeOK
<1>2. \A t \in Thread : pc[t] = "wait" => m.status \in Status(device, call[t].command)
  BY <1>1, CommandFacts
<1>. QED BY <1>2 DEF TrueAnswer

\* ... ends ...
LEMMA EndKeeps ==
    ASSUME IInv, EndMotion, UNCHANGED clientVars
    PROVE  IInv'
<1>1. PICK status \in {"kSuccess", "kUnsuccessful", "kFail"} :
          /\ wire' = Append(wire, [id |-> motion, status |-> status])
          /\ result' = [result EXCEPT ![motion] = ResultOf(status)]
  BY DEF EndMotion
<1>. DEFINE m == [id |-> motion, status |-> status]
            S == {motion}
<1>2. /\ motion # None /\ motion' = None /\ UNCHANGED <<device, compatible, requests, load>>
  BY DEF EndMotion
<1>3. motion \in Id /\ motion < command_id_ /\ result[motion] = "open" /\ device # "robot"
  BY <1>2 DEF IInv, TypeOK, RequestsAreOpen
<1>4. /\ result \in [Id -> {"open", "done", "missed", "refused", "aborted"}]
      /\ wire \in Seq(ResponseType) /\ m \in ResponseType /\ load' \in [ee : Loads, load : Loads]
  BY <1>2, <1>3, GripperStatusFacts DEF IInv, TypeOK, ResponseType
<1>5. /\ wire' \in Seq(ResponseType)
      /\ \A i \in DOMAIN wire' : (i \in DOMAIN wire /\ wire'[i] = wire[i]) \/ wire'[i] = m
  BY <1>1, <1>4, AppendElements
<1>6. /\ result' \in [Id -> {"open", "done", "missed", "refused", "aborted"}]
      /\ result'[motion] = ResultOf(status)
      /\ \A id \in Id \ S : result'[id] = result[id]
  BY <1>1, <1>3, <1>4, ResultFacts
<1>7. m.id \in S /\ TrueAnswer(m)
  BY <1>3, <1>4, <1>6, GripperAnswer
<1>8. \A i \in DOMAIN requests' : requests'[i].id \notin S /\ requests'[i].id # motion'
  <2>1. \A i \in DOMAIN requests : requests[i].id \in Id /\ requests[i].id # motion
    BY QueueTypes DEF IInv, RequestsAreOpen
  <2>2. None \notin Id
    BY ServiceAssumption DEF Id, None, IInv, TypeOK
  <2>. QED BY <1>2, <2>1, <2>2
<1>9. S \in SUBSET Id /\ \A id \in S : result[id] = "open" /\ id < command_id_
  BY <1>3
<1>10. \A i \in DOMAIN wire' : \/ i \in DOMAIN wire /\ wire'[i] = wire[i]
                               \/ wire'[i].id \in S /\ TrueAnswer(wire'[i])
  BY <1>5, <1>7
<1>. HIDE DEF S
<1>. QED BY <1>2, <1>4, <1>5, <1>6, <1>8, <1>9, <1>10, DeviceKeeps

\* ... or is stopped.
LEMMA StopKeeps ==
    ASSUME IInv, ServeStop, UNCHANGED clientVars
    PROVE  IInv'
<1>. DEFINE r == Head(requests)
            done == [id |-> r.id, status |-> "kSuccess"]
            aborted == [id |-> motion, status |-> "kAborted"]
<1>1. /\ requests # <<>> /\ r.command = "Stop" /\ requests' = Tail(requests) /\ motion' = None
      /\ UNCHANGED <<device, compatible, load>>
  BY DEF ServeStop
<1>2. /\ r.id \in Id /\ r.id < command_id_ /\ r.id # motion /\ result[r.id] = "open"
      /\ r.command \in Commands(device) \cup {"Connect"}
      /\ \A i \in DOMAIN Tail(requests) :
            /\ Tail(requests)[i].id # r.id
            /\ i + 1 \in DOMAIN requests /\ Tail(requests)[i] = requests[i + 1]
  BY <1>1, HeadRequest
<1>3. device # "robot" /\ device \in Device
  <2>1. device \in Device
    BY DEF IInv, TypeOK
  <2>. QED BY <1>1, <1>2, <2>1, CommandFacts
<1>4. /\ result \in [Id -> {"open", "done", "missed", "refused", "aborted"}]
      /\ wire \in Seq(ResponseType) /\ done \in ResponseType /\ load' \in [ee : Loads, load : Loads]
  BY <1>1, <1>2, GripperStatusFacts DEF IInv, TypeOK, ResponseType
<1>5. None \notin Id /\ ResultOf("kSuccess") = "done" /\ ResultOf("kAborted") = "aborted"
  BY ServiceAssumption DEF Id, None, IInv, TypeOK, ResultOf
<1>6. \A i \in DOMAIN requests' : /\ requests'[i].id # r.id /\ requests'[i].id # motion
                                  /\ requests'[i].id # None
  BY <1>1, <1>2, <1>5, QueueTypes DEF IInv, RequestsAreOpen
<1>7. CASE motion = None
  <2>. DEFINE S == {r.id}
  <2>1. wire' = Append(wire, done) /\ result' = [result EXCEPT ![r.id] = "done"]
    BY <1>7 DEF ServeStop
  <2>2. /\ wire' \in Seq(ResponseType)
        /\ \A i \in DOMAIN wire' : (i \in DOMAIN wire /\ wire'[i] = wire[i]) \/ wire'[i] = done
    BY <1>4, <2>1, AppendElements
  <2>3. /\ result' \in [Id -> {"open", "done", "missed", "refused", "aborted"}]
        /\ result'[r.id] = "done" /\ \A id \in Id \ S : result'[id] = result[id]
    BY <1>2, <1>4, <2>1
  <2>4. done.id \in S /\ TrueAnswer(done)
    BY <1>3, <1>4, <1>5, <2>3, GripperAnswer
  <2>5. S \in SUBSET Id /\ \A id \in S : result[id] = "open" /\ id < command_id_
    BY <1>2
  <2>6. \A i \in DOMAIN wire' : \/ i \in DOMAIN wire /\ wire'[i] = wire[i]
                                \/ wire'[i].id \in S /\ TrueAnswer(wire'[i])
    BY <2>2, <2>4
  <2>7. \A i \in DOMAIN requests' : requests'[i].id \notin S /\ requests'[i].id # motion'
    BY <1>1, <1>6
  <2>. HIDE DEF S
  <2>. QED BY <1>1, <1>4, <2>2, <2>3, <2>5, <2>6, <2>7, DeviceKeeps
<1>8. CASE motion # None
  <2>. DEFINE S == {r.id, motion}
  <2>0. motion \in Id /\ motion < command_id_ /\ result[motion] = "open" /\ aborted \in ResponseType
    BY <1>8, GripperStatusFacts DEF IInv, TypeOK, RequestsAreOpen, ResponseType
  <2>1. /\ wire' = wire \o <<aborted, done>>
        /\ result' = [[result EXCEPT ![r.id] = "done"] EXCEPT ![motion] = "aborted"]
    BY <1>8 DEF ServeStop
  <2>2. /\ wire' \in Seq(ResponseType)
        /\ \A i \in DOMAIN wire' : \/ i \in DOMAIN wire /\ wire'[i] = wire[i]
                                   \/ wire'[i] = aborted \/ wire'[i] = done
    BY <1>4, <2>0, <2>1, AppendTwo
  <2>3. /\ result' \in [Id -> {"open", "done", "missed", "refused", "aborted"}]
        /\ result'[r.id] = "done" /\ result'[motion] = "aborted"
        /\ \A id \in Id \ S : result'[id] = result[id]
    BY <1>2, <1>4, <2>0, <2>1
  <2>4. done.id \in S /\ TrueAnswer(done) /\ aborted.id \in S /\ TrueAnswer(aborted)
    BY <1>3, <1>4, <1>5, <2>0, <2>3, GripperAnswer
  <2>5. S \in SUBSET Id /\ \A id \in S : result[id] = "open" /\ id < command_id_
    BY <1>2, <2>0
  <2>6. \A i \in DOMAIN wire' : \/ i \in DOMAIN wire /\ wire'[i] = wire[i]
                                \/ wire'[i].id \in S /\ TrueAnswer(wire'[i])
    BY <2>2, <2>4
  <2>7. \A i \in DOMAIN requests' : requests'[i].id \notin S /\ requests'[i].id # motion'
    BY <1>1, <1>6
  <2>. HIDE DEF S
  <2>. QED BY <1>1, <1>4, <2>2, <2>3, <2>5, <2>6, <2>7, DeviceKeeps
<1>. QED BY <1>7, <1>8

LEMMA ServeKeeps ==
    ASSUME IInv, Serve \/ FinishMotion
    PROVE  IInv'
<1>1. UNCHANGED clientVars
  BY DEF Serve, FinishMotion, clientVars
<1>2. CASE ServeConnect
  <2>1. /\ requests # <<>> /\ Head(requests).command = "Connect" /\ UNCHANGED load
        /\ Answer(IF compatible THEN "kSuccess" ELSE "kIncompatibleLibraryVersion")
    BY <1>2 DEF ServeConnect
  <2>2. (IF compatible THEN "kSuccess" ELSE "kIncompatibleLibraryVersion") \in Statuses
    BY DEF Statuses, ConnectStatus
  <2>3. load' \in [ee : Loads, load : Loads]
    BY <2>1 DEF IInv, TypeOK
  <2>. QED BY <1>1, <2>1, <2>2, <2>3, AnswerKeeps
<1>3. CASE ServeRobot
  <2>. DEFINE r == Head(requests)
  <2>1. PICK status \in Status("robot", r.command) :
            /\ Answer(status)
            /\ load' = IF r.command = "SetLoad" /\ status = "kSuccess"
                       THEN [load EXCEPT !.load = r.load] ELSE load
    BY <1>3 DEF ServeRobot
  <2>2. requests # <<>> /\ r.command \in RobotCommand
    BY <1>3 DEF ServeRobot
  <2>3. r.load \in Loads /\ r.command \in Commands(device) \cup {"Connect"} /\ device \in Device
    BY <2>2, HeadRequest DEF IInv, TypeOK
  <2>4. device = "robot" /\ r.command \in Commands(device)
    BY <2>2, <2>3, CommandFacts DEF RobotCommand, Setters
  <2>5. status \in Statuses /\ status \in Status(device, r.command)
    BY <2>1, <2>3, <2>4, StatusFacts
  <2>6. load' \in [ee : Loads, load : Loads]
    BY <2>1, <2>3 DEF IInv, TypeOK
  <2>. QED BY <1>1, <2>1, <2>5, <2>6, AnswerKeeps
<1>. QED BY <1>1, <1>2, <1>3, BeginKeeps, StopKeeps, EndKeeps DEF Serve, FinishMotion

---------------------------------------------------------------------------
(* Steps of the client.                                                    *)

\* OutcomeIsTheDevices and ReadsFresh, for one thread.
TrueOutcome(t) ==
    pc[t] = "idle" /\ call[t].id # None =>
        /\ outcome[t] \in {"true", "returns"} => result[call[t].id] = "done"
        /\ outcome[t] = "false" => result[call[t].id] = "missed"
        /\ outcome[t] = "CommandException" => result[call[t].id] \in {"refused", "aborted"}

FreshRead(t) ==
    outcome[t] = "state" =>
        \E n \in 1 .. MaxStates : n > start[t] /\ read[t] = [f \in StateFields |-> n]

\* What concerns no other thread.
Own(t) == /\ TrueOutcome(t) /\ outcome[t] # "ProtocolException" /\ FreshRead(t) /\ Loading(t)
          /\ start[t] <= arrived
          /\ pc[t] \in {"drain", "receive", "receiving"} => device # "robot"
          /\ pc[t] \in {"receive", "receiving"} => \A i \in DOMAIN socket : start[t] < socket[i]

AllOwn == \A t \in Thread : Own(t)

LEMMA OwnInvariant ==
    IInv <=> /\ TypeOK /\ RequestsAreOpen /\ IdsAreLeft /\ ResponsesAreTrue /\ CallsAreAnswered
             /\ AllOwn
<1>1. AllOwn <=>
          /\ SocketIsFresh /\ (\A t \in Thread : Loading(t))
          /\ OutcomeIsTheDevices /\ StatusesUnderstood /\ ReadsFresh
  BY Zenon DEF AllOwn, Own, SocketIsFresh, OutcomeIsTheDevices, StatusesUnderstood, ReadsFresh,
               TrueOutcome, FreshRead
<1>. QED BY <1>1 DEF IInv

\* The variables of thread t.
local(t) == <<pc[t], call[t], outcome[t], start[t], read[t], file[t], library[t], model[t]>>

\* A thread takes a step that sends no request.
LEMMA ThreadKeeps ==
    ASSUME IInv, TypeOK', NEW t \in Thread, Own(t)',
           UNCHANGED <<deviceVars, client, command_id_, arrived>>,
           \A u \in Thread \ {t} : local(u)' = local(u),
           calls' \in {calls, calls + 1},
           \A id \in Id : received_responses_'[id] \in {received_responses_[id], "none"},
           pc'[t] = "wait" => pc[t] = "wait" /\ call'[t] = call[t],
           socket' = socket \/ (socket # <<>> /\ socket' = Tail(socket))
    PROVE  IInv'
<1>0. UNCHANGED <<device, compatible, requests, motion, result, load, wire, Id>>
  BY DEF deviceVars, Id
<1>1. RequestsAreOpen'
  BY <1>0 DEF IInv, RequestsAreOpen
<1>2. IdsAreLeft'
  <2>1. command_id_ \in Int /\ calls \in Int
    BY <1>0 DEF IInv, TypeOK
  <2>2. IdsAreLeft
    BY DEF IInv
  <2>3. UNCHANGED <<command_id_, client>> /\ (calls' = calls \/ calls' = calls + 1)
    OBVIOUS
  <2>. QED BY <2>1, <2>2, <2>3 DEF IdsAreLeft
<1>3. ResponsesAreTrue'
  BY <1>0 DEF IInv, ResponsesAreTrue
<1>4. CallsAreAnswered'
  <2>. SUFFICES ASSUME NEW u \in Thread, pc'[u] = "wait" PROVE CallIsAnswered(u)'
    BY DEF CallsAreAnswered
  <2>1. pc[u] = "wait" /\ call'[u] = call[u]
    BY DEF local
  <2>2. CallIsAnswered(u)
    BY <2>1 DEF IInv, CallsAreAnswered
  <2>. QED BY <1>0, <2>1, <2>2 DEF CallIsAnswered
<1>5. \A i \in DOMAIN socket' : \E j \in DOMAIN socket : socket'[i] = socket[j]
  <2>1. socket \in Seq(1 .. MaxStates)
    BY DEF IInv, TypeOK
  <2>2. CASE socket # <<>> /\ socket' = Tail(socket)
    <3>1. \A i \in DOMAIN Tail(socket) : i + 1 \in DOMAIN socket /\ Tail(socket)[i] = socket[i + 1]
      BY <2>1, <2>2, TailElements
    <3>. QED BY <2>2, <3>1
  <2>. QED BY <2>2
<1>6. ASSUME NEW u \in Thread, u # t
      PROVE  Own(u)'
  <2>1. /\ pc'[u] = pc[u] /\ call'[u] = call[u] /\ outcome'[u] = outcome[u] /\ start'[u] = start[u]
        /\ read'[u] = read[u] /\ file'[u] = file[u] /\ library'[u] = library[u] /\ model'[u] = model[u]
    BY <1>6 DEF local
  <2>2. Own(u)
    BY OwnInvariant DEF AllOwn
  <2>3. TrueOutcome(u)' /\ outcome'[u] # "ProtocolException" /\ FreshRead(u)'
    BY <1>0, <2>1, <2>2 DEF Own, TrueOutcome, FreshRead, StateFields
  <2>4. Loading(u)'
    BY <1>0, <2>1, <2>2 DEF Own, Loading
  <2>5. /\ start'[u] <= arrived'
        /\ pc'[u] \in {"drain", "receive", "receiving"} => device' # "robot"
        /\ pc'[u] \in {"receive", "receiving"} => \A i \in DOMAIN socket' : start'[u] < socket'[i]
    BY <1>0, <1>5, <2>1, <2>2 DEF Own
  <2>. QED BY <2>3, <2>4, <2>5 DEF Own
<1>7. AllOwn'
  BY <1>6 DEF AllOwn
<1>. QED BY <1>1, <1>2, <1>3, <1>4, <1>7, OwnInvariant, PTL

\* The response is taken ...
LEMMA RespondKeeps ==
    ASSUME IInv, NEW t \in Thread, Respond(t)
    PROVE  IInv'
<1>. DEFINE id == call[t].id
            command == call[t].command
            status == received_responses_[id]
<1>1. /\ pc[t] = "wait" /\ status # "none"
      /\ received_responses_' = [received_responses_ EXCEPT ![id] = "none"]
      /\ UNCHANGED <<deviceVars, client, link, command_id_, calls, call, arrived, readVars, modelVars>>
  BY DEF Respond
<1>2. /\ id \in Id /\ command \in Commands(device) /\ status \in Status(device, command)
      /\ result[id] = ResultOf(status) /\ device \in Device
  BY <1>1 DEF IInv, CallsAreAnswered, CallIsAnswered, ResponsesAreTrue, TypeOK
<1>3. TypeOK /\ Own(t)
  BY OwnInvariant DEF AllOwn
<1>4. UNCHANGED <<device, compatible, requests, motion, result, load, wire, Id, client, link, command_id_,
                  calls, call, arrived, socket, udp_mutex_, start, read, file, library, model, StateFields>>
  BY <1>1 DEF deviceVars, readVars, modelVars, Id, StateFields
<1>5. /\ \A i \in Id : received_responses_'[i] \in {received_responses_[i], "none"}
      /\ received_responses_' \in [Id -> Statuses \cup {"none"}]
  BY <1>1, <1>2, <1>3 DEF TypeOK
<1>6. CASE command = "LoadModelLibrary" /\ status = "kSuccess"
  <2>1. pc' = [pc EXCEPT ![t] = "save"] /\ UNCHANGED outcome
    BY <1>1, <1>6 DEF Respond
  <2>2. ResultOf(status) = "done"
    BY <1>6 DEF ResultOf
  <2>3. TypeOK'
    BY <1>3, <1>4, <1>5, <2>1 DEF TypeOK
  <2>4. pc'[t] = "save" /\ (\A u \in Thread \ {t} : pc'[u] = pc[u])
    BY <1>3, <2>1 DEF TypeOK
  <2>5. Loading(t)'
    BY <1>1, <1>2, <1>3, <1>4, <1>6, <2>2, <2>4 DEF Own, Loading
  <2>6. Own(t)'
    BY <1>3, <1>4, <2>1, <2>4, <2>5 DEF Own, TrueOutcome, FreshRead
  <2>. QED BY <1>1, <1>4, <1>5, <2>1, <2>3, <2>4, <2>6, ThreadKeeps DEF local
<1>7. CASE ~(command = "LoadModelLibrary" /\ status = "kSuccess")
  <2>1. PICK how : /\ Leave(t, how)
                   /\ \/ command = "LoadModelLibrary" /\ how = "ModelException"
                      \/ command # "LoadModelLibrary" /\ how = Outcome(device, command, status)
    BY <1>1, <1>7 DEF Respond
  <2>2. /\ how \in {"returns", "true", "false", "CommandException", "ModelException"}
        /\ how \in {"returns", "true"} => result[id] = "done"
        /\ how = "false" => result[id] = "missed"
        /\ how = "CommandException" => result[id] \in {"refused", "aborted"}
    BY <1>2, <2>1, OutcomeFacts
  <2>3. /\ pc' = [pc EXCEPT ![t] = "idle"] /\ outcome' = [outcome EXCEPT ![t] = how]
        /\ pc'[t] = "idle" /\ outcome'[t] = how
        /\ \A u \in Thread \ {t} : pc'[u] = pc[u] /\ outcome'[u] = outcome[u]
    BY <1>3, <2>1 DEF TypeOK, Leave
  <2>4. TypeOK'
    BY <1>3, <1>4, <1>5, <2>2, <2>3 DEF TypeOK, Outcomes
  <2>5. Loading(t)'
    BY <1>1, <1>3, <1>4, <2>3 DEF Own, Loading
  <2>6. Own(t)'
    BY <1>3, <1>4, <2>2, <2>3, <2>5 DEF Own, TrueOutcome, FreshRead
  <2>. QED BY <1>1, <1>4, <1>5, <2>3, <2>4, <2>6, ThreadKeeps DEF local
<1>. QED BY <1>6, <1>7

\* ... or the connection is lost; a call that sends nothing ends or begins.
LEMMA CallKeeps ==
    ASSUME IInv, NEW t \in Thread, Fail(t) \/ RejectProfile(t) \/ ReadOnce(t)
    PROVE  IInv'
<1>1. TypeOK /\ Own(t)
  BY OwnInvariant DEF AllOwn
<1>2. /\ UNCHANGED <<deviceVars, client, link, received_responses_, command_id_, arrived, socket,
                     udp_mutex_, read, modelVars>>
      /\ calls' \in {calls, calls + 1} /\ calls' \in 0 .. MaxCalls[device]
  <2>1. calls \in 0 .. MaxCalls[device] /\ MaxCalls[device] \in Nat
    BY <1>1, ServiceAssumption DEF TypeOK
  <2>2. CASE Fail(t)
    BY <2>1, <2>2 DEF Fail, readVars
  <2>3. CASE RejectProfile(t)
    BY <2>1, <2>3 DEF RejectProfile, MayCall, readVars
  <2>4. CASE ReadOnce(t)
    BY <2>1, <2>4 DEF ReadOnce, MayCall
  <2>. QED BY <2>2, <2>3, <2>4
<1>3. UNCHANGED <<device, compatible, requests, motion, result, load, wire, Id, client, link, command_id_,
                  received_responses_, arrived, socket, udp_mutex_, read, file, library, model, StateFields>>
  BY <1>2 DEF deviceVars, modelVars, Id, StateFields
<1>. DEFINE CallType == [id : Id \cup {None}, command : Used \cup {"none", "readOnce"}]
<1>4. \E p \in {"idle", "drain"}, o \in {"NetworkException", "CommandException", "none"},
         c \in CallType, s \in 0 .. MaxStates :
            /\ pc' = [pc EXCEPT ![t] = p] /\ outcome' = [outcome EXCEPT ![t] = o]
            /\ call' = [call EXCEPT ![t] = c] /\ start' = [start EXCEPT ![t] = s]
            /\ o = "CommandException" => c.id = None
            /\ s \in {start[t], arrived}
            /\ p = "drain" => device # "robot"
            /\ pc[t] \in {"wait", "idle"}
  <2>. USE <1>1 DEF TypeOK
  <2>1. CASE Fail(t)
    <3>1. /\ pc' = [pc EXCEPT ![t] = "idle"] /\ outcome' = [outcome EXCEPT ![t] = "NetworkException"]
          /\ call' = [call EXCEPT ![t] = call[t]] /\ start' = [start EXCEPT ![t] = start[t]]
          /\ call[t] \in CallType /\ start[t] \in 0 .. MaxStates /\ pc[t] = "wait"
      BY <2>1 DEF Fail, Leave, readVars
    <3>. QED BY <3>1
  <2>2. CASE RejectProfile(t)
    <3>. DEFINE c == [id |-> None, command |-> "Vacuum"]
    <3>1. /\ pc' = [pc EXCEPT ![t] = "idle"] /\ outcome' = [outcome EXCEPT ![t] = "CommandException"]
          /\ call' = [call EXCEPT ![t] = c] /\ start' = [start EXCEPT ![t] = start[t]]
          /\ start[t] \in 0 .. MaxStates /\ pc[t] = "idle" /\ c \in CallType /\ c.id = None
      BY <2>2 DEF RejectProfile, Leave, readVars, MayCall
    <3>. HIDE DEF c
    <3>. QED BY <3>1
  <2>3. CASE ReadOnce(t)
    <3>. DEFINE c == [id |-> None, command |-> "readOnce"]
    <3>1. /\ pc' = [pc EXCEPT ![t] = "drain"] /\ outcome' = [outcome EXCEPT ![t] = "none"]
          /\ call' = [call EXCEPT ![t] = c] /\ start' = [start EXCEPT ![t] = arrived]
          /\ c \in CallType /\ device # "robot" /\ pc[t] = "idle" /\ arrived \in 0 .. MaxStates
      BY <2>3 DEF ReadOnce, MayCall
    <3>. HIDE DEF c
    <3>. QED BY <3>1
  <2>. QED BY <2>1, <2>2, <2>3
<1>5. TypeOK'
  BY <1>1, <1>2, <1>3, <1>4 DEF TypeOK, Outcomes
<1>6. /\ \A u \in Thread \ {t} : /\ pc'[u] = pc[u] /\ outcome'[u] = outcome[u] /\ call'[u] = call[u]
                                 /\ start'[u] = start[u]
      /\ pc'[t] \in {"idle", "drain"} /\ start'[t] \in {start[t], arrived}
      /\ outcome'[t] \in {"NetworkException", "CommandException", "none"}
      /\ outcome'[t] = "CommandException" => call'[t].id = None
      /\ pc'[t] = "drain" => device # "robot"
      /\ pc[t] \in {"wait", "idle"}
  BY <1>1, <1>4 DEF TypeOK
<1>7. Loading(t)'
  BY <1>1, <1>3, <1>6 DEF Own, Loading
<1>8. Own(t)'
  <2>1. start'[t] <= arrived'
    BY <1>1, <1>3, <1>6 DEF Own, TypeOK
  <2>2. TrueOutcome(t)'
    BY <1>6 DEF TrueOutcome
  <2>. QED BY <1>3, <1>6, <1>7, <2>1, <2>2 DEF Own, FreshRead
<1>. QED BY <1>2, <1>3, <1>5, <1>6, <1>8, ThreadKeeps DEF local

\* Every field of a state comes from the state that arrived.
LEMMA ReceivedFields ==
    ASSUME TypeOK, device # "robot", NEW n \in 1 .. MaxStates
    PROVE  Received(n) = [f \in StateFields |-> n] /\ Received(n) \in [StateFields -> 0 .. MaxStates]
<1>1. n \in 0 .. MaxStates /\ n % 2^16 = n
  <2>1. n \in Nat /\ n < 65536 /\ n \in 0 .. MaxStates
    BY ServiceAssumption
  <2>2. 2^16 = 65536
    OBVIOUS
  <2>. QED BY <2>1, <2>2
<1>2. CASE device = "gripper"
  BY <1>1, <1>2 DEF Received, convertGripperState, GripperWire, StateFields, GripperFields
<1>3. CASE device = "vacuum_gripper"
  BY <1>1, <1>3 DEF Received, convertVacuumGripperState, VacuumGripperWire, StateFields,
                    VacuumGripperFields
<1>. QED BY <1>2, <1>3 DEF TypeOK, Device

\* A thread in readOnce goes on.
LEMMA ReadKeeps ==
    ASSUME IInv, NEW t \in Thread, Drain(t) \/ LockUdp(t) \/ Receive(t)
    PROVE  IInv'
<1>1. TypeOK /\ Own(t)
  BY OwnInvariant DEF AllOwn
<1>2. UNCHANGED <<deviceVars, client, link, received_responses_, command_id_, calls, call, arrived,
                  start, modelVars>>
  BY DEF Drain, LockUdp, Receive
<1>3. UNCHANGED <<device, compatible, requests, motion, result, load, wire, Id, client, link, command_id_,
                  received_responses_, calls, call, arrived, start, file, library, model, StateFields>>
  BY <1>2 DEF deviceVars, modelVars, Id, StateFields
<1>4. socket \in Seq(1 .. MaxStates) /\ (socket # <<>> => /\ Head(socket) = socket[1] /\ 1 \in DOMAIN socket
                                                          /\ Head(socket) \in 1 .. MaxStates
                                                          /\ Tail(socket) \in Seq(1 .. MaxStates))
  BY <1>1, TailElements DEF TypeOK
<1>5. CASE Drain(t)
  <2>1. UNCHANGED <<outcome, read, udp_mutex_>> /\ pc[t] = "drain"
    BY <1>5 DEF Drain
  <2>2. CASE socket # <<>>
    <3>1. socket' = Tail(socket) /\ UNCHANGED pc
      BY <1>5, <2>2 DEF Drain
    <3>2. TypeOK'
      BY <1>1, <1>3, <1>4, <2>1, <2>2, <3>1 DEF TypeOK
    <3>3. Own(t)'
      BY <1>1, <1>3, <2>1, <3>1 DEF Own, TrueOutcome, FreshRead, Loading
    <3>. QED BY <1>2, <1>3, <2>1, <2>2, <3>1, <3>2, <3>3, ThreadKeeps DEF local
  <2>3. CASE socket = <<>>
    <3>1. pc' = [pc EXCEPT ![t] = "receive"] /\ UNCHANGED socket
      BY <1>5, <2>3 DEF Drain
    <3>2. TypeOK'
      BY <1>1, <1>3, <2>1, <3>1 DEF TypeOK
    <3>3. pc'[t] = "receive" /\ (\A u \in Thread \ {t} : pc'[u] = pc[u])
      BY <1>1, <3>1 DEF TypeOK
    <3>4. Loading(t)'
      BY <1>1, <1>3, <2>1, <3>3 DEF Own, Loading
    <3>5. \A i \in DOMAIN socket' : start'[t] < socket'[i]
      BY <2>3, <3>1
    <3>6. Own(t)'
      BY <1>1, <1>3, <2>1, <3>3, <3>4, <3>5 DEF Own, TrueOutcome, FreshRead
    <3>. QED BY <1>2, <1>3, <2>1, <3>1, <3>2, <3>3, <3>6, ThreadKeeps DEF local
  <2>. QED BY <2>2, <2>3
<1>6. CASE LockUdp(t)
  <2>1. /\ UNCHANGED <<outcome, socket, read>> /\ pc[t] = "receive" /\ udp_mutex_' = t
        /\ pc' = [pc EXCEPT ![t] = "receiving"]
    BY <1>6 DEF LockUdp
  <2>2. TypeOK'
    BY <1>1, <1>3, <2>1 DEF TypeOK
  <2>3. pc'[t] = "receiving" /\ (\A u \in Thread \ {t} : pc'[u] = pc[u])
    BY <1>1, <2>1 DEF TypeOK
  <2>4. Loading(t)'
    BY <1>1, <1>3, <2>1, <2>3 DEF Own, Loading
  <2>5. Own(t)'
    BY <1>1, <1>3, <2>1, <2>3, <2>4 DEF Own, TrueOutcome, FreshRead
  <2>. QED BY <1>2, <1>3, <2>1, <2>2, <2>3, <2>5, ThreadKeeps DEF local
<1>7. CASE Receive(t)
  <2>1. pc[t] = "receiving" /\ udp_mutex_' = Nobody
    BY <1>7 DEF Receive
  <2>2. device # "robot" /\ (\A i \in DOMAIN socket : start[t] < socket[i])
    BY <1>1, <2>1 DEF Own
  <2>3. CASE socket # <<>>
    <3>. DEFINE n == Head(socket)
    <3>1. /\ read' = [read EXCEPT ![t] = Received(n)] /\ socket' = Tail(socket)
          /\ pc' = [pc EXCEPT ![t] = "idle"] /\ outcome' = [outcome EXCEPT ![t] = "state"]
      BY <1>7, <2>3 DEF Receive, Leave
    <3>2. Received(n) = [f \in StateFields |-> n] /\ Received(n) \in [StateFields -> 0 .. MaxStates]
      BY <1>1, <1>4, <2>2, <2>3, ReceivedFields
    <3>3. TypeOK'
      BY <1>1, <1>3, <1>4, <2>1, <2>3, <3>1, <3>2 DEF TypeOK, Outcomes
    <3>4. /\ pc'[t] = "idle" /\ outcome'[t] = "state" /\ read'[t] = [f \in StateFields |-> n]
          /\ \A u \in Thread \ {t} : pc'[u] = pc[u] /\ outcome'[u] = outcome[u] /\ read'[u] = read[u]
      BY <1>1, <3>1, <3>2 DEF TypeOK
    <3>5. Loading(t)'
      BY <1>1, <1>3, <2>1, <3>4 DEF Own, Loading
    <3>6. FreshRead(t)'
      BY <1>1, <1>3, <1>4, <2>2, <2>3, <3>4 DEF FreshRead, TypeOK
    <3>7. Own(t)'
      BY <1>1, <1>3, <3>4, <3>5, <3>6 DEF Own, TrueOutcome
    <3>. QED BY <1>2, <1>3, <2>3, <3>1, <3>3, <3>4, <3>7, ThreadKeeps DEF local
  <2>4. CASE socket = <<>>
    <3>1. /\ UNCHANGED <<read, socket>> /\ pc' = [pc EXCEPT ![t] = "idle"]
          /\ outcome' = [outcome EXCEPT ![t] = "NetworkException"]
      BY <1>7, <2>4 DEF Receive, Leave
    <3>2. TypeOK'
      BY <1>1, <1>3, <2>1, <3>1 DEF TypeOK, Outcomes
    <3>3. /\ pc'[t] = "idle" /\ outcome'[t] = "NetworkException"
          /\ \A u \in Thread \ {t} : pc'[u] = pc[u] /\ outcome'[u] = outcome[u]
      BY <1>1, <3>1 DEF TypeOK
    <3>4. Loading(t)'
      BY <1>1, <1>3, <2>1, <3>3 DEF Own, Loading
    <3>5. Own(t)'
      BY <1>1, <1>3, <3>1, <3>3, <3>4 DEF Own, TrueOutcome, FreshRead
    <3>. QED BY <1>2, <1>3, <3>1, <3>2, <3>3, <3>5, ThreadKeeps DEF local
  <2>. QED BY <2>3, <2>4
<1>. QED BY <1>5, <1>6, <1>7

\* A thread in loadModel goes on, or destroys its Model.
LEMMA LoadKeeps ==
    ASSUME IInv, NEW t \in Thread, LoadModel(t) \/ DestroyModel(t)
    PROVE  IInv'
<1>1. TypeOK /\ Own(t)
  BY OwnInvariant DEF AllOwn
<1>2. UNCHANGED loadUnchanged
  BY DEF LoadModel, Save, LoadLibrary, Remove, GetSymbols, DestroyModel
<1>3. UNCHANGED <<deviceVars, client, link, received_responses_, command_id_, calls, call, arrived,
                  socket, udp_mutex_, start, read>>
  BY <1>2 DEF loadUnchanged, readVars
<1>4. UNCHANGED <<device, compatible, requests, motion, result, load, wire, Id, client, link, command_id_,
                  received_responses_, calls, call, arrived, socket, udp_mutex_, start, read, StateFields>>
  BY <1>3 DEF deviceVars, Id, StateFields
<1>5. \E p \in {"idle", "load", "loaded", "not_loaded", "symbols"}, o \in Outcomes,
         f \in {"none", "short", "whole", "registered"}, l \in BOOLEAN, m \in BOOLEAN :
            /\ pc' = [pc EXCEPT ![t] = p] /\ outcome' = [outcome EXCEPT ![t] = o]
            /\ file' = [file EXCEPT ![t] = f] /\ library' = [library EXCEPT ![t] = l]
            /\ model' = [model EXCEPT ![t] = m]
            /\ p = "idle" => \/ pc[t] = "idle" /\ o = outcome[t]
                             \/ o = "ModelException"
                             \/ o = "returns" /\ result[call[t].id] = "done"
            /\ p # "idle" => o = outcome[t]
            /\ p \in {"load", "loaded", "symbols"} => call[t].id \in Id /\ result[call[t].id] = "done"
            /\ p # "idle" => ~m
            /\ IF p \in {"loaded", "symbols"} THEN l ELSE l <=> m
            /\ p \in {"idle", "symbols"} => f \in {"none", "registered"}
  <2>. USE <1>1 DEF TypeOK
  <2>1. CASE Save(t)
    <3>1. PICK f \in {"none", "short", "whole"} : file' = [file EXCEPT ![t] = f]
      BY <2>1 DEF Save
    <3>2. /\ pc[t] = "save" /\ pc' = [pc EXCEPT ![t] = "load"] /\ outcome' = [outcome EXCEPT ![t] = outcome[t]]
          /\ library' = [library EXCEPT ![t] = library[t]] /\ model' = [model EXCEPT ![t] = model[t]]
          /\ library[t] \in BOOLEAN /\ model[t] \in BOOLEAN /\ outcome[t] \in Outcomes
      BY <2>1 DEF Save
    <3>3. ~model[t] /\ ~library[t] /\ call[t].id \in Id /\ result[call[t].id] = "done"
      BY <3>2 DEF Own, Loading
    <3>. QED BY <3>1, <3>2, <3>3
  <2>2. CASE LoadLibrary(t)
    <3>1. /\ pc[t] = "load" /\ outcome' = [outcome EXCEPT ![t] = outcome[t]]
          /\ file' = [file EXCEPT ![t] = file[t]] /\ model' = [model EXCEPT ![t] = model[t]]
          /\ library[t] \in BOOLEAN /\ model[t] \in BOOLEAN /\ outcome[t] \in Outcomes
          /\ file[t] \in {"none", "short", "whole", "registered"}
          /\ \/ library' = [library EXCEPT ![t] = TRUE] /\ pc' = [pc EXCEPT ![t] = "loaded"]
             \/ library' = [library EXCEPT ![t] = library[t]] /\ pc' = [pc EXCEPT ![t] = "not_loaded"]
      BY <2>2 DEF LoadLibrary
    <3>2. ~model[t] /\ ~library[t] /\ call[t].id \in Id /\ result[call[t].id] = "done"
      BY <3>1 DEF Own, Loading
    <3>. QED BY <3>1, <3>2
  <2>3. CASE Remove(t)
    <3>1. /\ pc[t] \in {"loaded", "not_loaded"}
          /\ library' = [library EXCEPT ![t] = library[t]] /\ model' = [model EXCEPT ![t] = model[t]]
          /\ library[t] \in BOOLEAN /\ model[t] \in BOOLEAN /\ outcome[t] \in Outcomes
          /\ file' = [file EXCEPT ![t] = "none"] \/ file' = [file EXCEPT ![t] = "registered"]
          /\ IF pc[t] = "loaded"
             THEN pc' = [pc EXCEPT ![t] = "symbols"] /\ outcome' = [outcome EXCEPT ![t] = outcome[t]]
             ELSE pc' = [pc EXCEPT ![t] = "idle"] /\ outcome' = [outcome EXCEPT ![t] = "ModelException"]
      BY <2>3 DEF Remove, Leave
    <3>2. ~model[t] /\ (IF pc[t] = "loaded" THEN /\ library[t] /\ call[t].id \in Id
                                                 /\ result[call[t].id] = "done"
                        ELSE ~library[t])
      BY <3>1 DEF Own, Loading
    <3>3. PICK f \in {"none", "registered"} : file' = [file EXCEPT ![t] = f]
      BY <3>1
    <3>4. "ModelException" \in Outcomes
      BY DEF Outcomes
    <3>5. CASE pc[t] = "loaded"
      BY <3>1, <3>2, <3>3, <3>5
    <3>6. CASE pc[t] = "not_loaded"
      BY <3>1, <3>2, <3>3, <3>4, <3>6
    <3>. QED BY <3>1, <3>5, <3>6
  <2>4. CASE GetSymbols(t)
    <3>1. /\ pc[t] = "symbols" /\ file' = [file EXCEPT ![t] = file[t]]
          /\ pc' = [pc EXCEPT ![t] = "idle"]
          /\ \/ /\ outcome' = [outcome EXCEPT ![t] = "returns"] /\ model' = [model EXCEPT ![t] = TRUE]
                /\ library' = [library EXCEPT ![t] = library[t]]
             \/ /\ outcome' = [outcome EXCEPT ![t] = "ModelException"]
                /\ library' = [library EXCEPT ![t] = FALSE] /\ model' = [model EXCEPT ![t] = model[t]]
      BY <2>4 DEF GetSymbols, Leave
    <3>2. /\ ~model[t] /\ library[t] /\ result[call[t].id] = "done" /\ file[t] \in {"none", "registered"}
          /\ library[t] \in BOOLEAN /\ model[t] \in BOOLEAN
      BY <3>1 DEF Own, Loading
    <3>3. {"returns", "ModelException"} \subseteq Outcomes
      BY DEF Outcomes
    <3>. QED BY <3>1, <3>2, <3>3
  <2>5. CASE DestroyModel(t)
    <3>1. /\ pc[t] = "idle" /\ pc' = [pc EXCEPT ![t] = "idle"] /\ outcome' = [outcome EXCEPT ![t] = outcome[t]]
          /\ file' = [file EXCEPT ![t] = file[t]] /\ outcome[t] \in Outcomes
          /\ library' = [library EXCEPT ![t] = FALSE] /\ model' = [model EXCEPT ![t] = FALSE]
      BY <2>5 DEF DestroyModel
    <3>2. file[t] \in {"none", "registered"}
      BY <3>1 DEF Own, Loading
    <3>. QED BY <3>1, <3>2
  <2>. QED BY <2>1, <2>2, <2>3, <2>4, <2>5 DEF LoadModel
<1>6. TypeOK'
  BY <1>1, <1>4, <1>5 DEF TypeOK
<1>7. /\ \A u \in Thread \ {t} : /\ pc'[u] = pc[u] /\ outcome'[u] = outcome[u] /\ file'[u] = file[u]
                                 /\ library'[u] = library[u] /\ model'[u] = model[u]
      /\ pc'[t] \in {"idle", "load", "loaded", "not_loaded", "symbols"}
      /\ pc'[t] = "idle" => \/ pc[t] = "idle" /\ outcome'[t] = outcome[t]
                            \/ outcome'[t] = "ModelException"
                            \/ outcome'[t] = "returns" /\ result[call[t].id] = "done"
      /\ pc'[t] # "idle" => outcome'[t] = outcome[t]
      /\ pc'[t] \in {"load", "loaded", "symbols"} => call[t].id \in Id /\ result[call[t].id] = "done"
      /\ pc'[t] # "idle" => ~model'[t]
      /\ IF pc'[t] \in {"loaded", "symbols"} THEN library'[t] ELSE library'[t] <=> model'[t]
      /\ pc'[t] \in {"idle", "symbols"} => file'[t] \in {"none", "registered"}
  BY <1>1, <1>5 DEF TypeOK
<1>8. Loading(t)'
  BY <1>4, <1>7 DEF Loading
<1>9. TrueOutcome(t)'
  BY <1>1, <1>4, <1>7 DEF Own, TrueOutcome
<1>10. Own(t)'
  BY <1>1, <1>4, <1>7, <1>8, <1>9 DEF Own, FreshRead
<1>. QED BY <1>3, <1>4, <1>6, <1>7, <1>10, ThreadKeeps DEF local

\* A request is sent: its id is new.
LEMMA SendKeeps ==
    ASSUME IInv, command_id_ \in Id, NEW command \in (Used \cap Commands(device)) \cup {"Connect"},
           NEW l \in Loads, tcpSendRequest(command, l),
           UNCHANGED <<device, motion, result, wire, received_responses_>>
    PROVE  /\ requests' \in Seq(RequestType) /\ RequestsAreOpen' /\ ResponsesAreTrue'
           /\ command_id_' = command_id_ + 1 /\ command_id_ \in Nat
           /\ \A t \in Thread : CallIsAnswered(t) /\ call'[t] = call[t] => CallIsAnswered(t)'
           /\ command # "Connect" =>
                 \A t \in Thread : call'[t] = [id |-> command_id_, command |-> command]
                                   => CallIsAnswered(t)'
<1>. DEFINE r == [id |-> command_id_, command |-> command, load |-> l]
<1>1. /\ requests' = Append(requests, r) /\ command_id_' = command_id_ + 1 /\ Id' = Id
      /\ command_id_ \in Nat /\ r \in RequestType
      /\ requests \in Seq(RequestType)
  BY DEF tcpSendRequest, Id, IInv, TypeOK, RequestType
<1>2. /\ requests' \in Seq(RequestType)
      /\ \A i \in DOMAIN requests' : \/ i \in DOMAIN requests /\ requests'[i] = requests[i]
                                     \/ i = Len(requests) + 1 /\ requests'[i] = r
      /\ Len(requests) + 1 \notin DOMAIN requests
  <2>. HIDE DEF r
  <2>. QED BY <1>1, AppendElements
<1>3. \A i \in DOMAIN requests : /\ requests[i].id \in Id /\ requests[i].id < command_id_
                                 /\ requests[i].id # command_id_
  <2>1. \A i \in DOMAIN requests : requests[i].id \in Id
    BY QueueTypes DEF IInv
  <2>. QED BY <1>1, <2>1 DEF IInv, RequestsAreOpen, Id
<1>4. result[command_id_] = "open" /\ command_id_ # motion
  <2>1. motion # None => motion \in Nat
    BY DEF IInv, TypeOK, Id
  <2>. QED BY <1>1, <2>1 DEF IInv, RequestsAreOpen, None
<1>5. RequestsAreOpen'
  <2>1. ASSUME NEW i \in DOMAIN requests'
        PROVE  /\ requests'[i].id < command_id_' /\ requests'[i].id # motion'
               /\ result'[requests'[i].id] = "open"
               /\ requests'[i].command \in Commands(device') \cup {"Connect"}
    <3>1. CASE i \in DOMAIN requests /\ requests'[i] = requests[i]
      BY <1>1, <1>3, <3>1 DEF IInv, RequestsAreOpen, Id
    <3>2. CASE requests'[i] = r
      BY <1>1, <1>4, <3>2
    <3>. QED BY <1>2, <3>1, <3>2
  <2>2. \A i, j \in DOMAIN requests' : requests'[i].id = requests'[j].id => i = j
    BY <1>2, <1>3 DEF IInv, RequestsAreOpen
  <2>3. motion' # None => motion' < command_id_' /\ result'[motion'] = "open" /\ device' # "robot"
    BY <1>1 DEF IInv, RequestsAreOpen, TypeOK, Id
  <2>4. \A id \in Id : result'[id] # "open" => id < command_id_'
    BY <1>1 DEF IInv, RequestsAreOpen, Id
  <2>. QED BY <1>1, <2>1, <2>2, <2>3, <2>4 DEF RequestsAreOpen
<1>6. ResponsesAreTrue'
  BY <1>1 DEF IInv, ResponsesAreTrue
<1>7. ASSUME NEW t \in Thread, CallIsAnswered(t), call'[t] = call[t]
      PROVE  CallIsAnswered(t)'
  <2>1. call[t].id \in Id /\ call[t].id < command_id_ /\ call[t].id # command_id_
    BY <1>1, <1>7 DEF CallIsAnswered, Id
  <2>2. \A i \in DOMAIN requests' : requests'[i].id = call[t].id => requests'[i].command = call[t].command
    BY <1>2, <1>7, <2>1 DEF CallIsAnswered
  <2>3. call[t].id < command_id_'
    BY <1>1, <2>1 DEF Id
  <2>. QED BY <1>1, <1>7, <2>1, <2>2, <2>3 DEF CallIsAnswered
<1>8. ASSUME NEW t \in Thread, call'[t] = [id |-> command_id_, command |-> command], command # "Connect"
      PROVE  CallIsAnswered(t)'
  <2>1. \A i \in DOMAIN requests' : requests'[i].id = command_id_ => requests'[i].command = command
    BY <1>2, <1>3
  <2>2. \A i \in DOMAIN wire : wire[i].id # command_id_
    BY <1>4, ResultFacts DEF IInv, ResponsesAreTrue
  <2>3. received_responses_[command_id_] = "none"
    BY <1>4, ResultFacts DEF IInv, ResponsesAreTrue
  <2>. QED BY <1>1, <1>8, <2>1, <2>2, <2>3 DEF CallIsAnswered
<1>. QED BY <1>1, <1>2, <1>5, <1>6, <1>7, <1>8

\* A call sends its request, or cannot.
LEMMA RequestKeeps ==
    ASSUME IInv, NEW t \in Thread, NEW command \in Operations \ {"readOnce"}, NEW l \in Loads,
           Request(t, command, l)
    PROVE  IInv'
<1>1. TypeOK /\ AllOwn /\ Own(t)
  BY OwnInvariant DEF AllOwn
<1>2. /\ UNCHANGED <<device, compatible, motion, result, load, wire, client, link,
                     received_responses_, arrived, socket, udp_mutex_, start, read, file, library, model>>
      /\ calls' = calls + 1 /\ pc[t] = "idle" /\ calls < MaxCalls[device] /\ client = "ready"
      /\ ~model[t] \/ command # "LoadModelLibrary"
  BY DEF Request, MayCall, readVars, modelVars
<1>3. command \in Used /\ command \in Commands(device) /\ command # "Connect" /\ device \in Device
  BY <1>1, CommandFacts DEF Operations, TypeOK
<1>4. /\ UNCHANGED <<Id, StateFields>> /\ calls \in Nat /\ MaxCalls[device] \in Nat /\ calls' \in Nat
      /\ calls' \in 0 .. MaxCalls[device]
  <2>1. calls \in 0 .. MaxCalls[device] /\ MaxCalls[device] \in Nat
    BY <1>1, ServiceAssumption DEF TypeOK
  <2>. QED BY <1>2, <2>1 DEF Id, StateFields
<1>5. CASE ~link
  <2>. DEFINE c == [id |-> None, command |-> command]
  <2>1. /\ pc' = [pc EXCEPT ![t] = "idle"] /\ outcome' = [outcome EXCEPT ![t] = "NetworkException"]
        /\ call' = [call EXCEPT ![t] = c] /\ UNCHANGED <<requests, command_id_>>
    BY <1>5 DEF Request, Leave
  <2>2. TypeOK'
    BY <1>1, <1>2, <1>3, <1>4, <2>1 DEF TypeOK, Outcomes
  <2>3. /\ pc'[t] = "idle" /\ outcome'[t] = "NetworkException"
        /\ \A u \in Thread \ {t} : pc'[u] = pc[u] /\ outcome'[u] = outcome[u] /\ call'[u] = call[u]
    BY <1>1, <2>1 DEF TypeOK
  <2>4. Loading(t)'
    BY <1>1, <1>2, <2>3 DEF Own, Loading
  <2>5. Own(t)'
    BY <1>1, <1>2, <2>3, <2>4 DEF Own, TrueOutcome, FreshRead
  <2>. QED BY <1>2, <1>4, <2>1, <2>2, <2>3, <2>5, ThreadKeeps DEF local, deviceVars
<1>6. CASE link
  <2>. DEFINE c == [id |-> command_id_, command |-> command]
  <2>1. /\ tcpSendRequest(command, l) /\ pc' = [pc EXCEPT ![t] = "wait"]
        /\ call' = [call EXCEPT ![t] = c] /\ outcome' = [outcome EXCEPT ![t] = "none"]
    BY <1>6 DEF Request
  <2>2. /\ pc'[t] = "wait" /\ outcome'[t] = "none" /\ call'[t] = c
        /\ \A u \in Thread \ {t} : pc'[u] = pc[u] /\ outcome'[u] = outcome[u] /\ call'[u] = call[u]
    BY <1>1, <2>1 DEF TypeOK
  <2>3. command_id_ \in Id /\ command_id_ \in Nat /\ command_id_ <= calls + 1
    BY <1>1, <1>2, <1>4 DEF TypeOK, IInv, IdsAreLeft, Id
  <2>4. /\ requests' \in Seq(RequestType) /\ RequestsAreOpen' /\ ResponsesAreTrue'
        /\ command_id_' = command_id_ + 1
        /\ \A u \in Thread : CallIsAnswered(u) /\ call'[u] = call[u] => CallIsAnswered(u)'
        /\ CallIsAnswered(t)'
    BY <1>2, <1>3, <2>1, <2>2, <2>3, SendKeeps
  <2>5. TypeOK'
    <3>1. c \in [id : Id \cup {None}, command : Used \cup {"none", "readOnce"}]
      BY <1>3, <2>3
    <3>2. call' \in [Thread -> [id : Id \cup {None}, command : Used \cup {"none", "readOnce"}]]
      BY <1>1, <2>1, <3>1 DEF TypeOK
    <3>3. command_id_' \in 0 .. (MaxCalls[device] + 1)
      BY <1>2, <1>4, <2>3, <2>4
    <3>. QED BY <1>1, <1>2, <1>4, <2>1, <2>4, <3>2, <3>3 DEF TypeOK, Outcomes, RequestType
  <2>6. IdsAreLeft'
    BY <1>2, <1>4, <2>3, <2>4 DEF IdsAreLeft
  <2>7. CallsAreAnswered'
    BY <2>2, <2>4 DEF IInv, CallsAreAnswered
  <2>8. Own(t)'
    <3>1. Loading(t)'
      BY <1>1, <1>2, <2>2 DEF Own, Loading
    <3>. QED BY <1>1, <1>2, <2>2, <3>1 DEF Own, TrueOutcome, FreshRead
  <2>9. ASSUME NEW u \in Thread \ {t} PROVE Own(u)'
    <3>1. Own(u)
      BY <1>1 DEF AllOwn
    <3>2. Loading(u)'
      BY <1>2, <1>4, <2>2, <3>1 DEF Own, Loading
    <3>. QED BY <1>2, <1>4, <2>2, <3>1, <3>2 DEF Own, TrueOutcome, FreshRead
  <2>10. AllOwn'
    BY <2>8, <2>9 DEF AllOwn
  <2>. QED BY <2>4, <2>5, <2>6, <2>7, <2>10, OwnInvariant, PTL
<1>. QED BY <1>5, <1>6

\* A step of nobody's thread.
LEMMA OthersKeep ==
    ASSUME IInv, UNCHANGED <<device, result, pc, call, outcome, start, read, file, library, model>>,
           \/ UNCHANGED <<arrived, socket>>
           \/ /\ arrived < MaxStates /\ arrived' = arrived + 1
              /\ socket' = Append(socket, arrived + 1)
    PROVE  AllOwn'
<1>1. TypeOK /\ AllOwn
  BY OwnInvariant
<1>2. UNCHANGED <<Id, StateFields>>
  BY DEF Id, StateFields
<1>3. /\ arrived \in 0 .. MaxStates /\ (\A t \in Thread : start[t] \in 0 .. MaxStates)
      /\ socket \in Seq(1 .. MaxStates)
  BY <1>1 DEF TypeOK
<1>4. ASSUME NEW t \in Thread PROVE Own(t)'
  <2>1. Own(t)
    BY <1>1 DEF AllOwn
  <2>2. Loading(t)'
    BY <1>2, <2>1 DEF Own, Loading
  <2>3. TrueOutcome(t)' /\ FreshRead(t)'
    BY <1>2, <2>1 DEF Own, TrueOutcome, FreshRead
  <2>4. start'[t] <= arrived'
    BY <1>3, <2>1 DEF Own
  <2>5. pc'[t] \in {"receive", "receiving"} => \A i \in DOMAIN socket' : start'[t] < socket'[i]
    <3>1. CASE UNCHANGED <<arrived, socket>>
      BY <2>1, <3>1 DEF Own
    <3>2. CASE arrived < MaxStates /\ arrived' = arrived + 1 /\ socket' = Append(socket, arrived + 1)
      <4>0. arrived + 1 \in 1 .. MaxStates
        BY <1>3, <3>2, ServiceAssumption
      <4>1. \A i \in DOMAIN socket' : \/ i \in DOMAIN socket /\ socket'[i] = socket[i]
                                      \/ socket'[i] = arrived + 1
        BY <1>3, <3>2, <4>0, AppendElements
      <4>2. start[t] < arrived + 1
        BY <1>3, <2>1 DEF Own
      <4>. QED BY <2>1, <4>1, <4>2 DEF Own
    <3>. QED BY <3>1, <3>2
  <2>. QED BY <2>1, <2>2, <2>3, <2>4, <2>5 DEF Own
<1>. QED BY <1>4 DEF AllOwn

\* A response gets into the map, the connection is lost, or a state arrives.
LEMMA NetworkKeeps ==
    ASSUME IInv, Deliver \/ LoseLink \/ Arrive
    PROVE  IInv'
<1>1. TypeOK /\ AllOwn
  BY OwnInvariant
<1>2. UNCHANGED <<device, compatible, requests, motion, result, load, client, command_id_, calls, pc, call,
                  outcome, udp_mutex_, start, read, file, library, model>>
  BY DEF Deliver, LoseLink, Arrive, deviceVars, callVars, readVars, modelVars
<1>3. UNCHANGED <<Id, StateFields>>
  BY <1>2 DEF Id, StateFields
<1>4. AllOwn'
  <2>1. \/ UNCHANGED <<arrived, socket>>
        \/ arrived < MaxStates /\ arrived' = arrived + 1 /\ socket' = Append(socket, arrived + 1)
    BY DEF Deliver, LoseLink, Arrive, readVars
  <2>. QED BY <1>2, <2>1, OthersKeep
<1>5. RequestsAreOpen' /\ IdsAreLeft'
  BY <1>2, <1>3 DEF IInv, RequestsAreOpen, IdsAreLeft
<1>6. CASE Deliver
  <2>. DEFINE m == Head(wire)
  <2>1. /\ wire # <<>> /\ wire' = Tail(wire) /\ UNCHANGED <<link, arrived, socket>>
        /\ received_responses_' = IF received_responses_[m.id] = "none"
                                  THEN [received_responses_ EXCEPT ![m.id] = m.status]
                                  ELSE received_responses_
    BY <1>6 DEF Deliver, readVars
  <2>2. wire \in Seq(ResponseType)
    BY <1>1 DEF TypeOK, ResponseType
  <2>3. /\ m \in ResponseType /\ 1 \in DOMAIN wire /\ m = wire[1] /\ wire' \in Seq(ResponseType)
        /\ \A i \in DOMAIN wire' : i + 1 \in DOMAIN wire /\ wire'[i] = wire[i + 1]
    BY <2>1, <2>2, TailElements
  <2>4. m.id \in Id /\ m.status \in Statuses /\ result[m.id] = ResultOf(m.status)
    BY <2>3 DEF ResponseType, IInv, ResponsesAreTrue
  <2>5. /\ received_responses_' \in [Id -> Statuses \cup {"none"}]
        /\ \A id \in Id : \/ received_responses_'[id] = received_responses_[id]
                          \/ id = m.id /\ received_responses_'[id] = m.status
    BY <1>1, <2>1, <2>4 DEF TypeOK
  <2>6. TypeOK'
    BY <1>1, <1>2, <1>3, <2>1, <2>3, <2>5 DEF TypeOK, ResponseType
  <2>7. ResponsesAreTrue'
    BY <1>2, <1>3, <2>3, <2>4, <2>5 DEF IInv, ResponsesAreTrue
  <2>8. CallsAreAnswered'
    <3>. SUFFICES ASSUME NEW t \in Thread, pc[t] = "wait" PROVE CallIsAnswered(t)'
      BY <1>2 DEF CallsAreAnswered
    <3>1. CallIsAnswered(t)
      BY DEF IInv, CallsAreAnswered
    <3>2. received_responses_'[call[t].id] \in Status(device, call[t].command) \cup {"none"}
      BY <2>3, <2>5, <3>1 DEF CallIsAnswered
    <3>3. \A i \in DOMAIN wire' :
              wire'[i].id = call[t].id => wire'[i].status \in Status(device, call[t].command)
      BY <2>3, <3>1 DEF CallIsAnswered
    <3>. QED BY <1>2, <1>3, <3>1, <3>2, <3>3 DEF CallIsAnswered
  <2>. QED BY <1>4, <1>5, <2>6, <2>7, <2>8, OwnInvariant, PTL
<1>7. CASE LoseLink \/ Arrive
  <2>1. UNCHANGED <<wire, received_responses_>>
    BY <1>7 DEF LoseLink, Arrive, deviceVars, callVars
  <2>2. link' \in BOOLEAN /\ arrived' \in 0 .. MaxStates /\ socket' \in Seq(1 .. MaxStates)
    <3>1. CASE LoseLink
      BY <1>1, <3>1 DEF LoseLink, TypeOK, readVars
    <3>2. CASE Arrive
      <4>1. link' = link /\ arrived' = arrived + 1 /\ arrived < MaxStates /\ socket' = Append(socket, arrived')
        BY <3>2 DEF Arrive
      <4>2. arrived' \in 1 .. MaxStates /\ arrived' \in 0 .. MaxStates
        BY <1>1, <4>1, ServiceAssumption DEF TypeOK
      <4>3. socket \in Seq(1 .. MaxStates) /\ link \in BOOLEAN
        BY <1>1 DEF TypeOK
      <4>. QED BY <4>1, <4>2, <4>3, AppendElements
    <3>. QED BY <1>7, <3>1, <3>2
  <2>3. TypeOK'
    BY <1>1, <1>2, <1>3, <2>1, <2>2 DEF TypeOK
  <2>4. ResponsesAreTrue' /\ CallsAreAnswered'
    BY <1>2, <1>3, <2>1 DEF IInv, ResponsesAreTrue, CallsAreAnswered, CallIsAnswered
  <2>. QED BY <1>4, <1>5, <2>3, <2>4, OwnInvariant, PTL
<1>. QED BY <1>6, <1>7

\* The constructor.
LEMMA ConnectKeeps ==
    ASSUME IInv, Connect \/ Connected
    PROVE  IInv'
<1>1. TypeOK /\ AllOwn
  BY OwnInvariant
<1>2. UNCHANGED <<device, compatible, motion, result, load, wire, link, calls, pc, call, outcome, arrived,
                  socket, udp_mutex_, start, read, file, library, model>>
  BY DEF Connect, Connected, deviceVars, readVars, modelVars
<1>3. UNCHANGED <<Id, StateFields>>
  BY <1>2 DEF Id, StateFields
<1>4. AllOwn'
  BY <1>2, OthersKeep
<1>5. CASE Connected
  <2>1. /\ UNCHANGED <<requests, command_id_>> /\ client' \in {"ready", "failed"}
        /\ received_responses_' = [received_responses_ EXCEPT ![0] = "none"]
    BY <1>5 DEF Connected, deviceVars
  <2>2. /\ received_responses_' \in [Id -> Statuses \cup {"none"}]
        /\ \A id \in Id : received_responses_'[id] \in {received_responses_[id], "none"}
    BY <1>1, <2>1 DEF TypeOK
  <2>3. TypeOK'
    BY <1>1, <1>2, <1>3, <2>1, <2>2 DEF TypeOK
  <2>4. RequestsAreOpen' /\ IdsAreLeft'
    BY <1>2, <1>3, <2>1 DEF IInv, RequestsAreOpen, IdsAreLeft
  <2>5. ResponsesAreTrue'
    BY <1>2, <1>3, <2>2 DEF IInv, ResponsesAreTrue
  <2>6. CallsAreAnswered'
    <3>. SUFFICES ASSUME NEW t \in Thread, pc[t] = "wait" PROVE CallIsAnswered(t)'
      BY <1>2 DEF CallsAreAnswered
    <3>1. CallIsAnswered(t)
      BY DEF IInv, CallsAreAnswered
    <3>. QED BY <1>2, <1>3, <2>1, <2>2, <3>1 DEF CallIsAnswered
  <2>. QED BY <1>4, <2>3, <2>4, <2>5, <2>6, OwnInvariant, PTL
<1>6. CASE Connect /\ client' = "failed"
  <2>1. UNCHANGED <<requests, command_id_, received_responses_>>
    BY <1>6 DEF Connect
  <2>2. TypeOK'
    BY <1>1, <1>2, <1>3, <1>6, <2>1 DEF TypeOK
  <2>3. RequestsAreOpen' /\ IdsAreLeft'
    BY <1>2, <1>3, <1>6, <2>1 DEF IInv, RequestsAreOpen, IdsAreLeft
  <2>4. ResponsesAreTrue' /\ CallsAreAnswered'
    BY <1>2, <1>3, <2>1 DEF IInv, ResponsesAreTrue, CallsAreAnswered, CallIsAnswered
  <2>. QED BY <1>4, <2>2, <2>3, <2>4, OwnInvariant, PTL
<1>7. CASE Connect /\ client' # "failed"
  <2>1. /\ client' = "connecting" /\ tcpSendRequest("Connect", load.load) /\ client = "new"
        /\ UNCHANGED received_responses_
    BY <1>7 DEF Connect
  <2>2. command_id_ = 0 /\ command_id_ \in Id /\ load.load \in Loads /\ calls \in Nat /\ MaxCalls[device] \in Nat
    BY <1>1, <2>1, ServiceAssumption DEF IInv, IdsAreLeft, TypeOK, Id
  <2>3. /\ requests' \in Seq(RequestType) /\ RequestsAreOpen' /\ ResponsesAreTrue'
        /\ command_id_' = 1
        /\ \A u \in Thread : CallIsAnswered(u) => CallIsAnswered(u)'
    <3>. DEFINE command == "Connect"
                l == load.load
    <3>1. command \in (Used \cap Commands(device)) \cup {"Connect"}
      OBVIOUS
    <3>2. tcpSendRequest(command, l) /\ l \in Loads
      BY <2>1, <2>2
    <3>. HIDE DEF command, l
    <3>3. UNCHANGED <<device, motion, result, wire, received_responses_>> /\ command_id_ \in Id
      BY <1>2, <2>1, <2>2
    <3>4. /\ requests' \in Seq(RequestType) /\ RequestsAreOpen' /\ ResponsesAreTrue'
          /\ command_id_' = command_id_ + 1
          /\ \A u \in Thread : CallIsAnswered(u) /\ call'[u] = call[u] => CallIsAnswered(u)'
      BY <3>1, <3>2, <3>3, SendKeeps
    <3>. QED BY <1>2, <2>2, <3>4
  <2>4. TypeOK'
    <3>1. command_id_' \in 0 .. (MaxCalls[device] + 1)
      BY <2>2, <2>3
    <3>. QED BY <1>1, <1>2, <1>3, <2>1, <2>3, <3>1 DEF TypeOK, RequestType
  <2>5. IdsAreLeft'
    BY <1>2, <2>1, <2>2, <2>3 DEF IdsAreLeft
  <2>6. CallsAreAnswered'
    BY <1>2, <2>3 DEF IInv, CallsAreAnswered
  <2>. QED BY <1>4, <2>3, <2>4, <2>5, <2>6, OwnInvariant, PTL
<1>. QED BY <1>5, <1>6, <1>7

---------------------------------------------------------------------------
(* The invariant.                                                          *)

LEMMA InitInvariant == Init => IInv
<1>. SUFFICES ASSUME Init PROVE IInv
  OBVIOUS
<1>1. MaxCalls[device] \in Nat /\ 0 \in Id /\ None \notin Id /\ Id \subseteq Nat
  BY ServiceAssumption DEF Init, Id, None
<1>2. TypeOK
  <2>1. /\ requests \in Seq([id : Id, command : Used \cup {"Connect"}, load : Loads])
        /\ wire \in Seq([id : Id, status : Statuses]) /\ socket \in Seq(1 .. MaxStates)
    BY DEF Init
  <2>2. load \in [ee : Loads, load : Loads]
    BY ServiceAssumption DEF Init
  <2>3. read \in [Thread -> [StateFields -> 0 .. MaxStates]] /\ start \in [Thread -> 0 .. MaxStates]
        /\ arrived \in 0 .. MaxStates
    BY ServiceAssumption DEF Init
  <2>4. command_id_ \in 0 .. MaxCalls[device] + 1 /\ calls \in 0 .. MaxCalls[device]
    BY <1>1 DEF Init
  <2>. QED BY <1>1, <2>1, <2>2, <2>3, <2>4 DEF Init, TypeOK, Outcomes
<1>3. RequestsAreOpen /\ IdsAreLeft /\ ResponsesAreTrue
  <2>1. DOMAIN requests = {} /\ DOMAIN wire = {}
    BY DEF Init
  <2>. QED BY <1>1, <2>1 DEF Init, RequestsAreOpen, IdsAreLeft, ResponsesAreTrue
<1>4. CallsAreAnswered
  BY DEF Init, CallsAreAnswered
<1>5. ASSUME NEW t \in Thread PROVE Own(t)
  <2>1. /\ pc[t] = "idle" /\ call[t].id = None /\ outcome[t] = "none" /\ start[t] = 0 /\ arrived = 0
        /\ file[t] = "none" /\ library[t] = FALSE /\ model[t] = FALSE
    BY DEF Init
  <2>. QED BY <2>1 DEF Own, TrueOutcome, FreshRead, Loading
<1>. QED BY <1>2, <1>3, <1>4, <1>5, OwnInvariant DEF AllOwn

LEMMA StutterKeeps ==
    ASSUME IInv, UNCHANGED vars
    PROVE  IInv'
<1>1. UNCHANGED <<device, compatible, requests, motion, result, load, wire, client, link,
                  received_responses_, command_id_, calls, pc, call, outcome, arrived, socket, udp_mutex_,
                  start, read, file, library, model>>
  BY DEF vars, deviceVars, callVars, readVars, modelVars
<1>2. UNCHANGED <<Id, StateFields>>
  BY <1>1 DEF Id, StateFields
<1>3. TypeOK'
  BY <1>1, <1>2 DEF IInv, TypeOK
<1>4. RequestsAreOpen' /\ IdsAreLeft' /\ ResponsesAreTrue'
  BY <1>1, <1>2 DEF IInv, RequestsAreOpen, IdsAreLeft, ResponsesAreTrue
<1>5. CallsAreAnswered'
  BY <1>1, <1>2 DEF IInv, CallsAreAnswered, CallIsAnswered
<1>6. AllOwn'
  BY <1>1, OthersKeep
<1>. QED BY <1>3, <1>4, <1>5, <1>6, OwnInvariant, PTL

LEMMA NextInvariant == IInv /\ [Next]_vars => IInv'
<1>. SUFFICES ASSUME IInv, [Next]_vars PROVE IInv'
  OBVIOUS
<1>1. CASE UNCHANGED vars
  BY <1>1, StutterKeeps
<1>2. CASE Connect \/ Connected
  BY <1>2, ConnectKeeps
<1>3. CASE Serve \/ FinishMotion
  BY <1>3, ServeKeeps
<1>4. CASE Deliver \/ LoseLink \/ Arrive
  BY <1>4, NetworkKeeps
<1>5. ASSUME NEW t \in Thread, NEW command \in Operations \ {"readOnce"},
             NEW l \in (IF command = "SetLoad" THEN Loads ELSE {load.load}), Request(t, command, l)
      PROVE  IInv'
  <2>1. l \in Loads
    BY DEF IInv, TypeOK
  <2>. QED BY <1>5, <2>1, RequestKeeps
<1>6. ASSUME NEW t \in Thread, RejectProfile(t) \/ ReadOnce(t) \/ Return(t) \/ DestroyModel(t)
      PROVE  IInv'
  BY <1>6, CallKeeps, RespondKeeps, ReadKeeps, LoadKeeps DEF Return
<1>. QED BY <1>1, <1>2, <1>3, <1>4, <1>5, <1>6 DEF Next

LEMMA InvariantHolds == Spec => []IInv
BY InitInvariant, NextInvariant, PTL DEF Spec

\* The types of the connection, of the device behind it and of the threads
\* that use it (network.h:69-101, gripper.cpp, vacuum_gripper.cpp, model.cpp),
\* for any number of threads and calls: no call runs out of ids.
THEOREM TypeCorrect == Spec => []TypeOK
<1>1. IInv => TypeOK
  BY DEF IInv
<1>. QED BY <1>1, InvariantHolds, PTL

\* What executeCommand says of a command is what the device did with this
\* very request (gripper.cpp:16-33, vacuum_gripper.cpp:16-34,
\* robot_impl.h:132-154), however the calls of any number of threads and the
\* answers of the device interleave.
THEOREM OutcomesAreTrue == Spec => []OutcomeIsTheDevices
<1>1. IInv => OutcomeIsTheDevices
  BY DEF IInv
<1>. QED BY <1>1, InvariantHolds, PTL

\* The handlers of src/ have a case for each status of the protocol: no
\* ProtocolException ever leaves a call of a device that keeps to it.
THEOREM EveryStatusIsUnderstood == Spec => []StatusesUnderstood
<1>1. IInv => StatusesUnderstood
  BY DEF IInv
<1>. QED BY <1>1, InvariantHolds, PTL

\* The state that a gripper's readOnce returns arrived after the call
\* (gripper.cpp:85-93), whatever other threads take from the socket.
THEOREM ReadOnceIsFresh == Spec => []ReadsFresh
<1>1. IInv => ReadsFresh
  BY DEF IInv
<1>. QED BY <1>1, InvariantHolds, PTL

\* loadModel leaves neither a file nor a library behind, wherever it fails
\* (library_downloader.cpp:59-67, library_loader.cpp:13-28), for any number of
\* threads that load at the same time.
THEOREM LoadModelCleansUp == Spec => []NothingLeftBehind
<1>1. IInv => NothingLeftBehind
  BY DEF IInv, Loading, NothingLeftBehind
<1>. QED BY <1>1, InvariantHolds, PTL

---------------------------------------------------------------------------
(* The load that a Model sees, and its frames.                             *)

\* The inertia of two mass points about their centre of mass.
LEMMA ParallelAxes ==
    ASSUME NEW m \in Int, NEW n \in Int, NEW x \in Int, NEW y \in Int
    PROVE  (m + n) * (m * x * x + n * y * y) - (m * x + n * y) * (m * x + n * y)
           = m * n * (x - y) * (x - y)
OBVIOUS

LEMMA Scaled ==
    ASSUME NEW t \in Int, NEW i \in Int, NEW f \in Int, NEW n \in Int
    PROVE  t * ((i + f) * t * t - t * n * n) = (t * t) * (t * i + (t * f - n * n))
OBVIOUS

\* The quotient c is the centre of two masses.
IsCenter(c, m, x, n, y) == c[2] # 0 /\ (m + n) * c[1] = (m * x + n * y) * c[2]

LEMMA CombinedCenter ==
    ASSUME NEW m \in Nat, NEW n \in Nat, NEW x \in Int, NEW y \in Int
    PROVE  IsCenter(combineCenterOfMass(m, x, n, y), m, x, n, y)
<1>1. CASE m + n > 0
  <2>1. combineCenterOfMass(m, x, n, y) = <<m * x + n * y, m + n>>
    BY <1>1 DEF combineCenterOfMass
  <2>2. \A a, b \in Int : a * b = b * a
    OBVIOUS
  <2>3. m * x + n * y \in Int /\ m + n \in Int
    OBVIOUS
  <2>4. (m + n) * (m * x + n * y) = (m * x + n * y) * (m + n)
    BY <2>2, <2>3
  <2>. QED BY <1>1, <2>1, <2>4 DEF IsCenter
<1>2. CASE m + n = 0
  <2>1. combineCenterOfMass(m, x, n, y) = <<0, 1>> /\ m = 0 /\ n = 0
    BY <1>2 DEF combineCenterOfMass
  <2>. QED BY <2>1 DEF IsCenter
<1>. QED BY <1>1, <1>2

\* The quotient c is the inertia of two loads together.
IsInertia(c, m, x, i, n, y, j) ==
    LET k == (IF m = 0 THEN 0 ELSE i) + (IF n = 0 THEN 0 ELSE j) IN
    c[2] > 0 /\ (m + n) * c[1] = c[2] * ((m + n) * k + m * n * (x - y) * (x - y))

LEMMA CombinedInertia ==
    ASSUME NEW m \in Nat, NEW n \in Nat, NEW x \in Int, NEW y \in Int, NEW i \in Nat, NEW j \in Nat
    PROVE  IsInertia(combineInertiaTensor(m, x, i, n, y, j, m + n, combineCenterOfMass(m, x, n, y)),
                     m, x, i, n, y, j)
<1>. DEFINE a == IF m = 0 THEN 0 ELSE i
            b == IF n = 0 THEN 0 ELSE j
            t == m + n
            g == m * x + n * y
            f == m * x * x + n * y * y
            c == combineInertiaTensor(m, x, i, n, y, j, m + n, combineCenterOfMass(m, x, n, y))
<1>. SUFFICES c[2] > 0 /\ t * c[1] = c[2] * (t * (a + b) + m * n * (x - y) * (x - y))
  BY DEF IsInertia
<1>0. a \in Int /\ b \in Int /\ t \in Int /\ g \in Int /\ f \in Int
  OBVIOUS
<1>1. CASE t > 0
  <2>1. combineCenterOfMass(m, x, n, y) = <<g, t>>
    BY <1>1 DEF combineCenterOfMass
  <2>2. c = <<((a + m * x * x) + (b + n * y * y)) * t * t - t * g * g, t * t>>
    BY <1>1, <2>1 DEF combineInertiaTensor
  <2>3. (a + m * x * x) + (b + n * y * y) = (a + b) + f
    OBVIOUS
  <2>4. c[1] = ((a + b) + f) * t * t - t * g * g /\ c[2] = t * t
    BY <2>2, <2>3
  <2>5. t * f - g * g = m * n * (x - y) * (x - y)
    BY ParallelAxes
  <2>6. t * t > 0
    <3>. HIDE DEF t
    <3>. QED BY <1>0, <1>1
  <2>7. t * (((a + b) + f) * t * t - t * g * g) = (t * t) * (t * (a + b) + (t * f - g * g))
    <3>1. a + b \in Int
      BY <1>0
    <3>. HIDE DEF a, b, t, g, f
    <3>. QED BY <1>0, <3>1, Scaled
  <2>8. t * c[1] = c[2] * (t * (a + b) + m * n * (x - y) * (x - y))
    BY <2>4, <2>5, <2>7
  <2>. QED BY <2>4, <2>6, <2>8
<1>2. CASE t = 0
  <2>1. c = <<0, 1>> /\ m = 0 /\ n = 0
    BY <1>2 DEF combineInertiaTensor
  <2>2. a + b = 0 /\ t = 0 /\ (x - y) \in Int
    BY <2>1
  <2>. HIDE DEF c, t, a, b
  <2>. QED BY <2>1, <2>2
<1>. QED BY <1>0, <1>1, <1>2

LEMMA RenamedFields == DOMAIN Renamed = {"current_errors", "last_motion_errors", "time"}
BY DEF Renamed

LEMMA StateIsComplete ==
    Copied \cup DOMAIN Renamed \cup {"m_total", "F_x_Ctotal", "I_total"} = RobotStateFields
BY RenamedFields DEF Copied, RobotStateFields, PoseFields, LoadFields, JointFields, ContactFields,
                     MotionFields

LEMMA WireLoads ==
    /\ Wire["m_ee"] = load.ee.m /\ Wire["F_x_Cee"] = load.ee.x /\ Wire["I_ee"] = load.ee.I
    /\ Wire["m_load"] = load.load.m /\ Wire["F_x_Cload"] = load.load.x /\ Wire["I_load"] = load.load.I
<1>1. {"m_ee", "F_x_Cee", "I_ee", "m_load", "F_x_Cload", "I_load"} \subseteq WireFields
  BY DEF WireFields, Copied
<1>. QED BY <1>1 DEF Wire

\* The fields that are computed, not copied.
LEMMA TotalFields ==
    ASSUME NEW w
    PROVE  LET s == convertRobotState(w)
               m == w["m_ee"] + w["m_load"]
               C == combineCenterOfMass(w["m_ee"], w["F_x_Cee"], w["m_load"], w["F_x_Cload"])
           IN  /\ DOMAIN s = RobotStateFields
               /\ s["m_total"] = m /\ s["F_x_Ctotal"] = C
               /\ s["I_total"] = combineInertiaTensor(w["m_ee"], w["F_x_Cee"], w["I_ee"], w["m_load"],
                                                      w["F_x_Cload"], w["I_load"], m, C)
<1>. DEFINE Computed == {"m_total", "F_x_Ctotal", "I_total"}
<1>1. \A f \in Computed : f \notin Copied /\ f \notin DOMAIN Renamed /\ f \in RobotStateFields
  BY RenamedFields DEF Copied, RobotStateFields, LoadFields
<1>2. "m_total" \in Computed /\ "F_x_Ctotal" \in Computed /\ "I_total" \in Computed
  OBVIOUS
<1>3. Copied \cup DOMAIN Renamed \cup {"m_total", "F_x_Ctotal", "I_total"} = RobotStateFields
  BY StateIsComplete
<1>. HIDE DEF Computed
<1>. QED BY <1>1, <1>2, <1>3 DEF convertRobotState

\* Whatever end effector and load a robot is configured with, a Model gets
\* their total mass, a centre of mass and an inertia that are equivalent to
\* the two of them, also when both are massless (load_calculations.cpp,
\* robot_impl.cpp:428-434, model.cpp:189-244).
THEOREM ModelGetsWholeLoad == Spec => []ModelSeesWholeLoad
<1>1. ASSUME TypeOK PROVE ModelSeesWholeLoad
  <2>. DEFINE s == convertRobotState(Wire)
              ee == load.ee
              ll == load.load
              C == combineCenterOfMass(ee.m, ee.x, ll.m, ll.x)
              T == combineInertiaTensor(ee.m, ee.x, ee.I, ll.m, ll.x, ll.I, ee.m + ll.m, C)
  <2>1. /\ ee.m \in Nat /\ ee.x \in Int /\ ee.I \in Nat
        /\ ll.m \in Nat /\ ll.x \in Int /\ ll.I \in Nat
    <3>1. load.ee \in [m : Nat, x : Int, I : Nat] /\ load.load \in [m : Nat, x : Int, I : Nat]
      BY <1>1, ServiceAssumption DEF TypeOK
    <3>. QED BY <3>1
  <2>2. /\ DOMAIN s = RobotStateFields
        /\ s["m_total"] = ee.m + ll.m /\ s["F_x_Ctotal"] = C /\ s["I_total"] = T
    <3>. HIDE DEF s, C, T, ee, ll
    <3>. QED BY WireLoads, TotalFields DEF s, C, T, ee, ll
  <2>3. IsCenter(C, ee.m, ee.x, ll.m, ll.x)
    <3>. HIDE DEF ee, ll
    <3>. QED BY <2>1, CombinedCenter
  <2>4. IsInertia(T, ee.m, ee.x, ee.I, ll.m, ll.x, ll.I)
    <3>. HIDE DEF ee, ll
    <3>. QED BY <2>1, CombinedInertia
  <2>5. /\ \A p \in {mass(s), coriolis(s), gravity(s)} : p.m_load = ee.m + ll.m /\ p.F_x_Cload = C
        /\ \A I \in {mass(s).I_load, coriolis(s).I_load} : I = T
    <3>. HIDE DEF s, C, T
    <3>. QED BY <2>2 DEF mass, coriolis, gravity
  <2>. HIDE DEF C, T
  <2>. QED BY <2>2, <2>3, <2>4, <2>5 DEF ModelSeesWholeLoad, IsCenter, IsInertia
<1>. QED BY <1>1, TypeCorrect, PTL

\* What a frame's quantity of kind of is: computed from q, at the frame's place.
At(f, of, q, s) ==
    [of |-> of, q |-> q, body |-> IF f <= kFlange THEN f + 1 ELSE 8,
     ee |-> CASE f = kEndEffector -> <<s["F_T_EE"]>>
              [] f = kStiffness -> <<s["F_T_EE"], s["EE_T_K"]>>
              [] OTHER -> <<>>]

\* Each switch, case by case.
LEMMA PoseSwitch ==
    ASSUME NEW s, NEW f \in Frame
    PROVE  pose(f, s) = At(f, "O_T_J", <<s["q"]>>, s)
<1>1. f \in {0, 1, 2, 3, 4, 5, 6, 7, 8, 9}
  BY DEF Frame, kJoint1, kStiffness
<1>2. CASE f \in {0, 1, 2, 3, 4, 5, 6, 7}
  BY <1>2 DEF pose, At, Compute, Symbol, kJoint1, kFlange, kEndEffector, kStiffness
<1>3. ASSUME NEW q, NEW ee
      PROVE  Compute("ee", q, ee) = [of |-> "O_T_J", q |-> q, body |-> 8, ee |-> ee]
  <2>1. Symbol["ee"] = <<"O_T_J", 9>>
    BY DEF Symbol
  <2>. QED BY <2>1 DEF Compute
<1>4. CASE f = 8
  BY <1>3, <1>4 DEF pose, At, kJoint1, kFlange, kEndEffector, kStiffness
<1>5. CASE f = 9
  BY <1>3, <1>5 DEF pose, At, kJoint1, kFlange, kEndEffector, kStiffness
<1>. QED BY <1>1, <1>2, <1>4, <1>5

LEMMA BodyJacobianSwitch ==
    ASSUME NEW s, NEW f \in Frame
    PROVE  bodyJacobian(f, s) = At(f, "Ji_J_J", IF f = kJoint1 THEN <<>> ELSE <<s["q"]>>, s)
<1>1. f \in {0, 1, 2, 3, 4, 5, 6, 7, 8, 9}
  BY DEF Frame, kJoint1, kStiffness
<1>2. CASE f \in {0, 1, 2, 3, 4, 5, 6, 7}
  BY <1>2 DEF bodyJacobian, At, Compute, Symbol, kJoint1, kFlange, kEndEffector, kStiffness
<1>3. ASSUME NEW q, NEW ee
      PROVE  Compute("body_jacobian_ee", q, ee) = [of |-> "Ji_J_J", q |-> q, body |-> 8, ee |-> ee]
  <2>1. Symbol["body_jacobian_ee"] = <<"Ji_J_J", 9>>
    BY DEF Symbol
  <2>. QED BY <2>1 DEF Compute
<1>4. CASE f = 8
  BY <1>3, <1>4 DEF bodyJacobian, At, kJoint1, kFlange, kEndEffector, kStiffness
<1>5. CASE f = 9
  BY <1>3, <1>5 DEF bodyJacobian, At, kJoint1, kFlange, kEndEffector, kStiffness
<1>. QED BY <1>1, <1>2, <1>4, <1>5

LEMMA ZeroJacobianSwitch ==
    ASSUME NEW s, NEW f \in Frame
    PROVE  zeroJacobian(f, s) = At(f, "O_J_J", IF f = kJoint1 THEN <<>> ELSE <<s["q"]>>, s)
<1>1. f \in {0, 1, 2, 3, 4, 5, 6, 7, 8, 9}
  BY DEF Frame, kJoint1, kStiffness
<1>2. CASE f \in {0, 1, 2, 3, 4, 5, 6, 7}
  BY <1>2 DEF zeroJacobian, At, Compute, Symbol, kJoint1, kFlange, kEndEffector, kStiffness
<1>3. ASSUME NEW q, NEW ee
      PROVE  Compute("zero_jacobian_ee", q, ee) = [of |-> "O_J_J", q |-> q, body |-> 8, ee |-> ee]
  <2>1. Symbol["zero_jacobian_ee"] = <<"O_J_J", 9>>
    BY DEF Symbol
  <2>. QED BY <2>1 DEF Compute
<1>4. CASE f = 8
  BY <1>3, <1>4 DEF zeroJacobian, At, kJoint1, kFlange, kEndEffector, kStiffness
<1>5. CASE f = 9
  BY <1>3, <1>5 DEF zeroJacobian, At, kJoint1, kFlange, kEndEffector, kStiffness
<1>. QED BY <1>1, <1>2, <1>4, <1>5

\* The fields of the state the switches use are those of the wire.
LEMMA KinematicFields ==
    LET s == convertRobotState(Wire)
    IN  s["q"] = Wire["q"] /\ s["F_T_EE"] = Wire["F_T_EE"] /\ s["EE_T_K"] = Wire["EE_T_K"]
<1>. DEFINE Field == {"q", "F_T_EE", "EE_T_K"}
<1>1. \A f \in Field : f \in Copied /\ f \notin DOMAIN Renamed
                      /\ f \notin {"m_total", "F_x_Ctotal", "I_total"}
  BY RenamedFields DEF Copied
<1>2. "q" \in Field /\ "F_T_EE" \in Field /\ "EE_T_K" \in Field
  OBVIOUS
<1>. HIDE DEF Field
<1>. QED BY <1>1, <1>2 DEF convertRobotState

\* For every frame the switches of pose, bodyJacobian and zeroJacobian select
\* functions of their own kind about the same place, from the state's q,
\* F_T_EE and EE_T_K, and the places of the ten frames compose (model.cpp:31-187,
\* model_library.cpp:9-40).
THEOREM FramesAreComposed == Spec => []FramesCompose
<1>. DEFINE s == convertRobotState(Wire)
            Place(x) == [body |-> x.body, ee |-> x.ee]
            P(frame) == Place(pose(frame, s))
<1>1. s["q"] = Wire["q"] /\ s["F_T_EE"] = Wire["F_T_EE"] /\ s["EE_T_K"] = Wire["EE_T_K"]
  BY KinematicFields
<1>. HIDE DEF s
<1>2. ASSUME NEW f \in Frame
      PROVE  LET B == bodyJacobian(f, s)
                 Z == zeroJacobian(f, s)
             IN /\ <<pose(f, s).of, B.of, Z.of>> = <<"O_T_J", "Ji_J_J", "O_J_J">>
                /\ Place(B) = P(f) /\ Place(Z) = P(f)
                /\ pose(f, s).q = <<Wire["q"]>>
                /\ f # kJoint1 => B.q = <<Wire["q"]>> /\ Z.q = <<Wire["q"]>>
  BY <1>1, PoseSwitch, BodyJacobianSwitch, ZeroJacobianSwitch DEF At
<1>3. ASSUME NEW f \in Frame
      PROVE  P(f) = [body |-> At(f, "O_T_J", <<s["q"]>>, s).body,
                     ee |-> At(f, "O_T_J", <<s["q"]>>, s).ee]
  BY PoseSwitch
<1>4. /\ {kJoint1, kFlange, kEndEffector, kStiffness} \subseteq Frame
      /\ \A f \in kJoint1 .. kFlange - 1 : f \in Frame /\ f + 1 \in Frame
  BY DEF Frame, kJoint1, kFlange, kEndEffector, kStiffness
<1>5. \A f \in kJoint1 .. kFlange : f \in Frame /\ P(f) = [body |-> f + 1, ee |-> <<>>]
  <2>1. \A f \in kJoint1 .. kFlange : f <= kFlange /\ f # kEndEffector /\ f # kStiffness /\ f \in Frame
    BY DEF Frame, kJoint1, kFlange, kEndEffector, kStiffness
  <2>. HIDE DEF P
  <2>. QED BY <1>3, <2>1 DEF At
<1>6. /\ P(kFlange) = [body |-> 8, ee |-> <<>>]
      /\ P(kEndEffector) = [body |-> 8, ee |-> <<Wire["F_T_EE"]>>]
      /\ P(kStiffness) = [body |-> 8, ee |-> <<Wire["F_T_EE"], Wire["EE_T_K"]>>]
  <2>. HIDE DEF P
  <2>. QED BY <1>1, <1>3, <1>4 DEF At, kFlange, kEndEffector, kStiffness
<1>7. /\ P(kJoint1) = [body |-> 1, ee |-> <<>>]
      /\ \A f \in kJoint1 .. kFlange - 1 : P(f + 1) = [P(f) EXCEPT !.body = @ + 1]
  <2>1. /\ kJoint1 \in kJoint1 .. kFlange /\ kJoint1 + 1 = 1
        /\ \A f \in kJoint1 .. kFlange - 1 : /\ f \in kJoint1 .. kFlange /\ f \in Int
                                             /\ f + 1 \in kJoint1 .. kFlange
    BY DEF kJoint1, kFlange
  <2>. HIDE DEF P
  <2>. QED BY <1>5, <2>1
<1>8. /\ P(kEndEffector) = [P(kFlange) EXCEPT !.ee = @ \o <<Wire["F_T_EE"]>>]
      /\ P(kStiffness) = [P(kEndEffector) EXCEPT !.ee = @ \o <<Wire["EE_T_K"]>>]
  <2>. HIDE DEF P
  <2>. QED BY <1>6
<1>9. FramesCompose
  BY <1>2, <1>7, <1>8 DEF FramesCompose, s
<1>. QED BY <1>9, PTL
---------------------------------------------------------------------------
(* Services uses the connection as a mailbox.                              *)

MailboxStep == [Mailbox!Next]_(Mailbox!vars)

Boxed(map) ==
    [id \in AnyId |->
        IF id \in Id /\ map[id] # "none" THEN [id |-> id, status |-> map[id]] ELSE NoResponse]

ResponseMap == [Id -> Statuses \cup {"none"}]

LEMMA SeqIsMonotone ==
    ASSUME NEW S, NEW T, S \subseteq T, NEW s \in Seq(S)
    PROVE  s \in Seq(T)
<1>1. s \in [1 .. Len(s) -> S] /\ Len(s) \in Nat
  OBVIOUS
<1>2. s \in [1 .. Len(s) -> T]
  BY <1>1
<1>. QED BY <1>1, <1>2, SeqDef

LEMMA MailboxTypes ==
    ASSUME TypeOK
    PROVE  /\ Id \subseteq AnyId
           /\ wire \in Seq(ResponseType) /\ wire \in Seq([id : AnyId, status : Statuses])
           /\ received_responses_ \in ResponseMap
           /\ "none" \notin Statuses
<1>1. Id \subseteq AnyId
  BY DEF Id, AnyId, TypeOK
<1>2. wire \in Seq(ResponseType)
  BY DEF TypeOK, ResponseType
<1>3. ResponseType \subseteq [id : AnyId, status : Statuses]
  BY <1>1 DEF ResponseType
<1>4. wire \in Seq([id : AnyId, status : Statuses])
  BY <1>2, <1>3, SeqIsMonotone
<1>5. "none" \notin Statuses
  BY DEF Statuses, ConnectStatus, GetterSetterStatus, StopMoveStatus, RecoveryStatus,
         LoadModelStatus, GripperStatus, VacuumGripperStatus
<1>. QED BY <1>1, <1>2, <1>4, <1>5 DEF TypeOK, ResponseMap

\* A response put into the map is in the mailbox, one erased is not.
LEMMA BoxedSet ==
    ASSUME NEW map \in ResponseMap, NEW id \in Id, NEW s \in Statuses \cup {"none"},
           Id \subseteq AnyId
    PROVE  Boxed([map EXCEPT ![id] = s]) =
           [Boxed(map) EXCEPT ![id] = IF s # "none" THEN [id |-> id, status |-> s] ELSE NoResponse]
BY DEF Boxed, ResponseMap

LEMMA BoxedFacts ==
    ASSUME NEW map, NEW id \in Id, Id \subseteq AnyId
    PROVE  Boxed(map)[id] = NoResponse <=> map[id] = "none"
BY DEF Boxed, NoResponse

LEMMA QuietUsesMailbox ==
    ASSUME UNCHANGED <<device, wire, received_responses_>>
    PROVE  MailboxStep
BY DEF MailboxStep, Mailbox!vars, Id

LEMMA TakeUsesMailbox ==
    ASSUME TypeOK, NEW id \in Id, UNCHANGED <<device, wire>>,
           received_responses_' = [received_responses_ EXCEPT ![id] = "none"]
    PROVE  MailboxStep
<1>1. Id \subseteq AnyId /\ received_responses_ \in ResponseMap
  BY MailboxTypes
<1>2. CASE received_responses_[id] = "none"
  <2>1. received_responses_' = received_responses_
    BY <1>1, <1>2 DEF ResponseMap
  <2>. QED BY <2>1, QuietUsesMailbox
<1>3. CASE received_responses_[id] # "none"
  <2>1. Boxed(received_responses_)[id] # NoResponse
    BY <1>1, <1>3, BoxedFacts
  <2>2. Boxed(received_responses_') = [Boxed(received_responses_) EXCEPT ![id] = NoResponse]
    BY <1>1, BoxedSet
  <2>3. Mailbox!TakeFrom(id)
    BY <2>1, <2>2 DEF Mailbox!TakeFrom, Boxed, Id
  <2>. QED BY <1>1, <2>3 DEF MailboxStep, Mailbox!Next
<1>. QED BY <1>2, <1>3

LEMMA DeliverUsesMailbox ==
    ASSUME TypeOK, Deliver
    PROVE  MailboxStep
<1>. DEFINE m == Head(wire)
            now == IF received_responses_[m.id] = "none"
                   THEN [received_responses_ EXCEPT ![m.id] = m.status] ELSE received_responses_
<1>1. Id \subseteq AnyId /\ received_responses_ \in ResponseMap /\ "none" \notin Statuses
  BY MailboxTypes
<1>2. m \in ResponseType
  BY MailboxTypes DEF Deliver
<1>3. m.id \in Id /\ m.status \in Statuses /\ m = [id |-> m.id, status |-> m.status]
  BY <1>2 DEF ResponseType
<1>4. wire # <<>> /\ wire' = Tail(wire) /\ received_responses_' = now /\ UNCHANGED device
  BY DEF Deliver
<1>5. Boxed(received_responses_)[m.id] = NoResponse <=> received_responses_[m.id] = "none"
  BY <1>1, <1>3, BoxedFacts
<1>6. Boxed(now) = IF Boxed(received_responses_)[m.id] = NoResponse
                   THEN [Boxed(received_responses_) EXCEPT ![m.id] = m]
                   ELSE Boxed(received_responses_)
  <2>1. Boxed([received_responses_ EXCEPT ![m.id] = m.status])
        = [Boxed(received_responses_) EXCEPT ![m.id] = m]
    BY <1>1, <1>3, BoxedSet
  <2>. QED BY <1>5, <2>1
<1>7. Mailbox!Deliver
  BY <1>4, <1>6 DEF Mailbox!Deliver, Mailbox!Delivered, Boxed, Id
<1>. QED BY <1>7 DEF MailboxStep, Mailbox!Next

LEMMA SendUsesMailbox ==
    ASSUME TypeOK, TypeOK', UNCHANGED <<device, received_responses_>>,
           NEW r \in Seq(ResponseType), r # <<>>, wire' = wire \o r
    PROVE  MailboxStep
<1>1. wire \in Seq(ResponseType) /\ wire' \in Seq([id : AnyId, status : Statuses])
  <2>1. TypeOK' => wire' \in Seq(ResponseType)
    BY DEF TypeOK, ResponseType, Id
  <2>2. ResponseType \subseteq [id : AnyId, status : Statuses]
    BY MailboxTypes DEF ResponseType
  <2>3. wire' \in Seq([id : AnyId, status : Statuses])
    BY <2>1, <2>2, SeqIsMonotone
  <2>. QED BY MailboxTypes, <2>3
<1>2. Len(r) \in Nat /\ Len(r) > 0
  OBVIOUS
<1>3. /\ Len(wire') = Len(wire) + Len(r) /\ Len(wire) \in Nat
      /\ \A i \in DOMAIN wire : wire'[i] = wire[i]
  BY <1>1
<1>4. Mailbox!Send
  BY <1>1, <1>2, <1>3 DEF Mailbox!Send, Id
<1>. QED BY <1>4 DEF MailboxStep, Mailbox!Next
\* The device answers a request, a motion that ends or both.
LEMMA DeviceSends ==
    ASSUME IInv, Serve \/ FinishMotion
    PROVE  \/ wire' = wire
           \/ \E r \in Seq(ResponseType) : r # <<>> /\ wire' = wire \o r
<1>1. ASSUME NEW m \in ResponseType, wire' = Append(wire, m)
      PROVE  \E r \in Seq(ResponseType) : r # <<>> /\ wire' = wire \o r
  <2>1. wire \in Seq(ResponseType)
    BY MailboxTypes DEF IInv
  <2>2. <<m>> \in Seq(ResponseType) /\ <<m>> # <<>> /\ wire' = wire \o <<m>>
    BY <1>1, <2>1
  <2>. QED BY <2>2
<1>2. requests # <<>> => Head(requests).id \in Id
  BY HeadRequest
<1>3. {"kSuccess", "kIncompatibleLibraryVersion", "kFail", "kUnsuccessful", "kAborted"} \subseteq Statuses
  BY DEF Statuses, ConnectStatus, GripperStatus
<1>4. ASSUME NEW s \in Statuses, Answer(s)
      PROVE  \E r \in Seq(ResponseType) : r # <<>> /\ wire' = wire \o r
  <2>1. requests # <<>> /\ wire' = Append(wire, [id |-> Head(requests).id, status |-> s])
    BY <1>4 DEF Answer
  <2>2. [id |-> Head(requests).id, status |-> s] \in ResponseType
    BY <1>2, <2>1 DEF ResponseType
  <2>. QED BY <1>1, <2>1, <2>2
<1>5. CASE ServeConnect
  BY <1>3, <1>4, <1>5 DEF ServeConnect
<1>6. CASE ServeRobot
  <2>1. Head(requests).command \in Commands("robot") /\ "robot" \in Device
    BY <1>6 DEF ServeRobot, Commands, Device
  <2>2. Status("robot", Head(requests).command) \subseteq Statuses
    BY <2>1, StatusFacts
  <2>. QED BY <1>4, <1>6, <2>2 DEF ServeRobot
<1>7. CASE BeginMotion
  BY <1>3, <1>4, <1>7 DEF BeginMotion
<1>8. CASE ServeStop
  <2>. DEFINE done == [id |-> Head(requests).id, status |-> "kSuccess"]
              aborted == [id |-> motion, status |-> "kAborted"]
  <2>1. done \in ResponseType
    BY <1>2, <1>3, <1>8 DEF ServeStop, ResponseType
  <2>2. CASE motion = None
    <3>1. wire' = Append(wire, done)
      BY <1>8, <2>2 DEF ServeStop
    <3>. QED BY <1>1, <2>1, <3>1
  <2>3. CASE motion # None
    <3>1. wire' = wire \o <<aborted, done>>
      BY <1>8, <2>3 DEF ServeStop
    <3>2. aborted \in ResponseType
      BY <1>3, <2>3 DEF IInv, TypeOK, ResponseType
    <3>. HIDE DEF done, aborted
    <3>3. <<aborted, done>> \in Seq(ResponseType) /\ <<aborted, done>> # <<>>
      BY <2>1, <3>2
    <3>. QED BY <3>1, <3>3
  <2>. QED BY <2>2, <2>3
<1>9. CASE FinishMotion
  <2>1. PICK s \in {"kSuccess", "kUnsuccessful", "kFail"} :
            wire' = Append(wire, [id |-> motion, status |-> s])
    BY <1>9 DEF FinishMotion, EndMotion
  <2>2. motion \in Id
    BY <1>9 DEF FinishMotion, EndMotion, IInv, TypeOK
  <2>3. [id |-> motion, status |-> s] \in ResponseType
    BY <1>3, <2>2 DEF ResponseType
  <2>. QED BY <1>1, <2>1, <2>3
<1>. QED BY <1>5, <1>6, <1>7, <1>8, <1>9 DEF Serve

LEMMA NextUsesMailbox == IInv /\ IInv' /\ [Next]_vars => MailboxStep
<1>. SUFFICES ASSUME IInv, IInv', [Next]_vars PROVE MailboxStep
  OBVIOUS
<1>0. TypeOK /\ TypeOK'
  BY DEF IInv
<1>1. CASE UNCHANGED vars
  BY <1>1, QuietUsesMailbox DEF vars, deviceVars, callVars
<1>2. CASE Connect \/ LoseLink \/ Arrive
  BY <1>2, QuietUsesMailbox DEF Connect, LoseLink, Arrive, deviceVars, callVars
<1>3. CASE Connected
  <2>1. 0 \in Id
    BY <1>0, ServiceAssumption DEF Id, TypeOK
  <2>. QED BY <1>0, <1>3, <2>1, TakeUsesMailbox DEF Connected, deviceVars
<1>4. CASE Serve \/ FinishMotion
  <2>1. UNCHANGED <<device, received_responses_>>
    BY <1>4
    DEF Serve, FinishMotion, ServeConnect, ServeRobot, BeginMotion, ServeStop, EndMotion, Answer, callVars
  <2>2. CASE wire' = wire
    BY <2>1, <2>2, QuietUsesMailbox
  <2>3. ASSUME NEW r \in Seq(ResponseType), r # <<>>, wire' = wire \o r
        PROVE  MailboxStep
    BY <1>0, <2>1, <2>3, SendUsesMailbox
  <2>. QED BY <1>4, <2>2, <2>3, DeviceSends
<1>5. CASE Deliver
  BY <1>0, <1>5, DeliverUsesMailbox
<1>6. ASSUME NEW t \in Thread, Respond(t)
      PROVE  MailboxStep
  <2>1. call[t].id \in Id
    BY <1>6 DEF Respond, IInv, CallsAreAnswered, CallIsAnswered
  <2>. QED BY <1>0, <1>6, <2>1, TakeUsesMailbox DEF Respond, deviceVars
<1>7. ASSUME NEW t \in Thread, NEW command, NEW l, Request(t, command, l)
      PROVE  MailboxStep
  BY <1>7, QuietUsesMailbox DEF Request
<1>8. ASSUME NEW t \in Thread, RejectProfile(t) \/ ReadOnce(t) \/ Fail(t) \/ Drain(t) \/ LockUdp(t)
                               \/ Receive(t) \/ LoadModel(t) \/ DestroyModel(t)
      PROVE  MailboxStep
  BY <1>8, QuietUsesMailbox
  DEF RejectProfile, ReadOnce, Fail, Drain, LockUdp, Receive, LoadModel, Save, LoadLibrary, Remove,
      GetSymbols, DestroyModel, deviceVars, loadUnchanged
<1>. QED BY <1>1, <1>2, <1>3, <1>4, <1>5, <1>6, <1>7, <1>8 DEF Next, Return

\* The device's answers, the constructor, executeCommand and LibraryDownloader
\* use a connection as a mailbox (network.h:149-259), for any number of
\* threads, commands and calls: what they need of the connection is what the
\* pieces that Network reads add up to (ReadingIsAMailbox of NetworkProofs).
THEOREM ServicesUseMailbox == Spec => UsesMailbox
<1>1. Init => Mailbox!Init
  BY DEF Init, Mailbox!Init
<1>2. IInv /\ IInv' /\ [Next]_vars => [Mailbox!Next]_(Mailbox!vars)
  BY NextUsesMailbox DEF MailboxStep
<1>. QED BY <1>1, <1>2, InvariantHolds, PTL DEF Spec, UsesMailbox, Mailbox!Spec
===========================================================================
