------------------------------ MODULE Services ----------------------------
(***************************************************************************)
(* The clients of one Network other than a motion: the constructor and its *)
(* version check, the blocking commands of Robot, Gripper and              *)
(* VacuumGripper, a gripper's readOnce, and loading the model library.     *)
(* Threads share the connection, which is the mailbox that Network         *)
(* implements (ResponseMailbox); the device answers requests in the order  *)
(* they were sent and carries out one motion of the gripper at a time.     *)
(***************************************************************************)
EXTENDS ServiceTypes, ModelLibrary, GripperState

CONSTANTS Thread,
          Nobody,      \* no thread
          Used,        \* the commands of this instance
          MaxCalls,    \* bound: calls in a behaviour, for each device
          MaxStates,   \* bound: gripper states that arrive
          Loads,       \* loads a robot can be set to: records with m, x and I
          NoLoad,      \* the one it starts with
          MayFail      \* whether the connection can be lost

ASSUME ServiceAssumption ==
    /\ Nobody \notin Thread
    /\ MaxCalls \in [Device -> Nat]
    /\ MaxStates \in Nat /\ MaxStates < 65536  \* a state's number fits into each of its fields
    /\ Loads \subseteq [m : Nat, x : Int, I : Nat] /\ NoLoad \in Loads
    /\ MayFail \in BOOLEAN

VARIABLES device,      \* what this is a connection to
          compatible,  \* whether it supports the version of the library
          client,      \* the object: "new", "connecting", "ready" or "failed"
          link,        \* whether the connection is up
          requests,    \* requests the device has not read
          motion,      \* the request whose motion the device executes, or None
          result,      \* history: what became of each request on the device
          load,        \* the loads the robot is configured with: ee and load
          wire,        \* responses on the connection
          received_responses_,
          command_id_,
          calls,       \* how many calls were made
          pc, call,    \* what each thread does, and for which request
          outcome,     \* how its last call ended
          arrived,     \* how many gripper states arrived
          socket,      \* those that wait, by the number of their arrival
          udp_mutex_,
          start, read, \* arrivals before a readOnce, and the state it returned
          file, library, model  \* of each thread's loadModel

deviceVars == <<device, compatible, requests, motion, result, load, wire>>
callVars == <<received_responses_, command_id_, calls, pc, call, outcome>>
readVars == <<socket, udp_mutex_, start, read>>
modelVars == <<file, library, model>>
vars == <<deviceVars, client, link, callVars, arrived, readVars, modelVars>>

None == -1
StateFields == IF device = "vacuum_gripper" THEN VacuumGripperFields ELSE GripperFields
Id == 0 .. MaxCalls[device]        \* the first one is for Connect
Statuses == UNION {ConnectStatus, GetterSetterStatus, StopMoveStatus, RecoveryStatus,
                   LoadModelStatus, GripperStatus, VacuumGripperStatus}
Outcomes == {"none", "returns", "true", "false", "state", "CommandException", "ProtocolException",
             "NetworkException", "IncompatibleVersionException", "ModelException"}
Operations == (Used \cap Commands(device))
              \cup (IF device = "robot" THEN {} ELSE {"readOnce"})

TypeOK ==
    /\ device \in Device
    /\ compatible \in BOOLEAN
    /\ client \in {"new", "connecting", "ready", "failed"}
    /\ link \in BOOLEAN
    /\ requests \in Seq([id : Id, command : Used \cup {"Connect"}, load : Loads])
    /\ motion \in Id \cup {None}
    /\ result \in [Id -> {"open", "done", "missed", "refused", "aborted"}]
    /\ load \in [ee : Loads, load : Loads]
    /\ wire \in Seq([id : Id, status : Statuses])
    /\ received_responses_ \in [Id -> Statuses \cup {"none"}]
    /\ command_id_ \in 0 .. MaxCalls[device] + 1
    /\ calls \in 0 .. MaxCalls[device]
    /\ pc \in [Thread -> {"idle", "wait", "drain", "receive", "receiving", "save", "load",
                          "loaded", "not_loaded", "symbols"}]
    /\ call \in [Thread -> [id : Id \cup {None}, command : Used \cup {"none", "readOnce"}]]
    /\ outcome \in [Thread -> Outcomes]
    /\ arrived \in 0 .. MaxStates
    /\ socket \in Seq(1 .. MaxStates)
    /\ udp_mutex_ \in Thread \cup {Nobody}
    /\ start \in [Thread -> 0 .. MaxStates]
    /\ read \in [Thread -> [StateFields -> 0 .. MaxStates]]
    /\ file \in [Thread -> {"none", "short", "whole", "registered"}]
    /\ library \in [Thread -> BOOLEAN]
    /\ model \in [Thread -> BOOLEAN]

Init ==
    /\ device \in Device
    /\ compatible \in BOOLEAN
    /\ client = "new"
    /\ link = TRUE
    /\ requests = <<>>
    /\ motion = None
    /\ result = [id \in Id |-> "open"]
    /\ load \in [ee : IF device = "robot" THEN Loads ELSE {NoLoad}, load : {NoLoad}]
    /\ wire = <<>>
    /\ received_responses_ = [id \in Id |-> "none"]
    /\ command_id_ = 0
    /\ calls = 0
    /\ pc = [t \in Thread |-> "idle"]
    /\ call = [t \in Thread |-> [id |-> None, command |-> "none"]]
    /\ outcome = [t \in Thread |-> "none"]
    /\ arrived = 0
    /\ socket = <<>>
    /\ udp_mutex_ = Nobody
    /\ start = [t \in Thread |-> 0]
    /\ read = [t \in Thread |-> [f \in StateFields |-> 0]]
    /\ file = [t \in Thread |-> "none"]
    /\ library = [t \in Thread |-> FALSE]
    /\ model = [t \in Thread |-> FALSE]

\* t's call ends.
Leave(t, how) ==
    /\ pc' = [pc EXCEPT ![t] = "idle"]
    /\ outcome' = [outcome EXCEPT ![t] = how]
---------------------------------------------------------------------------
(* The device and the network.                                             *)

\* What a status says has become of the request.
ResultOf(status) ==
    CASE status = "kSuccess" -> "done"
      [] status = "kUnsuccessful" -> "missed"
      [] status \in {"kAborted", "kEmergencyAborted", "kReflexAborted"} -> "aborted"
      [] OTHER -> "refused"

\* The device answers the request it reads next with status.
Answer(status) ==
    LET r == Head(requests) IN
    /\ requests # <<>>
    /\ requests' = Tail(requests)
    /\ wire' = Append(wire, [id |-> r.id, status |-> status])
    /\ result' = [result EXCEPT ![r.id] = ResultOf(status)]
    /\ UNCHANGED <<device, compatible, motion>>

Motions == {"Homing", "Grasp", "Move", "Vacuum", "DropOff"}

ServeConnect ==
    /\ requests # <<>> /\ Head(requests).command = "Connect"
    /\ Answer(IF compatible THEN "kSuccess" ELSE "kIncompatibleLibraryVersion")
    /\ UNCHANGED load

\* The robot may answer with any status of the command.
ServeRobot ==
    /\ requests # <<>> /\ Head(requests).command \in RobotCommand
    /\ \E status \in Status("robot", Head(requests).command) :
          /\ Answer(status)
          /\ load' = IF Head(requests).command = "SetLoad" /\ status = "kSuccess"
                     THEN [load EXCEPT !.load = Head(requests).load] ELSE load

\* A gripper begins to move, or cannot ...
BeginMotion ==
    /\ requests # <<>> /\ Head(requests).command \in Motions
    /\ IF motion = None
       THEN /\ motion' = Head(requests).id
            /\ requests' = Tail(requests)
            /\ UNCHANGED <<device, compatible, result, wire>>
       ELSE Answer("kFail")
    /\ UNCHANGED load

\* ... and ends its motion with or without success ...
EndMotion ==
    /\ motion # None
    /\ \E status \in {"kSuccess", "kUnsuccessful", "kFail"} :
          /\ wire' = Append(wire, [id |-> motion, status |-> status])
          /\ result' = [result EXCEPT ![motion] = ResultOf(status)]
    /\ motion' = None
    /\ UNCHANGED <<device, compatible, requests, load>>

\* ... or is stopped.
ServeStop ==
    LET r == Head(requests)
        done == [id |-> r.id, status |-> "kSuccess"]
    IN
    /\ requests # <<>> /\ r.command = "Stop"
    /\ requests' = Tail(requests)
    /\ IF motion = None
       THEN /\ wire' = Append(wire, done)
            /\ result' = [result EXCEPT ![r.id] = "done"]
       ELSE /\ wire' = wire \o <<[id |-> motion, status |-> "kAborted"], done>>
            /\ result' = [result EXCEPT ![r.id] = "done", ![motion] = "aborted"]
    /\ motion' = None
    /\ UNCHANGED <<device, compatible, load>>

Serve ==
    /\ link
    /\ ServeConnect \/ ServeRobot \/ BeginMotion \/ ServeStop
    /\ UNCHANGED <<client, link, callVars, arrived, readVars, modelVars>>

FinishMotion ==
    /\ EndMotion
    /\ UNCHANGED <<client, link, callVars, arrived, readVars, modelVars>>

\* Mutant of Deliver: a response is forgotten when the next one has been read.
Deliver_LastOnly ==
    /\ link
    /\ wire # <<>>
    /\ wire' = Tail(wire)
    /\ received_responses_' = [id \in Id |-> IF id = Head(wire).id THEN Head(wire).status ELSE "none"]
    /\ UNCHANGED <<device, compatible, requests, motion, result, load, client, link, command_id_,
                   calls, pc, call, outcome, arrived, readVars, modelVars>>

\* A whole response gets into the map (Network refines this step).
Deliver ==
    LET m == Head(wire) IN
    /\ link
    /\ wire # <<>>
    /\ wire' = Tail(wire)
    /\ received_responses_' = IF received_responses_[m.id] = "none"
                              THEN [received_responses_ EXCEPT ![m.id] = m.status]
                              ELSE received_responses_
    /\ UNCHANGED <<device, compatible, requests, motion, result, load, client, link, command_id_,
                   calls, pc, call, outcome, arrived, readVars, modelVars>>

LoseLink ==
    /\ MayFail
    /\ link
    /\ link' = FALSE
    /\ UNCHANGED <<deviceVars, client, callVars, arrived, readVars, modelVars>>

Arrive ==
    /\ client = "ready" /\ device # "robot"
    /\ arrived < MaxStates
    /\ arrived' = arrived + 1
    /\ socket' = Append(socket, arrived')
    /\ UNCHANGED <<deviceVars, client, link, callVars, udp_mutex_, start, read, modelVars>>

---------------------------------------------------------------------------
(* The constructors of Robot, Gripper and VacuumGripper.                   *)

\* Mutant of tcpSendRequest: the counter is incremented twice.
tcpSendRequest_SkipsId(command, l) ==
    /\ requests' = Append(requests, [id |-> command_id_, command |-> command, load |-> l])
    /\ command_id_' = command_id_ + 2

tcpSendRequest(command, l) ==
    /\ requests' = Append(requests, [id |-> command_id_, command |-> command, load |-> l])
    /\ command_id_' = command_id_ + 1

\* The sockets cannot be connected, or are and the handshake begins.
Connect ==
    /\ client = "new"
    /\ \/ /\ client' = "failed"
          /\ UNCHANGED <<requests, command_id_>>
       \/ /\ client' = "connecting"
          /\ tcpSendRequest("Connect", load.load)
    /\ UNCHANGED <<device, compatible, motion, result, load, wire, link, received_responses_, calls,
                   pc, call, outcome, arrived, readVars, modelVars>>

\* connect() gets its response, or the connection is lost.
Connected ==
    /\ client = "connecting"
    /\ \/ received_responses_[0] # "none"
       \/ ~link
    /\ client' = IF /\ received_responses_[0] # "none"
                    /\ connect(received_responses_[0]) = "returns"
                 THEN "ready" ELSE "failed"
    /\ received_responses_' = [received_responses_ EXCEPT ![0] = "none"]
    /\ UNCHANGED <<deviceVars, link, command_id_, calls, pc, call, outcome, arrived, readVars,
                   modelVars>>

---------------------------------------------------------------------------
(* Calls of the client's threads.                                          *)

MayCall(t) == client = "ready" /\ pc[t] = "idle" /\ calls < MaxCalls[device]

\* executeCommand and LibraryDownloader: a request is sent ...
Request(t, command, l) ==
    /\ MayCall(t)
    /\ ~model[t] \/ command # "LoadModelLibrary"
    /\ IF link
       THEN /\ tcpSendRequest(command, l)
            /\ pc' = [pc EXCEPT ![t] = "wait"]
            /\ call' = [call EXCEPT ![t] = [id |-> command_id_, command |-> command]]
            /\ outcome' = [outcome EXCEPT ![t] = "none"]
       ELSE /\ Leave(t, "NetworkException")
            /\ call' = [call EXCEPT ![t] = [id |-> None, command |-> command]]
            /\ UNCHANGED <<requests, command_id_>>
    /\ calls' = calls + 1
    /\ UNCHANGED <<device, compatible, motion, result, load, wire, client, link,
                   received_responses_, arrived, readVars, modelVars>>

\* ... unless VacuumGripper::vacuum gets a profile it does not know.
RejectProfile(t) ==
    /\ MayCall(t)
    /\ device = "vacuum_gripper" /\ "Vacuum" \in Used
    /\ Leave(t, "CommandException")
    /\ call' = [call EXCEPT ![t] = [id |-> None, command |-> "Vacuum"]]
    /\ calls' = calls + 1
    /\ UNCHANGED <<deviceVars, client, link, received_responses_, command_id_, arrived, readVars,
                   modelVars>>

\* Mutant of Respond: whichever response has come is taken.
Respond_Any(t) ==
    /\ pc[t] = "wait"
    /\ \E id \in Id :
          /\ received_responses_[id] # "none"
          /\ received_responses_' = [received_responses_ EXCEPT ![id] = "none"]
    /\ Leave(t, "returns")
    /\ UNCHANGED <<deviceVars, client, link, command_id_, calls, call, arrived, readVars, modelVars>>

\* The response is taken and handled, which ends the call; LibraryDownloader
\* goes on with a library it got.
Respond(t) ==
    LET id == call[t].id
        status == received_responses_[id]
    IN
    /\ pc[t] = "wait"
    /\ status # "none"
    /\ received_responses_' = [received_responses_ EXCEPT ![id] = "none"]
    /\ IF call[t].command # "LoadModelLibrary" THEN Leave(t, Outcome(device, call[t].command, status))
       ELSE IF status # "kSuccess" THEN Leave(t, "ModelException")
       ELSE pc' = [pc EXCEPT ![t] = "save"] /\ UNCHANGED outcome
    /\ UNCHANGED <<deviceVars, client, link, command_id_, calls, call, arrived, readVars, modelVars>>

Fail(t) ==
    /\ pc[t] = "wait"
    /\ ~link
    /\ Leave(t, "NetworkException")
    /\ UNCHANGED <<deviceVars, client, link, received_responses_, command_id_, calls, call, arrived,
                   readVars, modelVars>>

---------------------------------------------------------------------------
(* Gripper::readOnce and VacuumGripper::readOnce.                          *)

\* Mutant of ReadOnce: nothing is deleted from the buffer.
ReadOnce_Buffered(t) ==
    /\ MayCall(t)
    /\ device # "robot"
    /\ pc' = [pc EXCEPT ![t] = "receive"]
    /\ call' = [call EXCEPT ![t] = [id |-> None, command |-> "readOnce"]]
    /\ outcome' = [outcome EXCEPT ![t] = "none"]
    /\ calls' = calls + 1
    /\ start' = [start EXCEPT ![t] = arrived]
    /\ UNCHANGED <<deviceVars, client, link, received_responses_, command_id_, arrived, socket,
                   udp_mutex_, read, modelVars>>

ReadOnce(t) ==
    /\ MayCall(t)
    /\ device # "robot"
    /\ pc' = [pc EXCEPT ![t] = "drain"]
    /\ call' = [call EXCEPT ![t] = [id |-> None, command |-> "readOnce"]]
    /\ outcome' = [outcome EXCEPT ![t] = "none"]
    /\ calls' = calls + 1
    /\ start' = [start EXCEPT ![t] = arrived]
    /\ UNCHANGED <<deviceVars, client, link, received_responses_, command_id_, arrived, socket,
                   udp_mutex_, read, modelVars>>

\* udpReceive, until it returns false.
Drain(t) ==
    /\ pc[t] = "drain"
    /\ udp_mutex_ = Nobody
    /\ IF socket # <<>> THEN socket' = Tail(socket) /\ UNCHANGED pc
       ELSE pc' = [pc EXCEPT ![t] = "receive"] /\ UNCHANGED socket
    /\ UNCHANGED <<deviceVars, client, link, received_responses_, command_id_, calls, call, outcome,
                   arrived, udp_mutex_, start, read, modelVars>>

\* udpBlockingReceive waits with the lock, for a state or a timeout.
LockUdp(t) ==
    /\ pc[t] = "receive"
    /\ udp_mutex_ = Nobody
    /\ udp_mutex_' = t
    /\ pc' = [pc EXCEPT ![t] = "receiving"]
    /\ UNCHANGED <<deviceVars, client, link, received_responses_, command_id_, calls, call, outcome,
                   arrived, socket, start, read, modelVars>>

\* The n-th state that arrives, with n in all of its fields.
Received(n) ==
    IF device = "gripper" THEN convertGripperState([f \in GripperWire |-> n])
    ELSE convertVacuumGripperState([f \in VacuumGripperWire |-> n])

Receive(t) ==
    /\ pc[t] = "receiving"
    /\ udp_mutex_' = Nobody
    /\ IF socket # <<>>
       THEN /\ read' = [read EXCEPT ![t] = Received(Head(socket))]
            /\ socket' = Tail(socket)
            /\ Leave(t, "state")
       ELSE /\ Leave(t, "NetworkException")
            /\ UNCHANGED <<read, socket>>
    /\ UNCHANGED <<deviceVars, client, link, received_responses_, command_id_, calls, call, arrived,
                   start, modelVars>>

---------------------------------------------------------------------------
(* Robot::loadModel, after the download.                                   *)

loadUnchanged == <<deviceVars, client, link, received_responses_, command_id_, calls, call, arrived,
                   readVars>>

\* The library is written to a temporary file.  A stream that fails does not
\* throw: there may be no file, or a part of it.
Save(t) ==
    /\ pc[t] = "save"
    /\ \E f \in {"none", "short", "whole"} : file' = [file EXCEPT ![t] = f]
    /\ pc' = [pc EXCEPT ![t] = "load"]
    /\ UNCHANGED <<loadUnchanged, outcome, library, model>>

LoadLibrary(t) ==
    /\ pc[t] = "load"
    /\ \/ /\ file[t] = "whole"
          /\ library' = [library EXCEPT ![t] = TRUE]
          /\ pc' = [pc EXCEPT ![t] = "loaded"]
       \/ /\ pc' = [pc EXCEPT ![t] = "not_loaded"]
          /\ UNCHANGED library
    /\ UNCHANGED <<loadUnchanged, outcome, file, model>>

\* Mutant of Remove: only a library that was loaded is removed.
Remove_IfLoaded(t) ==
    /\ pc[t] \in {"loaded", "not_loaded"}
    /\ \/ file' = [file EXCEPT ![t] = IF pc[t] = "loaded" THEN "none" ELSE file[t]]
       \/ file[t] # "none" /\ file' = [file EXCEPT ![t] = "registered"]
    /\ IF pc[t] = "loaded" THEN pc' = [pc EXCEPT ![t] = "symbols"] /\ UNCHANGED outcome
       ELSE Leave(t, "ModelException")
    /\ UNCHANGED <<loadUnchanged, library, model>>

\* The temporary LibraryDownloader is destroyed when the library is loaded
\* and also when loading it throws: the file is removed, or, when that fails,
\* remains registered for deletion at the end of the process.
Remove(t) ==
    /\ pc[t] \in {"loaded", "not_loaded"}
    /\ \/ file' = [file EXCEPT ![t] = "none"]
       \/ file[t] # "none" /\ file' = [file EXCEPT ![t] = "registered"]
    /\ IF pc[t] = "loaded" THEN pc' = [pc EXCEPT ![t] = "symbols"] /\ UNCHANGED outcome
       ELSE Leave(t, "ModelException")
    /\ UNCHANGED <<loadUnchanged, library, model>>

\* All symbols are found, or one is not and the LibraryLoader is destroyed.
GetSymbols(t) ==
    /\ pc[t] = "symbols"
    /\ \/ /\ Leave(t, "returns")
          /\ model' = [model EXCEPT ![t] = TRUE]
          /\ UNCHANGED library
       \/ /\ Leave(t, "ModelException")
          /\ library' = [library EXCEPT ![t] = FALSE]
          /\ UNCHANGED model
    /\ UNCHANGED <<loadUnchanged, file>>

DestroyModel(t) ==
    /\ pc[t] = "idle"
    /\ model[t]
    /\ model' = [model EXCEPT ![t] = FALSE]
    /\ library' = [library EXCEPT ![t] = FALSE]
    /\ UNCHANGED <<loadUnchanged, pc, outcome, file>>

LoadModel(t) == Save(t) \/ LoadLibrary(t) \/ Remove(t) \/ GetSymbols(t)

---------------------------------------------------------------------------
Return(t) ==
    Respond(t) \/ Fail(t) \/ Drain(t) \/ LockUdp(t) \/ Receive(t) \/ LoadModel(t)

Next ==
    \/ Connect \/ Connected
    \/ Serve \/ FinishMotion \/ Deliver \/ LoseLink \/ Arrive
    \/ \E t \in Thread :
          \/ \E command \in Operations \ {"readOnce"} :
                \E l \in (IF command = "SetLoad" THEN Loads ELSE {load.load}) : Request(t, command, l)
          \/ RejectProfile(t) \/ ReadOnce(t) \/ Return(t) \/ DestroyModel(t)

Spec == Init /\ [][Next]_vars

\* The device reads its requests and TCP delivers; a thread that can go on
\* does, also to the udp_mutex_.  Nothing makes a motion of a gripper end.
Fairness ==
    /\ WF_vars(Connected) /\ WF_vars(Serve) /\ WF_vars(Deliver)
    /\ \A t \in Thread : WF_vars(Return(t))

FairSpec == Spec /\ Fairness

---------------------------------------------------------------------------
(* What a call says of its command is what the device did with this very   *)
(* request, also when another thread's stop() or command came in between:  *)
(* true or a normal return means done, false not successful, a             *)
(* CommandException that it was refused or aborted or never sent           *)
(* (gripper.cpp:16-33, vacuum_gripper.cpp:16-34, robot_impl.h:132-154).    *)
OutcomeIsTheDevices ==
    \A t \in Thread : pc[t] = "idle" /\ call[t].id # None =>
        /\ outcome[t] \in {"true", "returns"} => result[call[t].id] = "done"
        /\ outcome[t] = "false" => result[call[t].id] = "missed"
        /\ outcome[t] = "CommandException" => result[call[t].id] \in {"refused", "aborted"}

(* Every status of the protocol (common/include/research_interface) has a  *)
(* case in the handlers of src/: a device that keeps to the protocol never *)
(* causes a ProtocolException.                                             *)
StatusesUnderstood == \A t \in Thread : outcome[t] # "ProtocolException"

(* A gripper's readOnce returns a state that arrived after it was called,  *)
(* never one that had waited in the socket (gripper.cpp:85-93), whatever   *)
(* another thread reads meanwhile, and every field of it comes from this   *)
(* one state (gripper.cpp:35-44, vacuum_gripper.cpp:36-60).                *)
ReadsFresh ==
    \A t \in Thread : outcome[t] = "state" =>
        \E n \in 1 .. MaxStates : n > start[t] /\ read[t] = [f \in StateFields |-> n]

(* Wherever loading the model fails, no temporary file stays behind unless *)
(* it is registered for deletion, and the library is loaded exactly while  *)
(* a Model uses it (library_downloader.cpp:59-67, library_loader.cpp:13-28,*)
(* model_library.cpp:9-10).                                                *)
NothingLeftBehind ==
    \A t \in Thread : pc[t] = "idle" =>
        /\ file[t] \in {"none", "registered"}
        /\ library[t] <=> model[t]

(* For every configured load, the dynamics of a Model get all fields of    *)
(* the state, and in them a load that is finite and equivalent to end      *)
(* effector and load together: the total mass, the moments about the       *)
(* flange, and the inertia that the parallel axis theorem gives            *)
(* (robot_impl.cpp:428-434, load_calculations.cpp, model.cpp:189-244).     *)
Wire == [f \in WireFields |->
            CASE f = "m_ee" -> load.ee.m [] f = "F_x_Cee" -> load.ee.x [] f = "I_ee" -> load.ee.I
              [] f = "m_load" -> load.load.m [] f = "F_x_Cload" -> load.load.x
              [] f = "I_load" -> load.load.I [] OTHER -> f]

ModelSeesWholeLoad ==
    LET s == convertRobotState(Wire)
        Inertia(l) == IF l.m = 0 THEN 0 ELSE l.I
        ee == load.ee
        ll == load.load
        total == ee.m + ll.m
    IN /\ DOMAIN s = RobotStateFields
       /\ \A p \in {mass(s), coriolis(s), gravity(s)} :
             /\ p.m_load = total
             /\ p.F_x_Cload[2] # 0
             /\ total * p.F_x_Cload[1] = (ee.m * ee.x + ll.m * ll.x) * p.F_x_Cload[2]
       /\ \A I \in {mass(s).I_load, coriolis(s).I_load} :
             /\ I[2] > 0
             /\ total * I[1] = I[2] * (total * (Inertia(ee) + Inertia(ll))
                                       + ee.m * ll.m * (ee.x - ll.x) * (ee.x - ll.x))

(* The three switches of a loaded Model agree: for each frame of a state,  *)
(* pose, bodyJacobian and zeroJacobian compute what their name says, at    *)
(* one and the same place.  The joints and the flange follow each other,   *)
(* the end effector is F_T_EE after the flange and the stiffness frame     *)
(* EE_T_K after the end effector.  All three depend on the state's q, but  *)
(* for the Jacobians of the first joint (model.cpp:31-187,                 *)
(* model_library.cpp:9-40).                                                *)
FramesCompose ==
    LET s == convertRobotState(Wire)
        Place(x) == [body |-> x.body, ee |-> x.ee]
        P(frame) == Place(pose(frame, s))
    IN (\E t \in Thread : model[t]) =>
        /\ \A f \in Frame :
              LET B == bodyJacobian(f, s)
                  Z == zeroJacobian(f, s)
              IN /\ <<pose(f, s).of, B.of, Z.of>> = <<"O_T_J", "Ji_J_J", "O_J_J">>
                 /\ Place(B) = P(f) /\ Place(Z) = P(f)
                 /\ pose(f, s).q = <<Wire["q"]>>
                 /\ f # kJoint1 => B.q = <<Wire["q"]>> /\ Z.q = <<Wire["q"]>>
        /\ P(kJoint1) = [body |-> 1, ee |-> <<>>]
        /\ \A f \in kJoint1 .. kFlange - 1 : P(f + 1) = [P(f) EXCEPT !.body = @ + 1]
        /\ P(kEndEffector) = [P(kFlange) EXCEPT !.ee = @ \o <<Wire["F_T_EE"]>>]
        /\ P(kStiffness) = [P(kEndEffector) EXCEPT !.ee = @ \o <<Wire["EE_T_K"]>>]

(* Requests, their answers and the handlers of three devices use the       *)
(* connection as the mailbox that Network implements: every response that  *)
(* is sent waits under the id of its request until it is taken once        *)
(* (network.h:149-259).                                                    *)
AnyId == UNION {0 .. MaxCalls[d] : d \in Device}
NoResponse == [id |-> None, status |-> "none"]
Mailbox == INSTANCE ResponseMailbox WITH
    Id <- AnyId, Message <- [id : AnyId, status : Statuses], None <- NoResponse, wire <- wire,
    mailbox <- [id \in AnyId |->
                   IF id \in Id /\ received_responses_[id] # "none"
                   THEN [id |-> id, status |-> received_responses_[id]] ELSE NoResponse]
UsesMailbox == Mailbox!Spec

(* "Stops a currently running gripper move or grasp" (gripper.h:119): a    *)
(* thread in a command of the gripper comes back once another thread's     *)
(* stop() follows it, although nothing else ends the motion.               *)
StopEndsCommand ==
    \A t, u \in Thread :
        (/\ pc[t] = "wait" /\ call[t].command \in Motions
         /\ pc[u] = "wait" /\ call[u].command = "Stop"
         /\ call[t].id < call[u].id)
        ~> pc[t] = "idle"
===========================================================================
