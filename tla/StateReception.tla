--------------------------- MODULE StateReception -------------------------
(***************************************************************************)
(* How Robot::Impl receives robot states over UDP.  A state stands for its *)
(* message_id, which the robot counts up with every state it sends and     *)
(* which convertRobotState makes the time of the state.  The network may   *)
(* lose, duplicate, delay and reorder states; those that arrived wait in   *)
(* the socket.  update() takes the newest waiting state or waits for a     *)
(* newer one, and logs it; readOnce() first throws away what waits.        *)
(***************************************************************************)
EXTENDS Integers, Sequences

CONSTANTS MaxStates,   \* bound: states the robot sends
          MaxWaiting   \* bound: states waiting in the socket

ASSUME BoundAssumption == MaxStates \in Nat /\ MaxWaiting \in Nat

VARIABLES sent,           \* the newest state the robot sent
          flying,         \* states on the network
          socket,         \* states in the socket, in the order they arrived
          pc,             \* where the call in progress is
          logs,           \* whether it is update(), which logs the state
                          \* (readOnce() and cancelMotion() do not)
          message_id_,    \* the newest state accepted before this call
          latest,         \* message_id of latest_accepted_state
          owed,           \* history: the states that waited when update() was called
          log             \* the times of the last two records of the log

netVars == <<sent, flying, socket>>
vars == <<netVars, pc, logs, message_id_, latest, owed, log>>

Id == 1 .. MaxStates

TypeOK ==
    /\ sent \in 0 .. MaxStates
    /\ flying \in SUBSET Id
    /\ socket \in Seq(Id)
    /\ pc \in {"new", "idle", "discard", "drain", "wait"}
    /\ logs \in BOOLEAN
    /\ message_id_ \in 0 .. MaxStates
    /\ latest \in 0 .. MaxStates
    /\ owed \in SUBSET Id
    /\ log \in Seq(Id) /\ Len(log) <= 2

Init ==
    /\ sent = 0
    /\ flying = {}
    /\ socket = <<>>
    /\ pc = "new"
    /\ logs = FALSE
    /\ message_id_ = 0
    /\ latest = 0
    /\ owed = {}
    /\ log = <<>>

---------------------------------------------------------------------------
\* The robot sends its next state; the network delivers states in any order,
\* possibly more than once, or loses them.
Send ==
    /\ sent < MaxStates
    /\ sent' = sent + 1
    /\ flying' = flying \cup {sent + 1}
    /\ UNCHANGED <<socket, pc, logs, message_id_, latest, owed, log>>

Deliver ==
    /\ Len(socket) < MaxWaiting
    /\ \E id \in flying :
         /\ socket' = Append(socket, id)
         /\ \/ flying' = flying \ {id}
            \/ UNCHANGED flying
    /\ UNCHANGED <<sent, pc, logs, message_id_, latest, owed, log>>

Lose ==
    /\ \E id \in flying : flying' = flying \ {id}
    /\ UNCHANGED <<sent, socket, pc, logs, message_id_, latest, owed, log>>

---------------------------------------------------------------------------
\* The constructor waits for a first state and takes it as it comes.
Construct ==
    /\ pc = "new"
    /\ socket # <<>>
    /\ socket' = Tail(socket)
    /\ message_id_' = Head(socket)
    /\ pc' = "idle"
    /\ UNCHANGED <<sent, flying, logs, latest, owed, log>>

\* The start of receiveRobotState.
Receive ==
    /\ pc' = "drain"
    /\ latest' = message_id_

Waiting == {socket[i] : i \in DOMAIN socket}

\* update(), or the loop of cancelMotion() that waits for the robot to stop.
Update ==
    /\ pc = "idle"
    /\ logs' \in BOOLEAN
    /\ Receive
    /\ owed' = Waiting
    /\ UNCHANGED <<netVars, message_id_, log>>

ReadOnce ==
    /\ pc = "idle"
    /\ logs' = FALSE
    /\ pc' = "discard"
    /\ owed' = {}
    /\ UNCHANGED <<netVars, message_id_, latest, log>>

\* readOnce(): delete old data from the UDP buffer.
Discard ==
    /\ pc = "discard"
    /\ IF socket # <<>>
       THEN socket' = Tail(socket) /\ UNCHANGED <<pc, latest>>
       ELSE UNCHANGED socket /\ Receive
    /\ UNCHANGED <<sent, flying, logs, message_id_, owed, log>>

\* Mutant of Accept: the last state wins, whatever its id.
Accept_Last == latest' = Head(socket)

\* The state read next is accepted if it is newer than the accepted one.
Accept == latest' = IF Head(socket) > latest THEN Head(socket) ELSE latest

ReadState ==
    /\ socket # <<>>
    /\ socket' = Tail(socket)
    /\ Accept

\* Mutant of Accepted: message_id_ counts ahead to the state expected next.
Accepted_CountsAhead ==
    /\ message_id_' = latest + 1
    /\ log' = IF ~logs THEN log
              ELSE IF Len(log) < 2 THEN Append(log, latest) ELSE <<log[2], latest>>
    /\ pc' = "idle"
    /\ UNCHANGED <<netVars, logs, latest, owed>>

\* Mutant of Accepted: update() forgets to remember the id of the state.
Accepted_KeepsId ==
    /\ log' = IF ~logs THEN log
              ELSE IF Len(log) < 2 THEN Append(log, latest) ELSE <<log[2], latest>>
    /\ pc' = "idle"
    /\ UNCHANGED <<netVars, logs, message_id_, latest, owed>>

\* updateState, and logger_.log if the call is update().
Accepted ==
    /\ message_id_' = latest
    /\ log' = IF ~logs THEN log
              ELSE IF Len(log) < 2 THEN Append(log, latest) ELSE <<log[2], latest>>
    /\ pc' = "idle"
    /\ UNCHANGED <<netVars, logs, latest, owed>>

\* Mutant of Drain: the first newer state is good enough.
Drain_TakesFirst ==
    /\ pc = "drain"
    /\ \/ ReadState /\ UNCHANGED <<sent, flying, pc, logs, message_id_, owed, log>>
       \/ latest # message_id_ /\ Accepted
       \/ /\ socket = <<>> /\ latest = message_id_
          /\ pc' = "wait"
          /\ UNCHANGED <<netVars, logs, message_id_, latest, owed, log>>

\* udpReceive as long as states wait, ...
Drain ==
    /\ pc = "drain"
    /\ \/ ReadState /\ UNCHANGED <<sent, flying, pc, logs, message_id_, owed, log>>
       \/ socket = <<>> /\ latest # message_id_ /\ Accepted
       \/ /\ socket = <<>> /\ latest = message_id_
          /\ pc' = "wait"
          /\ UNCHANGED <<netVars, logs, message_id_, latest, owed, log>>

\* ... then udpBlockingReceive until a newer one arrives.
Wait ==
    /\ pc = "wait"
    /\ IF latest # message_id_
       THEN Accepted
       ELSE ReadState /\ UNCHANGED <<sent, flying, pc, logs, message_id_, owed, log>>

\* The receive timeout of the socket: NetworkException, message_id_ stays.
Timeout ==
    /\ pc = "wait"
    /\ socket = <<>>
    /\ latest = message_id_
    /\ pc' = "idle"
    /\ UNCHANGED <<netVars, logs, message_id_, latest, owed, log>>

\* startMotion and a motion error flush the log.
Flush ==
    /\ pc = "idle"
    /\ log' = <<>>
    /\ UNCHANGED <<netVars, pc, logs, message_id_, latest, owed>>

Next ==
    \/ Send \/ Deliver \/ Lose
    \/ Construct \/ Update \/ ReadOnce \/ Discard \/ Drain \/ Wait \/ Timeout \/ Flush

Spec == Init /\ [][Next]_vars

---------------------------------------------------------------------------
(* Reordered, repeated and lost states never make the caller see a state   *)
(* twice or go back in time (robot_impl.cpp:161-183).                      *)
Stream == INSTANCE LatestState WITH seen <- message_id_

ImplementsLatestState == Stream!Spec

(* update() returns a state that is at least as new as every state that    *)
(* waited in the socket when it was called, in whatever order they waited, *)
(* also when it ends with a timeout (robot_impl.cpp:161-183).              *)
AcceptsNewest == pc = "idle" => \A n \in owed : message_id_ >= n

(* The number of lost packets createControlException computes from the     *)
(* last two records, in uint64_t, does not wrap (robot_impl.cpp:24-26).    *)
lost_packets == log[2] - log[1] - 1
LostPacketsDoNotWrap == Len(log) = 2 => lost_packets >= 0
===========================================================================
