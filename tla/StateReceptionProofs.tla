------------------------ MODULE StateReceptionProofs -----------------------
(***************************************************************************)
(* StateReception, for any number of states and any socket: the states     *)
(* Robot::Impl accepts form the stream LatestState describes, update()     *)
(* returns the newest of what waited, and lost_packets does not wrap.      *)
(***************************************************************************)
EXTENDS StateReception, SequenceTheorems, TLAPS

\* Nothing is received that was not sent.
FromRobot ==
    /\ flying \subseteq 1 .. sent
    /\ \A i \in DOMAIN socket : socket[i] <= sent
    /\ message_id_ <= sent
    /\ latest <= sent

\* Within a call the accepted state is never older than message_id_.
Advancing == pc \in {"drain", "wait"} => message_id_ <= latest

\* What waited when update() was called is still in the socket, or older
\* than what was accepted.
Owing ==
    /\ pc = "drain" => \A n \in owed : n <= latest \/ \E i \in DOMAIN socket : socket[i] = n
    /\ pc = "wait" => \A n \in owed : n <= latest
    /\ pc \in {"new", "discard"} => owed = {}
    /\ pc = "idle" => \A n \in owed : n <= message_id_

\* The log grows with the states, and starts after the first of them.
LogAscends ==
    /\ pc = "new" => message_id_ = 0 /\ log = <<>>
    /\ \A i \in DOMAIN log : log[i] <= message_id_
    /\ Len(log) = 2 => log[1] < log[2]

IInv == TypeOK /\ FromRobot /\ Advancing /\ Owing /\ LogAscends

---------------------------------------------------------------------------
THEOREM InitInvariant == Init => IInv
<1>. SUFFICES ASSUME Init PROVE IInv
  OBVIOUS
<1>. USE BoundAssumption DEF Init, Id
<1>1. TypeOK
  <2>1. <<>> \in Seq(Id) /\ Len(<<>>) = 0
    OBVIOUS
  <2>2. socket \in Seq(Id) /\ log \in Seq(Id) /\ Len(log) <= 2
    BY <2>1
  <2>3. /\ sent \in 0 .. MaxStates /\ message_id_ \in 0 .. MaxStates
        /\ latest \in 0 .. MaxStates
    OBVIOUS
  <2>4. flying \in SUBSET Id /\ owed \in SUBSET Id
    OBVIOUS
  <2>. QED BY <2>2, <2>3, <2>4 DEF TypeOK
<1>2. FromRobot /\ Advancing /\ Owing /\ LogAscends
  BY DEF FromRobot, Advancing, Owing, LogAscends
<1>. QED BY <1>1, <1>2 DEF IInv

\* One step of update()'s loops: the head of the socket is looked at.
LEMMA ReadStateAccepts ==
    ASSUME TypeOK, FromRobot, ReadState
    PROVE  /\ socket' \in Seq(Id)
           /\ \A i \in DOMAIN socket' : socket'[i] <= sent
           /\ latest' \in 0 .. MaxStates
           /\ latest' <= sent
           /\ latest <= latest'
           /\ Head(socket) <= latest'
           /\ \A i \in DOMAIN socket :
                 socket[i] <= latest' \/ \E j \in DOMAIN socket' : socket'[j] = socket[i]
<1>. USE BoundAssumption DEF Id
<1>1. /\ socket \in Seq(Id) /\ socket # <<>>
      /\ socket' = Tail(socket) /\ Head(socket) = socket[1] /\ Len(socket) \in Nat \ {0}
  BY DEF ReadState, TypeOK
<1>2. /\ socket' \in Seq(Id)
      /\ DOMAIN socket' = 1 .. (Len(socket) - 1)
      /\ \A j \in 1 .. (Len(socket) - 1) : socket'[j] = socket[j + 1]
  BY <1>1
<1>3. Head(socket) \in Id /\ Head(socket) <= sent
  BY <1>1 DEF FromRobot
<1>4. /\ latest' \in 0 .. MaxStates /\ latest' <= sent
      /\ latest <= latest' /\ Head(socket) <= latest'
  BY <1>3 DEF TypeOK, FromRobot, ReadState, Accept
<1>5. \A i \in DOMAIN socket' : socket'[i] <= sent
  BY <1>1, <1>2 DEF FromRobot
<1>6. ASSUME NEW i \in DOMAIN socket
      PROVE  socket[i] <= latest' \/ \E j \in DOMAIN socket' : socket'[j] = socket[i]
  <2>1. CASE i = 1
    BY <1>1, <1>4, <2>1
  <2>2. CASE i # 1
    <3>1. i - 1 \in DOMAIN socket' /\ socket'[i - 1] = socket[i]
      BY <1>1, <1>2, <2>2
    <3>. QED BY <3>1
  <2>. QED BY <2>1, <2>2
<1>. QED BY <1>2, <1>4, <1>5, <1>6

\* The end of receiveRobotState, with a state newer than message_id_.
LEMMA AcceptedKeepsLog ==
    ASSUME TypeOK, FromRobot, LogAscends, Accepted,
           message_id_ <= latest, latest # message_id_, pc # "new"
    PROVE  /\ log' \in Seq(Id) /\ Len(log') <= 2
           /\ \A i \in DOMAIN log' : log'[i] <= latest
           /\ Len(log') = 2 => log'[1] < log'[2]
<1>. USE BoundAssumption DEF Id
<1>1. /\ latest \in Id /\ message_id_ < latest
      /\ log \in Seq(Id) /\ Len(log) \in {0, 1, 2}
      /\ \A i \in 1 .. Len(log) : log[i] \in Id /\ log[i] <= message_id_
  <2>1. log \in Seq(Id) /\ Len(log) <= 2 /\ latest \in 0 .. MaxStates
        /\ message_id_ \in 0 .. MaxStates
    BY DEF TypeOK
  <2>2. latest \in Id /\ message_id_ < latest
    BY <2>1
  <2>3. Len(log) \in Nat /\ DOMAIN log = 1 .. Len(log)
    BY <2>1
  <2>4. \A i \in 1 .. Len(log) : log[i] \in Id /\ log[i] <= message_id_
    BY <2>1, <2>3 DEF LogAscends
  <2>5. Len(log) \in {0, 1, 2}
    BY <2>1, <2>3
  <2>. QED BY <2>1, <2>2, <2>4, <2>5
<1>2. CASE ~logs
  <2>1. log' = log
    BY <1>2 DEF Accepted
  <2>2. \A i \in DOMAIN log : log[i] \in Int /\ log[i] <= latest
    <3>1. DOMAIN log = 1 .. Len(log) /\ latest \in Int /\ message_id_ \in Int
      BY <1>1 DEF TypeOK
    <3>. QED BY <1>1, <3>1
  <2>3. Len(log) = 2 => log[1] < log[2]
    BY DEF LogAscends
  <2>. QED BY <1>1, <2>1, <2>2, <2>3
<1>3. CASE logs /\ Len(log) = 0
  <2>1. log' = Append(log, latest)
    BY <1>3 DEF Accepted
  <2>2. log' \in Seq(Id) /\ Len(log') = 1 /\ log'[1] = latest
    BY <1>1, <1>3, <2>1
  <2>. QED BY <1>1, <2>2
<1>4. CASE logs /\ Len(log) = 1
  <2>1. log' = Append(log, latest)
    BY <1>4 DEF Accepted
  <2>2. log[1] \in Id /\ log[1] <= message_id_
    BY <1>1, <1>4
  <2>3. log' \in Seq(Id) /\ Len(log') = 2
    BY <1>1, <1>4, <2>1
  <2>4. log'[1] = log[1] /\ log'[2] = latest
    <3>1. \A i \in 1 .. Len(log) : Append(log, latest)[i] = log[i]
      BY <1>1, AppendProperties
    <3>2. Append(log, latest)[Len(log) + 1] = latest
      BY <1>1, AppendProperties
    <3>3. 1 \in 1 .. Len(log) /\ Len(log) + 1 = 2
      BY <1>4
    <3>4. log'[1] = log[1]
      BY <2>1, <3>1, <3>3
    <3>5. log'[2] = latest
      BY <2>1, <3>2, <3>3
    <3>. QED BY <3>4, <3>5
  <2>5. log'[1] < log'[2] /\ log'[1] <= latest
    BY <1>1, <2>2, <2>4 DEF TypeOK
  <2>6. DOMAIN log' = 1 .. 2
    BY <2>3
  <2>7. \A i \in 1 .. 2 : i = 1 \/ i = 2
    OBVIOUS
  <2>8. latest <= latest
    BY <1>1
  <2>9. \A i \in DOMAIN log' : log'[i] <= latest
    BY <2>4, <2>5, <2>6, <2>7, <2>8
  <2>10. log' \in Seq(Id) /\ Len(log') <= 2
    BY <2>3
  <2>. QED BY <2>5, <2>9, <2>10
<1>5. CASE logs /\ Len(log) = 2
  <2>1. log' = <<log[2], latest>>
    BY <1>5 DEF Accepted
  <2>2. log[2] \in Id /\ log[2] <= message_id_
    BY <1>1, <1>5
  <2>3. log' \in Seq(Id) /\ Len(log') = 2 /\ log'[1] = log[2] /\ log'[2] = latest
    BY <1>1, <2>1, <2>2
  <2>4. log'[1] < log'[2] /\ log'[1] <= latest /\ log'[2] <= latest
    BY <1>1, <2>2, <2>3 DEF TypeOK
  <2>5. DOMAIN log' = 1 .. 2 /\ \A i \in 1 .. 2 : i = 1 \/ i = 2
    BY <2>3
  <2>6. \A i \in DOMAIN log' : log'[i] <= latest
    BY <2>4, <2>5
  <2>7. log' \in Seq(Id) /\ Len(log') <= 2
    BY <2>3
  <2>. QED BY <2>4, <2>6, <2>7
<1>. QED BY <1>1, <1>2, <1>3, <1>4, <1>5

\* IInv is inductive.
THEOREM NextInvariant == IInv /\ [Next]_vars => IInv'
<1>. SUFFICES ASSUME IInv, [Next]_vars PROVE IInv'
  OBVIOUS
<1>. USE BoundAssumption DEF Id
<1>1. CASE Send
  <2>1. sent' \in 0 .. MaxStates /\ sent' = sent + 1 /\ sent' \in Id
    BY <1>1 DEF Send, IInv, TypeOK
  <2>2. flying' \subseteq 1 .. sent' /\ flying' \in SUBSET Id
    BY <1>1, <2>1 DEF Send, IInv, TypeOK, FromRobot
  <2>3. TypeOK'
    BY <1>1, <2>1, <2>2 DEF Send, IInv, TypeOK
  <2>4. FromRobot'
    BY <1>1, <2>1, <2>2 DEF Send, IInv, TypeOK, FromRobot
  <2>5. Advancing' /\ Owing' /\ LogAscends'
    BY <1>1 DEF Send, IInv, Advancing, Owing, LogAscends
  <2>. QED BY <2>3, <2>4, <2>5 DEF IInv
<1>2. CASE Deliver
  <2>1. PICK id \in flying : socket' = Append(socket, id) /\ flying' \subseteq flying
    BY <1>2 DEF Deliver
  <2>2. id \in Id /\ id <= sent /\ socket \in Seq(Id)
    BY <2>1 DEF IInv, TypeOK, FromRobot
  <2>3. /\ socket' \in Seq(Id)
        /\ \A i \in DOMAIN socket : i \in DOMAIN socket' /\ socket'[i] = socket[i]
        /\ \A i \in DOMAIN socket' : i \in DOMAIN socket \/ socket'[i] = id
    BY <2>1, <2>2
  <2>4. TypeOK' /\ FromRobot'
    BY <1>2, <2>1, <2>2, <2>3 DEF Deliver, IInv, TypeOK, FromRobot
  <2>5. Owing'
    BY <1>2, <2>3 DEF Deliver, IInv, Owing
  <2>6. Advancing' /\ LogAscends'
    BY <1>2 DEF Deliver, IInv, Advancing, LogAscends
  <2>. QED BY <2>4, <2>5, <2>6 DEF IInv
<1>3. CASE Lose
  <2>1. flying' \subseteq flying
    BY <1>3 DEF Lose
  <2>2. TypeOK' /\ FromRobot'
    BY <1>3, <2>1 DEF Lose, IInv, TypeOK, FromRobot
  <2>3. Advancing' /\ Owing' /\ LogAscends'
    BY <1>3 DEF Lose, IInv, Advancing, Owing, LogAscends
  <2>. QED BY <2>2, <2>3 DEF IInv
<1>4. CASE Construct
  <2>1. /\ Head(socket) \in Id /\ Head(socket) <= sent /\ socket' \in Seq(Id)
        /\ \A i \in DOMAIN socket' : socket'[i] <= sent
    <3>1. socket \in Seq(Id) /\ socket # <<>> /\ socket' = Tail(socket)
      BY <1>4 DEF Construct, IInv, TypeOK
    <3>2. \A i \in DOMAIN socket : socket[i] <= sent
      BY DEF IInv, FromRobot
    <3>3. Head(socket) = socket[1] /\ 1 \in DOMAIN socket
      BY <3>1
    <3>4. \A i \in DOMAIN socket' : i + 1 \in DOMAIN socket /\ socket'[i] = socket[i + 1]
      BY <3>1
    <3>5. socket' \in Seq(Id)
      BY <3>1
    <3>. QED BY <3>1, <3>2, <3>3, <3>4, <3>5
  <2>2. TypeOK' /\ FromRobot'
    BY <1>4, <2>1 DEF Construct, IInv, TypeOK, FromRobot
  <2>3. log = <<>> /\ owed = {}
    BY <1>4 DEF Construct, IInv, LogAscends, Owing
  <2>4. Advancing' /\ Owing' /\ LogAscends'
    BY <1>4, <2>3 DEF Construct, Advancing, Owing, LogAscends
  <2>. QED BY <2>2, <2>4 DEF IInv
<1>5. CASE Update
  <2>1. \A n \in owed' : n \in Id /\ \E i \in DOMAIN socket : socket[i] = n
    BY <1>5 DEF Update, Waiting, IInv, TypeOK
  <2>2. TypeOK' /\ FromRobot' /\ Advancing'
    BY <1>5, <2>1 DEF Update, Receive, netVars, IInv, TypeOK, FromRobot, Advancing
  <2>3. Owing' /\ LogAscends'
    BY <1>5, <2>1 DEF Update, Receive, netVars, IInv, Owing, LogAscends
  <2>. QED BY <2>2, <2>3 DEF IInv
<1>6. CASE ReadOnce
  BY <1>6 DEF ReadOnce, netVars, IInv, TypeOK, FromRobot, Advancing, Owing, LogAscends
<1>7. CASE Discard
  <2>1. owed = {} /\ owed' = {}
    BY <1>7 DEF Discard, IInv, Owing
  <2>2. /\ socket' \in Seq(Id)
        /\ \A i \in DOMAIN socket' : socket'[i] <= sent
    <3>1. CASE socket = <<>>
      BY <1>7, <3>1 DEF Discard, IInv, TypeOK, FromRobot
    <3>2. CASE socket # <<>>
      <4>1. socket \in Seq(Id) /\ socket' = Tail(socket)
        BY <1>7, <3>2 DEF Discard, IInv, TypeOK
      <4>2. \A i \in DOMAIN socket' : i + 1 \in DOMAIN socket /\ socket'[i] = socket[i + 1]
        BY <3>2, <4>1
      <4>. QED BY <3>2, <4>1, <4>2 DEF IInv, FromRobot
    <3>. QED BY <3>1, <3>2
  <2>3. TypeOK' /\ FromRobot'
    BY <1>7, <2>2 DEF Discard, Receive, IInv, TypeOK, FromRobot
  <2>4. Advancing' /\ Owing' /\ LogAscends'
    BY <1>7, <2>1 DEF Discard, Receive, IInv, TypeOK, Advancing, Owing, LogAscends
  <2>. QED BY <2>3, <2>4 DEF IInv
<1>8. CASE Drain
  <2>1. CASE ReadState /\ UNCHANGED <<sent, flying, pc, logs, message_id_, owed, log>>
    <3>1. TypeOK' /\ FromRobot' /\ Advancing'
      BY <2>1, ReadStateAccepts DEF IInv, TypeOK, FromRobot, Advancing
    <3>2. Owing'
      <4>1. pc' = "drain" /\ owed' = owed
        BY <1>8, <2>1 DEF Drain
      <4>2. ASSUME NEW n \in owed
            PROVE  n <= latest' \/ \E i \in DOMAIN socket' : socket'[i] = n
        <5>1. n \in Int /\ latest \in Int /\ latest' \in Int /\ latest <= latest'
          BY <2>1, ReadStateAccepts DEF IInv, TypeOK
        <5>2. n <= latest \/ \E i \in DOMAIN socket : socket[i] = n
          BY <1>8 DEF IInv, Owing, Drain
        <5>. QED BY <2>1, <5>1, <5>2, ReadStateAccepts DEF IInv
      <4>. QED BY <4>1, <4>2 DEF Owing
    <3>3. LogAscends'
      BY <2>1 DEF IInv, LogAscends
    <3>. QED BY <3>1, <3>2, <3>3 DEF IInv
  <2>2. CASE socket = <<>> /\ latest # message_id_ /\ Accepted
    <3>1. pc = "drain" /\ message_id_ <= latest /\ \A n \in owed : n <= latest
      BY <1>8, <2>2 DEF Drain, IInv, Advancing, Owing
    <3>2. TypeOK' /\ FromRobot' /\ Advancing' /\ Owing'
      BY <2>2, <3>1, AcceptedKeepsLog
      DEF Accepted, netVars, IInv, TypeOK, FromRobot, Advancing, Owing
    <3>3. LogAscends'
      BY <2>2, <3>1, AcceptedKeepsLog DEF Accepted, IInv, LogAscends
    <3>. QED BY <3>2, <3>3 DEF IInv
  <2>3. CASE /\ socket = <<>> /\ latest = message_id_
             /\ pc' = "wait"
             /\ UNCHANGED <<netVars, logs, message_id_, latest, owed, log>>
    BY <1>8, <2>3 DEF Drain, netVars, IInv, TypeOK, FromRobot, Advancing, Owing, LogAscends
  <2>. QED BY <1>8, <2>1, <2>2, <2>3 DEF Drain
<1>9. CASE Wait
  <2>1. CASE latest # message_id_ /\ Accepted
    <3>1. pc = "wait" /\ message_id_ <= latest /\ \A n \in owed : n <= latest
      BY <1>9 DEF Wait, IInv, Advancing, Owing
    <3>2. TypeOK' /\ FromRobot' /\ Advancing' /\ Owing'
      BY <2>1, <3>1, AcceptedKeepsLog
      DEF Accepted, netVars, IInv, TypeOK, FromRobot, Advancing, Owing
    <3>3. LogAscends'
      BY <2>1, <3>1, AcceptedKeepsLog DEF Accepted, IInv, LogAscends
    <3>. QED BY <3>2, <3>3 DEF IInv
  <2>2. CASE ReadState /\ UNCHANGED <<sent, flying, pc, logs, message_id_, owed, log>>
    <3>1. TypeOK' /\ FromRobot' /\ Advancing'
      BY <2>2, ReadStateAccepts DEF IInv, TypeOK, FromRobot, Advancing
    <3>2. Owing'
      <4>1. pc' = "wait" /\ owed' = owed /\ \A n \in owed : n <= latest
        BY <1>9, <2>2 DEF Wait, IInv, Owing
      <4>2. \A n \in owed : n <= latest'
        BY <2>2, <4>1, ReadStateAccepts DEF IInv, TypeOK
      <4>. QED BY <4>1, <4>2 DEF Owing
    <3>3. LogAscends'
      BY <2>2 DEF IInv, LogAscends
    <3>. QED BY <3>1, <3>2, <3>3 DEF IInv
  <2>. QED BY <1>9, <2>1, <2>2 DEF Wait
<1>10. CASE Timeout
  BY <1>10 DEF Timeout, netVars, IInv, TypeOK, FromRobot, Advancing, Owing, LogAscends
<1>11. CASE Flush
  <2>1. log' = <<>> /\ log' \in Seq(Id) /\ Len(log') = 0
    BY <1>11 DEF Flush
  <2>2. TypeOK' /\ FromRobot'
    BY <1>11, <2>1 DEF Flush, netVars, IInv, TypeOK, FromRobot
  <2>3. Advancing' /\ Owing' /\ LogAscends'
    BY <1>11, <2>1 DEF Flush, netVars, IInv, Advancing, Owing, LogAscends
  <2>. QED BY <2>2, <2>3 DEF IInv
<1>12. CASE UNCHANGED vars
  BY <1>12 DEF vars, netVars, IInv, TypeOK, FromRobot, Advancing, Owing, LogAscends
<1>. QED
  BY <1>1, <1>2, <1>3, <1>4, <1>5, <1>6, <1>7, <1>8, <1>9, <1>10, <1>11, <1>12 DEF Next

THEOREM InvariantHolds == Spec => []IInv
<1>. QED BY InitInvariant, NextInvariant, PTL DEF Spec

---------------------------------------------------------------------------
(* The variables stay in their types: no id is ever accepted that the      *)
(* robot did not send (updateState, robot_impl.cpp:185).                   *)
THEOREM TypeCorrect == Spec => []TypeOK
<1>1. IInv => TypeOK
  BY DEF IInv
<1>. QED BY <1>1, InvariantHolds, PTL

(* update() returns a state at least as new as all that waited for it      *)
(* (receiveRobotState, robot_impl.cpp:161).                                *)
THEOREM UpdateAcceptsNewest == Spec => []AcceptsNewest
<1>1. IInv => AcceptsNewest
  BY BoundAssumption DEF IInv, TypeOK, Id, Owing, AcceptsNewest
<1>. QED BY <1>1, InvariantHolds, PTL

(* lost_packets is not negative, so its uint64_t difference does not wrap  *)
(* (createControlException, robot_impl.cpp:25).                            *)
THEOREM LostPacketsAreCounted == Spec => []LostPacketsDoNotWrap
<1>1. IInv => LostPacketsDoNotWrap
  <2>. SUFFICES ASSUME IInv, Len(log) = 2 PROVE lost_packets >= 0
    BY DEF LostPacketsDoNotWrap
  <2>1. log[1] \in Id /\ log[2] \in Id /\ log[1] < log[2]
    <3>1. log \in Seq(Id) /\ log[1] < log[2]
      BY DEF IInv, TypeOK, LogAscends
    <3>. QED BY <3>1
  <2>2. log[1] \in Nat /\ log[2] \in Nat
    BY <2>1, BoundAssumption DEF Id
  <2>. QED BY <2>1, <2>2 DEF lost_packets
<1>. QED BY <1>1, InvariantHolds, PTL

---------------------------------------------------------------------------
\* A step that accepts a state shows the caller one it has not seen.
LEMMA AcceptedIsSeen ==
    ASSUME IInv, Accepted, message_id_ <= latest, latest # message_id_
    PROVE  Stream!See
<1>1. message_id_' \in (message_id_ + 1) .. sent /\ sent' = sent
  BY BoundAssumption DEF IInv, TypeOK, FromRobot, Accepted, netVars
<1>. QED BY <1>1 DEF Stream!See

(* Whatever the network does with them, the states that Robot::Impl        *)
(* accepts are a stream of ever newer states of the robot: the detailed    *)
(* specification implements LatestState (robot_impl.cpp:88-95, 161-190).   *)
THEOREM AcceptedStatesAreAStream == Spec => ImplementsLatestState
<1>1. Init => Stream!Init
  BY DEF Init, Stream!Init
<1>2. IInv /\ [Next]_vars => [Stream!Next]_(Stream!vars)
  <2>. SUFFICES ASSUME IInv, [Next]_vars PROVE [Stream!Next]_(Stream!vars)
    OBVIOUS
  <2>. USE DEF Stream!Next, Stream!vars
  <2>1. CASE Send
    BY <2>1 DEF Send, Stream!Send
  <2>2. CASE Construct
    <3>1. message_id_ = 0 /\ socket # <<>> /\ socket \in Seq(Id)
      BY <2>2 DEF Construct, IInv, LogAscends, TypeOK
    <3>2. Head(socket) = socket[1] /\ 1 \in DOMAIN socket /\ socket[1] \in Id
      BY <3>1
    <3>3. message_id_' \in (message_id_ + 1) .. sent
      BY <2>2, <3>1, <3>2, BoundAssumption DEF Construct, IInv, TypeOK, FromRobot, Id
    <3>. QED BY <2>2, <3>3 DEF Construct, Stream!See
  <2>3. CASE Drain
    <3>1. message_id_ <= latest
      BY <2>3 DEF Drain, IInv, Advancing
    <3>. QED BY <2>3, <3>1, AcceptedIsSeen DEF Drain, ReadState, netVars
  <2>4. CASE Wait
    <3>1. message_id_ <= latest
      BY <2>4 DEF Wait, IInv, Advancing
    <3>. QED BY <2>4, <3>1, AcceptedIsSeen DEF Wait, ReadState
  <2>5. CASE Deliver \/ Lose \/ Update \/ ReadOnce \/ Discard \/ Timeout \/ Flush
    BY <2>5 DEF Deliver, Lose, Update, ReadOnce, Discard, Timeout, Flush, Receive, netVars
  <2>6. CASE UNCHANGED vars
    BY <2>6 DEF vars, netVars
  <2>. QED BY <2>1, <2>2, <2>3, <2>4, <2>5, <2>6 DEF Next
<1>. QED BY <1>1, <1>2, InvariantHolds, PTL DEF Spec, Stream!Spec, ImplementsLatestState
===========================================================================
