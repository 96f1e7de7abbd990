------------------------------ MODULE Network -----------------------------
(***************************************************************************)
(* The TCP half of franka::Network.  Threads share one connection: each    *)
(* sends its request and then waits for, or polls for, the response with   *)
(* its command id.  Whichever thread holds tcp_mutex_ reads what has       *)
(* arrived, part of a message or one whole message per pass, and puts      *)
(* complete responses into received_responses_ for whoever asked.          *)
(*                                                                         *)
(* A message on the connection is a header and then BodySize more pieces;  *)
(* how many pieces have arrived is up to the network.                      *)
(***************************************************************************)
EXTENDS Integers, Sequences

CONSTANTS Thread,       \* the threads that use the connection
          Nobody,       \* no thread
          MaxCommands,  \* bound: requests in a behaviour
          BodySize,     \* pieces of a response after its header
          Moves,        \* the ids of the requests that are a Move, which gets two responses
          MayFail       \* whether the connection can be lost

ASSUME ThreadAssumption == Nobody \notin Thread
ASSUME SizeAssumption == BodySize \in Nat /\ MaxCommands \in Nat /\ Moves \subseteq Nat
ASSUME FailAssumption == MayFail \in BOOLEAN

CommandId == 0 .. (MaxCommands - 1)
MaxAnswers(id) == IF id \in Moves THEN 2 ELSE 1
Message == [id : CommandId, no : 1 .. 2]
None == [id |-> -1, no |-> 0]            \* no response
MessageSize == 1 + BodySize

VARIABLES connection,              \* "open", "closed" by the robot, or "reset"
          incoming,                \* responses not yet read to their end, in order
          arrived,                 \* pieces of them that can be read now
          answers,                 \* how many responses each request has got
          tcp_mutex_,              \* the thread that holds it
          command_id_,
          pending_response_,       \* the message being read, None if there is none
          pending_response_offset_,
          received_responses_,
          pc,                      \* what each thread does
          request                  \* the command id each thread asks for

robotVars == <<connection, incoming, arrived, answers>>
vars == <<robotVars, tcp_mutex_, command_id_, pending_response_, pending_response_offset_,
          received_responses_, pc, request>>

TypeOK ==
    /\ connection \in {"open", "closed", "reset"}
    /\ incoming \in Seq(Message)
    /\ arrived \in Nat
    /\ answers \in [CommandId -> 0 .. 2]
    /\ tcp_mutex_ \in Thread \cup {Nobody}
    /\ command_id_ \in 0 .. MaxCommands
    /\ pending_response_ \in Message \cup {None}
    /\ pending_response_offset_ \in 0 .. MessageSize
    /\ received_responses_ \in [CommandId -> Message \cup {None}]
    /\ pc \in [Thread -> {"idle", "lock", "read", "take", "poll", "polling", "handle"}]
    /\ request \in [Thread -> CommandId \cup {-1}]

Init ==
    /\ connection = "open"
    /\ incoming = <<>>
    /\ arrived = 0
    /\ answers = [id \in CommandId |-> 0]
    /\ tcp_mutex_ = Nobody
    /\ command_id_ = 0
    /\ pending_response_ = None
    /\ pending_response_offset_ = 0
    /\ received_responses_ = [id \in CommandId |-> None]
    /\ pc = [t \in Thread |-> "idle"]
    /\ request = [t \in Thread |-> -1]

---------------------------------------------------------------------------
(* The other end of the connection.                                        *)

Unread == Len(incoming) * MessageSize - pending_response_offset_

Respond(id) ==
    /\ connection = "open"
    /\ id < command_id_
    /\ answers[id] < MaxAnswers(id)
    /\ answers' = [answers EXCEPT ![id] = @ + 1]
    /\ incoming' = Append(incoming, [id |-> id, no |-> answers'[id]])
    /\ UNCHANGED <<connection, arrived, tcp_mutex_, command_id_, pending_response_,
                   pending_response_offset_, received_responses_, pc, request>>

Arrive ==
    /\ connection # "reset"
    /\ arrived < Unread
    /\ arrived' = arrived + 1
    /\ UNCHANGED <<connection, incoming, answers, tcp_mutex_, command_id_, pending_response_,
                   pending_response_offset_, received_responses_, pc, request>>

\* The robot closes the connection, and a closed connection is reset once
\* the client writes to it or the keepalive probes fail (network.cpp:22-30).
Close ==
    /\ MayFail
    /\ connection = "open"
    /\ connection' = "closed"
    /\ UNCHANGED <<incoming, arrived, answers, tcp_mutex_, command_id_, pending_response_,
                   pending_response_offset_, received_responses_, pc, request>>

Reset ==
    /\ connection = "closed"
    /\ connection' = "reset"
    /\ UNCHANGED <<incoming, arrived, answers, tcp_mutex_, command_id_, pending_response_,
                   pending_response_offset_, received_responses_, pc, request>>

---------------------------------------------------------------------------
(* tcpReadFromBuffer: a header if no message is being read and a header    *)
(* has arrived, then as much of the body as has arrived and is missing.    *)
NewHeader == pending_response_ = None /\ arrived > 0
Reading == IF NewHeader THEN Head(incoming) ELSE pending_response_
Offset == IF NewHeader THEN 1 ELSE pending_response_offset_
Rest == IF NewHeader THEN arrived - 1 ELSE arrived

\* Mutant of Taken: all that has arrived is read into the pending message.
Taken_All == Rest

Taken == IF Rest < MessageSize - Offset THEN Rest ELSE MessageSize - Offset
Complete == arrived > 0 /\ Offset + Taken = MessageSize

\* Mutant of AfterPass: a complete message replaces the one under its id.
AfterPass_Overwrites ==
    IF ~Complete THEN received_responses_
    ELSE [received_responses_ EXCEPT ![Reading.id] = Reading]

\* Mutant of AfterPass: the thread that reads drops what it did not ask for.
AfterPass_DropsOthers ==
    IF ~Complete \/ request[tcp_mutex_] # Reading.id THEN received_responses_
    ELSE [received_responses_ EXCEPT ![Reading.id] = Reading]

\* received_responses_ after the pass: emplace keeps an earlier response.
AfterPass ==
    IF ~Complete \/ received_responses_[Reading.id] # None THEN received_responses_
    ELSE [received_responses_ EXCEPT ![Reading.id] = Reading]

ReadFromBuffer ==
    IF arrived = 0
    THEN UNCHANGED <<incoming, arrived, pending_response_, pending_response_offset_>>
    ELSE /\ arrived' = Rest - Taken
         /\ incoming' = IF Complete THEN Tail(incoming) ELSE incoming
         /\ pending_response_' = IF Complete THEN None ELSE Reading
         /\ pending_response_offset_' = IF Complete THEN 0 ELSE Offset + Taken

\* t is done with its request, by return or exception.
Idle(t) ==
    /\ pc' = [pc EXCEPT ![t] = "idle"]
    /\ request' = [request EXCEPT ![t] = -1]

---------------------------------------------------------------------------
\* tcpSendRequest, before tcpBlockingReceiveResponse ("lock") or a loop that
\* calls tcpReceiveResponse ("poll").
SendRequest(t) ==
    /\ pc[t] = "idle"
    /\ tcp_mutex_ = Nobody
    /\ command_id_ < MaxCommands
    /\ command_id_' = command_id_ + 1
    /\ request' = [request EXCEPT ![t] = command_id_]
    /\ \E p \in {"lock", "poll"} : pc' = [pc EXCEPT ![t] = p]
    /\ UNCHANGED <<robotVars, tcp_mutex_, pending_response_, pending_response_offset_,
                   received_responses_>>

\* lock.lock() and a try_lock that succeeds; one that fails changes nothing.
Lock(t) ==
    /\ pc[t] \in {"lock", "poll"}
    /\ tcp_mutex_ = Nobody
    /\ tcp_mutex_' = t
    /\ pc' = [pc EXCEPT ![t] = IF pc[t] = "lock" THEN "read" ELSE "polling"]
    /\ UNCHANGED <<robotVars, command_id_, pending_response_, pending_response_offset_,
                   received_responses_, request>>

\* The socket has an error: NetworkException, and the lock is released.
Fail(t) ==
    /\ pc[t] \in {"read", "polling"}
    /\ connection = "reset"
    /\ tcp_mutex_' = Nobody
    /\ Idle(t)
    /\ UNCHANGED <<robotVars, command_id_, pending_response_, pending_response_offset_,
                   received_responses_>>

\* Mutant of BlockingPass: the lock is released only when the response was found.
BlockingPass_HoldsLock(t) ==
    /\ pc[t] = "read"
    /\ connection # "reset"
    /\ ReadFromBuffer
    /\ received_responses_' = AfterPass
    /\ tcp_mutex_' = IF AfterPass[request[t]] = None THEN t ELSE Nobody
    /\ pc' = [pc EXCEPT ![t] = IF AfterPass[request[t]] = None THEN "lock" ELSE "take"]
    /\ UNCHANGED <<connection, answers, command_id_, request>>

\* One round of tcpBlockingReceiveResponse: read, find, unlock.
BlockingPass(t) ==
    /\ pc[t] = "read"
    /\ connection # "reset"
    /\ ReadFromBuffer
    /\ received_responses_' = AfterPass
    /\ tcp_mutex_' = Nobody
    /\ pc' = [pc EXCEPT ![t] = IF AfterPass[request[t]] = None THEN "lock" ELSE "take"]
    /\ UNCHANGED <<connection, answers, command_id_, request>>

\* What follows the loop, without the lock: the response is copied through
\* the iterator and erased.
Erase(t) ==
    /\ pc[t] = "take"
    /\ received_responses_' = [received_responses_ EXCEPT ![request[t]] = None]
    /\ Idle(t)
    /\ UNCHANGED <<robotVars, tcp_mutex_, command_id_, pending_response_,
                   pending_response_offset_>>

\* tcpReceiveResponse under its lock: read and find ...
PollingPass(t) ==
    /\ pc[t] = "polling"
    /\ connection # "reset"
    /\ ReadFromBuffer
    /\ received_responses_' = AfterPass
    /\ IF AfterPass[request[t]] = None
       THEN pc' = [pc EXCEPT ![t] = "poll"] /\ tcp_mutex_' = Nobody
       ELSE pc' = [pc EXCEPT ![t] = "handle"] /\ UNCHANGED tcp_mutex_
    /\ UNCHANGED <<connection, answers, command_id_, request>>

\* ... and call the handler.  If it throws, the response stays in the map.
Handle(t) ==
    /\ pc[t] = "handle"
    /\ \/ received_responses_' = [received_responses_ EXCEPT ![request[t]] = None]
       \/ UNCHANGED received_responses_
    /\ tcp_mutex_' = Nobody
    /\ Idle(t)
    /\ UNCHANGED <<robotVars, command_id_, pending_response_, pending_response_offset_>>

\* tcpThrowIfConnectionClosed between two polls: everything the robot sent
\* has been read and the connection is at its end.
ThrowIfConnectionClosed(t) ==
    /\ pc[t] = "poll"
    /\ tcp_mutex_ = Nobody
    /\ connection \in {"closed", "reset"}
    /\ Unread = 0
    /\ Idle(t)
    /\ UNCHANGED <<robotVars, tcp_mutex_, command_id_, pending_response_,
                   pending_response_offset_, received_responses_>>

Next ==
    \/ \E id \in CommandId : Respond(id)
    \/ Arrive \/ Close \/ Reset
    \/ \E t \in Thread :
          \/ SendRequest(t) \/ Lock(t) \/ Fail(t) \/ BlockingPass(t) \/ Erase(t)
          \/ PollingPass(t) \/ Handle(t) \/ ThrowIfConnectionClosed(t)

Spec == Init /\ [][Next]_vars

\* The robot answers each request once at least, TCP delivers, a connection
\* the robot closed is reset in the end, and no thread leaves a lock that is
\* free to be taken untaken for ever.
Fairness ==
    /\ \A id \in CommandId : WF_vars(Respond(id) /\ answers[id] = 0)
    /\ WF_vars(Arrive)
    /\ WF_vars(Reset)
    /\ \A t \in Thread :
          /\ WF_vars(Lock(t))
          /\ WF_vars(Fail(t) \/ BlockingPass(t) \/ Erase(t) \/ PollingPass(t) \/ Handle(t))

FairSpec == Spec /\ Fairness

---------------------------------------------------------------------------
(* Piecewise reading by several threads into one pending_response_ is, to  *)
(* those who wait, a mailbox that whole responses are delivered to in the  *)
(* order of the connection (network.h:149-187, 206-259).                   *)
Mailbox == INSTANCE ResponseMailbox WITH
    Id <- CommandId, wire <- incoming, mailbox <- received_responses_

ImplementsMailbox == Mailbox!Spec

(* A response is never read past or thrown away by a thread that asked for *)
(* another one: while its own thread waits, the first response is still on *)
(* the connection or in the map, with its number, not a later one.         *)
WaitedForIsKept ==
    \A t \in Thread : pc[t] \in {"lock", "read", "poll", "polling"} =>
        LET first == [id |-> request[t], no |-> 1] IN
        answers[request[t]] > 0 =>
            \/ received_responses_[request[t]] = first
            \/ \E i \in DOMAIN incoming : incoming[i] = first

(* Each request is answered or fails, whichever thread gets the lock when, *)
(* and also if the connection is lost meanwhile.                           *)
EveryRequestEnds == \A t \in Thread : pc[t] # "idle" ~> pc[t] = "idle"

(* "The members of this class are threadsafe" (robot.h:32): no thread uses *)
(* received_responses_ outside the lock (the dereference and the erase     *)
(* after the loop, network.h:244-257) while another one reads, fills or    *)
(* erases from it.                                                         *)
MembersAreThreadsafe ==
    \A t, u \in Thread : t # u /\ pc[t] = "take" => pc[u] \notin {"read", "polling", "handle", "take"}
===========================================================================
