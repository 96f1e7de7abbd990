-------------------------- MODULE NetworkProofs ---------------------------
(***************************************************************************)
(* Network, for any number of threads, requests and pieces of a message:   *)
(* reading in pieces into the one pending_response_ implements a mailbox,  *)
(* and the response a thread waits for is never lost to another thread.    *)
(***************************************************************************)
EXTENDS Network, SequenceTheorems, TLAPS

\* pending_response_ is the response at the head of the connection, of which
\* a part and not all has been read, and no more has arrived than was sent.
PendingIsHead ==
    /\ pending_response_ = None => pending_response_offset_ = 0
    /\ pending_response_ # None =>
          /\ incoming # <<>>
          /\ pending_response_ = Head(incoming)
          /\ pending_response_offset_ \in 1 .. BodySize
    /\ arrived <= Unread

\* A thread that is not idle has a request of its own, sent before.
RequestsAreOwn ==
    /\ \A t \in Thread : pc[t] # "idle" => request[t] \in CommandId
    /\ \A t \in Thread : request[t] < command_id_
    /\ \A t, u \in Thread : t # u /\ pc[t] # "idle" /\ pc[u] # "idle" => request[t] # request[u]

\* Responses belong to requests that were sent.
ResponsesAreAnswers ==
    /\ \A id \in CommandId : answers[id] > 0 => id < command_id_
    /\ \A id \in CommandId : received_responses_[id] # None => answers[id] > 0
    /\ \A i \in DOMAIN incoming : answers[incoming[i].id] > 0

\* A thread that found its response does so with the response in the map.
FoundIsThere ==
    \A t \in Thread : pc[t] \in {"take", "handle"} => received_responses_[request[t]] # None

Waiting(t) == pc[t] \in {"lock", "read", "poll", "polling"}
First(id) == [id |-> id, no |-> 1]

\* The first response is in the map, or on the connection before all others
\* to the same request.
FirstComesFirst(id) ==
    /\ received_responses_[id] \in {None, First(id)}
    /\ answers[id] > 0 /\ received_responses_[id] = None =>
          \E i \in DOMAIN incoming :
              incoming[i] = First(id) /\ \A j \in 1 .. (i - 1) : incoming[j].id # id

WaitersGetFirst == \A t \in Thread : Waiting(t) => FirstComesFirst(request[t])

IInv == /\ TypeOK /\ PendingIsHead /\ RequestsAreOwn /\ ResponsesAreAnswers
        /\ FoundIsThere /\ WaitersGetFirst

---------------------------------------------------------------------------
(* Types.                                                                  *)

LEMMA MessageFacts ==
    /\ None \notin Message
    /\ \A m \in Message : m.id \in CommandId /\ m.no \in 1 .. 2
    /\ \A id \in CommandId : First(id) \in Message
BY SizeAssumption DEF None, Message, CommandId, First

LEMMA SizeFacts == MessageSize \in Nat /\ MessageSize = BodySize + 1 /\ BodySize \in Nat
BY SizeAssumption DEF MessageSize

\* The head of the connection is a message, and what remains is one shorter.
LEMMA HeadFacts ==
    ASSUME NEW s \in Seq(Message), s # <<>>
    PROVE  /\ Head(s) \in Message /\ Head(s) = s[1] /\ 1 \in DOMAIN s
           /\ Tail(s) \in Seq(Message) /\ Len(Tail(s)) = Len(s) - 1 /\ Len(s) >= 1
           /\ \A i \in DOMAIN Tail(s) : i + 1 \in DOMAIN s /\ Tail(s)[i] = s[i + 1]
           /\ \A i \in DOMAIN s : i # 1 => i - 1 \in DOMAIN Tail(s) /\ Tail(s)[i - 1] = s[i]
<1>1. /\ Head(s) = s[1] /\ Len(s) >= 1 /\ Len(s) \in Nat /\ DOMAIN s = 1 .. Len(s)
      /\ Tail(s) \in Seq(Message) /\ Len(Tail(s)) = Len(s) - 1
      /\ DOMAIN Tail(s) = 1 .. (Len(s) - 1)
  OBVIOUS
<1>2. \A i \in 1 .. (Len(s) - 1) : Tail(s)[i] = s[i + 1]
  OBVIOUS
<1>. QED BY <1>1, <1>2

\* Messages on the connection, in pieces.
LEMMA PiecesFacts ==
    ASSUME NEW n \in Nat, NEW k \in Nat
    PROVE  /\ n * k \in Nat
           /\ n = 0 => n * k = 0
           /\ (n + 1) * k = n * k + k
           /\ n >= 1 => (n - 1) * k = n * k - k
OBVIOUS

---------------------------------------------------------------------------
(* One pass of tcpReadFromBuffer (network.h:149-187).                      *)

\* What is read next is a part of the message at the head of the connection.
LEMMA ReadingIsHead ==
    ASSUME TypeOK, PendingIsHead, arrived > 0
    PROVE  /\ incoming # <<>>
           /\ Reading = Head(incoming)
           /\ Reading \in Message
           /\ Offset \in 1 .. MessageSize
           /\ Rest \in Nat
           /\ Taken \in Nat /\ Taken <= Rest /\ Offset + Taken <= MessageSize
           /\ Rest + Offset <= Len(incoming) * MessageSize
           /\ ~Complete => Taken = Rest /\ Offset + Taken \in 1 .. BodySize
<1>1. /\ incoming \in Seq(Message) /\ arrived \in Nat /\ Len(incoming) \in Nat
      /\ pending_response_offset_ \in 0 .. MessageSize
  BY DEF TypeOK
<1>2. incoming # <<>>
  <2>1. CASE pending_response_ # None
    BY <2>1 DEF PendingIsHead
  <2>2. CASE pending_response_ = None
    <3>1. Len(incoming) * MessageSize > 0
      BY <1>1, <2>2, SizeFacts DEF PendingIsHead, Unread
    <3>2. Len(incoming) # 0
      BY <3>1, <1>1, SizeFacts, PiecesFacts
    <3>. QED BY <3>2
  <2>. QED BY <2>1, <2>2
<1>3. Head(incoming) \in Message
  BY <1>1, <1>2, HeadFacts
<1>4. Reading = Head(incoming)
  BY DEF Reading, NewHeader, PendingIsHead
<1>5. Offset \in 1 .. MessageSize /\ Rest \in Nat
  BY <1>1, SizeFacts DEF Offset, Rest, NewHeader, PendingIsHead
<1>6. Rest + Offset <= Len(incoming) * MessageSize
  <2>1. Len(incoming) * MessageSize \in Nat
    BY <1>1, SizeFacts, PiecesFacts
  <2>2. arrived <= Len(incoming) * MessageSize - pending_response_offset_
    BY DEF PendingIsHead, Unread
  <2>. QED BY <2>1, <2>2, <1>1, SizeFacts DEF Offset, Rest, NewHeader, PendingIsHead
<1>7. Taken \in Nat /\ Taken <= Rest /\ Offset + Taken <= MessageSize
  BY <1>5, SizeFacts DEF Taken
<1>8. ~Complete => Taken = Rest /\ Offset + Taken \in 1 .. BodySize
  BY <1>5, <1>7, SizeFacts DEF Complete, Taken
<1>. QED BY <1>2, <1>3, <1>4, <1>5, <1>6, <1>7, <1>8

\* A pass delivers the head of the connection to the map or changes neither,
\* and it leaves a consistent pending_response_ behind.
LEMMA PassDelivers ==
    ASSUME TypeOK, PendingIsHead, ReadFromBuffer, received_responses_' = AfterPass
    PROVE  /\ Mailbox!Deliver \/ UNCHANGED <<incoming, received_responses_>>
           /\ incoming' \in Seq(Message)
           /\ arrived' \in Nat
           /\ pending_response_' \in Message \cup {None}
           /\ pending_response_offset_' \in 0 .. MessageSize
           /\ received_responses_' \in [CommandId -> Message \cup {None}]
           /\ PendingIsHead'
<1>1. CASE arrived = 0
  <2>1. UNCHANGED <<incoming, arrived, pending_response_, pending_response_offset_,
                    received_responses_>>
    BY <1>1 DEF ReadFromBuffer, AfterPass, Complete
  <2>. QED BY <2>1 DEF TypeOK, PendingIsHead, Unread
<1>2. CASE arrived > 0 /\ Complete
  <2>1. /\ incoming # <<>> /\ incoming \in Seq(Message) /\ Reading = Head(incoming)
        /\ Offset \in 1 .. MessageSize /\ Rest \in Nat /\ Taken \in Nat /\ Taken <= Rest
        /\ Rest + Offset <= Len(incoming) * MessageSize
        /\ Offset + Taken = MessageSize
    BY <1>2, ReadingIsHead DEF TypeOK, Complete
  <2>2. /\ arrived' = Rest - Taken /\ incoming' = Tail(incoming)
        /\ pending_response_' = None /\ pending_response_offset_' = 0
    BY <1>2 DEF ReadFromBuffer
  <2>3. /\ Head(incoming) \in Message /\ Head(incoming).id \in CommandId
        /\ Tail(incoming) \in Seq(Message) /\ Len(Tail(incoming)) = Len(incoming) - 1
        /\ Len(incoming) \in Nat /\ Len(incoming) >= 1
    BY <2>1, HeadFacts, MessageFacts
  <2>4. Mailbox!Deliver
    BY <1>2, <2>1, <2>2 DEF Mailbox!Deliver, Mailbox!Delivered, AfterPass
  <2>5. received_responses_' \in [CommandId -> Message \cup {None}]
    BY <2>1, <2>3 DEF AfterPass, TypeOK
  <2>6. arrived' \in Nat /\ arrived' <= Unread'
    <3>1. (Len(incoming) - 1) * MessageSize = Len(incoming) * MessageSize - MessageSize
      BY <2>3, SizeFacts, PiecesFacts
    <3>2. Unread' = Len(incoming) * MessageSize - MessageSize - 0
      BY <2>2, <2>3, <3>1 DEF Unread
    <3>3. Len(incoming) * MessageSize \in Nat
      BY <2>3, SizeFacts, PiecesFacts
    <3>. QED BY <2>1, <2>2, <3>2, <3>3, SizeFacts
  <2>7. PendingIsHead'
    BY <2>2, <2>6 DEF PendingIsHead
  <2>. QED BY <2>2, <2>3, <2>4, <2>5, <2>6, <2>7, SizeFacts
<1>3. CASE arrived > 0 /\ ~Complete
  <2>1. /\ arrived' = Rest - Taken /\ incoming' = incoming
        /\ pending_response_' = Reading /\ pending_response_offset_' = Offset + Taken
        /\ received_responses_' = received_responses_
    BY <1>3 DEF ReadFromBuffer, AfterPass
  <2>2. /\ incoming # <<>> /\ Reading = Head(incoming) /\ Reading \in Message
        /\ Offset \in 1 .. MessageSize /\ Rest \in Nat /\ Taken = Rest
        /\ Rest + Offset <= Len(incoming) * MessageSize
        /\ Offset + Taken \in 1 .. BodySize
    BY <1>3, ReadingIsHead
  <2>3. arrived' = 0 /\ arrived' <= Unread'
    <3>1. Len(incoming) * MessageSize \in Nat
      BY SizeFacts, PiecesFacts DEF TypeOK
    <3>. QED BY <2>1, <2>2, <3>1, SizeFacts DEF Unread
  <2>4. PendingIsHead'
    BY <2>1, <2>2, <2>3, MessageFacts DEF PendingIsHead
  <2>. QED BY <2>1, <2>2, <2>3, <2>4, SizeFacts DEF TypeOK
<1>. QED BY <1>1, <1>2, <1>3 DEF TypeOK

---------------------------------------------------------------------------
(* What is true of the responses outlives a delivery.                      *)

LEMMA DeliveryKeepsFirst ==
    ASSUME TypeOK, ResponsesAreAnswers, Mailbox!Deliver, UNCHANGED answers,
           NEW id \in CommandId, FirstComesFirst(id)
    PROVE  FirstComesFirst(id)'
<1>. DEFINE m == Head(incoming)
<1>1. /\ incoming # <<>> /\ incoming' = Tail(incoming) /\ incoming \in Seq(Message)
      /\ received_responses_' = IF received_responses_[m.id] = None
                                THEN [received_responses_ EXCEPT ![m.id] = m]
                                ELSE received_responses_
      /\ received_responses_ \in [CommandId -> Message \cup {None}]
  BY DEF Mailbox!Deliver, Mailbox!Delivered, TypeOK
<1>2. m \in Message /\ m = incoming[1] /\ m.id \in CommandId /\ m # None
  BY <1>1, HeadFacts, MessageFacts
<1>3. CASE received_responses_[id] = First(id)
  <2>1. First(id) # None
    BY MessageFacts
  <2>2. received_responses_'[id] = First(id)
    BY <1>1, <1>2, <1>3, <2>1
  <2>. QED BY <2>1, <2>2 DEF FirstComesFirst, First
<1>4. CASE received_responses_[id] = None /\ m.id = id
  <2>1. received_responses_'[id] = m
    BY <1>1, <1>2, <1>4
  <2>2. CASE answers[id] > 0
    <3>1. PICK i \in DOMAIN incoming :
              incoming[i] = First(id) /\ \A j \in 1 .. (i - 1) : incoming[j].id # id
      BY <1>4, <2>2 DEF FirstComesFirst
    <3>2. i = 1
      BY <1>1, <1>2, <1>4, <3>1
    <3>. QED BY <1>2, <2>1, <3>1, <3>2 DEF FirstComesFirst, First
  <2>3. answers[id] > 0
    BY <1>1, <1>2, <1>4, HeadFacts DEF ResponsesAreAnswers
  <2>. QED BY <2>2, <2>3
<1>5. CASE received_responses_[id] = None /\ m.id # id
  <2>1. received_responses_'[id] = None
    BY <1>1, <1>2, <1>5
  <2>2. CASE answers[id] > 0
    <3>1. PICK i \in DOMAIN incoming :
              incoming[i] = First(id) /\ \A j \in 1 .. (i - 1) : incoming[j].id # id
      BY <1>5, <2>2 DEF FirstComesFirst
    <3>2. i # 1
      BY <1>2, <1>5, <3>1 DEF First
    <3>3. i - 1 \in DOMAIN incoming' /\ incoming'[i - 1] = First(id)
      BY <1>1, <3>1, <3>2, HeadFacts
    <3>4. \A j \in 1 .. ((i - 1) - 1) : incoming'[j].id # id
      <4>. SUFFICES ASSUME NEW j \in 1 .. ((i - 1) - 1) PROVE incoming'[j].id # id
        OBVIOUS
      <4>1. j \in DOMAIN Tail(incoming) /\ j + 1 \in 1 .. (i - 1)
        BY <1>1, <3>1, <3>3
      <4>. QED BY <1>1, <3>1, <4>1, HeadFacts
    <3>. QED BY <2>1, <3>3, <3>4 DEF FirstComesFirst, First
  <2>3. CASE ~(answers[id] > 0)
    BY <2>1, <2>3 DEF FirstComesFirst
  <2>. QED BY <2>2, <2>3
<1>. QED BY <1>3, <1>4, <1>5 DEF FirstComesFirst

LEMMA DeliveryKeepsAnswers ==
    ASSUME TypeOK, ResponsesAreAnswers, Mailbox!Deliver, UNCHANGED <<answers, command_id_>>
    PROVE  /\ ResponsesAreAnswers'
           /\ \A id \in CommandId : received_responses_[id] # None => received_responses_'[id] # None
<1>. DEFINE m == Head(incoming)
<1>1. /\ incoming # <<>> /\ incoming' = Tail(incoming) /\ incoming \in Seq(Message)
      /\ received_responses_' = IF received_responses_[m.id] = None
                                THEN [received_responses_ EXCEPT ![m.id] = m]
                                ELSE received_responses_
      /\ received_responses_ \in [CommandId -> Message \cup {None}]
  BY DEF Mailbox!Deliver, Mailbox!Delivered, TypeOK
<1>2. m \in Message /\ m = incoming[1] /\ 1 \in DOMAIN incoming /\ m.id \in CommandId /\ m # None
  BY <1>1, HeadFacts, MessageFacts
<1>3. answers[m.id] > 0
  BY <1>2 DEF ResponsesAreAnswers
<1>4. \A i \in DOMAIN incoming' : answers[incoming'[i].id] > 0
  BY <1>1, HeadFacts DEF ResponsesAreAnswers
<1>5. \A id \in CommandId : received_responses_'[id] # None => answers[id] > 0
  BY <1>1, <1>2, <1>3 DEF ResponsesAreAnswers
<1>6. \A id \in CommandId : received_responses_[id] # None => received_responses_'[id] # None
  BY <1>1, <1>2
<1>. QED BY <1>4, <1>5, <1>6 DEF ResponsesAreAnswers

---------------------------------------------------------------------------
(* The inductive invariant.                                                *)

THEOREM InitInvariant == Init => IInv
<1>. SUFFICES ASSUME Init PROVE IInv
  OBVIOUS
<1>1. TypeOK
  BY SizeFacts, SizeAssumption DEF Init, TypeOK, CommandId
<1>2. PendingIsHead
  <2>1. Len(incoming) = 0 /\ 0 * MessageSize = 0
    BY SizeFacts DEF Init
  <2>. QED BY <2>1, SizeFacts DEF Init, PendingIsHead, Unread
<1>3. RequestsAreOwn /\ ResponsesAreAnswers /\ FoundIsThere /\ WaitersGetFirst
  BY DEF Init, RequestsAreOwn, ResponsesAreAnswers, FoundIsThere, WaitersGetFirst, Waiting
<1>. QED BY <1>1, <1>2, <1>3 DEF IInv

\* Steps that leave the responses and the threads alone.
LEMMA QuietKeeps ==
    ASSUME IInv, UNCHANGED <<answers, command_id_, received_responses_, pc, request, incoming>>
    PROVE  /\ RequestsAreOwn' /\ ResponsesAreAnswers' /\ FoundIsThere' /\ WaitersGetFirst'
BY DEF IInv, RequestsAreOwn, ResponsesAreAnswers, FoundIsThere, WaitersGetFirst, FirstComesFirst,
       Waiting, First

\* A response is sent: it follows all others to the same request.
LEMMA RespondKeeps ==
    ASSUME IInv, NEW id \in CommandId, Respond(id)
    PROVE  IInv'
<1>. DEFINE m == [id |-> id, no |-> answers'[id]]
<1>1. /\ incoming \in Seq(Message) /\ answers \in [CommandId -> 0 .. 2] /\ Len(incoming) \in Nat
  BY DEF IInv, TypeOK
<1>2. /\ answers' = [answers EXCEPT ![id] = answers[id] + 1] /\ answers[id] < MaxAnswers(id)
      /\ incoming' = Append(incoming, m) /\ id < command_id_
      /\ UNCHANGED <<connection, arrived, tcp_mutex_, command_id_, pending_response_,
                     pending_response_offset_, received_responses_, pc, request>>
  BY DEF Respond
<1>3. answers[id] \in 0 .. 1 /\ answers'[id] = answers[id] + 1 /\ answers' \in [CommandId -> 0 .. 2]
  BY <1>1, <1>2 DEF MaxAnswers
<1>4. m \in Message /\ m.id = id
  BY <1>3 DEF Message
<1>5. /\ incoming' \in Seq(Message) /\ Len(incoming') = Len(incoming) + 1
      /\ DOMAIN incoming' = 1 .. (Len(incoming) + 1) /\ DOMAIN incoming = 1 .. Len(incoming)
      /\ \A i \in DOMAIN incoming : incoming'[i] = incoming[i]
      /\ incoming'[Len(incoming) + 1] = m
  BY <1>1, <1>2, <1>4
<1>6. TypeOK'
  BY <1>2, <1>3, <1>5 DEF IInv, TypeOK
<1>7. PendingIsHead'
  <2>1. incoming # <<>> => Head(incoming') = Head(incoming)
    BY <1>1, <1>5
  <2>2. (Len(incoming) + 1) * MessageSize = Len(incoming) * MessageSize + MessageSize
    BY <1>1, SizeFacts, PiecesFacts
  <2>3. Len(incoming) * MessageSize \in Nat
    BY <1>1, SizeFacts, PiecesFacts
  <2>4. Unread' >= Unread
    BY <1>2, <1>5, <2>2, <2>3, SizeFacts DEF Unread, IInv, TypeOK
  <2>5. incoming' # <<>>
    BY <1>5
  <2>6. Unread \in Int /\ Unread' \in Int /\ arrived \in Nat
    BY <1>2, <1>5, <2>2, <2>3, SizeFacts DEF Unread, IInv, TypeOK
  <2>. QED BY <1>2, <2>1, <2>4, <2>5, <2>6 DEF IInv, PendingIsHead
<1>8. RequestsAreOwn' /\ FoundIsThere'
  BY <1>2 DEF IInv, RequestsAreOwn, FoundIsThere
<1>9. ResponsesAreAnswers'
  <2>1. \A i \in DOMAIN incoming : incoming[i].id \in CommandId
    BY <1>1, MessageFacts
  <2>. QED BY <1>1, <1>2, <1>3, <1>4, <1>5, <2>1 DEF IInv, ResponsesAreAnswers
<1>10. WaitersGetFirst'
  <2>. SUFFICES ASSUME NEW t \in Thread, Waiting(t) PROVE FirstComesFirst(request[t])'
    BY <1>2 DEF WaitersGetFirst, Waiting
  <2>. DEFINE r == request[t]
  <2>1. r \in CommandId /\ FirstComesFirst(r)
    BY DEF IInv, RequestsAreOwn, Waiting, WaitersGetFirst
  <2>2. CASE received_responses_[r] # None
    BY <1>2, <2>1, <2>2 DEF FirstComesFirst, First
  <2>3. CASE received_responses_[r] = None /\ answers[r] > 0
    <3>1. PICK i \in DOMAIN incoming :
              incoming[i] = First(r) /\ \A j \in 1 .. (i - 1) : incoming[j].id # r
      BY <2>1, <2>3 DEF FirstComesFirst
    <3>2. i \in DOMAIN incoming' /\ incoming'[i] = First(r)
      BY <1>5, <3>1
    <3>3. \A j \in 1 .. (i - 1) : incoming'[j].id # r
      BY <1>1, <1>5, <3>1
    <3>. QED BY <1>2, <2>3, <3>2, <3>3 DEF FirstComesFirst, First
  <2>4. CASE received_responses_[r] = None /\ ~(answers[r] > 0)
    <3>1. CASE r = id
      <4>1. m = First(r)
        BY <1>1, <1>3, <2>1, <2>4, <3>1 DEF First
      <4>2. \A j \in 1 .. ((Len(incoming) + 1) - 1) : incoming'[j].id # r
        BY <1>1, <1>5, <2>4 DEF IInv, ResponsesAreAnswers
      <4>. QED BY <1>2, <1>1, <1>5, <2>4, <4>1, <4>2 DEF FirstComesFirst, First
    <3>2. CASE r # id
      <4>1. answers'[r] = answers[r]
        BY <1>1, <1>2, <2>1, <3>2
      <4>. QED BY <1>2, <2>4, <4>1 DEF FirstComesFirst
    <3>. QED BY <3>1, <3>2
  <2>. QED BY <2>2, <2>3, <2>4
<1>. QED BY <1>6, <1>7, <1>8, <1>9, <1>10 DEF IInv

\* A request is sent: nothing was answered under its id before.
LEMMA SendRequestKeeps ==
    ASSUME IInv, NEW t \in Thread, SendRequest(t)
    PROVE  IInv'
<1>1. PICK p \in {"lock", "poll"} : pc' = [pc EXCEPT ![t] = p]
  BY DEF SendRequest
<1>2. /\ pc[t] = "idle" /\ command_id_ < MaxCommands /\ command_id_' = command_id_ + 1
      /\ request' = [request EXCEPT ![t] = command_id_]
      /\ UNCHANGED <<connection, incoming, arrived, answers, tcp_mutex_, pending_response_,
                     pending_response_offset_, received_responses_>>
  BY DEF SendRequest, robotVars
<1>3. command_id_ \in Nat /\ command_id_ \in CommandId /\ command_id_' \in 0 .. MaxCommands
  BY <1>2, SizeAssumption DEF IInv, TypeOK, CommandId
<1>4. /\ pc \in [Thread -> {"idle", "lock", "read", "take", "poll", "polling", "handle"}]
      /\ request \in [Thread -> CommandId \cup {-1}]
  BY DEF IInv, TypeOK
<1>5. TypeOK'
  BY <1>1, <1>2, <1>3, <1>4 DEF IInv, TypeOK
<1>6. PendingIsHead'
  BY <1>2 DEF IInv, PendingIsHead, Unread
<1>7. RequestsAreOwn'
  <2>1. \A u \in Thread : request[u] < command_id_ /\ request[u] \in Int
    BY <1>4 DEF IInv, RequestsAreOwn, CommandId
  <2>2. \A u \in Thread : pc'[u] # "idle" => request'[u] \in CommandId
    BY <1>1, <1>2, <1>3, <1>4 DEF IInv, RequestsAreOwn
  <2>3. \A u \in Thread : request'[u] < command_id_'
    BY <1>2, <1>3, <1>4, <2>1
  <2>4. ASSUME NEW u \in Thread, NEW v \in Thread, u # v, pc'[u] # "idle", pc'[v] # "idle"
        PROVE  request'[u] # request'[v]
    <3>1. CASE u = t
      BY <1>2, <1>3, <1>4, <2>1, <2>4, <3>1
    <3>2. CASE v = t
      BY <1>2, <1>3, <1>4, <2>1, <2>4, <3>2
    <3>3. CASE u # t /\ v # t
      BY <1>1, <1>2, <1>4, <2>4, <3>3 DEF IInv, RequestsAreOwn
    <3>. QED BY <3>1, <3>2, <3>3
  <2>. QED BY <2>2, <2>3, <2>4 DEF RequestsAreOwn
<1>8. ResponsesAreAnswers'
  BY <1>2, <1>3 DEF IInv, ResponsesAreAnswers, CommandId
<1>9. FoundIsThere'
  BY <1>1, <1>2, <1>4 DEF IInv, FoundIsThere
<1>10. WaitersGetFirst'
  <2>. SUFFICES ASSUME NEW u \in Thread, Waiting(u)' PROVE FirstComesFirst(request[u])'
    BY DEF WaitersGetFirst
  <2>1. CASE u = t
    <3>1. request'[u] = command_id_ /\ ~(answers[command_id_] > 0)
      BY <1>2, <1>3, <1>4, <2>1 DEF IInv, ResponsesAreAnswers
    <3>2. received_responses_[command_id_] = None
      BY <1>3, <3>1 DEF IInv, ResponsesAreAnswers
    <3>. QED BY <1>2, <3>1, <3>2 DEF FirstComesFirst
  <2>2. CASE u # t
    <3>1. Waiting(u) /\ request'[u] = request[u]
      BY <1>1, <1>2, <1>4, <2>2 DEF Waiting
    <3>2. FirstComesFirst(request[u])
      BY <3>1 DEF IInv, WaitersGetFirst
    <3>. QED BY <1>2, <3>1, <3>2 DEF FirstComesFirst, First
  <2>. QED BY <2>1, <2>2
<1>. QED BY <1>5, <1>6, <1>7, <1>8, <1>9, <1>10 DEF IInv

\* A thread goes on, or is done, with what it asked for still the same.
LEMMA LockKeeps ==
    ASSUME IInv, NEW t \in Thread, Lock(t)
    PROVE  IInv'
<1>. DEFINE p == IF pc[t] = "lock" THEN "read" ELSE "polling"
<1>1. /\ pc[t] \in {"lock", "poll"} /\ pc' = [pc EXCEPT ![t] = p] /\ tcp_mutex_' = t
      /\ UNCHANGED <<connection, incoming, arrived, answers, command_id_, pending_response_,
                     pending_response_offset_, received_responses_, request>>
  BY DEF Lock, robotVars
<1>2. pc \in [Thread -> {"idle", "lock", "read", "take", "poll", "polling", "handle"}]
  BY DEF IInv, TypeOK
<1>3. TypeOK'
  BY <1>1, <1>2 DEF IInv, TypeOK
<1>4. PendingIsHead' /\ ResponsesAreAnswers'
  BY <1>1 DEF IInv, PendingIsHead, Unread, ResponsesAreAnswers
<1>5. RequestsAreOwn'
  BY <1>1, <1>2 DEF IInv, RequestsAreOwn
<1>6. FoundIsThere'
  BY <1>1, <1>2 DEF IInv, FoundIsThere
<1>7. \A u \in Thread : Waiting(u)' => Waiting(u)
  BY <1>1, <1>2 DEF Waiting
<1>8. WaitersGetFirst'
  BY <1>1, <1>7 DEF IInv, WaitersGetFirst, FirstComesFirst, First
<1>. QED BY <1>3, <1>4, <1>5, <1>6, <1>8 DEF IInv

\* A thread leaves, and what it leaves in the map is its own response or not.
LEMMA IdleKeeps ==
    ASSUME IInv, NEW t \in Thread, pc[t] # "idle", Idle(t),
           tcp_mutex_' \in Thread \cup {Nobody},
           UNCHANGED <<robotVars, command_id_, pending_response_, pending_response_offset_>>,
           \/ UNCHANGED received_responses_
           \/ received_responses_' = [received_responses_ EXCEPT ![request[t]] = None]
    PROVE  IInv'
<1>1. /\ pc' = [pc EXCEPT ![t] = "idle"] /\ request' = [request EXCEPT ![t] = -1]
      /\ UNCHANGED <<connection, incoming, arrived, answers, command_id_, pending_response_,
                     pending_response_offset_>>
  BY DEF Idle, robotVars
<1>2. /\ pc \in [Thread -> {"idle", "lock", "read", "take", "poll", "polling", "handle"}]
      /\ request \in [Thread -> CommandId \cup {-1}] /\ request[t] \in CommandId
      /\ command_id_ \in Nat
      /\ received_responses_ \in [CommandId -> Message \cup {None}]
  BY SizeAssumption DEF IInv, TypeOK, RequestsAreOwn
<1>3. received_responses_' \in [CommandId -> Message \cup {None}]
  BY <1>2
<1>4. \A u \in Thread : pc[u] # "idle" /\ u # t =>
          request'[u] = request[u] /\ received_responses_'[request[u]] = received_responses_[request[u]]
  BY <1>1, <1>2 DEF IInv, RequestsAreOwn
<1>5. TypeOK'
  BY <1>1, <1>2, <1>3 DEF IInv, TypeOK
<1>6. PendingIsHead'
  BY <1>1 DEF IInv, PendingIsHead, Unread
<1>7. ResponsesAreAnswers'
  <2>1. \A id \in CommandId : received_responses_'[id] # None => received_responses_[id] # None
    BY <1>2
  <2>. QED BY <1>1, <2>1 DEF IInv, ResponsesAreAnswers
<1>8. RequestsAreOwn'
  BY <1>1, <1>2 DEF IInv, RequestsAreOwn
<1>9. FoundIsThere'
  BY <1>1, <1>2, <1>4 DEF IInv, FoundIsThere
<1>10. \A u \in Thread : Waiting(u)' => Waiting(u) /\ u # t
  BY <1>1, <1>2 DEF Waiting
<1>11. WaitersGetFirst'
  <2>. SUFFICES ASSUME NEW u \in Thread, Waiting(u), u # t PROVE FirstComesFirst(request[u])'
    BY <1>10 DEF WaitersGetFirst
  <2>1. FirstComesFirst(request[u]) /\ pc[u] # "idle"
    BY DEF IInv, WaitersGetFirst, Waiting
  <2>. QED BY <1>1, <1>4, <2>1 DEF FirstComesFirst, First
<1>. QED BY <1>5, <1>6, <1>7, <1>8, <1>9, <1>11 DEF IInv

\* A thread reads, and then waits on or has found its response.
LEMMA PassKeeps ==
    ASSUME IInv, NEW t \in Thread, pc[t] \in {"read", "polling"},
           NEW p \in {"lock", "poll", "take", "handle"},
           p \in {"take", "handle"} => AfterPass[request[t]] # None,
           pc' = [pc EXCEPT ![t] = p],
           ReadFromBuffer, received_responses_' = AfterPass,
           tcp_mutex_' \in Thread \cup {Nobody},
           UNCHANGED <<connection, answers, command_id_, request>>
    PROVE  IInv'
<1>1. TypeOK /\ PendingIsHead /\ ResponsesAreAnswers
  BY DEF IInv
<1>2. /\ Mailbox!Deliver \/ UNCHANGED <<incoming, received_responses_>>
      /\ incoming' \in Seq(Message) /\ arrived' \in Nat
      /\ pending_response_' \in Message \cup {None}
      /\ pending_response_offset_' \in 0 .. MessageSize
      /\ received_responses_' \in [CommandId -> Message \cup {None}]
      /\ PendingIsHead'
  BY <1>1, PassDelivers
<1>3. pc \in [Thread -> {"idle", "lock", "read", "take", "poll", "polling", "handle"}]
  BY DEF IInv, TypeOK
<1>4. TypeOK'
  BY <1>2, <1>3 DEF IInv, TypeOK
<1>5. RequestsAreOwn'
  BY <1>3 DEF IInv, RequestsAreOwn
<1>6. /\ ResponsesAreAnswers'
      /\ \A id \in CommandId : received_responses_[id] # None => received_responses_'[id] # None
  BY <1>1, <1>2, DeliveryKeepsAnswers DEF ResponsesAreAnswers
<1>7. FoundIsThere'
  BY <1>3, <1>6 DEF IInv, FoundIsThere, RequestsAreOwn
<1>8. \A u \in Thread : Waiting(u)' => Waiting(u)
  BY <1>3 DEF Waiting
<1>9. WaitersGetFirst'
  <2>. SUFFICES ASSUME NEW u \in Thread, Waiting(u) PROVE FirstComesFirst(request[u])'
    BY <1>8 DEF WaitersGetFirst
  <2>1. FirstComesFirst(request[u]) /\ request[u] \in CommandId
    BY DEF IInv, WaitersGetFirst, Waiting, RequestsAreOwn
  <2>2. CASE Mailbox!Deliver
    <3>. DEFINE id == request[u]
    <3>1. FirstComesFirst(id) /\ id \in CommandId
      BY <2>1
    <3>2. \A n \in CommandId : FirstComesFirst(n) => FirstComesFirst(n)'
      BY <1>1, <2>2, DeliveryKeepsFirst
    <3>. QED BY <2>1, <3>2
  <2>3. CASE UNCHANGED <<incoming, received_responses_>>
    BY <2>1, <2>3 DEF FirstComesFirst, First
  <2>. QED BY <1>2, <2>2, <2>3
<1>. QED BY <1>2, <1>4, <1>5, <1>6, <1>7, <1>9 DEF IInv

THEOREM NextInvariant == IInv /\ [Next]_vars => IInv'
<1>. SUFFICES ASSUME IInv, [Next]_vars PROVE IInv'
  OBVIOUS
<1>1. CASE \E id \in CommandId : Respond(id)
  BY <1>1, RespondKeeps
<1>2. CASE Arrive
  <2>1. Unread \in Int /\ arrived \in Nat
    <3>1. Len(incoming) * MessageSize \in Nat
      BY SizeFacts, PiecesFacts DEF IInv, TypeOK
    <3>. QED BY <3>1, SizeFacts DEF Unread, IInv, TypeOK
  <2>2. TypeOK' /\ PendingIsHead'
    BY <1>2, <2>1 DEF Arrive, IInv, TypeOK, PendingIsHead, Unread
  <2>. QED BY <1>2, <2>2, QuietKeeps DEF Arrive, IInv
<1>3. CASE Close \/ Reset
  <2>1. TypeOK' /\ PendingIsHead'
    BY <1>3 DEF Close, Reset, IInv, TypeOK, PendingIsHead, Unread
  <2>. QED BY <1>3, <2>1, QuietKeeps DEF Close, Reset, IInv
<1>4. ASSUME NEW t \in Thread, SendRequest(t) PROVE IInv'
  BY <1>4, SendRequestKeeps
<1>5. ASSUME NEW t \in Thread, Lock(t) PROVE IInv'
  BY <1>5, LockKeeps
<1>6. ASSUME NEW t \in Thread, Fail(t) \/ Erase(t) \/ Handle(t) \/ ThrowIfConnectionClosed(t)
      PROVE  IInv'
  <2>1. tcp_mutex_' \in Thread \cup {Nobody}
    BY <1>6 DEF Fail, Erase, Handle, ThrowIfConnectionClosed, IInv, TypeOK
  <2>2. pc[t] # "idle"
    BY <1>6 DEF Fail, Erase, Handle, ThrowIfConnectionClosed
  <2>. QED BY <1>6, <2>1, <2>2, IdleKeeps DEF Fail, Erase, Handle, ThrowIfConnectionClosed
<1>7. ASSUME NEW t \in Thread, BlockingPass(t) PROVE IInv'
  <2>. DEFINE p == IF AfterPass[request[t]] = None THEN "lock" ELSE "take"
  <2>1. p \in {"lock", "poll", "take", "handle"} /\ pc' = [pc EXCEPT ![t] = p]
    BY <1>7 DEF BlockingPass
  <2>2. p \in {"take", "handle"} => AfterPass[request[t]] # None
    OBVIOUS
  <2>. HIDE DEF p
  <2>. QED BY <1>7, <2>1, <2>2, PassKeeps DEF BlockingPass
<1>8. ASSUME NEW t \in Thread, PollingPass(t) PROVE IInv'
  <2>. DEFINE p == IF AfterPass[request[t]] = None THEN "poll" ELSE "handle"
  <2>1. p \in {"lock", "poll", "take", "handle"} /\ pc' = [pc EXCEPT ![t] = p]
    BY <1>8 DEF PollingPass
  <2>2. p \in {"take", "handle"} => AfterPass[request[t]] # None
    OBVIOUS
  <2>3. tcp_mutex_' \in Thread \cup {Nobody}
    BY <1>8 DEF PollingPass, IInv, TypeOK
  <2>. HIDE DEF p
  <2>. QED BY <1>8, <2>1, <2>2, <2>3, PassKeeps DEF PollingPass
<1>9. CASE UNCHANGED vars
  <2>1. TypeOK' /\ PendingIsHead'
    BY <1>9 DEF vars, robotVars, IInv, TypeOK, PendingIsHead, Unread
  <2>. QED BY <1>9, <2>1, QuietKeeps DEF vars, robotVars, IInv
<1>. QED BY <1>1, <1>2, <1>3, <1>4, <1>5, <1>6, <1>7, <1>8, <1>9 DEF Next

THEOREM InvariantHolds == Spec => []IInv
<1>. QED BY InitInvariant, NextInvariant, PTL DEF Spec

---------------------------------------------------------------------------
(* The variables stay in their types: pending_response_offset_ never gets  *)
(* past the end of the message that is read (network.h:149-187).           *)
THEOREM TypeCorrect == Spec => []TypeOK
<1>1. IInv => TypeOK
  BY DEF IInv
<1>. QED BY <1>1, InvariantHolds, PTL

(* The response a thread waits for is not lost, whichever threads read the *)
(* connection in whichever pieces (tcpReceiveResponse and                  *)
(* tcpBlockingReceiveResponse, network.h:206-259).                         *)
THEOREM ResponsesAreKept == Spec => []WaitedForIsKept
<1>1. IInv => WaitedForIsKept
  <2>. SUFFICES ASSUME IInv, NEW t \in Thread, Waiting(t), answers[request[t]] > 0
                PROVE  \/ received_responses_[request[t]] = First(request[t])
                       \/ \E i \in DOMAIN incoming : incoming[i] = First(request[t])
    BY DEF WaitedForIsKept, Waiting, First
  <2>1. FirstComesFirst(request[t])
    BY DEF IInv, WaitersGetFirst
  <2>. QED BY <2>1 DEF FirstComesFirst
<1>. QED BY <1>1, InvariantHolds, PTL

\* A step that takes a response out of the map finds one there.
LEMMA TakingIsTaking ==
    ASSUME IInv, NEW t \in Thread, pc[t] \in {"take", "handle"}, UNCHANGED incoming,
           received_responses_' = [received_responses_ EXCEPT ![request[t]] = None]
    PROVE  Mailbox!Next
<1>1. request[t] \in CommandId /\ received_responses_[request[t]] # None
  BY DEF IInv, RequestsAreOwn, FoundIsThere
<1>2. Mailbox!TakeFrom(request[t])
  BY <1>1 DEF Mailbox!TakeFrom
<1>. QED BY <1>1, <1>2 DEF Mailbox!Next

(* Reading in pieces, by whichever thread has the lock, is delivering whole*)
(* responses in order to a mailbox: the detailed specification implements  *)
(* ResponseMailbox (network.h:149-259).                                    *)
THEOREM ReadingIsAMailbox == Spec => ImplementsMailbox
<1>1. Init => Mailbox!Init
  BY DEF Init, Mailbox!Init
<1>2. IInv /\ [Next]_vars => [Mailbox!Next]_(Mailbox!vars)
  <2>. SUFFICES ASSUME IInv, [Next]_vars PROVE [Mailbox!Next]_(Mailbox!vars)
    OBVIOUS
  <2>1. ASSUME NEW id \in CommandId, Respond(id) PROVE Mailbox!Next
    <3>. DEFINE m == [id |-> id, no |-> answers'[id]]
    <3>1. incoming' = Append(incoming, m) /\ UNCHANGED received_responses_
      BY <2>1 DEF Respond
    <3>2. answers'[id] \in 1 .. 2
      BY <2>1 DEF Respond, MaxAnswers, IInv, TypeOK
    <3>3. m \in Message
      BY <3>2 DEF Message
    <3>4. incoming \in Seq(Message)
      BY DEF IInv, TypeOK
    <3>5. Mailbox!Send
      <4>. HIDE DEF m
      <4>. QED BY <3>1, <3>3, <3>4 DEF Mailbox!Send
    <3>. QED BY <3>5 DEF Mailbox!Next
  <2>2. CASE Arrive \/ Close \/ Reset
    BY <2>2 DEF Arrive, Close, Reset, Mailbox!vars
  <2>3. ASSUME NEW t \in Thread,
               SendRequest(t) \/ Lock(t) \/ Fail(t) \/ ThrowIfConnectionClosed(t)
        PROVE  UNCHANGED Mailbox!vars
    BY <2>3 DEF SendRequest, Lock, Fail, ThrowIfConnectionClosed, robotVars, Mailbox!vars
  <2>4. ASSUME NEW t \in Thread, BlockingPass(t) \/ PollingPass(t)
        PROVE  [Mailbox!Next]_(Mailbox!vars)
    <3>1. Mailbox!Deliver \/ UNCHANGED <<incoming, received_responses_>>
      BY <2>4, PassDelivers DEF BlockingPass, PollingPass, IInv
    <3>. QED BY <3>1 DEF Mailbox!Next, Mailbox!vars
  <2>5. ASSUME NEW t \in Thread, Erase(t) \/ Handle(t)
        PROVE  [Mailbox!Next]_(Mailbox!vars)
    BY <2>5, TakingIsTaking DEF Erase, Handle, robotVars, Mailbox!vars
  <2>6. CASE UNCHANGED vars
    BY <2>6 DEF vars, robotVars, Mailbox!vars
  <2>. QED BY <2>1, <2>2, <2>3, <2>4, <2>5, <2>6 DEF Next
<1>. QED BY <1>1, <1>2, InvariantHolds, PTL DEF Spec, Mailbox!Spec, ImplementsMailbox
===========================================================================
