--------------------------- MODULE LoggerProofs ---------------------------
(***************************************************************************)
(* Logger, for a log of any size and any records: the ring of slots and    *)
(* indices implements a window over the newest records.                    *)
(***************************************************************************)
EXTENDS Logger, SequenceTheorems, TLAPS

IInv == TypeOK /\ FilledFromZero

---------------------------------------------------------------------------
(* Reading the ring.                                                       *)

\* Counting modulo the size of a ring, from one lap to the next.
LEMMA Wrap ==
    ASSUME NEW n \in Nat, n > 0, NEW k \in 0 .. (n - 1)
    PROVE  k % n = k /\ (k + n) % n = k
OBVIOUS

\* The slot that holds position i: counted from slot 0 until the ring is
\* full, and then from the slot that is written next.
SlotOf(i) ==
    IF ring_size_ < log_size_ THEN i - 1
    ELSE IF ring_front_ + i - 1 < log_size_ THEN ring_front_ + i - 1
    ELSE ring_front_ + i - 1 - log_size_

\* What flush() returns for position i, the copies of the errors seen through.
LEMMA RowsAre ==
    IInv => \A i \in 1 .. ring_size_ :
                /\ SlotOf(i) \in 0 .. (ring_size_ - 1)
                /\ Row(i) = [state |-> states_[SlotOf(i)].errors_, command |-> commands_[SlotOf(i)]]
<1>. SUFFICES ASSUME IInv, NEW i \in 1 .. ring_size_
              PROVE  /\ SlotOf(i) \in 0 .. (ring_size_ - 1)
                     /\ Row(i) = [state |-> states_[SlotOf(i)].errors_,
                                  command |-> commands_[SlotOf(i)]]
  OBVIOUS
<1>1. /\ ring_size_ \in Nat /\ log_size_ \in Nat /\ ring_front_ \in Nat /\ ring_size_ <= log_size_
      /\ ring_size_ > 0
      /\ ring_size_ < log_size_ => ring_front_ = ring_size_
      /\ ring_size_ = log_size_ => ring_front_ < log_size_
  BY LogSizeAssumption DEF IInv, TypeOK, FilledFromZero, Slot
<1>2. SlotOf(i) \in 0 .. (ring_size_ - 1)
  BY <1>1 DEF SlotOf
<1>3. WrappedIndex(i) = SlotOf(i)
  <2>1. CASE ring_size_ < log_size_
    <3>1. ring_front_ + (i - 1) = (i - 1) + ring_size_ /\ i - 1 \in 0 .. (ring_size_ - 1)
      BY <1>1, <2>1
    <3>. QED BY <1>1, <2>1, <3>1, Wrap DEF WrappedIndex, SlotOf
  <2>2. CASE ring_size_ = log_size_ /\ ring_front_ + i - 1 < log_size_
    <3>1. ring_front_ + (i - 1) \in 0 .. (ring_size_ - 1)
      BY <1>1, <2>2
    <3>. QED BY <1>1, <2>2, <3>1, Wrap DEF WrappedIndex, SlotOf
  <2>3. CASE ring_size_ = log_size_ /\ ring_front_ + i - 1 >= log_size_
    <3>. DEFINE k == ring_front_ + i - 1 - log_size_
    <3>1. k \in 0 .. (ring_size_ - 1) /\ ring_front_ + (i - 1) = k + ring_size_
      BY <1>1, <2>3
    <3>. HIDE DEF k
    <3>2. (ring_front_ + (i - 1)) % ring_size_ = k
      BY <1>1, <3>1, Wrap
    <3>. QED BY <1>1, <2>3, <3>2 DEF WrappedIndex, SlotOf, k
  <2>. QED BY <1>1, <2>1, <2>2, <2>3
<1>4. Row(i) = [state |-> states_[SlotOf(i)].errors_, command |-> commands_[SlotOf(i)]]
  BY <1>3 DEF Row, Assign, Copy, Construct, Members
<1>. QED BY <1>2, <1>4

\* The contents of the ring are a sequence of records.
LEMMA ContentsAre ==
    IInv => /\ Contents \in Seq(Record)
            /\ Len(Contents) = ring_size_
            /\ \A i \in 1 .. ring_size_ :
                  Contents[i] = [state |-> states_[SlotOf(i)].errors_,
                                 command |-> commands_[SlotOf(i)]]
<1>. SUFFICES ASSUME IInv
              PROVE  /\ Contents \in Seq(Record)
                     /\ Len(Contents) = ring_size_
                     /\ \A i \in 1 .. ring_size_ :
                           Contents[i] = [state |-> states_[SlotOf(i)].errors_,
                                          command |-> commands_[SlotOf(i)]]
  OBVIOUS
<1>1. ring_size_ \in Nat /\ log_size_ \in Nat /\ ring_size_ <= log_size_
  BY LogSizeAssumption DEF IInv, TypeOK
<1>2. ASSUME NEW i \in 1 .. ring_size_ PROVE Row(i) \in Record
  <2>1. SlotOf(i) \in 0 .. (ring_size_ - 1) /\ SlotOf(i) \in Slot
    BY <1>1, RowsAre DEF Slot
  <2>2. states_[SlotOf(i)].errors_ \in Flags /\ commands_[SlotOf(i)] \in Command
    BY <2>1 DEF IInv, TypeOK, FilledFromZero
  <2>. QED BY <2>2, RowsAre DEF Record
<1>3. Contents \in Seq(Record)
  BY <1>1, <1>2 DEF Contents
<1>4. Len(Contents) = ring_size_
  BY <1>1 DEF Contents
<1>. QED BY <1>3, <1>4, RowsAre DEF Contents

---------------------------------------------------------------------------
(* The invariant.                                                          *)

THEOREM InitInvariant == Init => IInv
BY LogSizeAssumption DEF Init, IInv, TypeOK, FilledFromZero, Flags, Construct, Slot

\* Logging: the indices after it, and the slots.
LEMMA LogMoves ==
    ASSUME IInv, NEW r \in Record, log(r)
    PROVE  /\ ring_front_ \in Slot /\ ring_size_ \in 0 .. log_size_ /\ log_size_ > 0
           /\ ring_front_' = IF ring_front_ + 1 < log_size_ THEN ring_front_ + 1 ELSE 0
           /\ ring_size_' = IF ring_size_ < log_size_ THEN ring_size_ + 1 ELSE ring_size_
           /\ \A i \in Slot : /\ states_'[i].errors_ = IF i = ring_front_ THEN r.state
                                                       ELSE states_[i].errors_
                              /\ states_'[i].members = states_[i].members
                              /\ commands_'[i] = IF i = ring_front_ THEN r.command ELSE commands_[i]
           /\ states_' \in [Slot -> [errors_ : Flags, members : {<<"states_", i>> : i \in Slot}]]
           /\ commands_' \in [Slot -> Command \cup {Unset}]
<1>1. /\ ring_front_ \in Slot /\ ring_size_ \in 0 .. log_size_ /\ log_size_ > 0 /\ log_size_ \in Nat
      /\ ring_front_ \in 0 .. (log_size_ - 1)
  BY LogSizeAssumption DEF log, IInv, TypeOK, FilledFromZero, Slot
<1>2. ring_front_' = IF ring_front_ + 1 < log_size_ THEN ring_front_ + 1 ELSE 0
  <2>1. CASE ring_front_ + 1 < log_size_
    BY <1>1, <2>1, Wrap DEF log
  <2>2. CASE ring_front_ + 1 = log_size_
    <3>1. ring_front_ + 1 = 0 + log_size_ /\ 0 \in 0 .. (log_size_ - 1)
      BY <1>1, <2>2
    <3>. QED BY <1>1, <2>2, <3>1, Wrap DEF log
  <2>. QED BY <1>1, <2>1, <2>2
<1>3. ring_size_' = IF ring_size_ < log_size_ THEN ring_size_ + 1 ELSE ring_size_
  BY <1>1 DEF log
<1>4. r.state \in Flags /\ r.command \in Command
  BY DEF Record
<1>5. /\ states_' = [states_ EXCEPT ![ring_front_] =
                        [states_[ring_front_] EXCEPT !.errors_ = r.state]]
      /\ commands_' = [commands_ EXCEPT ![ring_front_] = r.command]
  BY DEF log, Write, Assign, Copy, Construct
<1>6. /\ states_ \in [Slot -> [errors_ : Flags, members : {<<"states_", i>> : i \in Slot}]]
      /\ commands_ \in [Slot -> Command \cup {Unset}]
  BY DEF IInv, TypeOK
<1>7. [states_[ring_front_] EXCEPT !.errors_ = r.state]
          \in [errors_ : Flags, members : {<<"states_", i>> : i \in Slot}]
  BY <1>1, <1>4, <1>6
<1>8. \A i \in Slot : /\ states_'[i].errors_ = IF i = ring_front_ THEN r.state ELSE states_[i].errors_
                      /\ states_'[i].members = states_[i].members
                      /\ commands_'[i] = IF i = ring_front_ THEN r.command ELSE commands_[i]
  BY <1>1, <1>5, <1>6
<1>. QED BY <1>1, <1>2, <1>3, <1>4, <1>5, <1>6, <1>7, <1>8

THEOREM NextInvariant == IInv /\ [Next]_vars => IInv'
<1>. SUFFICES ASSUME IInv, [Next]_vars PROVE IInv'
  OBVIOUS
<1>1. ASSUME NEW r \in Record, log(r) PROVE IInv'
  <2>1. /\ ring_front_ \in Slot /\ ring_size_ \in 0 .. log_size_ /\ log_size_ > 0
        /\ ring_front_' = IF ring_front_ + 1 < log_size_ THEN ring_front_ + 1 ELSE 0
        /\ ring_size_' = IF ring_size_ < log_size_ THEN ring_size_ + 1 ELSE ring_size_
        /\ states_' \in [Slot -> [errors_ : Flags, members : {<<"states_", i>> : i \in Slot}]]
        /\ commands_' \in [Slot -> Command \cup {Unset}]
        /\ \A i \in Slot : commands_'[i] = IF i = ring_front_ THEN r.command ELSE commands_[i]
    BY <1>1, LogMoves
  <2>2. TypeOK'
    <3>1. ring_front_' \in 0 .. log_size_
      <4>1. ring_front_ \in Nat
        BY <2>1 DEF Slot
      <4>. QED BY <2>1, <4>1, LogSizeAssumption
    <3>3. ring_size_' \in 0 .. log_size_
      BY <2>1, LogSizeAssumption
    <3>2. flushed' \in Seq(Record)
      BY <1>1 DEF log, IInv, TypeOK
    <3>. QED BY <2>1, <3>1, <3>2, <3>3 DEF TypeOK
  <2>3. /\ ring_size_' < log_size_ => ring_front_' = ring_size_'
        /\ ring_size_' = log_size_ /\ log_size_ > 0 => ring_front_' \in Slot
    <3>1. ring_size_ < log_size_ => ring_front_ = ring_size_
      BY DEF IInv, FilledFromZero
    <3>2. ring_front_ \in Nat /\ ring_size_ \in Nat
      BY <2>1, LogSizeAssumption DEF Slot
    <3>3. ring_size_' < log_size_ => ring_size_ < log_size_ /\ ring_size_' = ring_size_ + 1
      BY <2>1, <3>2, LogSizeAssumption
    <3>4. ring_front_' \in 0 .. (log_size_ - 1)
      BY <2>1, <3>2, LogSizeAssumption
    <3>. QED BY <2>1, <3>1, <3>2, <3>3, <3>4, LogSizeAssumption DEF Slot
  <2>4. ASSUME NEW i \in 0 .. (ring_size_' - 1) PROVE commands_'[i] \in Command
    <3>1. i \in Slot /\ (i = ring_front_ \/ i \in 0 .. (ring_size_ - 1))
      <4>1. ring_size_ < log_size_ => ring_front_ = ring_size_
        BY DEF IInv, FilledFromZero
      <4>2. i \in 0 .. (log_size_ - 1)
        BY <2>1, LogSizeAssumption
      <4>3. ring_size_' = ring_size_ + 1 => i = ring_size_ \/ i \in 0 .. (ring_size_ - 1)
        BY <2>1, LogSizeAssumption
      <4>. QED BY <2>1, <4>1, <4>2, <4>3 DEF Slot
    <3>. QED BY <2>1, <3>1 DEF IInv, FilledFromZero, Record
  <2>. QED BY <2>2, <2>3, <2>4 DEF IInv, FilledFromZero
<1>2. CASE flush
  <2>1. Contents \in Seq(Record)
    BY ContentsAre
  <2>2. ring_front_' = 0 /\ ring_size_' = 0 /\ flushed' = Contents /\ UNCHANGED <<states_, commands_>>
    BY <1>2 DEF flush
  <2>3. TypeOK'
    BY <2>1, <2>2, LogSizeAssumption DEF IInv, TypeOK
  <2>4. FilledFromZero'
    BY <2>2, LogSizeAssumption DEF FilledFromZero
  <2>. QED BY <2>3, <2>4 DEF IInv
<1>3. CASE UNCHANGED vars
  BY <1>3 DEF vars, IInv, TypeOK, FilledFromZero
<1>. QED BY <1>1, <1>2, <1>3 DEF Next

THEOREM InvariantHolds == Spec => []IInv
<1>. QED BY InitInvariant, NextInvariant, PTL DEF Spec

---------------------------------------------------------------------------
(* Ring, indices and the count of records keep their types after any calls *)
(* of log() and flush(): ring_front_ stays an index although it is only    *)
(* wrapped by a remainder (logger.cpp:14-65).                              *)
THEOREM TypeCorrect == Spec => []TypeOK
<1>1. IInv => TypeOK
  BY DEF IInv
<1>. QED BY <1>1, InvariantHolds, PTL

(* The ring is filled from slot 0, so that reading it modulo ring_size_ is *)
(* right also while it is not full (logger.cpp:12-46).                     *)
THEOREM RingFillsFromZero == Spec => []FilledFromZero
<1>1. IInv => FilledFromZero
  BY DEF IInv
<1>. QED BY <1>1, InvariantHolds, PTL

---------------------------------------------------------------------------
\* Two sequences of records are one if they agree everywhere.
LEMMA SameRecords ==
    ASSUME NEW s \in Seq(Record), NEW t \in Seq(Record), Len(s) = Len(t),
           \A i \in 1 .. Len(s) : s[i] = t[i]
    PROVE  s = t
BY SeqEqual

\* A log that is not full grows by the record ...
LEMMA LogAppends ==
    ASSUME IInv, IInv', NEW r \in Record, log(r), ring_size_ < log_size_
    PROVE  Contents' = Append(Contents, r)
<1>1. /\ Contents \in Seq(Record) /\ Len(Contents) = ring_size_
      /\ \A i \in 1 .. ring_size_ : Contents[i] = [state |-> states_[SlotOf(i)].errors_,
                                                   command |-> commands_[SlotOf(i)]]
  BY ContentsAre
<1>2. (/\ Contents \in Seq(Record) /\ Len(Contents) = ring_size_
       /\ \A i \in 1 .. ring_size_ : Contents[i] = [state |-> states_[SlotOf(i)].errors_,
                                                    command |-> commands_[SlotOf(i)]])'
  BY ContentsAre, PTL
<1>3. /\ ring_front_ = ring_size_ /\ ring_size_' = ring_size_ + 1 /\ ring_size_ \in Nat
      /\ log_size_ \in Nat
      /\ ring_front_' = IF ring_size_ + 1 < log_size_ THEN ring_size_ + 1 ELSE 0
  BY LogMoves, LogSizeAssumption DEF IInv, FilledFromZero
<1>4. \A i \in Slot : /\ states_'[i].errors_ = IF i = ring_size_ THEN r.state ELSE states_[i].errors_
                      /\ commands_'[i] = IF i = ring_size_ THEN r.command ELSE commands_[i]
  BY <1>3, LogMoves
<1>5. \A i \in 1 .. ring_size_ : SlotOf(i) = i - 1
  BY DEF SlotOf
<1>6. \A i \in 1 .. ring_size_' : SlotOf(i)' = i - 1
  BY <1>3 DEF SlotOf
<1>7. Append(Contents, r) \in Seq(Record) /\ Len(Append(Contents, r)) = ring_size_ + 1
  BY <1>1
<1>8. ASSUME NEW i \in 1 .. (ring_size_ + 1) PROVE Contents'[i] = Append(Contents, r)[i]
  <2>1. Contents'[i] = [state |-> states_'[i - 1].errors_, command |-> commands_'[i - 1]]
    BY <1>2, <1>3, <1>6
  <2>2. i - 1 \in Slot
    BY <1>3 DEF Slot
  <2>3. CASE i = ring_size_ + 1
    <3>1. Contents'[i] = [state |-> r.state, command |-> r.command]
      BY <1>3, <1>4, <2>1, <2>2, <2>3
    <3>2. r = [state |-> r.state, command |-> r.command]
      BY DEF Record
    <3>3. Append(Contents, r)[ring_size_ + 1] = r
      BY <1>1, <1>3
    <3>. QED BY <2>3, <3>1, <3>2, <3>3
  <2>4. CASE i # ring_size_ + 1
    <3>1. i \in 1 .. ring_size_ /\ i - 1 # ring_size_
      BY <1>3, <2>4
    <3>2. Contents[i] = [state |-> states_[i - 1].errors_, command |-> commands_[i - 1]]
      BY <1>1, <1>5, <3>1
    <3>3. Contents'[i] = Contents[i]
      BY <1>4, <2>1, <2>2, <3>1, <3>2
    <3>. QED BY <1>1, <3>1, <3>3
  <2>. QED BY <2>3, <2>4
<1>. QED BY <1>2, <1>3, <1>7, <1>8, SameRecords

\* ... and a full one loses its oldest record for it.
LEMMA LogShifts ==
    ASSUME IInv, IInv', NEW r \in Record, log(r), ring_size_ = log_size_
    PROVE  Contents' = Tail(Append(Contents, r))
<1>1. /\ Contents \in Seq(Record) /\ Len(Contents) = ring_size_
      /\ \A i \in 1 .. ring_size_ : Contents[i] = [state |-> states_[SlotOf(i)].errors_,
                                                   command |-> commands_[SlotOf(i)]]
  BY ContentsAre
<1>2. (/\ Contents \in Seq(Record) /\ Len(Contents) = ring_size_
       /\ \A i \in 1 .. ring_size_ : Contents[i] = [state |-> states_[SlotOf(i)].errors_,
                                                    command |-> commands_[SlotOf(i)]])'
  BY ContentsAre, PTL
<1>3. /\ ring_size_' = ring_size_ /\ ring_size_ \in Nat /\ log_size_ > 0
      /\ ring_front_ \in 0 .. (log_size_ - 1)
      /\ ring_front_' = IF ring_front_ + 1 < log_size_ THEN ring_front_ + 1 ELSE 0
  BY LogMoves, LogSizeAssumption DEF Slot
<1>4. \A i \in Slot : /\ states_'[i].errors_ = IF i = ring_front_ THEN r.state ELSE states_[i].errors_
                      /\ commands_'[i] = IF i = ring_front_ THEN r.command ELSE commands_[i]
  BY LogMoves
<1>. DEFINE s == Append(Contents, r)
<1>5. /\ s \in Seq(Record) /\ Len(s) = ring_size_ + 1
      /\ \A i \in 1 .. ring_size_ : s[i] = Contents[i]
      /\ s[ring_size_ + 1] = r
  BY <1>1, <1>3
<1>6. /\ Tail(s) \in Seq(Record) /\ Len(Tail(s)) = ring_size_
      /\ \A i \in 1 .. ring_size_ : Tail(s)[i] = s[i + 1]
  BY <1>3, <1>5
<1>7. ASSUME NEW i \in 1 .. ring_size_ PROVE Contents'[i] = Tail(s)[i]
  <2>. DEFINE k == SlotOf(i)'
  <2>1. Contents'[i] = [state |-> states_'[k].errors_, command |-> commands_'[k]]
    BY <1>2, <1>3
  <2>2. CASE i = ring_size_
    <3>1. k = ring_front_ /\ k \in Slot
      BY <1>3, <2>2 DEF SlotOf, Slot
    <3>2. Contents'[i] = [state |-> r.state, command |-> r.command]
      BY <1>4, <2>1, <3>1
    <3>3. r = [state |-> r.state, command |-> r.command]
      BY DEF Record
    <3>. QED BY <1>5, <1>6, <2>2, <3>2, <3>3
  <2>3. CASE i # ring_size_
    <3>1. i + 1 \in 1 .. ring_size_
      BY <1>3, <2>3
    <3>2. k = SlotOf(i + 1) /\ k \in Slot /\ k # ring_front_
      BY <1>3, <2>3 DEF SlotOf, Slot
    <3>3. Contents[i + 1] = [state |-> states_[k].errors_, command |-> commands_[k]]
      BY <1>1, <3>1, <3>2
    <3>4. Contents'[i] = Contents[i + 1]
      BY <1>4, <2>1, <3>2, <3>3
    <3>. QED BY <1>5, <1>6, <3>1, <3>4
  <2>. QED BY <2>2, <2>3
<1>. QED BY <1>2, <1>3, <1>6, <1>7, SameRecords

(* A flush returns the newest log_size_ records since the last one, oldest *)
(* first, with the errors each record had when it was logged: the ring     *)
(* implements BoundedLog (logger.cpp:12-46, errors.cpp:15-22).             *)
THEOREM RingIsAWindow == Spec => ImplementsBoundedLog
<1>1. Init => Window!Init
  <2>. SUFFICES ASSUME Init PROVE Window!Init
    OBVIOUS
  <2>1. Contents \in Seq(Record) /\ Len(Contents) = 0
    BY InitInvariant, ContentsAre DEF Init
  <2>2. Contents = <<>>
    BY <2>1
  <2>. QED BY <2>2 DEF Init, Window!Init
<1>2. IInv /\ IInv' /\ [Next]_vars => [Window!Next]_(Window!vars)
  <2>. SUFFICES ASSUME IInv, IInv', [Next]_vars PROVE [Window!Next]_(Window!vars)
    OBVIOUS
  <2>1. ASSUME NEW r \in Record, log(r) PROVE Window!Next
    <3>1. Len(Append(Contents, r)) = ring_size_ + 1 /\ ring_size_ \in 0 .. log_size_
      BY ContentsAre DEF IInv, TypeOK
    <3>2. CASE ring_size_ < log_size_
      <4>1. Contents' = Window!Newest(Append(Contents, r))
        BY <2>1, <3>1, <3>2, LogAppends, LogSizeAssumption DEF Window!Newest
      <4>. QED BY <2>1, <4>1 DEF log, Window!Next, Window!Log
    <3>3. CASE ring_size_ = log_size_
      <4>1. Contents' = Window!Newest(Append(Contents, r))
        BY <2>1, <3>1, <3>3, LogShifts, LogSizeAssumption DEF Window!Newest
      <4>. QED BY <2>1, <4>1 DEF log, Window!Next, Window!Log
    <3>. QED BY <3>1, <3>2, <3>3, LogSizeAssumption
  <2>2. CASE flush
    <3>1. (Contents \in Seq(Record) /\ Len(Contents) = ring_size_)'
      BY ContentsAre, PTL
    <3>2. Contents' = <<>> /\ flushed' = Contents
      BY <2>2, <3>1 DEF flush
    <3>. QED BY <3>2 DEF Window!Next, Window!Flush
  <2>3. CASE UNCHANGED vars
    <3>1. Contents' = Contents /\ UNCHANGED flushed
      BY <2>3 DEF vars, Contents, Row, WrappedIndex, Assign, Copy, Construct, Members
    <3>. QED BY <3>1 DEF Window!vars
  <2>. QED BY <2>1, <2>2, <2>3 DEF Next
<1>. QED BY <1>1, <1>2, InvariantHolds, PTL DEF Spec, Window!Spec, ImplementsBoundedLog
===========================================================================
