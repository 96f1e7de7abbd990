------------------------------ MODULE Logger ------------------------------
(***************************************************************************)
(* franka::Logger: a ring of log_size_ slots written at ring_front_, of    *)
(* which ring_size_ hold records.  Of a state, its errors are modelled:    *)
(* they are no plain value but an object with references into itself, and  *)
(* the log is where states are copied, assigned and moved about most.      *)
(***************************************************************************)
EXTENDS Integers, Sequences, Errors

CONSTANTS log_size_,   \* the log_size argument of the Robot constructor
          Command,     \* the commands that can be logged
          Unset        \* the command of a slot that was never written

ASSUME LogSizeAssumption == log_size_ \in Nat
ASSUME UnsetAssumption == Unset \notin Command

VARIABLES states_, commands_,
          ring_front_,  \* the next slot to write
          ring_size_,   \* how many slots hold records
          flushed       \* what the last call of flush() returned

vars == <<states_, commands_, ring_front_, ring_size_, flushed>>

\* One row of the log.
Record == [state : Flags, command : Command]

Slot == 0 .. (log_size_ - 1)

TypeOK ==
    /\ states_ \in [Slot -> [errors_ : Flags, members : {<<"states_", i>> : i \in Slot}]]
    /\ commands_ \in [Slot -> Command \cup {Unset}]
    /\ ring_front_ \in 0 .. log_size_
    /\ ring_size_ \in 0 .. log_size_
    /\ flushed \in Seq(Record)

Init ==
    /\ states_ = [i \in Slot |-> Construct({}, <<"states_", i>>)]
    /\ commands_ = [i \in Slot |-> Unset]
    /\ ring_front_ = 0
    /\ ring_size_ = 0
    /\ flushed = <<>>

\* The slot flush() reads for position i (counted from 1) of its result.
WrappedIndex(i) == (ring_front_ + (i - 1)) % ring_size_

\* The row made from it: a local record is assigned, and push_back copies it
\* to its place in the vector.
Row(i) ==
    LET record == Assign(Construct({}, <<"record", 0>>), states_[WrappedIndex(i)])
        place == <<"log", i>>
    IN  [state |-> Members(Copy(record, place), place), command |-> commands_[WrappedIndex(i)]]

Contents == [i \in 1 .. ring_size_ |-> Row(i)]

\* Writing a record to the slot at ring_front_.
Write(r) ==
    /\ states_' = [states_ EXCEPT ![ring_front_] =
                      Assign(states_[ring_front_], Construct(r.state, <<"current_state_", 0>>))]
    /\ commands_' = [commands_ EXCEPT ![ring_front_] = r.command]

\* Mutant of log: the ring wraps one slot early.
log_WrapsEarly(r) ==
    /\ log_size_ # 0
    /\ Write(r)
    /\ ring_front_' = (ring_front_ + 1) % (log_size_ - 1)
    /\ ring_size_' = IF ring_size_ + 1 < log_size_ THEN ring_size_ + 1 ELSE log_size_
    /\ UNCHANGED flushed

\* Logger::log, which does nothing when the log has no room at all.
log(r) ==
    /\ log_size_ # 0
    /\ Write(r)
    /\ ring_front_' = (ring_front_ + 1) % log_size_
    /\ ring_size_' = IF ring_size_ + 1 < log_size_ THEN ring_size_ + 1 ELSE log_size_
    /\ UNCHANGED flushed

\* Mutant of flush: ring_front_ is not reset.
flush_KeepsFront ==
    /\ flushed' = Contents
    /\ ring_size_' = 0
    /\ UNCHANGED <<states_, commands_, ring_front_>>

\* Logger::flush.  The slots keep their records, only the indices are reset.
flush ==
    /\ flushed' = Contents
    /\ ring_front_' = 0
    /\ ring_size_' = 0
    /\ UNCHANGED <<states_, commands_>>

Next == flush \/ \E r \in Record : log(r)

Spec == Init /\ [][Next]_vars

---------------------------------------------------------------------------
(* The state the wrapped indices rest on: the ring is written from slot 0  *)
(* up until it is full (logger.cpp:19-20 and 43-44), so that reading it    *)
(* modulo ring_size_ instead of log_size_ (logger.cpp:27) is right.        *)
FilledFromZero ==
    /\ ring_size_ < log_size_ => ring_front_ = ring_size_
    /\ ring_size_ = log_size_ /\ log_size_ > 0 => ring_front_ \in Slot
    /\ \A i \in 0 .. (ring_size_ - 1) : commands_[i] \in Command

(* The ring implements a window over the most recent log_size_ records     *)
(* since the last flush, although flush() leaves the old records in the    *)
(* slots (logger.cpp:12-46), and what the members of the errors in the     *)
(* flushed records show is what was logged, although every one of these    *)
(* objects was assigned to and copied (errors.cpp:15-22).                  *)
Window == INSTANCE BoundedLog WITH Capacity <- log_size_, window <- Contents

ImplementsBoundedLog == Window!Spec
===========================================================================
