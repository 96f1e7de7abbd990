---------------------------- MODULE BoundedLog ----------------------------
(***************************************************************************)
(* What franka::Logger promises to its users (Robot::Impl::update logs one *)
(* record per cycle, createControlException reports the flushed log): a    *)
(* flush returns the most recent Capacity records logged since the last    *)
(* flush, oldest first, and forgets them.                                  *)
(***************************************************************************)
EXTENDS Naturals, Sequences

CONSTANTS Capacity,   \* how many records the log keeps
          Record      \* the records that can be logged

VARIABLES window,     \* the records the next flush returns, oldest first
          flushed     \* what the last flush returned

vars == <<window, flushed>>

\* s without its first element when it is longer than the capacity.
Newest(s) == IF Len(s) > Capacity THEN Tail(s) ELSE s

Init == window = <<>> /\ flushed = <<>>

Log(r) ==
    /\ window' = Newest(Append(window, r))
    /\ UNCHANGED flushed

Flush ==
    /\ flushed' = window
    /\ window' = <<>>

Next == Flush \/ \E r \in Record : Log(r)

Spec == Init /\ [][Next]_vars
===========================================================================
