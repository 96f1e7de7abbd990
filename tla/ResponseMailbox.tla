-------------------------- MODULE ResponseMailbox -------------------------
(***************************************************************************)
(* What the TCP half of Network provides: responses arrive in the order    *)
(* they were sent, each is put whole under its command id unless one with  *)
(* that id waits there already, and stays until it is taken.               *)
(***************************************************************************)
EXTENDS Integers, Sequences

CONSTANTS Id,       \* command ids
          Message,  \* responses, records with a field id
          None

VARIABLES wire,     \* responses sent and not delivered, in order
          mailbox   \* the response that waits under each id

vars == <<wire, mailbox>>

Init ==
    /\ wire = <<>>
    /\ mailbox = [id \in Id |-> None]

\* One response is sent, or several together.
Send ==
    /\ wire' \in Seq(Message)
    /\ Len(wire') > Len(wire)
    /\ \A i \in DOMAIN wire : wire'[i] = wire[i]
    /\ UNCHANGED mailbox

Delivered ==
    LET m == Head(wire) IN
    IF mailbox[m.id] = None THEN [mailbox EXCEPT ![m.id] = m] ELSE mailbox

Deliver ==
    /\ wire # <<>>
    /\ wire' = Tail(wire)
    /\ mailbox' = Delivered

TakeFrom(id) ==
    /\ mailbox[id] # None
    /\ mailbox' = [mailbox EXCEPT ![id] = None]
    /\ UNCHANGED wire

Next == Send \/ Deliver \/ (\E id \in Id : TakeFrom(id))

Spec == Init /\ [][Next]_vars

---------------------------------------------------------------------------
(* The same for users that read and find in one pass under tcp_mutex_.     *)

\* Deliver and then TakeFrom(id), with no other thread in between.
Receive(id) ==
    /\ wire # <<>>
    /\ wire' = Tail(wire)
    /\ Delivered[id] # None
    /\ mailbox' = [Delivered EXCEPT ![id] = None]

PassNext == Next \/ (\E id \in Id : Receive(id))

PassSpec == Init /\ [][PassNext]_vars
===========================================================================
