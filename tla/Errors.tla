------------------------------- MODULE Errors -----------------------------
(***************************************************************************)
(* franka::Errors: the flags errors_, and public members that are          *)
(* references to these flags.  An object is modelled by its flags and by   *)
(* the place of the object whose flags its members refer to.               *)
(***************************************************************************)

CONSTANT Error    \* the errors the robot can report

\* The flags that are set.
Flags == SUBSET Error

\* The constructors from flags: the members refer to this object's errors_.
Construct(errors, place) == [errors_ |-> errors, members |-> place]

\* Mutant of Copy: the copy constructor the compiler would generate.
Copy_Generated(other, place) == other

\* The copy constructor: the flags are copied, the members are bound anew.
Copy(other, place) == Construct(other.errors_, place)

\* operator= takes a copy and swaps the flags; members cannot be bound again.
Assign(object, other) == [object EXCEPT !.errors_ = Copy(other, <<"argument", 0>>).errors_]

\* What the members of the object at place show.  If they refer to another
\* object, that may be gone: a value no error has.
Members(object, place) == IF object.members = place THEN object.errors_ ELSE {"dangling"}
===========================================================================
