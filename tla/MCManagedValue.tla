--------------------------- MODULE MCManagedValue ---------------------------
(* Instances of ManagedValue for TLC. *)
EXTENDS ManagedValue

Object == [elems |-> 1, size |-> 16, dtor |-> TRUE]
Pair == [elems |-> 2, size |-> 8, dtor |-> TRUE]
Scalar == [elems |-> 1, size |-> 4, dtor |-> FALSE]
Empty == [elems |-> 0, size |-> 8, dtor |-> TRUE]

Objects == {Object, Pair}
Layouts == {Object, Pair, Scalar, Empty}
=============================================================================
