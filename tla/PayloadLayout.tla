--------------------------- MODULE PayloadLayout ---------------------------
(***************************************************************************)
(* How an AllocatedValue lays out the objects it manages                   *)
(* (lib/Interpreter/Value.cc).  A layout is what Value::ManagedAllocate    *)
(* hands to AllocatedValue::CreatePayload: the number of elements, whether *)
(* there is a destructor to run, and, for the properties, the real size of *)
(* one element, which the code does not record.                            *)
(***************************************************************************)
EXTENDS Integers

(* sizeof(kCanaryUnconstructedObject). *)
CanarySize == 8

(* A payload smaller than the canary is padded to the canary's size; the   *)
(* padded size is the one that is kept as alloc_size_.                     *)
AllocSize(l) ==
  LET payload == l.elems * l.size
  IN  IF payload < CanarySize THEN CanarySize ELSE payload

(* A mutant: the size of the whole payload as the stride. *)
Skip_Whole(l) == AllocSize(l)

(* The stride of the destructor loop: alloc_size_ / elems_num_.            *)
Skip(l) == AllocSize(l) \div l.elems

(* The offset at which Release destroys element i.                         *)
DestroyedAt(l, i) == i * Skip(l)

(* The offset at which compiled code constructs element i of T[elems].     *)
BuiltAt(l, i) == i * l.size

Offsets(l) == {BuiltAt(l, i) : i \in 0 .. l.elems - 1}

(* A layout as Value builds it: elems may be 0 (T[0]), a size never is.    *)
IsLayout(l) ==
  /\ l.elems \in Nat
  /\ l.size \in Nat \ {0}
  /\ l.dtor \in BOOLEAN

(* The layouts whose stride is the size of their elements.                 *)
Strided(l) == \A i \in 0 .. l.elems - 1 : DestroyedAt(l, i) = BuiltAt(l, i)
=============================================================================
