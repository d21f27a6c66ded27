----------------------------- MODULE ValueTypes -----------------------------
(***************************************************************************)
(* Value(QualType, Interpreter&): what a C++ type becomes, its TypeKind,   *)
(* whether it is managed, and the layout its payload is given              *)
(* (lib/Interpreter/Value.cc: getCorrespondingTypeKind, the constructor,   *)
(* GetNumberOfElements, ManagedAllocate).                                  *)
(*                                                                         *)
(* A type is a base type under array dimensions, outermost first.  Clang's *)
(* dyn_cast looks at a type as it is spelled: it does not see through a    *)
(* typedef name, getAs and the is... predicates do.  So a type also says   *)
(* how many of its dimensions the spelling shows (visible), and whether    *)
(* the base type is spelled with a typedef name (sugar).                   *)
(*                                                                         *)
(* Its names leave room for those of ManagedValue, so that one module can  *)
(* extend both.                                                            *)
(***************************************************************************)
EXTENDS PayloadLayout, Sequences

CONSTANT Type   \* the types the program makes Values of

Builtins == {"void", "int", "nullptr", "unsupported"}
Bases == Builtins \cup {"enum", "pointer", "record", "memberptr", "vector"}

IsType(t) ==
  /\ t.base \in Bases
  /\ t.size \in Nat \ {0}
  /\ t.sugar \in BOOLEAN
  /\ t.dims \in Seq(Nat)
  /\ t.visible \in 0 .. Len(t.dims)

ASSUME TypeAssumption == \A t \in Type : IsType(t)

VARIABLES
  type,    \* the type the next Value is made of
  value    \* the Value that was made of it, or NoValue

valueVars == <<type, value>>

NoValue == [kind |-> "invalid", managed |-> FALSE]

ValueInit ==
  /\ type \in Type
  /\ value = NoValue

-----------------------------------------------------------------------------
(* The loop of GetNumberOfElements over the dimensions s.                  *)
Product(s) ==
  LET product[i \in 0 .. Len(s)] == IF i = 0 THEN 1 ELSE product[i - 1] * s[i]
  IN  product[Len(s)]

(* getCorrespondingTypeKind; an enum is the builtin type under it, if the  *)
(* spelling shows that it is an enum.                                      *)
TypeKind(t) ==
  CASE t.dims # <<>> -> "object"
    [] t.dims = <<>> /\ t.base \in {"void", "int"} -> "builtin"
    [] t.dims = <<>> /\ t.base = "enum" /\ ~t.sugar -> "builtin"
    [] t.dims = <<>> /\ t.base = "unsupported" -> "invalid"
    [] OTHER -> "object"

(* The test of the constructor, on the canonical type. *)
NeedsManaged(t) ==
  /\ TypeKind(t) = "object"
  /\ t.dims # <<>> \/ t.base \in {"record", "memberptr"}

(* GetNumberOfElements: the product of the dimensions the spelling shows.  *)
NumberOfElements(t) == Product(SubSeq(t.dims, 1, t.visible))

(* A mutant: a record that is no array is not looked at. *)
HasDtor_ArraysOnly(t) ==
  t.base = "record" /\ Len(t.dims) = 1 /\ t.visible > 0

(* ManagedAllocate looks for a record at most one visible dimension down.  *)
HasDtor(t) ==
  /\ t.base = "record"
  /\ Len(t.dims) = IF t.visible > 0 THEN 1 ELSE 0

Bytes(t) == Product(t.dims) * t.size

LayoutOf(t) ==
  LET n == NumberOfElements(t)
  IN  [elems |-> n,
       size |-> IF n = 0 THEN t.size ELSE Bytes(t) \div n,
       dtor |-> HasDtor(t)]

(* Value(QualType, Interpreter&) *)
ValueConstruct ==
  /\ value = NoValue
  /\ value' = IF NeedsManaged(type)
              THEN [kind |-> TypeKind(type), managed |-> TRUE,
                    layout |-> LayoutOf(type)]
              ELSE [kind |-> TypeKind(type), managed |-> FALSE]
  /\ UNCHANGED type

(* The Value goes and one of another type is made. *)
ValueForget ==
  /\ value # NoValue
  /\ value' = NoValue
  /\ type' \in Type

ValueNext == ValueConstruct \/ ValueForget

ValueSpec == ValueInit /\ [][ValueNext]_valueVars

-----------------------------------------------------------------------------
(* The types whose objects the code finds again: a class and an array of   *)
(* one dimension, not smaller than the canary, under no typedef name, and  *)
(* whatever has no destructor.                                             *)
Handled(t) ==
  t.base = "record" =>
    /\ t.visible = Len(t.dims) /\ Len(t.dims) <= 1
    /\ Product(t.dims) <= 1 \/ Product(t.dims) * t.size >= CanarySize

(* Where the objects of a type are that need a destructor call. *)
ObjectsOf(t) ==
  IF t.base = "record" THEN {i * t.size : i \in 0 .. Product(t.dims) - 1}
                       ELSE {}

(* Where Release will call the destructor. *)
DestroyedBy(l) ==
  IF l.dtor THEN {DestroyedAt(l, i) : i \in 0 .. l.elems - 1} ELSE {}

(* "managed if the type needs destruction": releasing a Value destroys     *)
(* exactly the objects its type says are in the payload (ManagedAllocate,  *)
(* GetNumberOfElements, CreatePayload, Release).                           *)
DestroysObjects ==
  value # NoValue =>
    ObjectsOf(type) = IF value.managed THEN DestroyedBy(value.layout) ELSE {}

=============================================================================
