---------------------------- MODULE ManagedValue ----------------------------
(***************************************************************************)
(* cppinterp::Value and the intrusively counted AllocatedValue behind it   *)
(* (lib/Interpreter/Value.cc, include/cppinterp/Interpreter/Value.h).      *)
(*                                                                         *)
(* Handles are Value objects, cells the heap blocks of AllocatedValue.     *)
(* The program is sequential, but Release runs the destructors of the      *)
(* user's objects, and these are interpreted code that may use any other   *)
(* Value: the assignments and destructions in progress form a stack, and   *)
(* new operations start on top of a frame that is inside a destructor.     *)
(***************************************************************************)
EXTENDS PayloadLayout, Sequences, FiniteSets

CONSTANTS
  Handle,         \* Value objects
  Cell,           \* addresses operator new may return
  NoCell,         \* "the handle manages no allocation"
  Layout,         \* the managed layouts programs ask for
  Constructions,  \* what running a constructor may leave, see Construct
  Misuse,         \* what clients do beyond the contract, see MayAssign
  CountLimit,     \* 2^32: ref_cnt_ is unsigned
  MaxDepth        \* bound on nested assignments and destructions

ASSUME HandleAssumption ==
  /\ IsFiniteSet(Handle)
  /\ CountLimit \in Nat
  /\ Cardinality(Handle) < CountLimit
  /\ MaxDepth \in Nat
ASSUME CellAssumption == NoCell \notin Cell
ASSUME LayoutAssumption == Layout # {} /\ \A l \in Layout : IsLayout(l)
ASSUME ClientAssumption ==
  /\ Constructions \subseteq {"full", "silent", "thrown"}
  /\ Misuse \subseteq {"self", "reentrant"}

VARIABLES
  handle,   \* per handle its type_kind_ and the cell it manages
  heap,     \* per cell the AllocatedValue and what its payload holds
  stack     \* the assignments and destructions in progress, last one on top

vars == <<handle, heap, stack>>

Kind == {"dead", "invalid", "builtin", "object"}

HandleState == [kind : Kind, cell : Cell \cup {NoCell}]

(* status, cnt (ref_cnt_), left (elems_num_) and layout are the header;    *)
(* touched says that the canary is gone, built the offsets of the objects  *)
(* that live in the payload.                                               *)
CellState ==
  [status : {"free", "live"}, cnt : 0 .. CountLimit - 1, left : Nat,
   layout : Layout, touched : BOOLEAN, built : SUBSET Nat]

Frame ==
  [op : {"copy", "move", "destroy"}, dst : Handle, src : Handle,
   cell : Cell \cup {NoCell}, pc : {"release", "destroy", "delete", "assign"}]

Blank ==
  [status |-> "free", cnt |-> 0, left |-> 0,
   layout |-> CHOOSE l \in Layout : TRUE, touched |-> FALSE, built |-> {}]

Dead == [kind |-> "dead", cell |-> NoCell]

Init ==
  /\ handle = [h \in Handle |-> Dead]
  /\ heap = [c \in Cell |-> Blank]
  /\ stack = <<>>

-----------------------------------------------------------------------------
(* The call stack.                                                         *)

Depth == Len(stack)
Top == stack[Depth]
Goto(pc) == [stack EXCEPT ![Depth].pc = pc]
Return == SubSeq(stack, 1, Depth - 1)

(* Client code runs when no operation is in progress, or inside the        *)
(* destructor of an element: at least one of them has been called.         *)
ClientRuns ==
  stack # <<>> => /\ Top.pc = "destroy"
                  /\ heap[Top.cell].left < heap[Top.cell].layout.elems

Alive(h) == handle[h].kind # "dead"
Managed(h) == handle[h].cell # NoCell

(* The contract of the clients.  A handle that an operation in progress    *)
(* writes is not touched, unless "reentrant" is in Misuse (and never one   *)
(* whose C++ lifetime is ending); a handle it still has to read is not     *)
(* destroyed; the only handle of a cell is not assigned to itself, unless  *)
(* "self" is in Misuse.                                                    *)
Untouched(h) ==
  \A i \in 1 .. Depth :
    stack[i].dst = h => stack[i].op # "destroy" /\ "reentrant" \in Misuse

MayDestroy(h) ==
  Untouched(h) /\ \A i \in 1 .. Depth : stack[i].dst # h /\ stack[i].src # h

(* A mutant: clients assign the only handle of a payload to itself. *)
MayAssign_Self(h, g) == Untouched(h) /\ Untouched(g)

MayAssign(h, g) ==
  /\ Untouched(h) /\ Untouched(g)
  /\ h = g /\ Managed(h) => heap[handle[h].cell].cnt > 1 \/ "self" \in Misuse

-----------------------------------------------------------------------------
(* The counter.  Reading the header of a freed cell yields anything.       *)

Count(c) == IF heap[c].status = "live" THEN {heap[c].cnt}
                                       ELSE 0 .. CountLimit - 1
Inc(n) == (n + 1) % CountLimit
Dec(n) == (n + CountLimit - 1) % CountLimit

(* AllocatedValue::Retain on the cell of handle state s, if it manages one *)
Retain(s) ==
  IF s.cell = NoCell THEN UNCHANGED heap
  ELSE \E n \in Count(s.cell) : heap' = [heap EXCEPT ![s.cell].cnt = Inc(n)]

-----------------------------------------------------------------------------
(* Construction.                                                           *)

(* Value() = default *)
DefaultConstruct(h) ==
  /\ ClientRuns
  /\ ~Alive(h)
  /\ handle' = [handle EXCEPT ![h].kind = "invalid"]
  /\ UNCHANGED <<heap, stack>>

(* Value(QualType, Interpreter&) for a type that is not managed, and       *)
(* Value::Create, whose types are all builtin.                             *)
ConstructPlain(h, kind) ==
  /\ ClientRuns
  /\ ~Alive(h)
  /\ handle' = [handle EXCEPT ![h].kind = kind]
  /\ UNCHANGED <<heap, stack>>

(* Value(QualType, Interpreter&) for a record, a constant array or a       *)
(* pointer to member: ManagedAllocate and CreatePayload.                   *)
ConstructManaged(h, l, c) ==
  /\ ClientRuns
  /\ ~Alive(h)
  /\ heap[c].status = "free"
  /\ heap' = [heap EXCEPT ![c] =
                [status |-> "live", cnt |-> 1, left |-> l.elems, layout |-> l,
                 touched |-> FALSE, built |-> {}]]
  /\ handle' = [handle EXCEPT ![h] = [kind |-> "object", cell |-> c]]
  /\ UNCHANGED stack

(* Compiled code runs the constructors of the payload's elements, once.    *)
(* "full": all are built; "silent": so are they, but no constructor wrote  *)
(* the bytes of the canary (an empty class); "thrown": one threw after     *)
(* bytes were written, and the language destroyed the earlier elements.    *)
Construct(h, outcome) ==
  /\ ClientRuns
  /\ Untouched(h)
  /\ Managed(h)
  /\ LET c == handle[h].cell
         l == heap[c].layout
     IN  /\ heap[c].built = {} /\ ~heap[c].touched
         /\ heap[c].status = "live"
         /\ heap' = [heap EXCEPT
              ![c].touched = outcome # "silent" /\ l.elems > 0,
              ![c].built = IF outcome = "thrown" THEN {} ELSE Offsets(l)]
  /\ UNCHANGED <<handle, stack>>

(* Value(const Value&) *)
CopyConstruct(h, g) ==
  /\ ClientRuns
  /\ ~Alive(h) /\ Alive(g) /\ Untouched(g)
  /\ handle' = [handle EXCEPT ![h] = handle[g]]
  /\ Retain(handle[g])
  /\ UNCHANGED stack

(* What is left of a handle that was moved from. *)
MovedFrom == [kind |-> "invalid", cell |-> NoCell]

(* A mutant: the source keeps its payload. *)
MoveConstruct_KeepsSource(h, g) ==
  /\ ClientRuns
  /\ ~Alive(h) /\ Alive(g) /\ Untouched(g)
  /\ handle' = [handle EXCEPT ![h] = handle[g]]
  /\ UNCHANGED <<heap, stack>>

(* Value(Value&&) *)
MoveConstruct(h, g) ==
  /\ ClientRuns
  /\ ~Alive(h) /\ Alive(g) /\ Untouched(g)
  /\ handle' = [handle EXCEPT ![h] = handle[g], ![g] = MovedFrom]
  /\ UNCHANGED <<heap, stack>>

-----------------------------------------------------------------------------
(* Assignment and destruction: release the old payload, then assign.       *)

Begin(op, h, g) ==
  /\ ClientRuns
  /\ Depth < MaxDepth
  /\ stack' = Append(stack,
       [op |-> op, dst |-> h, src |-> g, cell |-> handle[h].cell,
        pc |-> IF Managed(h) THEN "release" ELSE "assign"])
  /\ UNCHANGED <<handle, heap>>

(* operator=(const Value&) *)
CopyAssign(h, g) ==
  Alive(h) /\ Alive(g) /\ MayAssign(h, g) /\ Begin("copy", h, g)

(* operator=(Value&&); a handle may be moved to itself *)
MoveAssign(h, g) ==
  Alive(h) /\ Alive(g) /\ Untouched(h) /\ Untouched(g) /\ Begin("move", h, g)

(* ~Value() *)
Destroy(h) ==
  Alive(h) /\ MayDestroy(h) /\ Begin("destroy", h, h)

(* Mutants: a payload without destructor is never deleted; or deleted      *)
(* without a look at its destructor.                                       *)
AfterDecrement_KeepsPlain(c, n) ==
  IF n = 0 /\ heap[c].layout.dtor /\ heap[c].touched THEN "destroy" ELSE "assign"

AfterDecrement_NoDtor(c, n) == IF n # 0 THEN "assign" ELSE "delete"

(* Where Release goes on when ref_cnt_ has become n: the last holder       *)
(* destroys the elements if there is a destructor and IsAlive() holds.     *)
AfterDecrement(c, n) ==
  CASE n # 0 -> "assign"
    [] n = 0 /\ heap[c].layout.dtor /\ heap[c].touched -> "destroy"
    [] OTHER -> "delete"

(* Release up to the first destructor.                                     *)
ReleaseStart ==
  /\ stack # <<>> /\ Top.pc = "release"
  /\ \E n \in Count(Top.cell) :
       /\ heap' = [heap EXCEPT ![Top.cell].cnt = Dec(n)]
       /\ stack' = Goto(AfterDecrement(Top.cell, Dec(n)))
  /\ UNCHANGED handle

(* A mutant: the loop counter is not written back. *)
DestroyElem_NoDecrement ==
  /\ stack # <<>> /\ Top.pc = "destroy"
  /\ LET c == Top.cell
         i == heap[c].left - 1
     IN  /\ heap[c].left # 0
         /\ heap' = [heap EXCEPT ![c].built = @ \ {DestroyedAt(heap[c].layout, i)}]
  /\ UNCHANGED <<handle, stack>>

(* One round of while (elems_num_-- != 0): the last element not destroyed  *)
(* yet is; its destructor is client code.                                  *)
DestroyElem ==
  /\ stack # <<>> /\ Top.pc = "destroy"
  /\ LET c == Top.cell
         i == heap[c].left - 1
     IN  /\ heap[c].left # 0
         /\ heap' = [heap EXCEPT ![c].left = i,
                                 ![c].built = @ \ {DestroyedAt(heap[c].layout, i)}]
  /\ UNCHANGED <<handle, stack>>

(* delete[] of the block; what is left in freed memory is not modelled.     *)
DeletePayload ==
  /\ stack # <<>>
  /\ \/ Top.pc = "delete"
     \/ Top.pc = "destroy" /\ heap[Top.cell].left = 0
  /\ heap' = [heap EXCEPT ![Top.cell] = Blank]
  /\ stack' = Goto("assign")
  /\ UNCHANGED handle

(* The rest of the operation: the fields are copied, then a copy retains,  *)
(* a move invalidates its source, and a destroyed handle is gone.          *)
Finish ==
  /\ stack # <<>> /\ Top.pc = "assign"
  /\ \/ /\ Top.op = "copy"
        /\ handle' = [handle EXCEPT ![Top.dst] = handle[Top.src]]
        /\ Retain(handle[Top.src])
     \/ /\ Top.op = "move"
        /\ handle' = [handle EXCEPT ![Top.dst] = handle[Top.src],
                                    ![Top.src] = MovedFrom]
        /\ UNCHANGED heap
     \/ /\ Top.op = "destroy"
        /\ handle' = [handle EXCEPT ![Top.dst] = Dead]
        /\ UNCHANGED heap
  /\ stack' = Return

Step == ReleaseStart \/ DestroyElem \/ DeletePayload \/ Finish

Client ==
  \E h \in Handle :
    \/ DefaultConstruct(h)
    \/ \E kind \in {"builtin", "object"} : ConstructPlain(h, kind)
    \/ \E l \in Layout, c \in Cell : ConstructManaged(h, l, c)
    \/ \E outcome \in Constructions : Construct(h, outcome)
    \/ \E g \in Handle : CopyConstruct(h, g)
    \/ \E g \in Handle : MoveConstruct(h, g)
    \/ \E g \in Handle : CopyAssign(h, g)
    \/ \E g \in Handle : MoveAssign(h, g)
    \/ Destroy(h)

Next == Client \/ Step

Spec == Init /\ [][Next]_vars

(* The code of an operation runs on, and a user's destructor that is       *)
(* entered returns to the loop that called it.                             *)
Fairness == \A d \in 1 .. MaxDepth : SF_vars(Depth = d /\ Step)

FairSpec == Spec /\ Fairness

-----------------------------------------------------------------------------
(* Properties.                                                             *)

(* The fields of Values, AllocatedValues and calls in progress (Value.h, Value.cc). *)
TypeOK ==
  /\ handle \in [Handle -> HandleState]
  /\ heap \in [Cell -> CellState]
  /\ stack \in Seq(Frame)

(* The operation on h has given up its old cell and not written h yet.     *)
Released(h) == \E i \in 1 .. Depth : stack[i].dst = h /\ stack[i].pc # "release"

Holders(c) == {h \in Handle : handle[h].cell = c /\ ~Released(h)}

Destroying(c) ==
  \E i \in 1 .. Depth :
    stack[i].cell = c /\ stack[i].pc \in {"destroy", "delete"}

(* ref_cnt_ is the number of Values that hold the payload, through every   *)
(* interleaving of assignments with the destructors they run; in           *)
(* particular no Value names a freed or a re-used block (Retain, Release). *)
CountIsHolders ==
  \A c \in Cell : IF heap[c].status = "live"
                  THEN heap[c].cnt = Cardinality(Holders(c))
                  ELSE Holders(c) = {}

(* Nothing leaks: an allocation that no Value holds is being released by   *)
(* an operation in progress (Release).                                     *)
NoLeak ==
  \A c \in Cell :
    (heap[c].status = "live" /\ heap[c].cnt = 0) <=> Destroying(c)

(* The frame i of the stack: it is inside a destructor unless it is the    *)
(* last; the handle it writes still has the cell it releases; the cell it  *)
(* destroys has no holder, which a self-assignment never comes to.         *)
FrameOK(i) ==
  LET f == stack[i]
  IN  /\ i < Depth => f.pc = "destroy"
      /\ Alive(f.dst)
      /\ handle[f.dst].cell = f.cell
      /\ f.pc # "assign" => f.cell # NoCell
      /\ f.pc \in {"destroy", "delete"} =>
           heap[f.cell].status = "live" /\ heap[f.cell].cnt = 0
      /\ f.op = "copy" /\ f.src = f.dst /\ f.cell # NoCell =>
           /\ heap[f.cell].status = "live"
           /\ heap[f.cell].cnt > IF f.pc = "release" THEN 1 ELSE 0

(* A later frame j neither writes nor reads the handle that i writes, and  *)
(* does not destroy what i destroys.                                       *)
FramesApart(i, j) ==
  /\ stack[i].dst # stack[j].dst
  /\ stack[i].dst # stack[j].src
  /\ stack[j].pc \in {"destroy", "delete"} => stack[i].cell # stack[j].cell

(* Operations nested through destructors stay apart (Release under         *)
(* operator= and ~Value), and a handle not yet constructed has no cell.    *)
StackOK ==
  /\ \A h \in Handle : ~Alive(h) => ~Managed(h)
  /\ \A i \in 1 .. Depth : FrameOK(i)
  /\ \A i, j \in 1 .. Depth : i < j => FramesApart(i, j)

(* assert(ref_cnt_ > 0 && "Reference count is already zero.")              *)
CountPositive ==
  stack # <<>> /\ Top.pc = "release" => heap[Top.cell].cnt > 0

(* assert(elems_num_ && "No elements!"), and every destructor call finds   *)
(* the object it destroys, which has not been destroyed before (Release).  *)
DestroysBuilt ==
  stack # <<>> /\ Top.pc = "destroy" =>
    LET c == heap[Top.cell]
    IN  /\ c.layout.elems # 0
        /\ c.left # 0 => DestroyedAt(c.layout, c.left - 1) \in c.built

(* A block is freed only when no object with a destructor is left in it    *)
(* (Release's loop has run over all elements before delete[]).             *)
FreedDestroyed ==
  [][\A c \in Cell :
       heap[c].status = "live" /\ heap'[c].status = "free"
         => ~heap[c].layout.dtor \/ heap[c].built = {}]_vars

(* A payload that lost its last Value is given back, also when the         *)
(* destructors it runs start operations of their own.                      *)
Reclaimed ==
  \A c \in Cell :
    (heap[c].status = "live" /\ heap[c].cnt = 0) ~> (heap[c].status = "free")

(* Sharing by counting implements sharing by sets of owners.               *)
Abstract == INSTANCE SharedPayload WITH
  owners <- [c \in Cell |-> IF heap[c].status = "live" THEN Holders(c) ELSE {}],
  phase <- [c \in Cell |-> IF heap[c].status = "free" THEN "none"
                           ELSE IF heap[c].cnt > 0 THEN "held" ELSE "dying"]

(* The Values promise SharedPayload, and give every payload back.          *)
Shared == Abstract!FairSpec

(* "release the old value": the payload a Value names is never one that    *)
(* its own assignment has already freed (operator=).                       *)
HeldIsLive ==
  \A h \in Handle :
    Managed(h) /\ ~Released(h) => heap[handle[h].cell].status = "live"
=============================================================================
