------------------------- MODULE ManagedValueProofs -------------------------
(***************************************************************************)
(* Proofs about ManagedValue, for any number of Values, cells and nested   *)
(* operations, under the contract of the clients (Misuse = {}).            *)
(***************************************************************************)
EXTENDS ManagedValue, ValueTypes, FiniteSetTheorems, SequenceTheorems, TLAPS

-----------------------------------------------------------------------------
(* The counter as an unsigned of CountLimit values. *)

(* The counter has at least one value, as HandleAssumption needs it to. *)
LEMMA CountLimitPositive == CountLimit \in Nat \ {0}
  BY HandleAssumption, FS_CardinalityType

(* Inc and Dec stay in the range of the counter (Retain, Release). *)
LEMMA CounterType ==
  ASSUME NEW n \in 0 .. CountLimit - 1
  PROVE  Inc(n) \in 0 .. CountLimit - 1 /\ Dec(n) \in 0 .. CountLimit - 1
  BY CountLimitPositive DEF Inc, Dec

(* They count up and down where the counter does not wrap. *)
LEMMA IncExact ==
  ASSUME NEW n \in Nat, n + 1 < CountLimit
  PROVE  Inc(n) = n + 1
  BY CountLimitPositive DEF Inc

(* --ref_cnt_ is exact on a positive counter (Release). *)
LEMMA DecExact ==
  ASSUME NEW n \in 1 .. CountLimit - 1
  PROVE  Dec(n) = n - 1
  <1>1. n + CountLimit - 1 = (n - 1) + 1 * CountLimit
    BY CountLimitPositive
  <1>2. (n - 1) \in 0 .. CountLimit - 1
    BY CountLimitPositive
  <1> QED BY <1>1, <1>2, CountLimitPositive DEF Dec

(* Elements lie at natural offsets. *)
LEMMA OffsetsNat ==
  ASSUME NEW l \in Layout
  PROVE  Offsets(l) \subseteq Nat
  <1>1. l.elems \in Nat /\ l.size \in Nat
    BY LayoutAssumption DEF IsLayout
  <1>2. \A i, n \in Nat : i * n \in Nat
    OBVIOUS
  <1> QED BY <1>1, <1>2 DEF Offsets, BuiltAt

-----------------------------------------------------------------------------
(* The call stack. *)

(* What a call, a step and a return do to the call stack (operator=, ~Value). *)
LEMMA PushStack ==
  ASSUME stack \in Seq(Frame), NEW f \in Frame, stack' = Append(stack, f)
  PROVE  /\ stack' \in Seq(Frame)
         /\ Depth \in Nat
         /\ Depth' = Depth + 1
         /\ \A i \in 1 .. Depth : stack'[i] = stack[i]
         /\ stack'[Depth'] = f
  BY DEF Depth

(* A step of the last operation changes its place only (Release). *)
LEMMA GotoStack ==
  ASSUME stack \in Seq(Frame), stack # <<>>,
         NEW pc \in {"release", "destroy", "delete", "assign"},
         stack' = Goto(pc)
  PROVE  /\ stack' \in Seq(Frame)
         /\ Depth \in Nat \ {0}
         /\ Depth' = Depth
         /\ \A i \in 1 .. Depth - 1 : stack'[i] = stack[i]
         /\ Top' = [Top EXCEPT !.pc = pc]
         /\ Top \in Frame
  <1>1. Depth \in Nat \ {0} /\ Top \in Frame
    BY DEF Depth, Top
  <1>2. [Top EXCEPT !.pc = pc] \in Frame
    BY <1>1 DEF Frame
  <1>3. stack' = [stack EXCEPT ![Depth] = [Top EXCEPT !.pc = pc]]
    BY DEF Goto, Top
  <1>4. stack' \in Seq(Frame) /\ Depth' = Depth
    BY <1>1, <1>2, <1>3, ExceptSeq DEF Depth
  <1>5. \A i \in 1 .. Depth : stack'[i] = IF i = Depth
                                         THEN [Top EXCEPT !.pc = pc]
                                         ELSE stack[i]
    BY <1>1, <1>3 DEF Depth
  <1>6. Top' = stack'[Depth]
    BY <1>4 DEF Top
  <1> QED BY <1>1, <1>4, <1>5, <1>6

(* The end of an operation removes its frame (operator=, ~Value). *)
LEMMA PopStack ==
  ASSUME stack \in Seq(Frame), stack # <<>>, stack' = Return
  PROVE  /\ stack' \in Seq(Frame)
         /\ Depth \in Nat \ {0}
         /\ Depth' = Depth - 1
         /\ \A i \in 1 .. Depth - 1 : stack'[i] = stack[i]
         /\ Top \in Frame
  <1>1. Depth \in Nat \ {0} /\ Top \in Frame
    BY DEF Depth, Top
  <1>2. \A i \in 1 .. Depth - 1 : stack[i] \in Frame
    BY <1>1 DEF Depth
  <1>3. /\ stack' \in Seq(Frame)
        /\ Len(stack') = IF 1 <= Depth - 1 THEN Depth - 1 ELSE 0
        /\ \A i \in 1 .. Depth - 1 : stack'[i] = stack[i]
    BY <1>1, <1>2, SubSeqProperties DEF Return
  <1>4. Depth' = Depth - 1
    <2>1. Len(stack') = Depth - 1
      BY <1>1, <1>3
    <2> QED BY <2>1 DEF Depth
  <1> QED BY <1>1, <1>3, <1>4

-----------------------------------------------------------------------------
(* Type correctness, whatever the clients do. *)

(* The types hold before any Value exists. *)
LEMMA TypeInit == Init => TypeOK
  <1>1. Blank \in CellState
    BY LayoutAssumption, CountLimitPositive DEF Blank, CellState
  <1>2. Dead \in HandleState
    BY DEF Dead, HandleState, Kind
  <1> QED BY <1>1, <1>2, EmptySeq DEF Init, TypeOK

(* What a type-correct state gives for a cell and for the last frame. *)
LEMMA TypeCell ==
  ASSUME TypeOK, NEW c \in Cell
  PROVE  /\ heap[c] \in CellState
         /\ Count(c) \subseteq 0 .. CountLimit - 1
  BY DEF TypeOK, CellState, Count

(* Writing a counter value to ref_cnt_ keeps the heap type-correct. *)
LEMMA TypeCount ==
  ASSUME TypeOK, NEW c \in Cell, NEW n \in 0 .. CountLimit - 1,
         heap' = [heap EXCEPT ![c].cnt = n]
  PROVE  heap' \in [Cell -> CellState]
  <1>1. [heap[c] EXCEPT !.cnt = n] \in CellState
    BY TypeCell DEF CellState
  <1> QED BY <1>1 DEF TypeOK

(* Retain keeps the heap type-correct. *)
LEMMA TypeRetain ==
  ASSUME TypeOK, NEW s \in HandleState, Retain(s)
  PROVE  heap' \in [Cell -> CellState]
  <1>1. CASE s.cell = NoCell
    BY <1>1 DEF Retain, TypeOK
  <1>2. CASE s.cell # NoCell
    <2>1. s.cell \in Cell
      BY <1>2 DEF HandleState
    <2>2. PICK n \in Count(s.cell) : heap' = [heap EXCEPT ![s.cell].cnt = Inc(n)]
      BY <1>2 DEF Retain
    <2>3. Inc(n) \in 0 .. CountLimit - 1
      BY <2>1, <2>2, TypeCell, CounterType
    <2> QED BY <2>1, <2>2, <2>3, TypeCount
  <1> QED BY <1>1, <1>2

(* Starting an operation keeps the types (operator=, ~Value). *)
LEMMA TypeBegin ==
  ASSUME TypeOK, NEW h \in Handle, NEW g \in Handle,
         NEW op \in {"copy", "move", "destroy"}, Begin(op, h, g)
  PROVE  TypeOK'
  <1> DEFINE f == [op |-> op, dst |-> h, src |-> g, cell |-> handle[h].cell,
                   pc |-> IF Managed(h) THEN "release" ELSE "assign"]
  <1>1. f \in Frame
    BY DEF TypeOK, HandleState, Frame
  <1>2. stack' = Append(stack, f)
    BY DEF Begin
  <1>3. stack' \in Seq(Frame)
    BY <1>1, <1>2 DEF TypeOK
  <1> QED BY <1>3 DEF Begin, TypeOK

(* Replacing an AllocatedValue by another keeps the heap type-correct. *)
LEMMA TypeExcept ==
  ASSUME TypeOK, NEW c, NEW r, c \in Cell => r \in CellState,
         heap' = [heap EXCEPT ![c] = r]
  PROVE  heap' \in [Cell -> CellState]
  BY DEF TypeOK

(* The decrement of Release keeps the types. *)
LEMMA TypeReleaseStart ==
  ASSUME TypeOK, ReleaseStart
  PROVE  TypeOK'
  <1> DEFINE c == Top.cell
  <1>1. PICK n \in Count(c) : /\ heap' = [heap EXCEPT ![c].cnt = Dec(n)]
                              /\ stack' = Goto(AfterDecrement(c, Dec(n)))
    BY DEF ReleaseStart
  <1>2. c \in Cell => [heap[c] EXCEPT !.cnt = Dec(n)] \in CellState
    <2> SUFFICES ASSUME c \in Cell
                 PROVE  [heap[c] EXCEPT !.cnt = Dec(n)] \in CellState
      OBVIOUS
    <2>1. Dec(n) \in 0 .. CountLimit - 1
      BY <1>1, TypeCell, CounterType
    <2> QED BY <2>1, TypeCell DEF CellState
  <1>3. heap' \in [Cell -> CellState]
    BY <1>1, <1>2, TypeExcept
  <1>4. PICK pc \in {"release", "destroy", "delete", "assign"} : stack' = Goto(pc)
    BY <1>1 DEF AfterDecrement
  <1>5. stack' \in Seq(Frame)
    BY <1>4, GotoStack DEF TypeOK, ReleaseStart
  <1> QED BY <1>3, <1>5 DEF TypeOK, ReleaseStart

(* A round of Release's loop keeps the types. *)
LEMMA TypeDestroyElem ==
  ASSUME TypeOK, DestroyElem
  PROVE  TypeOK'
  <1> DEFINE c == Top.cell
             r == [heap[c] EXCEPT
                     !.left = heap[c].left - 1,
                     !.built = @ \ {DestroyedAt(heap[c].layout, heap[c].left - 1)}]
  <1>1. heap[c].left # 0 /\ heap' = [heap EXCEPT ![c] = r]
    BY DEF DestroyElem
  <1>2. c \in Cell => r \in CellState
    <2> SUFFICES ASSUME c \in Cell PROVE r \in CellState
      OBVIOUS
    <2>1. heap[c] \in CellState
      BY TypeCell
    <2>2. heap[c].left - 1 \in Nat
      BY <1>1, <2>1 DEF CellState
    <2> QED BY <2>1, <2>2 DEF CellState
  <1>3. heap' \in [Cell -> CellState]
    BY <1>1, <1>2, TypeExcept
  <1> QED BY <1>3 DEF TypeOK, DestroyElem

(* The delete[] of Release keeps the types. *)
LEMMA TypeDeletePayload ==
  ASSUME TypeOK, DeletePayload
  PROVE  TypeOK'
  <1>1. Blank \in CellState
    BY LayoutAssumption, CountLimitPositive DEF Blank, CellState
  <1>2. heap' = [heap EXCEPT ![Top.cell] = Blank]
    BY DEF DeletePayload
  <1>3. heap' \in [Cell -> CellState]
    BY <1>1, <1>2, TypeExcept
  <1>4. stack' \in Seq(Frame)
    BY GotoStack DEF DeletePayload, TypeOK
  <1> QED BY <1>3, <1>4 DEF TypeOK, DeletePayload

(* The end of operator= and ~Value keeps the types. *)
LEMMA TypeFinish ==
  ASSUME TypeOK, Finish
  PROVE  TypeOK'
  <1>1. stack' \in Seq(Frame) /\ Top \in Frame
    BY PopStack DEF Finish, TypeOK
  <1>2. Top.dst \in Handle /\ Top.src \in Handle
    BY <1>1 DEF Frame
  <1>3. handle[Top.src] \in HandleState /\ handle[Top.dst] \in HandleState
    BY <1>2 DEF TypeOK
  <1>4. MovedFrom \in HandleState /\ Dead \in HandleState
    BY DEF MovedFrom, Dead, HandleState, Kind
  <1>5. handle' \in [Handle -> HandleState]
    BY <1>2, <1>3, <1>4 DEF Finish, TypeOK
  <1>6. heap' \in [Cell -> CellState]
    <2>1. CASE Top.op = "copy"
      <3>1. Retain(handle[Top.src])
        BY <2>1 DEF Finish
      <3> QED BY <1>3, <3>1, TypeRetain
    <2>2. CASE Top.op # "copy"
      BY <2>2 DEF Finish, TypeOK
    <2> QED BY <2>1, <2>2
  <1> QED BY <1>1, <1>5, <1>6 DEF TypeOK

(* What clients call keeps the types. *)
LEMMA TypeClient ==
  ASSUME TypeOK, Client
  PROVE  TypeOK'
  <1> USE DEF HandleState
  <1>1. PICK h \in Handle :
          \/ DefaultConstruct(h)
          \/ \E kind \in {"builtin", "object"} : ConstructPlain(h, kind)
          \/ \E l \in Layout, c \in Cell : ConstructManaged(h, l, c)
          \/ \E outcome \in Constructions : Construct(h, outcome)
          \/ \E g \in Handle : CopyConstruct(h, g)
          \/ \E g \in Handle : MoveConstruct(h, g)
          \/ \E g \in Handle : CopyAssign(h, g)
          \/ \E g \in Handle : MoveAssign(h, g)
          \/ Destroy(h)
    BY DEF Client
  <1>2. CASE DefaultConstruct(h)
    BY <1>2 DEF DefaultConstruct, TypeOK, Kind
  <1>3. CASE \E kind \in {"builtin", "object"} : ConstructPlain(h, kind)
    BY <1>3 DEF ConstructPlain, TypeOK, Kind
  <1>4. ASSUME NEW l \in Layout, NEW c \in Cell, ConstructManaged(h, l, c)
        PROVE  TypeOK'
    <2>1. 1 \in 0 .. CountLimit - 1
      <3>1. {h} \subseteq Handle /\ Cardinality({h}) = 1
        BY FS_Singleton
      <3>2. 1 <= Cardinality(Handle) /\ Cardinality(Handle) \in Nat
        BY <3>1, HandleAssumption, FS_Subset, FS_CardinalityType
      <3> QED BY <3>2, HandleAssumption
    <2>2. l.elems \in Nat
      BY LayoutAssumption DEF IsLayout
    <2>3. [status |-> "live", cnt |-> 1, left |-> l.elems, layout |-> l,
           touched |-> FALSE, built |-> {}] \in CellState
      BY <2>1, <2>2 DEF CellState
    <2>4. heap' \in [Cell -> CellState]
      BY <1>4, <2>3, TypeExcept DEF ConstructManaged
    <2>5. handle' \in [Handle -> HandleState]
      BY <1>4 DEF ConstructManaged, TypeOK, Kind
    <2> QED BY <1>4, <2>4, <2>5 DEF ConstructManaged, TypeOK
  <1>5. ASSUME NEW outcome \in Constructions, Construct(h, outcome)
        PROVE  TypeOK'
    <2> DEFINE c == handle[h].cell
               t == outcome # "silent" /\ heap[c].layout.elems > 0
               b == IF outcome = "thrown" THEN {} ELSE Offsets(heap[c].layout)
    <2>1. heap' = [heap EXCEPT ![c] = [heap[c] EXCEPT !.touched = t, !.built = b]]
      BY <1>5 DEF Construct
    <2>2. c \in Cell
      BY <1>5 DEF Construct, Managed, TypeOK
    <2>3. heap[c] \in CellState /\ heap[c].layout \in Layout
      BY <2>2, TypeCell DEF CellState
    <2>4. b \in SUBSET Nat /\ t \in BOOLEAN
      BY <2>3, OffsetsNat
    <2>5. [heap[c] EXCEPT !.touched = t, !.built = b] \in CellState
      BY <2>3, <2>4 DEF CellState
    <2>6. heap' \in [Cell -> CellState]
      BY <2>1, <2>5, TypeExcept
    <2> QED BY <1>5, <2>6 DEF Construct, TypeOK
  <1>6. ASSUME NEW g \in Handle, CopyConstruct(h, g)
        PROVE  TypeOK'
    <2>1. heap' \in [Cell -> CellState]
      BY <1>6, TypeRetain DEF CopyConstruct, TypeOK
    <2> QED BY <1>6, <2>1 DEF CopyConstruct, TypeOK
  <1>7. ASSUME NEW g \in Handle, MoveConstruct(h, g)
        PROVE  TypeOK'
    BY <1>7 DEF MoveConstruct, TypeOK, MovedFrom, Kind
  <1>8. CASE \E g \in Handle : CopyAssign(h, g)
    BY <1>8, TypeBegin DEF CopyAssign
  <1>9. CASE \E g \in Handle : MoveAssign(h, g)
    BY <1>9, TypeBegin DEF MoveAssign
  <1>10. CASE Destroy(h)
    BY <1>10, TypeBegin DEF Destroy
  <1> QED BY <1>1, <1>2, <1>3, <1>4, <1>5, <1>6, <1>7, <1>8, <1>9, <1>10

(* The fields of Values and AllocatedValues, and the calls in progress,    *)
(* always have their types; ref_cnt_ stays an unsigned (Value.cc).         *)
THEOREM TypeCorrect == Spec => []TypeOK
  <1>1. TypeOK /\ [Next]_vars => TypeOK'
    <2> SUFFICES ASSUME TypeOK, [Next]_vars PROVE TypeOK'
      OBVIOUS
    <2>1. CASE UNCHANGED vars
      BY <2>1 DEF vars, TypeOK
    <2>2. CASE Next
      BY <2>2, TypeClient, TypeReleaseStart, TypeDestroyElem,
         TypeDeletePayload, TypeFinish DEF Next, Step
    <2> QED BY <2>1, <2>2
  <1> QED BY <1>1, TypeInit, PTL DEF Spec

-----------------------------------------------------------------------------
(* The counters.  IInv is inductive when the clients keep their contract;  *)
(* StackOK is what CountIsHolders lacks: without it a handle could be      *)
(* written by two operations, or be released and read by the same one.     *)

IInv == TypeOK /\ StackOK /\ CountIsHolders /\ NoLeak

(* The operations in progress are on Values and cells. *)
LEMMA FrameTypes ==
  ASSUME TypeOK
  PROVE  /\ Depth \in Nat
         /\ \A i \in 1 .. Depth :
              /\ stack[i] \in Frame
              /\ stack[i].dst \in Handle
              /\ stack[i].src \in Handle
              /\ stack[i].cell \in Cell \cup {NoCell}
  <1>1. Depth \in Nat /\ \A i \in 1 .. Depth : stack[i] \in Frame
    BY DEF TypeOK, Depth
  <1> QED BY <1>1 DEF Frame

(* Clients run when every operation in progress is inside a destructor.    *)
LEMMA ClientFrames ==
  ASSUME IInv, ClientRuns
  PROVE  \A i \in 1 .. Depth :
           /\ stack[i].pc = "destroy"
           /\ stack[i].cell \in Cell
           /\ heap[stack[i].cell].status = "live"
           /\ heap[stack[i].cell].cnt = 0
           /\ ~(stack[i].op = "copy" /\ stack[i].src = stack[i].dst)
  <1>1. TypeOK /\ StackOK /\ Depth \in Nat
    BY FrameTypes DEF IInv
  <1> SUFFICES ASSUME NEW i \in 1 .. Depth
               PROVE  /\ stack[i].pc = "destroy"
                      /\ stack[i].cell \in Cell
                      /\ heap[stack[i].cell].status = "live"
                      /\ heap[stack[i].cell].cnt = 0
                      /\ ~(stack[i].op = "copy" /\ stack[i].src = stack[i].dst)
    OBVIOUS
  <1>2. stack # <<>>
    BY <1>1 DEF Depth
  <1>3. stack[i].pc = "destroy"
    BY <1>1, <1>2 DEF StackOK, FrameOK, ClientRuns, Top
  <1>4. stack[i].cell \in Cell
    BY <1>1, <1>3, FrameTypes DEF StackOK, FrameOK
  <1> QED BY <1>1, <1>3, <1>4, CellAssumption DEF StackOK, FrameOK

(* A handle no operation writes: one not constructed, or one the contract  *)
(* lets the clients use.                                                   *)
LEMMA NotWritten ==
  ASSUME IInv, Misuse = {}, NEW h \in Handle, ~Alive(h) \/ Untouched(h)
  PROVE  ~Released(h) /\ \A i \in 1 .. Depth : stack[i].dst # h
  <1>1. \A i \in 1 .. Depth : stack[i].dst # h
    <2>1. CASE ~Alive(h)
      BY <2>1 DEF IInv, StackOK, FrameOK
    <2>2. CASE Untouched(h)
      BY <2>2 DEF Untouched
    <2> QED BY <2>1, <2>2
  <1> QED BY <1>1 DEF Released

(* The holders of a cell can be counted without wrapping around.           *)
LEMMA HoldersCount ==
  ASSUME NEW c
  PROVE  /\ IsFiniteSet(Holders(c))
         /\ Cardinality(Holders(c)) \in Nat
         /\ Cardinality(Holders(c)) < CountLimit
  <1>1. Holders(c) \subseteq Handle
    BY DEF Holders
  <1>2. /\ IsFiniteSet(Holders(c))
        /\ Cardinality(Holders(c)) <= Cardinality(Handle)
    BY <1>1, HandleAssumption, FS_Subset
  <1>3. Cardinality(Handle) \in Nat /\ Cardinality(Holders(c)) \in Nat
    BY <1>2, HandleAssumption, FS_CardinalityType
  <1> QED BY <1>2, <1>3, HandleAssumption

(* A holder finds its cell live, with a positive counter that counts it.   *)
LEMMA HolderIsCounted ==
  ASSUME IInv, NEW c \in Cell, NEW h \in Holders(c)
  PROVE  /\ heap[c].status = "live"
         /\ heap[c].cnt = Cardinality(Holders(c))
         /\ heap[c].cnt \in 1 .. CountLimit - 1
         /\ Cardinality(Holders(c) \ {h}) = heap[c].cnt - 1
  <1>1. heap[c].status = "live" /\ heap[c].cnt = Cardinality(Holders(c))
    BY DEF IInv, CountIsHolders
  <1>2. Cardinality(Holders(c) \ {h}) = Cardinality(Holders(c)) - 1
        /\ IsFiniteSet(Holders(c) \ {h})
    BY HoldersCount, FS_RemoveElement
  <1>3. Cardinality(Holders(c) \ {h}) \in Nat
    BY <1>2, FS_CardinalityType
  <1> QED BY <1>1, <1>2, <1>3, HoldersCount, CountLimitPositive

(* Retain on a cell with a holder counts one more.                         *)
LEMMA RetainCounts ==
  ASSUME IInv, NEW c \in Cell, NEW s \in HandleState, s.cell = c, Retain(s),
         heap[c].status = "live", heap[c].cnt + 1 < CountLimit
  PROVE  heap' = [heap EXCEPT ![c].cnt = heap[c].cnt + 1]
  <1>1. heap[c].cnt \in Nat
    BY TypeCell DEF IInv, CellState
  <1>2. PICK n \in Count(c) : heap' = [heap EXCEPT ![c].cnt = Inc(n)]
    BY CellAssumption DEF Retain
  <1>3. n = heap[c].cnt
    BY <1>2 DEF Count
  <1> QED BY <1>1, <1>2, <1>3, IncExact

-----------------------------------------------------------------------------
(* IInv is preserved, one lemma per kind of step. *)

(* A frame stays right if its cell, its handle and its place do.           *)
LEMMA FrameKept ==
  ASSUME NEW i, FrameOK(i),
         stack'[i] = stack[i],
         handle'[stack[i].dst] = handle[stack[i].dst],
         heap'[stack[i].cell] = heap[stack[i].cell],
         i < Depth' => stack[i].pc = "destroy"
  PROVE  FrameOK(i)'
  BY DEF FrameOK, Alive

(* Steps that leave the stack, the cells of the handles and the counters.  *)
LEMMA Quiet ==
  ASSUME IInv, TypeOK', UNCHANGED stack,
         \A k \in Handle : /\ handle'[k].cell = handle[k].cell
                           /\ Alive(k) => Alive(k)',
         \A c \in Cell : /\ heap'[c].status = heap[c].status
                         /\ heap'[c].cnt = heap[c].cnt
  PROVE  IInv'
  <1>1. Depth' = Depth
    BY DEF Depth
  <1>2. \A c : Holders(c)' = Holders(c) /\ Destroying(c)' = Destroying(c)
    BY <1>1 DEF Holders, Released, Destroying
  <1>3. CountIsHolders' /\ NoLeak'
    BY <1>2 DEF IInv, CountIsHolders, NoLeak
  <1>4. \A h \in Handle : ~Alive(h)' => ~Managed(h)'
    BY DEF IInv, StackOK, Managed
  <1>5. \A i \in 1 .. Depth : FrameOK(i)'
    BY <1>1, FrameTypes DEF IInv, StackOK, FrameOK
  <1>6. \A i, j \in 1 .. Depth : i < j => FramesApart(i, j)'
    BY DEF IInv, StackOK, FramesApart
  <1> QED BY <1>1, <1>3, <1>4, <1>5, <1>6 DEF IInv, StackOK

(* Steps that change one cell, or its holders, need to be right there.     *)
LEMMA OneCell ==
  ASSUME IInv, NEW c \in Cell,
         \A d \in Cell \ {c} : heap'[d] = heap[d] /\ Holders(d)' = Holders(d),
         \/ /\ heap'[c].status = "live"
            /\ heap'[c].cnt = Cardinality(Holders(c)')
         \/ heap'[c].status # "live" /\ Holders(c)' = {}
  PROVE  CountIsHolders'
  <1> SUFFICES ASSUME NEW d \in Cell
               PROVE  IF heap'[d].status = "live"
                      THEN heap'[d].cnt = Cardinality(Holders(d)')
                      ELSE Holders(d)' = {}
    BY DEF CountIsHolders
  <1>1. CASE d = c
    BY <1>1
  <1>2. CASE d # c
    BY <1>2 DEF IInv, CountIsHolders
  <1> QED BY <1>1, <1>2

(* A new payload has the Value it was made for as its only holder. *)
LEMMA ConstructManagedOK ==
  ASSUME IInv, Misuse = {}, TypeOK',
         NEW h \in Handle, NEW l \in Layout, NEW c \in Cell,
         ConstructManaged(h, l, c)
  PROVE  IInv'
  <1> USE DEF ConstructManaged
  <1>1. Depth' = Depth
    BY DEF Depth
  <1>2. ~Alive(h) /\ ~Managed(h) /\ ~Released(h)
        /\ \A i \in 1 .. Depth : stack[i].dst # h
    BY NotWritten DEF IInv, StackOK
  <1>3. /\ \A k \in Handle : k # h => handle'[k] = handle[k]
        /\ handle'[h] = [kind |-> "object", cell |-> c]
        /\ \A d \in Cell : d # c => heap'[d] = heap[d]
        /\ heap'[c].status = "live" /\ heap'[c].cnt = 1
        /\ heap[c].status = "free"
    BY DEF IInv, TypeOK
  <1>4. \A k \in Handle : Released(k)' = Released(k)
    BY <1>1 DEF Released
  <1>5. Holders(c) = {}
    BY <1>3 DEF IInv, CountIsHolders
  <1>6. Holders(c)' = {h}
    BY <1>2, <1>3, <1>4, <1>5 DEF Holders
  <1>7. \A d \in Cell : d # c => Holders(d)' = Holders(d)
    BY <1>2, <1>3, <1>4, CellAssumption DEF Holders, Managed
  <1>8. CountIsHolders'
    <2>1. Cardinality(Holders(c)') = 1
      BY <1>6, FS_Singleton
    <2> QED BY <1>3, <1>7, <2>1, OneCell
  <1>9. \A d : Destroying(d)' = Destroying(d)
    BY <1>1 DEF Destroying
  <1>10. NoLeak'
    BY <1>3, <1>9 DEF IInv, NoLeak
  <1>11. \A i \in 1 .. Depth : FrameOK(i)'
    <2>1. \A i \in 1 .. Depth : stack[i].cell # c
      BY <1>3, ClientFrames
    <2>2. \A i \in 1 .. Depth : handle'[stack[i].dst] = handle[stack[i].dst]
      BY <1>2, <1>3, FrameTypes DEF IInv
    <2>3. \A i \in 1 .. Depth : heap'[stack[i].cell] = heap[stack[i].cell]
      BY <1>3, <2>1, ClientFrames
    <2> QED BY <1>1, <2>2, <2>3 DEF IInv, StackOK, FrameOK, Alive
  <1>12. \A i, j \in 1 .. Depth : i < j => FramesApart(i, j)'
    BY DEF IInv, StackOK, FramesApart
  <1>13. \A k \in Handle : ~Alive(k)' => ~Managed(k)'
    BY <1>3 DEF IInv, StackOK, Managed, Alive
  <1> QED BY <1>1, <1>8, <1>10, <1>11, <1>12, <1>13 DEF IInv, StackOK

(* A cell keeps its holders if every handle keeps its part in them.        *)
LEMMA SameHolders ==
  ASSUME NEW d,
         \A k \in Handle : (handle'[k].cell = d /\ ~Released(k)')
                            <=> (handle[k].cell = d /\ ~Released(k))
  PROVE  Holders(d)' = Holders(d)
  BY DEF Holders

(* A copy is one more holder, and one more in ref_cnt_. *)
LEMMA CopyConstructOK ==
  ASSUME IInv, Misuse = {}, TypeOK', NEW h \in Handle, NEW g \in Handle,
         CopyConstruct(h, g)
  PROVE  IInv'
  <1>0. PICK c : c = handle[g].cell
    OBVIOUS
  <1>1. /\ Depth' = Depth /\ stack' = stack
        /\ handle' = [handle EXCEPT ![h] = handle[g]]
        /\ Retain(handle[g])
        /\ ClientRuns
    BY DEF CopyConstruct, Depth
  <1>2. /\ ~Alive(h) /\ Alive(g) /\ h # g
        /\ ~Released(h) /\ ~Released(g) /\ ~Managed(h)
        /\ \A i \in 1 .. Depth : stack[i].dst # h /\ stack[i].dst # g
    BY NotWritten DEF CopyConstruct, IInv, StackOK
  <1>3. /\ \A k \in Handle : k # h => handle'[k] = handle[k]
        /\ handle'[h] = handle[g]
        /\ handle[g] \in HandleState
    BY <1>1 DEF IInv, TypeOK
  <1>4. \A k \in Handle : Released(k)' = Released(k)
    BY <1>1 DEF Released
  <1>5. \A d : Destroying(d)' = Destroying(d)
    BY <1>1 DEF Destroying
  <1>6. \A i, j \in 1 .. Depth : i < j => FramesApart(i, j)'
    BY <1>1 DEF IInv, StackOK, FramesApart
  <1>7. \A k \in Handle : ~Alive(k)' => ~Managed(k)'
    BY <1>2, <1>3 DEF IInv, StackOK, Managed, Alive
  <1>8. \A i \in 1 .. Depth : handle'[stack[i].dst] = handle[stack[i].dst]
    BY <1>2, <1>3, FrameTypes DEF IInv
  <1>9. CASE c = NoCell
    <2>1. heap' = heap
      BY <1>0, <1>1, <1>9 DEF Retain
    <2>2. \A d \in Cell : Holders(d)' = Holders(d)
      <3>1. handle'[h].cell = NoCell /\ handle[h].cell = NoCell
        BY <1>0, <1>2, <1>3, <1>9 DEF Managed
      <3> QED BY <1>3, <1>4, <3>1, CellAssumption, SameHolders
    <2>3. CountIsHolders' /\ NoLeak'
      BY <1>5, <2>1, <2>2 DEF IInv, CountIsHolders, NoLeak
    <2>4. \A i \in 1 .. Depth : FrameOK(i)'
      BY <1>1, <1>8, <2>1 DEF IInv, StackOK, FrameOK, Alive
    <2> QED BY <1>1, <1>6, <1>7, <2>3, <2>4 DEF IInv, StackOK
  <1>10. CASE c # NoCell
    <2>1. c \in Cell /\ g \in Holders(c)
      BY <1>0, <1>2, <1>3, <1>10 DEF HandleState, Holders
    <2>2. /\ heap[c].status = "live"
          /\ heap[c].cnt = Cardinality(Holders(c))
          /\ heap[c].cnt \in 1 .. CountLimit - 1
      BY <2>1, HolderIsCounted
    <2>3. Holders(c)' = Holders(c) \cup {h} /\ h \notin Holders(c)
      BY <1>0, <1>2, <1>3, <1>4, <2>1, CellAssumption DEF Holders, Managed
    <2>4. Cardinality(Holders(c)') = heap[c].cnt + 1
      <3>1. Cardinality(Holders(c) \cup {h}) = Cardinality(Holders(c)) + 1
        BY <2>3, HoldersCount, FS_AddElement
      <3> QED BY <2>2, <2>3, <3>1
    <2>5. heap[c].cnt + 1 < CountLimit
      <3>1. Holders(c)' \subseteq Handle
        BY <2>3 DEF Holders
      <3>2. Cardinality(Holders(c)') <= Cardinality(Handle)
        BY <3>1, HandleAssumption, FS_Subset
      <3> QED BY <2>2, <2>4, <3>2, HandleAssumption, FS_CardinalityType
    <2>6. heap' = [heap EXCEPT ![c].cnt = heap[c].cnt + 1]
      BY <1>0, <1>1, <1>3, <2>1, <2>2, <2>5, RetainCounts
    <2>7. /\ heap[c] \in CellState /\ heap'[c].status = "live"
          /\ heap'[c].cnt = heap[c].cnt + 1
          /\ \A d \in Cell \ {c} : heap'[d] = heap[d]
      BY <2>1, <2>2, <2>6, TypeCell DEF IInv, TypeOK, CellState
    <2>8. \A d \in Cell \ {c} : Holders(d)' = Holders(d)
      BY <1>0, <1>2, <1>3, <1>4, CellAssumption DEF Holders, Managed
    <2>9. CountIsHolders'
      <3>1. heap'[c].status = "live" /\ heap'[c].cnt = Cardinality(Holders(c)')
        BY <2>4, <2>7
      <3> QED BY <2>1, <2>7, <2>8, <3>1, OneCell
    <2>10. NoLeak'
      BY <1>5, <2>1, <2>2, <2>7 DEF IInv, NoLeak
    <2>11. \A i \in 1 .. Depth : FrameOK(i)'
      <3>1. \A i \in 1 .. Depth : heap'[stack[i].cell] = heap[stack[i].cell]
        BY <1>1, <2>2, <2>7, ClientFrames
      <3> QED BY <1>1, <1>8, <3>1 DEF IInv, StackOK, FrameOK, Alive
    <2> QED BY <1>1, <1>6, <1>7, <2>9, <2>10, <2>11 DEF IInv, StackOK
  <1> QED BY <1>9, <1>10

(* A move hands the holding on; ref_cnt_ stays. *)
LEMMA MoveConstructOK ==
  ASSUME IInv, Misuse = {}, TypeOK', NEW h \in Handle, NEW g \in Handle,
         MoveConstruct(h, g)
  PROVE  IInv'
  <1>0. PICK c : c = handle[g].cell
    OBVIOUS
  <1>1. /\ Depth' = Depth /\ stack' = stack /\ heap' = heap
        /\ handle' = [handle EXCEPT ![h] = handle[g], ![g] = MovedFrom]
    BY DEF MoveConstruct, Depth
  <1>2. /\ ~Alive(h) /\ Alive(g) /\ h # g
        /\ ~Released(h) /\ ~Released(g) /\ ~Managed(h)
        /\ \A i \in 1 .. Depth : stack[i].dst # h /\ stack[i].dst # g
    BY NotWritten DEF MoveConstruct, IInv, StackOK
  <1>3. /\ \A k \in Handle : k # h /\ k # g => handle'[k] = handle[k]
        /\ handle'[h] = handle[g]
        /\ handle'[g] = MovedFrom
    BY <1>1, <1>2 DEF IInv, TypeOK
  <1>4. \A k \in Handle : Released(k)' = Released(k)
    BY <1>1 DEF Released
  <1>5. \A d \in Cell : Cardinality(Holders(d)') = Cardinality(Holders(d))
                        /\ (Holders(d) = {} => Holders(d)' = {})
    <2> SUFFICES ASSUME NEW d \in Cell
                 PROVE  Cardinality(Holders(d)') = Cardinality(Holders(d))
                        /\ (Holders(d) = {} => Holders(d)' = {})
      OBVIOUS
    <2>1. CASE d # c
      <3>1. /\ handle[h].cell = NoCell /\ handle'[h].cell = c
            /\ handle[g].cell = c /\ handle'[g].cell = NoCell
        BY <1>0, <1>2, <1>3 DEF Managed, MovedFrom
      <3>2. Holders(d)' = Holders(d)
        BY <1>3, <1>4, <2>1, <3>1, CellAssumption, SameHolders
      <3> QED BY <3>2
    <2>2. CASE d = c
      <3>1. /\ Holders(d)' = (Holders(d) \ {g}) \cup {h}
            /\ g \in Holders(d) /\ h \notin Holders(d)
        BY <1>0, <1>2, <1>3, <1>4, <2>2, CellAssumption DEF Holders, Managed, MovedFrom
      <3>2. /\ IsFiniteSet(Holders(d) \ {g})
            /\ Cardinality(Holders(d) \ {g}) = Cardinality(Holders(d)) - 1
        BY <3>1, HoldersCount, FS_RemoveElement
      <3>3. Cardinality(Holders(d)') = Cardinality(Holders(d) \ {g}) + 1
        BY <3>1, <3>2, FS_AddElement
      <3> QED BY <3>1, <3>2, <3>3, HoldersCount
    <2> QED BY <2>1, <2>2
  <1>6. CountIsHolders' /\ NoLeak'
    <2>1. \A d : Destroying(d)' = Destroying(d)
      BY <1>1 DEF Destroying
    <2> QED BY <1>1, <1>5, <2>1 DEF IInv, CountIsHolders, NoLeak
  <1>7. \A i \in 1 .. Depth : handle'[stack[i].dst] = handle[stack[i].dst]
    BY <1>2, <1>3, FrameTypes DEF IInv
  <1>8. \A i \in 1 .. Depth : FrameOK(i)'
    <2>1. Depth' = Depth /\ stack' = stack /\ heap' = heap
      BY <1>1
    <2> QED BY <1>7, <2>1 DEF IInv, StackOK, FrameOK, Alive
  <1>9. \A i, j \in 1 .. Depth : i < j => FramesApart(i, j)'
    BY <1>1 DEF IInv, StackOK, FramesApart
  <1>10. \A k \in Handle : ~Alive(k)' => ~Managed(k)'
    BY <1>2, <1>3 DEF IInv, StackOK, Managed, Alive, MovedFrom
  <1> QED BY <1>1, <1>6, <1>8, <1>9, <1>10 DEF IInv, StackOK

(* An operation that starts has not released anything yet. *)
LEMMA BeginOK ==
  ASSUME IInv, Misuse = {}, TypeOK', NEW h \in Handle, NEW g \in Handle,
         NEW op \in {"copy", "move", "destroy"}, Begin(op, h, g), Alive(h),
         \A i \in 1 .. Depth : stack[i].dst # h /\ stack[i].dst # g,
         op = "copy" /\ h = g /\ Managed(h) => heap[handle[h].cell].cnt > 1
  PROVE  IInv'
  <1>0. PICK f : f = [op |-> op, dst |-> h, src |-> g, cell |-> handle[h].cell,
                      pc |-> IF Managed(h) THEN "release" ELSE "assign"]
    OBVIOUS
  <1>1. /\ stack' = Append(stack, f) /\ handle' = handle /\ heap' = heap
        /\ ClientRuns
    BY <1>0 DEF Begin
  <1>a. PICK n : n = Depth
    OBVIOUS
  <1>2. f \in Frame /\ handle[h].cell \in Cell \cup {NoCell}
    BY <1>0 DEF IInv, TypeOK, HandleState, Frame
  <1>3. /\ n \in Nat /\ Depth = n
        /\ Depth' = n + 1
        /\ \A i \in 1 .. n : stack'[i] = stack[i]
        /\ stack'[n + 1] = f
    BY <1>a, <1>1, <1>2, PushStack DEF IInv, TypeOK
  <1>4. ~Released(h)
    BY DEF Released
  <1>5. \A k \in Handle : Released(k)' <=> (Released(k) \/ (k = h /\ ~Managed(h)))
    BY <1>0, <1>3 DEF Released
  <1>6. \A d \in Cell : Holders(d)' = Holders(d)
    BY <1>1, <1>4, <1>5, CellAssumption DEF Holders, Managed
  <1>7. \A d : Destroying(d)' <=> Destroying(d)
    BY <1>0, <1>3 DEF Destroying
  <1>8. CountIsHolders' /\ NoLeak'
    BY <1>1, <1>6, <1>7 DEF IInv, CountIsHolders, NoLeak
  <1>9. \A i \in 1 .. n : FrameOK(i)'
    <2>1. \A i \in 1 .. Depth : i < Depth' => stack[i].pc = "destroy"
      BY <1>1, ClientFrames
    <2> QED BY <1>1, <1>3, <2>1, FrameKept DEF IInv, StackOK
  <1>10. FrameOK(n + 1)'
    <2>1. Managed(h) => heap[handle[h].cell].status = "live"
      <3> SUFFICES ASSUME Managed(h)
                   PROVE  heap[handle[h].cell].status = "live"
        OBVIOUS
      <3>1. handle[h].cell \in Cell /\ h \in Holders(handle[h].cell)
        BY <1>2, <1>4 DEF Holders, Managed
      <3> QED BY <3>1, HolderIsCounted
    <2> QED BY <1>0, <1>1, <1>3, <2>1 DEF FrameOK, Alive, Managed
  <1>11. \A i, j \in 1 .. n + 1 : i < j => FramesApart(i, j)'
    <2> SUFFICES ASSUME NEW i \in 1 .. n + 1, NEW j \in 1 .. n + 1, i < j
                 PROVE  FramesApart(i, j)'
      OBVIOUS
    <2>1. i \in 1 .. n
      BY <1>3
    <2>2. CASE j = n + 1
      BY <1>0, <1>3, <2>1, <2>2 DEF FramesApart
    <2>3. CASE j # n + 1
      <3>1. j \in 1 .. n
        BY <1>3, <2>3
      <3>2. FramesApart(i, j)
        BY <1>3, <2>1, <3>1 DEF IInv, StackOK
      <3> QED BY <1>3, <2>1, <3>1, <3>2 DEF FramesApart
    <2> QED BY <2>2, <2>3
  <1>12. \A k \in Handle : ~Alive(k)' => ~Managed(k)'
    BY <1>1 DEF IInv, StackOK, Managed, Alive
  <1>13. \A i \in 1 .. n + 1 : FrameOK(i)'
    BY <1>3, <1>9, <1>10
  <1> QED BY <1>3, <1>8, <1>11, <1>12, <1>13 DEF IInv, StackOK

(* What IInv says of the last frame. *)
LEMMA LastFrame ==
  ASSUME IInv, stack # <<>>
  PROVE  /\ Depth \in Nat \ {0} /\ Depth \in 1 .. Depth
         /\ Top = stack[Depth]
         /\ Top \in Frame /\ Top.dst \in Handle /\ Top.src \in Handle
         /\ FrameOK(Depth)
         /\ handle[Top.dst].cell = Top.cell
         /\ Top.pc # "assign" => Top.cell \in Cell
         /\ \A i \in 1 .. Depth - 1 : /\ stack[i].pc = "destroy"
                                      /\ stack[i].dst # Top.dst
                                      /\ stack[i].dst # Top.src
                                      /\ stack[i].cell \in Cell
                                      /\ FrameOK(i)
  <1>1. Depth \in Nat \ {0} /\ Depth \in 1 .. Depth
    BY DEF IInv, TypeOK, Depth
  <1>2. Top = stack[Depth] /\ FrameOK(Depth)
    BY <1>1 DEF Top, IInv, StackOK
  <1>3. Top \in Frame /\ Top.dst \in Handle /\ Top.src \in Handle
        /\ Top.cell \in Cell \cup {NoCell}
    BY <1>1, <1>2, FrameTypes DEF IInv
  <1>4. \A i \in 1 .. Depth - 1 : /\ stack[i].pc = "destroy"
                                  /\ FrameOK(i)
                                  /\ FramesApart(i, Depth)
                                  /\ stack[i].cell \in Cell \cup {NoCell}
    <2> SUFFICES ASSUME NEW i \in 1 .. Depth - 1
                 PROVE  /\ stack[i].pc = "destroy"
                        /\ FrameOK(i)
                        /\ FramesApart(i, Depth)
                        /\ stack[i].cell \in Cell \cup {NoCell}
      OBVIOUS
    <2>1. i \in 1 .. Depth /\ i < Depth
      BY <1>1
    <2>2. FrameOK(i) /\ FramesApart(i, Depth) /\ stack[i].cell \in Cell \cup {NoCell}
      BY <1>1, <2>1, FrameTypes DEF IInv, StackOK
    <2> QED BY <2>1, <2>2 DEF FrameOK
  <1>5. handle[Top.dst].cell = Top.cell /\ (Top.pc # "assign" => Top.cell # NoCell)
    BY <1>2 DEF FrameOK
  <1>6. \A i \in 1 .. Depth - 1 : stack[i].dst # Top.dst /\ stack[i].dst # Top.src
    BY <1>2, <1>4 DEF FramesApart
  <1>7. \A i \in 1 .. Depth - 1 : stack[i].cell # NoCell
    BY <1>4 DEF FrameOK
  <1> QED BY <1>1, <1>2, <1>3, <1>4, <1>5, <1>6, <1>7

(* A step of the last operation within its frame f. *)
LEMMA GotoFacts ==
  ASSUME TypeOK, stack # <<>>,
         NEW pc \in {"release", "destroy", "delete", "assign"},
         stack' = Goto(pc), NEW n, n = Depth, NEW f, f = Top
  PROVE  /\ n \in Nat \ {0}
         /\ Depth' = n
         /\ \A i \in 1 .. n - 1 : stack'[i] = stack[i]
         /\ stack'[n].op = f.op /\ stack'[n].dst = f.dst
         /\ stack'[n].src = f.src /\ stack'[n].cell = f.cell
         /\ stack'[n].pc = pc
  <1>1. /\ n \in Nat \ {0} /\ Depth' = n
        /\ \A i \in 1 .. n - 1 : stack'[i] = stack[i]
        /\ Top' = [f EXCEPT !.pc = pc] /\ f \in Frame
    BY GotoStack DEF TypeOK
  <1>2. stack'[n] = [f EXCEPT !.pc = pc]
    BY <1>1 DEF Top
  <1> QED BY <1>1, <1>2 DEF Frame

(* The frames stay apart when the last one does not begin to destroy.      *)
LEMMA ApartKept ==
  ASSUME IInv, NEW n \in Nat \ {0}, n = Depth, Depth' = n,
         \A i \in 1 .. n - 1 : stack'[i] = stack[i],
         stack'[n].dst = stack[n].dst, stack'[n].src = stack[n].src,
         stack'[n].cell = stack[n].cell,
         stack'[n].pc \in {"destroy", "delete"} =>
           \A i \in 1 .. n - 1 : stack[i].cell # stack[n].cell
  PROVE  \A i, j \in 1 .. Depth' : i < j => FramesApart(i, j)'
  <1> SUFFICES ASSUME NEW i \in 1 .. n, NEW j \in 1 .. n, i < j
               PROVE  FramesApart(i, j)'
    OBVIOUS
  <1>1. i \in 1 .. n - 1 /\ FramesApart(i, j)
    BY DEF IInv, StackOK
  <1>2. CASE j = n
    BY <1>1, <1>2 DEF FramesApart
  <1>3. CASE j # n
    BY <1>1, <1>3 DEF FramesApart
  <1> QED BY <1>2, <1>3

(* The decrement takes the released Value out of the holders. *)
LEMMA ReleaseStartOK ==
  ASSUME IInv, TypeOK', ReleaseStart
  PROVE  IInv'
  <1>0. PICK n, f, c, h : n = Depth /\ f = Top /\ c = f.cell /\ h = f.dst
    OBVIOUS
  <1>1. stack # <<>> /\ f.pc = "release" /\ handle' = handle
    BY <1>0 DEF ReleaseStart
  <1>a. \E m \in Count(c) :
          /\ heap' = [heap EXCEPT ![c].cnt = Dec(m)]
          /\ stack' = Goto(AfterDecrement(c, Dec(m)))
    BY <1>0 DEF ReleaseStart
  <1>2. /\ n \in Nat \ {0} /\ n \in 1 .. n /\ f = stack[n]
        /\ f \in Frame /\ h \in Handle /\ c \in Cell
        /\ handle[h].cell = c
        /\ \A i \in 1 .. n - 1 : /\ stack[i].pc = "destroy"
                                 /\ stack[i].dst # h
                                 /\ stack[i].cell \in Cell
                                 /\ FrameOK(i)
        /\ FrameOK(n)
    BY <1>0, <1>1, LastFrame
  <1>3. ~Released(h)
    BY <1>0, <1>1, <1>2 DEF Released
  <1>4. h \in Holders(c)
    BY <1>2, <1>3 DEF Holders
  <1>5. /\ heap[c].status = "live"
        /\ heap[c].cnt \in 1 .. CountLimit - 1
        /\ heap[c].cnt = Cardinality(Holders(c))
        /\ Cardinality(Holders(c) \ {h}) = heap[c].cnt - 1
    BY <1>2, <1>4, HolderIsCounted
  <1>6. PICK pc \in {"destroy", "delete", "assign"} :
          /\ heap' = [heap EXCEPT ![c].cnt = heap[c].cnt - 1]
          /\ stack' = Goto(pc)
          /\ pc = "assign" <=> heap[c].cnt - 1 # 0
    <2>1. Count(c) = {heap[c].cnt} /\ Dec(heap[c].cnt) = heap[c].cnt - 1
      BY <1>5, DecExact DEF Count
    <2> QED BY <1>a, <2>1 DEF AfterDecrement
  <1>7. /\ Depth' = n
        /\ \A i \in 1 .. n - 1 : stack'[i] = stack[i]
        /\ stack'[n].op = f.op /\ stack'[n].dst = h
        /\ stack'[n].src = f.src /\ stack'[n].cell = c
        /\ stack'[n].pc = pc
    <2>1. pc \in {"release", "destroy", "delete", "assign"}
      BY <1>6
    <2>2. stack' = Goto(pc)
      BY <1>6
    <2> QED BY <1>0, <1>1, <2>1, <2>2, GotoFacts DEF IInv
  <1>8. /\ heap'[c].status = "live" /\ heap'[c].cnt = heap[c].cnt - 1
        /\ \A d \in Cell \ {c} : heap'[d] = heap[d]
    BY <1>2, <1>5, <1>6, TypeCell DEF IInv, TypeOK, CellState
  <1>9. \A k \in Handle : Released(k)' <=> (Released(k) \/ k = h)
    BY <1>0, <1>2, <1>6, <1>7 DEF Released
  <1>10. Holders(c)' = Holders(c) \ {h}
    BY <1>1, <1>9 DEF Holders
  <1>11. \A d \in Cell \ {c} : Holders(d)' = Holders(d)
    BY <1>1, <1>2, <1>9, SameHolders
  <1>12. CountIsHolders'
    <2>1. heap'[c].cnt = Cardinality(Holders(c)')
      BY <1>5, <1>8, <1>10
    <2> QED BY <1>2, <1>8, <1>11, <2>1, OneCell
  <1>13. \A i \in 1 .. n - 1 : stack[i].cell # c
    BY <1>2, <1>5 DEF FrameOK
  <1>14. NoLeak'
    <2>1. \A d \in Cell : Destroying(d)' <=> (Destroying(d) \/ (d = c /\ pc # "assign"))
      <3>1. \A i \in 1 .. n : stack'[i].cell = stack[i].cell
        BY <1>0, <1>2, <1>7
      <3>2. \A i \in 1 .. n : stack'[i].pc = IF i = n THEN pc ELSE stack[i].pc
        BY <1>2, <1>7
      <3> QED BY <1>0, <1>1, <1>2, <1>6, <1>7, <3>1, <3>2 DEF Destroying
    <2>2. ~Destroying(c)
      BY <1>2, <1>5 DEF IInv, NoLeak
    <2>3. ASSUME NEW d \in Cell
          PROVE  (heap'[d].status = "live" /\ heap'[d].cnt = 0) <=> Destroying(d)'
      <3>1. CASE d = c
        BY <1>5, <1>6, <1>8, <2>1, <2>2, <3>1
      <3>2. CASE d # c
        BY <1>8, <2>1, <3>2 DEF IInv, NoLeak
      <3> QED BY <3>1, <3>2
    <2> QED BY <2>3 DEF NoLeak
  <1>15. \A i \in 1 .. n - 1 : FrameOK(i)'
    BY <1>1, <1>2, <1>7, <1>8, <1>13, FrameKept
  <1>16. FrameOK(n)'
    <2>1. /\ Alive(h) /\ c # NoCell
          /\ f.op = "copy" /\ f.src = h => heap[c].cnt > 1
      BY <1>0, <1>1, <1>2, CellAssumption DEF FrameOK
    <2>2. Alive(h)' /\ handle'[h].cell = c
      BY <1>1, <1>2, <2>1 DEF Alive
    <2>3. pc # "assign" => heap'[c].cnt = 0
      BY <1>5, <1>6, <1>8
    <2>4. f.op = "copy" /\ f.src = h => pc = "assign" /\ heap'[c].cnt > 0
      BY <1>5, <1>6, <1>8, <2>1
    <2> QED BY <1>2, <1>6, <1>7, <1>8, <2>1, <2>2, <2>3, <2>4 DEF FrameOK, Alive
  <1>17. \A i, j \in 1 .. Depth' : i < j => FramesApart(i, j)'
    BY <1>0, <1>2, <1>7, <1>13, ApartKept
  <1>18. \A i \in 1 .. Depth' : FrameOK(i)'
    BY <1>2, <1>7, <1>15, <1>16
  <1>19. \A k \in Handle : ~Alive(k)' => ~Managed(k)'
    BY <1>1 DEF IInv, StackOK, Alive, Managed
  <1> QED BY <1>12, <1>14, <1>17, <1>18, <1>19 DEF IInv, StackOK

(* Only a payload without holders is deleted. *)
LEMMA DeletePayloadOK ==
  ASSUME IInv, TypeOK', DeletePayload
  PROVE  IInv'
  <1>0. PICK n, f, c, h : n = Depth /\ f = Top /\ c = f.cell /\ h = f.dst
    OBVIOUS
  <1>1. /\ stack # <<>> /\ f.pc \in {"destroy", "delete"} /\ handle' = handle
        /\ heap' = [heap EXCEPT ![c] = Blank]
        /\ stack' = Goto("assign")
    BY <1>0 DEF DeletePayload
  <1>2. /\ n \in Nat \ {0} /\ n \in 1 .. n /\ f = stack[n]
        /\ f \in Frame /\ h \in Handle /\ c \in Cell
        /\ \A i \in 1 .. n - 1 : stack[i].cell \in Cell /\ FrameOK(i)
                                 /\ stack[i].pc = "destroy"
        /\ FrameOK(n)
    BY <1>0, <1>1, LastFrame
  <1>3. heap[c].status = "live" /\ heap[c].cnt = 0
    BY <1>0, <1>1, <1>2 DEF FrameOK
  <1>4. /\ Depth' = n
        /\ \A i \in 1 .. n - 1 : stack'[i] = stack[i]
        /\ stack'[n].op = f.op /\ stack'[n].dst = h
        /\ stack'[n].src = f.src /\ stack'[n].cell = c
        /\ stack'[n].pc = "assign"
    BY <1>0, <1>1, GotoFacts DEF IInv
  <1>5. heap'[c] = Blank /\ \A d \in Cell \ {c} : heap'[d] = heap[d]
    BY <1>1, <1>2 DEF IInv, TypeOK
  <1>6. \A k \in Handle : Released(k)' <=> Released(k)
    BY <1>0, <1>1, <1>2, <1>4 DEF Released
  <1>7. \A d \in Cell : Holders(d)' = Holders(d)
    BY <1>1, <1>6, SameHolders
  <1>8. Holders(c) = {}
    BY <1>2, <1>3, HoldersCount, FS_EmptySet DEF IInv, CountIsHolders
  <1>9. CountIsHolders'
    <2>1. heap'[c].status # "live" /\ Holders(c)' = {}
      BY <1>2, <1>5, <1>7, <1>8 DEF Blank
    <2> QED BY <1>2, <1>5, <1>7, <2>1, OneCell
  <1>10. \A i \in 1 .. n - 1 : stack[i].cell # c
    <2>1. \A i \in 1 .. n - 1 : FramesApart(i, n)
      BY <1>0, <1>2 DEF IInv, StackOK
    <2> QED BY <1>0, <1>1, <1>2, <2>1 DEF FramesApart
  <1>11. NoLeak'
    <2>1. ~Destroying(c)'
      BY <1>2, <1>4, <1>10 DEF Destroying
    <2>2. \A d \in Cell \ {c} : Destroying(d)' <=> Destroying(d)
      BY <1>0, <1>2, <1>4 DEF Destroying
    <2>3. heap'[c].status # "live"
      BY <1>5 DEF Blank
    <2> QED BY <1>5, <2>1, <2>2, <2>3 DEF IInv, NoLeak
  <1>12. \A i \in 1 .. n - 1 : FrameOK(i)'
    BY <1>1, <1>2, <1>4, <1>5, <1>10, FrameKept
  <1>13. FrameOK(n)'
    <2>1. ~(f.op = "copy" /\ f.src = f.dst)
      BY <1>0, <1>1, <1>2, <1>3, CellAssumption DEF FrameOK
    <2> QED BY <1>0, <1>1, <1>2, <1>4, <2>1 DEF FrameOK, Alive
  <1>14. \A i, j \in 1 .. Depth' : i < j => FramesApart(i, j)'
    BY <1>0, <1>2, <1>4, ApartKept
  <1>15. \A i \in 1 .. Depth' : FrameOK(i)'
    BY <1>2, <1>4, <1>12, <1>13
  <1>16. \A k \in Handle : ~Alive(k)' => ~Managed(k)'
    BY <1>1 DEF IInv, StackOK, Alive, Managed
  <1> QED BY <1>9, <1>11, <1>14, <1>15, <1>16 DEF IInv, StackOK

(* What the end of any operation does to the stack and to other handles.   *)
LEMMA FinishFacts ==
  ASSUME IInv, Finish, NEW n, n = Depth, NEW f, f = Top
  PROVE  /\ n \in Nat \ {0} /\ n \in 1 .. n /\ f = stack[n]
         /\ f \in Frame /\ f.pc = "assign" /\ FrameOK(n)
         /\ f.dst \in Handle /\ f.src \in Handle
         /\ Depth' = n - 1
         /\ \A i \in 1 .. n - 1 : /\ stack'[i] = stack[i]
                                  /\ stack[i].pc = "destroy"
                                  /\ stack[i].dst # f.dst
                                  /\ stack[i].dst # f.src
                                  /\ stack[i].cell \in Cell
                                  /\ heap[stack[i].cell].cnt = 0
                                  /\ FrameOK(i)
         /\ Released(f.dst)
         /\ \A k \in Handle : Released(k)' <=> (Released(k) /\ k # f.dst)
         /\ f.src # f.dst => ~Released(f.src)
         /\ \A d : Destroying(d)' <=> Destroying(d)
         /\ \A i, j \in 1 .. Depth' : i < j => FramesApart(i, j)'
  <1>1. stack # <<>> /\ f.pc = "assign" /\ stack' = Return
    BY DEF Finish
  <1>2. /\ n \in Nat \ {0} /\ n \in 1 .. n /\ f = stack[n]
        /\ f \in Frame /\ FrameOK(n) /\ f.dst \in Handle /\ f.src \in Handle
        /\ \A i \in 1 .. n - 1 : /\ stack[i].pc = "destroy"
                                 /\ stack[i].dst # f.dst
                                 /\ stack[i].dst # f.src
                                 /\ stack[i].cell \in Cell
                                 /\ FrameOK(i)
    BY <1>1, LastFrame
  <1>3. Depth' = n - 1 /\ \A i \in 1 .. n - 1 : stack'[i] = stack[i]
    BY <1>1, PopStack DEF IInv, TypeOK
  <1>4. Released(f.dst)
    BY <1>1, <1>2 DEF Released
  <1>5. \A k \in Handle : Released(k)' <=> (Released(k) /\ k # f.dst)
    <2> SUFFICES ASSUME NEW k \in Handle
                 PROVE  Released(k)' <=> (Released(k) /\ k # f.dst)
      OBVIOUS
    <2>1. Released(k)' <=> \E i \in 1 .. n - 1 : stack[i].dst = k /\ stack[i].pc # "release"
      BY <1>2, <1>3 DEF Released
    <2>2. Released(k) <=> \E i \in 1 .. n : stack[i].dst = k /\ stack[i].pc # "release"
      BY DEF Released
    <2>3. (\E i \in 1 .. n - 1 : stack[i].dst = k /\ stack[i].pc # "release") => k # f.dst
      BY <1>2
    <2>4. \A i \in 1 .. n : i = n \/ i \in 1 .. n - 1
      BY <1>2
    <2>5. 1 .. n - 1 \subseteq 1 .. n
      BY <1>2
    <2> QED BY <1>2, <2>1, <2>2, <2>3, <2>4, <2>5
  <1>6. f.src # f.dst => ~Released(f.src)
    BY <1>2 DEF Released
  <1>7. \A d : Destroying(d)' <=> Destroying(d)
    <2> SUFFICES ASSUME NEW d PROVE Destroying(d)' <=> Destroying(d)
      OBVIOUS
    <2>1. Destroying(d)' <=> \E i \in 1 .. n - 1 :
             stack[i].cell = d /\ stack[i].pc \in {"destroy", "delete"}
      BY <1>2, <1>3 DEF Destroying
    <2>2. Destroying(d) <=> \E i \in 1 .. n :
             stack[i].cell = d /\ stack[i].pc \in {"destroy", "delete"}
      BY DEF Destroying
    <2>3. \A i \in 1 .. n : i = n \/ i \in 1 .. n - 1
      BY <1>2
    <2>4. 1 .. n - 1 \subseteq 1 .. n
      BY <1>2
    <2> QED BY <1>1, <1>2, <2>1, <2>2, <2>3, <2>4
  <1>8. \A i, j \in 1 .. n - 1 : i < j => FramesApart(i, j)'
    <2> SUFFICES ASSUME NEW i \in 1 .. n - 1, NEW j \in 1 .. n - 1, i < j
                 PROVE  FramesApart(i, j)'
      OBVIOUS
    <2>1. FramesApart(i, j)
      BY <1>2 DEF IInv, StackOK
    <2> QED BY <1>3, <2>1 DEF FramesApart
  <1>9. \A i \in 1 .. n - 1 : heap[stack[i].cell].cnt = 0
    BY <1>2 DEF FrameOK
  <1> QED BY <1>1, <1>2, <1>3, <1>4, <1>5, <1>6, <1>7, <1>8, <1>9

(* When the heap stays and no holder changes, the end is in order.         *)
LEMMA FinishQuiet ==
  ASSUME IInv, TypeOK', Finish, heap' = heap,
         \A c \in Cell : /\ Cardinality(Holders(c)') = Cardinality(Holders(c))
                         /\ Holders(c) = {} => Holders(c)' = {},
         \A i \in 1 .. Depth - 1 : handle'[stack[i].dst] = handle[stack[i].dst],
         \A k \in Handle : ~Alive(k)' => ~Managed(k)'
  PROVE  IInv'
  <1>0. PICK n, f : n = Depth /\ f = Top
    OBVIOUS
  <1>1. /\ n \in Nat \ {0} /\ Depth' = n - 1
        /\ \A i \in 1 .. n - 1 : /\ stack'[i] = stack[i]
                                 /\ stack[i].pc = "destroy"
                                 /\ FrameOK(i)
        /\ \A d : Destroying(d)' <=> Destroying(d)
        /\ \A i, j \in 1 .. Depth' : i < j => FramesApart(i, j)'
    BY <1>0, FinishFacts
  <1>2. CountIsHolders' /\ NoLeak'
    BY <1>1 DEF IInv, CountIsHolders, NoLeak
  <1>3. \A i \in 1 .. Depth' : FrameOK(i)'
    BY <1>0, <1>1, FrameKept
  <1> QED BY <1>1, <1>2, <1>3 DEF IInv, StackOK

(* The end of ~Value. *)
LEMMA FinishDestroyOK ==
  ASSUME IInv, TypeOK', Finish, Top.op = "destroy"
  PROVE  IInv'
  <1>0. PICK n, f, h : n = Depth /\ f = Top /\ h = f.dst
    OBVIOUS
  <1>1. handle' = [handle EXCEPT ![h] = Dead] /\ heap' = heap
    BY <1>0 DEF Finish
  <1>2. /\ h \in Handle /\ Released(h)
        /\ \A i \in 1 .. n - 1 : stack[i].dst # h /\ stack[i] \in Frame
        /\ \A k \in Handle : Released(k)' <=> (Released(k) /\ k # h)
    BY <1>0, FinishFacts, FrameTypes DEF IInv
  <1>3. handle'[h] = Dead /\ \A k \in Handle \ {h} : handle'[k] = handle[k]
    BY <1>1, <1>2 DEF IInv, TypeOK
  <1>4. \A c \in Cell : Holders(c)' = Holders(c)
    BY <1>2, <1>3, CellAssumption, SameHolders DEF Dead
  <1>5. \A i \in 1 .. Depth - 1 : handle'[stack[i].dst] = handle[stack[i].dst]
    BY <1>0, <1>2, <1>3 DEF Frame
  <1>6. \A k \in Handle : ~Alive(k)' => ~Managed(k)'
    BY <1>3 DEF IInv, StackOK, Alive, Managed, Dead
  <1> QED BY <1>1, <1>4, <1>5, <1>6, FinishQuiet

(* The end of operator=(Value&&) hands the holding on. *)
LEMMA FinishMoveOK ==
  ASSUME IInv, TypeOK', Finish, Top.op = "move"
  PROVE  IInv'
  <1>0. PICK n, f, h, g, s : /\ n = Depth /\ f = Top /\ h = f.dst /\ g = f.src
                             /\ s = handle[g]
    OBVIOUS
  <1>1. handle' = [handle EXCEPT ![h] = s, ![g] = MovedFrom] /\ heap' = heap
    BY <1>0 DEF Finish
  <1>2. /\ h \in Handle /\ g \in Handle /\ Released(h)
        /\ g # h => ~Released(g)
        /\ \A i \in 1 .. n - 1 : stack[i].dst # h /\ stack[i].dst # g
        /\ \A i \in 1 .. n - 1 : stack[i] \in Frame
        /\ \A k \in Handle : Released(k)' <=> (Released(k) /\ k # h)
    BY <1>0, FinishFacts, FrameTypes DEF IInv
  <1>3. /\ handle'[g] = MovedFrom
        /\ g # h => handle'[h] = s
        /\ \A k \in Handle \ {h, g} : handle'[k] = handle[k]
    BY <1>1, <1>2 DEF IInv, TypeOK
  <1>4. ASSUME NEW c \in Cell
        PROVE  /\ Cardinality(Holders(c)') = Cardinality(Holders(c))
               /\ Holders(c) = {} => Holders(c)' = {}
    <2>1. CASE g = h \/ s.cell # c
      <3>1. Holders(c)' = Holders(c)
        BY <1>0, <1>2, <1>3, <2>1, CellAssumption, SameHolders DEF MovedFrom
      <3> QED BY <3>1
    <2>2. CASE g # h /\ s.cell = c
      <3>1. /\ Holders(c)' = (Holders(c) \ {g}) \cup {h}
            /\ g \in Holders(c) /\ h \notin Holders(c)
        <4>1. /\ handle[g].cell = c /\ handle'[h].cell = c
              /\ handle'[g].cell # c /\ ~Released(h)'
          BY <1>0, <1>2, <1>3, <2>2, CellAssumption DEF MovedFrom
        <4> QED BY <1>2, <1>3, <2>2, <4>1 DEF Holders
      <3>2. /\ IsFiniteSet(Holders(c) \ {g})
            /\ Cardinality(Holders(c) \ {g}) = Cardinality(Holders(c)) - 1
        BY <3>1, HoldersCount, FS_RemoveElement
      <3>3. Cardinality((Holders(c) \ {g}) \cup {h}) = Cardinality(Holders(c) \ {g}) + 1
        BY <3>1, <3>2, FS_AddElement
      <3> QED BY <3>1, <3>2, <3>3, HoldersCount
    <2> QED BY <2>1, <2>2
  <1>5. \A i \in 1 .. Depth - 1 : handle'[stack[i].dst] = handle[stack[i].dst]
    BY <1>0, <1>2, <1>3 DEF Frame
  <1>6. \A k \in Handle : ~Alive(k)' => ~Managed(k)'
    <2> SUFFICES ASSUME NEW k \in Handle, ~Alive(k)' PROVE ~Managed(k)'
      OBVIOUS
    <2>1. k # g
      BY <1>3 DEF Alive, MovedFrom
    <2>2. CASE k = h
      BY <1>0, <1>2, <1>3, <2>1, <2>2 DEF IInv, StackOK, Alive, Managed
    <2>3. CASE k # h
      BY <1>3, <2>1, <2>3 DEF IInv, StackOK, Alive, Managed
    <2> QED BY <2>2, <2>3
  <1> QED BY <1>1, <1>4, <1>5, <1>6, FinishQuiet

(* The end of operator=(const Value&): Retain counts the assigned Value. *)
LEMMA FinishCopyOK ==
  ASSUME IInv, TypeOK', Finish, Top.op = "copy"
  PROVE  IInv'
  <1>0. PICK n, f, h, g, s, c : /\ n = Depth /\ f = Top /\ h = f.dst /\ g = f.src
                                /\ s = handle[g] /\ c = s.cell
    OBVIOUS
  <1>1. handle' = [handle EXCEPT ![h] = s] /\ Retain(s) /\ f.op = "copy"
    BY <1>0 DEF Finish
  <1>2. /\ n \in Nat \ {0} /\ Depth' = n - 1
        /\ f = stack[n] /\ f.pc = "assign" /\ FrameOK(n)
        /\ h \in Handle /\ g \in Handle /\ Released(h)
        /\ g # h => ~Released(g)
        /\ \A i \in 1 .. n - 1 : stack[i].dst # h /\ stack[i] \in Frame
        /\ \A k \in Handle : Released(k)' <=> (Released(k) /\ k # h)
    BY <1>0, FinishFacts, FrameTypes DEF IInv
  <1>3. handle'[h] = s /\ \A k \in Handle \ {h} : handle'[k] = handle[k]
    BY <1>1, <1>2 DEF IInv, TypeOK
  <1>4. s \in HandleState
    BY <1>0, <1>2 DEF IInv, TypeOK
  <1>5. \A i \in 1 .. n - 1 : handle'[stack[i].dst] = handle[stack[i].dst]
    BY <1>2, <1>3 DEF Frame
  <1>6. \A k \in Handle : ~Alive(k)' => ~Managed(k)'
    BY <1>0, <1>2, <1>3 DEF IInv, StackOK, Alive, Managed
  <1>7. \A d \in Cell \ {c} : Holders(d)' = Holders(d)
    BY <1>0, <1>2, <1>3, SameHolders
  <1>8. CASE c = NoCell
    <2>1. heap' = heap
      BY <1>0, <1>1, <1>8 DEF Retain
    <2>2. \A d \in Cell : Holders(d)' = Holders(d)
      BY <1>7, <1>8, CellAssumption
    <2> QED BY <1>0, <1>5, <1>6, <2>1, <2>2, FinishQuiet
  <1>9. CASE c # NoCell
    <2>1. c \in Cell
      BY <1>0, <1>4, <1>9 DEF HandleState
    <2>2. heap[c].status = "live" /\ heap[c].cnt # 0
      <3>1. CASE g = h
        BY <1>0, <1>1, <1>2, <1>9, <3>1 DEF FrameOK
      <3>2. CASE g # h
        <4>1. g \in Holders(c)
          BY <1>0, <1>2, <3>2 DEF Holders
        <4>2. heap[c].status = "live" /\ heap[c].cnt \in 1 .. CountLimit - 1
          BY <2>1, <4>1, HolderIsCounted
        <4> QED BY <4>2, CountLimitPositive
      <3> QED BY <3>1, <3>2
    <2>3. heap[c].cnt = Cardinality(Holders(c)) /\ heap[c].cnt \in Nat
      BY <2>1, <2>2, HoldersCount DEF IInv, CountIsHolders
    <2>4. Holders(c)' = Holders(c) \cup {h} /\ h \notin Holders(c)
      <3>1. handle'[h].cell = c /\ ~Released(h)'
        BY <1>0, <1>2, <1>3
      <3> QED BY <1>2, <1>3, <3>1 DEF Holders
    <2>5. Cardinality(Holders(c)') = heap[c].cnt + 1
      <3>1. Cardinality(Holders(c) \cup {h}) = Cardinality(Holders(c)) + 1
        BY <2>4, HoldersCount, FS_AddElement
      <3> QED BY <2>3, <2>4, <3>1
    <2>6. heap[c].cnt + 1 < CountLimit
      <3>1. Holders(c)' \subseteq Handle
        BY <2>4, <1>2 DEF Holders
      <3>2. Cardinality(Holders(c)') <= Cardinality(Handle)
        BY <3>1, HandleAssumption, FS_Subset
      <3> QED BY <2>3, <2>5, <3>2, HandleAssumption, FS_CardinalityType
    <2>7. heap' = [heap EXCEPT ![c].cnt = heap[c].cnt + 1]
      BY <1>0, <1>1, <1>4, <2>1, <2>2, <2>6, RetainCounts
    <2>8. /\ heap'[c].status = "live"
          /\ heap'[c].cnt = heap[c].cnt + 1
          /\ \A d \in Cell \ {c} : heap'[d] = heap[d]
      BY <2>1, <2>2, <2>7, TypeCell DEF IInv, TypeOK, CellState
    <2>9. CountIsHolders'
      <3>1. heap'[c].cnt = Cardinality(Holders(c)')
        BY <2>5, <2>8
      <3> QED BY <1>7, <2>1, <2>8, <3>1, OneCell
    <2>10. NoLeak'
      <3>1. \A d : Destroying(d)' <=> Destroying(d)
        BY <1>0, FinishFacts
      <3>2. heap'[c].cnt # 0
        BY <2>3, <2>8
      <3> QED BY <2>1, <2>2, <2>8, <3>1, <3>2 DEF IInv, NoLeak
    <2>11. \A i \in 1 .. n - 1 : FrameOK(i)'
      <3>1. \A i \in 1 .. n - 1 : /\ stack'[i] = stack[i]
                                  /\ stack[i].pc = "destroy"
                                  /\ FrameOK(i)
                                  /\ stack[i].cell \in Cell
                                  /\ stack[i].cell # c
        BY <1>0, <2>2, FinishFacts
      <3>2. \A i \in 1 .. n - 1 : heap'[stack[i].cell] = heap[stack[i].cell]
        BY <2>8, <3>1
      <3> QED BY <1>5, <3>1, <3>2, FrameKept
    <2>12. \A i \in 1 .. Depth' : FrameOK(i)'
      BY <1>2, <2>11
    <2>13. \A i, j \in 1 .. Depth' : i < j => FramesApart(i, j)'
      BY <1>0, FinishFacts
    <2> QED BY <1>6, <2>9, <2>10, <2>12, <2>13 DEF IInv, StackOK
  <1> QED BY <1>8, <1>9

(* Clients that keep the contract preserve IInv. *)
LEMMA ClientOK ==
  ASSUME IInv, Misuse = {}, Client
  PROVE  IInv'
  <1>1. TypeOK'
    BY TypeClient DEF IInv
  <1>2. PICK h \in Handle :
          \/ DefaultConstruct(h)
          \/ \E kind \in {"builtin", "object"} : ConstructPlain(h, kind)
          \/ \E l \in Layout, c \in Cell : ConstructManaged(h, l, c)
          \/ \E outcome \in Constructions : Construct(h, outcome)
          \/ \E g \in Handle : CopyConstruct(h, g)
          \/ \E g \in Handle : MoveConstruct(h, g)
          \/ \E g \in Handle : CopyAssign(h, g)
          \/ \E g \in Handle : MoveAssign(h, g)
          \/ Destroy(h)
    BY DEF Client
  <1>3. handle \in [Handle -> HandleState] /\ heap \in [Cell -> CellState]
    BY DEF IInv, TypeOK
  <1>4. CASE DefaultConstruct(h)
    <2>1. \A k \in Handle : /\ handle'[k].cell = handle[k].cell
                            /\ Alive(k) => Alive(k)'
      BY <1>3, <1>4 DEF DefaultConstruct, Alive, HandleState
    <2> QED BY <1>1, <1>4, <2>1, Quiet DEF DefaultConstruct
  <1>5. ASSUME NEW kind \in {"builtin", "object"}, ConstructPlain(h, kind)
        PROVE  IInv'
    <2>1. \A k \in Handle : /\ handle'[k].cell = handle[k].cell
                            /\ Alive(k) => Alive(k)'
      BY <1>3, <1>5 DEF ConstructPlain, Alive, HandleState
    <2> QED BY <1>1, <1>5, <2>1, Quiet DEF ConstructPlain
  <1>6. CASE \E l \in Layout, c \in Cell : ConstructManaged(h, l, c)
    BY <1>1, <1>6, ConstructManagedOK
  <1>7. ASSUME NEW outcome \in Constructions, Construct(h, outcome)
        PROVE  IInv'
    <2>1. UNCHANGED <<handle, stack>>
          /\ \E t, b : heap' = [heap EXCEPT ![handle[h].cell] =
                 [heap[handle[h].cell] EXCEPT !.touched = t, !.built = b]]
      BY <1>7 DEF Construct
    <2>2. \A c \in Cell : /\ heap'[c].status = heap[c].status
                          /\ heap'[c].cnt = heap[c].cnt
      BY <1>3, <2>1 DEF CellState
    <2> QED BY <1>1, <2>1, <2>2, Quiet DEF Alive
  <1>8. CASE \E g \in Handle : CopyConstruct(h, g)
    BY <1>1, <1>8, CopyConstructOK
  <1>9. CASE \E g \in Handle : MoveConstruct(h, g)
    BY <1>1, <1>9, MoveConstructOK
  <1>10. ASSUME NEW g \in Handle, CopyAssign(h, g)
         PROVE  IInv'
    <2>1. \A i \in 1 .. Depth : stack[i].dst # h /\ stack[i].dst # g
      BY <1>10, NotWritten DEF CopyAssign, MayAssign
    <2>2. h = g /\ Managed(h) => heap[handle[h].cell].cnt > 1
      BY <1>10 DEF CopyAssign, MayAssign
    <2> QED BY <1>1, <1>10, <2>1, <2>2, BeginOK DEF CopyAssign
  <1>11. ASSUME NEW g \in Handle, MoveAssign(h, g)
         PROVE  IInv'
    <2>1. \A i \in 1 .. Depth : stack[i].dst # h /\ stack[i].dst # g
      BY <1>11, NotWritten DEF MoveAssign
    <2> QED BY <1>1, <1>11, <2>1, BeginOK DEF MoveAssign
  <1>12. CASE Destroy(h)
    <2>1. \A i \in 1 .. Depth : stack[i].dst # h
      BY <1>12 DEF Destroy, MayDestroy
    <2> QED BY <1>1, <1>12, <2>1, BeginOK DEF Destroy
  <1> QED BY <1>2, <1>4, <1>5, <1>6, <1>7, <1>8, <1>9, <1>10, <1>11, <1>12

(* The steps of the operations in progress preserve IInv. *)
LEMMA StepOK ==
  ASSUME IInv, Step
  PROVE  IInv'
  <1>1. CASE ReleaseStart
    BY <1>1, TypeReleaseStart, ReleaseStartOK DEF IInv
  <1>2. CASE DestroyElem
    <2>1. TypeOK' /\ UNCHANGED <<handle, stack>>
      BY <1>2, TypeDestroyElem DEF IInv, DestroyElem
    <2>2. \E i, b : heap' = [heap EXCEPT ![Top.cell] =
                       [heap[Top.cell] EXCEPT !.left = i, !.built = b]]
      BY <1>2 DEF DestroyElem
    <2>3. \A c \in Cell : /\ heap'[c].status = heap[c].status
                          /\ heap'[c].cnt = heap[c].cnt
      BY <2>2 DEF IInv, TypeOK, CellState
    <2> QED BY <2>1, <2>3, Quiet DEF Alive
  <1>3. CASE DeletePayload
    BY <1>3, TypeDeletePayload, DeletePayloadOK DEF IInv
  <1>4. CASE Finish
    <2>1. TypeOK' /\ (Top.op = "copy" \/ Top.op = "move" \/ Top.op = "destroy")
      BY <1>4, TypeFinish DEF IInv, Finish
    <2> QED BY <1>4, <2>1, FinishCopyOK, FinishMoveOK, FinishDestroyOK
  <1> QED BY <1>1, <1>2, <1>3, <1>4 DEF Step

(* IInv holds before any Value exists. *)
LEMMA IInvInit == Init => IInv
  <1> SUFFICES ASSUME Init PROVE IInv
    OBVIOUS
  <1>1. TypeOK
    BY TypeInit
  <1>2. Depth = 0
    BY DEF Init, Depth
  <1>3. \A c \in Cell : heap[c].status # "live" /\ Holders(c) = {} /\ ~Destroying(c)
    BY <1>2, CellAssumption DEF Init, Blank, Holders, Dead, Destroying
  <1>4. CountIsHolders /\ NoLeak
    BY <1>3 DEF CountIsHolders, NoLeak
  <1>5. StackOK
    BY <1>2 DEF Init, StackOK, Managed, Dead
  <1> QED BY <1>1, <1>4, <1>5 DEF IInv

(* The inductive invariant holds under the contract (all of Value.cc). *)
THEOREM Inductive == ASSUME Misuse = {} PROVE Spec => []IInv
  <1>1. IInv /\ [Next]_vars => IInv'
    <2> SUFFICES ASSUME IInv, [Next]_vars PROVE IInv'
      OBVIOUS
    <2>1. CASE UNCHANGED vars
      <3>1. UNCHANGED <<handle, heap, stack>>
        BY <2>1 DEF vars
      <3>2. TypeOK'
        BY <3>1 DEF IInv, TypeOK
      <3> QED BY <3>1, <3>2, Quiet DEF Alive
    <2>2. CASE Next
      BY <2>2, ClientOK, StepOK DEF Next
    <2> QED BY <2>1, <2>2
  <1> QED BY <1>1, IInvInit, PTL DEF Spec

(* ref_cnt_ counts the Values that hold a payload, for every number of     *)
(* Values, cells and nested destructors (Retain, Release, operator=).      *)
THEOREM CountsHolders == ASSUME Misuse = {} PROVE Spec => []CountIsHolders
  <1>1. IInv => CountIsHolders
    BY DEF IInv
  <1> QED BY <1>1, Inductive, PTL

(* A payload without holders is being released by an operation in progress *)
(* (Release, ~Value).                                                      *)
THEOREM NothingLeaks == ASSUME Misuse = {} PROVE Spec => []NoLeak
  <1>1. IInv => NoLeak
    BY DEF IInv
  <1> QED BY <1>1, Inductive, PTL

(* Operations nested through destructors work on Values of their own, and  *)
(* never destroy or delete one payload twice (Release, operator=, ~Value). *)
THEOREM NestedStayApart == ASSUME Misuse = {} PROVE Spec => []StackOK
  <1>1. IInv => StackOK
    BY DEF IInv
  <1> QED BY <1>1, Inductive, PTL

(* The assertion of Release never fails, and no Value names freed memory.  *)
THEOREM ReleaseAsserts ==
  ASSUME Misuse = {} PROVE Spec => [](CountPositive /\ HeldIsLive)
  <1>1. IInv => CountPositive
    <2> SUFFICES ASSUME IInv, stack # <<>>, Top.pc = "release"
                 PROVE  heap[Top.cell].cnt > 0
      BY DEF CountPositive
    <2>1. /\ Top.dst \in Handle /\ Top.cell \in Cell
          /\ handle[Top.dst].cell = Top.cell
          /\ Top = stack[Depth]
          /\ \A i \in 1 .. Depth : i = Depth \/ stack[i].dst # Top.dst
      BY LastFrame
    <2>2. Top.dst \in Holders(Top.cell)
      BY <2>1 DEF Holders, Released
    <2>3. heap[Top.cell].cnt \in 1 .. CountLimit - 1
      BY <2>1, <2>2, HolderIsCounted
    <2> QED BY <2>3, CountLimitPositive
  <1>2. IInv => HeldIsLive
    <2> SUFFICES ASSUME IInv, NEW h \in Handle, Managed(h), ~Released(h)
                 PROVE  heap[handle[h].cell].status = "live"
      BY DEF HeldIsLive
    <2>1. handle[h].cell \in Cell
      BY DEF IInv, TypeOK, HandleState, Managed
    <2>2. h \in Holders(handle[h].cell)
      BY DEF Holders
    <2> QED BY <2>1, <2>2, HolderIsCounted
  <1>3. IInv => CountPositive /\ HeldIsLive
    BY <1>1, <1>2
  <1> QED BY <1>3, Inductive, PTL

-----------------------------------------------------------------------------
(***************************************************************************)
(* What Release does to the objects of a payload: every destructor call    *)
(* finds the object it destroys, and no object is left in a block that is  *)
(* freed.  The condition is the contract of the clients, constructors that *)
(* run to their end and write something, and layouts whose stride is       *)
(* right.                                                                  *)
(***************************************************************************)

InContract ==
  /\ Misuse = {}
  /\ Constructions \subseteq {"full"}
  /\ \A l \in Layout : l.dtor => Strided(l)

-----------------------------------------------------------------------------
(* The stride.                                                             *)

(* Two elements never lie at one offset. *)
LEMMA OffsetsDiffer ==
  ASSUME NEW l \in Layout, NEW i \in Nat, NEW j \in Nat,
         BuiltAt(l, i) = BuiltAt(l, j)
  PROVE  i = j
  <1>0. PICK s : s = l.size
    OBVIOUS
  <1>1. s \in Nat \ {0} /\ i * s = j * s
    BY <1>0, LayoutAssumption DEF IsLayout, BuiltAt
  <1>2. ASSUME NEW a \in Nat, NEW b \in Nat, a < b
        PROVE  a * s # b * s
    <2>1. b * s = a * s + (b - a) * s
      BY <1>1
    <2>2. (b - a) * s > 0
      BY <1>1, <1>2
    <2>3. a * s \in Nat /\ b * s \in Nat
      BY <1>1
    <2> QED BY <1>1, <1>2, <2>1, <2>2, <2>3
  <1> QED BY <1>1, <1>2

(* "alloc_size_ / elems_num_" is the size of an element if the elements     *)
(* fill the canary, and does not matter for a single object.               *)
LEMMA StrideIsRight ==
  ASSUME NEW l, IsLayout(l), l.elems * l.size >= CanarySize \/ l.elems <= 1
  PROVE  Strided(l)
  <1>0. PICK e, s : e = l.elems /\ s = l.size
    OBVIOUS
  <1>1. e \in Nat /\ s \in Nat \ {0}
    BY <1>0 DEF IsLayout
  <1>2. CASE e <= 1
    <2> SUFFICES ASSUME NEW i \in 0 .. e - 1
                 PROVE  DestroyedAt(l, i) = BuiltAt(l, i)
      BY <1>0 DEF Strided
    <2>1. i = 0 /\ e = 1
      BY <1>1, <1>2
    <2>2. Skip(l) \in Int
      BY <1>0, <1>1, <2>1 DEF Skip, AllocSize, CanarySize
    <2> QED BY <1>0, <1>1, <2>1, <2>2 DEF DestroyedAt, BuiltAt
  <1>3. CASE e > 1
    <2>1. e * s >= CanarySize /\ e * s \in Nat
      BY <1>0, <1>1, <1>3
    <2>2. AllocSize(l) = e * s
      BY <1>0, <1>1, <2>1 DEF AllocSize, CanarySize
    <2>3. (e * s) \div e = s
      BY <1>1, <1>3
    <2> QED BY <1>0, <2>2, <2>3 DEF Strided, DestroyedAt, BuiltAt, Skip
  <1> QED BY <1>1, <1>2, <1>3

-----------------------------------------------------------------------------
(* The inductive invariant.                                                *)

(* A payload that is touched holds the objects that are not destroyed yet, *)
(* any other holds none; elems_num_ counts down in Release only.           *)
PayloadOK(c) ==
  LET r == heap[c]
  IN  r.status = "live" =>
        /\ r.left <= r.layout.elems
        /\ r.left # r.layout.elems => Destroying(c)
        /\ r.touched => /\ r.layout.elems # 0
                        /\ r.built = {BuiltAt(r.layout, i) : i \in 0 .. r.left - 1}
        /\ ~r.touched => r.built = {}

(* Destructors run exactly where there is one, and objects (Release).      *)
ReleasingOK(i) ==
  LET f == stack[i]
      r == heap[f.cell]
  IN  /\ f.pc = "destroy" => r.layout.dtor /\ r.touched
      /\ f.pc = "delete" => ~(r.layout.dtor /\ r.touched)

PInv ==
  /\ IInv
  /\ \A c \in Cell : PayloadOK(c)
  /\ \A i \in 1 .. Depth : ReleasingOK(i)

(* The step changes nothing but the counter of d. *)
Keeps(d) ==
  /\ heap'[d].status = heap[d].status
  /\ heap'[d].left = heap[d].left
  /\ heap'[d].layout = heap[d].layout
  /\ heap'[d].touched = heap[d].touched
  /\ heap'[d].built = heap[d].built

(* A payload stays right if its objects do and its release goes on. *)
LEMMA PayloadKept ==
  ASSUME NEW c, PayloadOK(c), Keeps(c), Destroying(c) => Destroying(c)'
  PROVE  PayloadOK(c)'
  BY DEF PayloadOK, Keeps

(* An operation keeps its place if its cell does. *)
LEMMA ReleasingKept ==
  ASSUME NEW i, ReleasingOK(i), stack'[i] = stack[i],
         heap'[stack[i].cell].layout = heap[stack[i].cell].layout,
         heap'[stack[i].cell].touched = heap[stack[i].cell].touched
  PROVE  ReleasingOK(i)'
  BY DEF ReleasingOK

(* Steps that keep all payloads, and enter no destructor. *)
LEMMA PayloadsKept ==
  ASSUME PInv, IInv', \A d \in Cell : Keeps(d),
         \A d \in Cell : Destroying(d) => Destroying(d)',
         \A i \in 1 .. Depth' :
           \/ i \in 1 .. Depth /\ stack'[i] = stack[i]
           \/ stack'[i].pc \in {"release", "assign"}
  PROVE  PInv'
  <1>1. \A c \in Cell : PayloadOK(c)'
    BY PayloadKept DEF PInv
  <1>2. ASSUME NEW i \in 1 .. Depth' PROVE ReleasingOK(i)'
    <2>1. CASE stack'[i].pc \in {"release", "assign"}
      BY <2>1 DEF ReleasingOK
    <2>2. CASE /\ i \in 1 .. Depth /\ stack'[i] = stack[i]
               /\ stack'[i].pc \notin {"release", "assign"}
      <3>1. stack[i].cell \in Cell
        BY <2>2, FrameTypes DEF PInv, IInv, StackOK, FrameOK
      <3> QED BY <2>2, <3>1, ReleasingKept DEF PInv, Keeps
    <2> QED BY <2>1, <2>2
  <1> QED BY <1>1, <1>2 DEF PInv

(* Writing ref_cnt_ keeps the payloads. *)
LEMMA CountKeeps ==
  ASSUME TypeOK, NEW c, NEW m, heap' = [heap EXCEPT ![c].cnt = m]
  PROVE  \A d \in Cell : Keeps(d)
  BY DEF TypeOK, CellState, Keeps

(* So does Retain. *)
LEMMA RetainKeepsPayloads ==
  ASSUME TypeOK, NEW s, Retain(s)
  PROVE  \A d \in Cell : Keeps(d)
  <1>1. CASE s.cell = NoCell
    BY <1>1 DEF Retain, Keeps
  <1>2. CASE s.cell # NoCell
    <2>1. PICK m : heap' = [heap EXCEPT ![s.cell].cnt = m]
      BY <1>2 DEF Retain
    <2> QED BY <2>1, CountKeeps
  <1> QED BY <1>1, <1>2

-----------------------------------------------------------------------------
(* The steps.                                                              *)

(* Clients run while no cell they can reach is being destroyed. *)
LEMMA InUse ==
  ASSUME IInv, Misuse = {}, NEW h \in Handle, Managed(h), Untouched(h)
  PROVE  /\ handle[h].cell \in Cell
         /\ heap[handle[h].cell].status = "live"
         /\ heap[handle[h].cell].cnt # 0
         /\ ~Destroying(handle[h].cell)
  <1>0. PICK c : c = handle[h].cell
    OBVIOUS
  <1>1. c \in Cell /\ h \in Holders(c)
    BY <1>0, NotWritten DEF IInv, TypeOK, HandleState, Managed, Holders
  <1>2. heap[c].status = "live" /\ heap[c].cnt \in 1 .. CountLimit - 1
    BY <1>1, HolderIsCounted
  <1>3. heap[c].cnt # 0
    BY <1>2, CountLimitPositive
  <1>4. ~Destroying(c)
    BY <1>1, <1>3 DEF IInv, NoLeak
  <1> QED BY <1>0, <1>1, <1>2, <1>3, <1>4

(* CreatePayload: elements are counted, none is there yet. *)
LEMMA ConstructManagedPayloads ==
  ASSUME PInv, IInv', NEW h \in Handle, NEW l \in Layout, NEW c \in Cell,
         ConstructManaged(h, l, c)
  PROVE  PInv'
  <1>1. /\ ClientRuns /\ heap[c].status = "free" /\ stack' = stack
        /\ heap' = [heap EXCEPT ![c] =
             [status |-> "live", cnt |-> 1, left |-> l.elems, layout |-> l,
              touched |-> FALSE, built |-> {}]]
    BY DEF ConstructManaged
  <1>2. /\ \A d \in Cell \ {c} : heap'[d] = heap[d]
        /\ heap'[c].left = l.elems /\ heap'[c].layout = l
        /\ heap'[c].touched = FALSE /\ heap'[c].built = {}
        /\ l.elems \in Nat
    BY <1>1, LayoutAssumption DEF PInv, IInv, TypeOK, IsLayout
  <1>3. ASSUME NEW d \in Cell PROVE PayloadOK(d)'
    <2>1. CASE d = c
      BY <1>2, <2>1 DEF PayloadOK
    <2>2. CASE d # c
      BY <1>1, <1>2, <2>2, PayloadKept DEF PInv, Keeps, Destroying, Depth
    <2> QED BY <2>1, <2>2
  <1>4. ASSUME NEW i \in 1 .. Depth PROVE ReleasingOK(i)'
    <2>1. stack[i].cell \in Cell \ {c}
      BY <1>1, ClientFrames DEF PInv
    <2> QED BY <1>1, <1>2, <2>1, ReleasingKept DEF PInv
  <1> QED BY <1>1, <1>3, <1>4 DEF PInv, Depth

(* The constructors of all elements have run. *)
LEMMA ConstructPayloads ==
  ASSUME PInv, IInv', InContract, NEW h \in Handle,
         NEW outcome \in Constructions, Construct(h, outcome)
  PROVE  PInv'
  <1>0. PICK c, l : c = handle[h].cell /\ l = heap[c].layout
    OBVIOUS
  <1>1. /\ outcome = "full" /\ stack' = stack /\ ClientRuns
        /\ heap[c].status = "live"
    BY <1>0 DEF Construct, InContract
  <1>2. c \in Cell /\ heap[c].cnt # 0 /\ ~Destroying(c)
    BY <1>0, InUse DEF Construct, InContract, PInv
  <1>3. heap[c] \in CellState /\ l \in Layout /\ l.elems \in Nat
    BY <1>0, <1>2, TypeCell, LayoutAssumption DEF PInv, IInv, CellState, IsLayout
  <1>a. PICK t \in BOOLEAN :
          /\ t <=> l.elems # 0
          /\ heap' = [heap EXCEPT ![c] =
               [heap[c] EXCEPT !.touched = t, !.built = Offsets(l)]]
    <2> DEFINE u == outcome # "silent" /\ l.elems > 0
    <2>1. heap' = [heap EXCEPT ![c] =
             [heap[c] EXCEPT !.touched = u, !.built = Offsets(l)]]
      BY <1>0, <1>1 DEF Construct
    <2>2. u <=> l.elems # 0
      BY <1>1, <1>3
    <2>3. u \in BOOLEAN
      OBVIOUS
    <2> HIDE DEF u
    <2> QED BY <2>1, <2>2, <2>3
  <1>4. /\ \A d \in Cell \ {c} : heap'[d] = heap[d]
        /\ heap'[c].status = "live"
        /\ heap'[c].left = heap[c].left /\ heap'[c].layout = l
        /\ heap'[c].touched <=> l.elems # 0
        /\ heap'[c].built = Offsets(l)
    <2>1. /\ \A d \in Cell \ {c} : heap'[d] = heap[d]
          /\ heap'[c] = [heap[c] EXCEPT !.touched = t, !.built = Offsets(l)]
      BY <1>2, <1>a DEF PInv, IInv, TypeOK
    <2>2. heap'[c].touched = t
      BY <1>3, <2>1 DEF CellState
    <2>3. /\ heap'[c].status = "live"
          /\ heap'[c].left = heap[c].left /\ heap'[c].layout = l
          /\ heap'[c].built = Offsets(l)
      BY <1>0, <1>1, <1>3, <2>1 DEF CellState
    <2> QED BY <1>a, <2>1, <2>2, <2>3
  <1>5. heap[c].left = l.elems
    BY <1>0, <1>1, <1>2 DEF PInv, PayloadOK
  <1>6. ASSUME NEW d \in Cell PROVE PayloadOK(d)'
    <2>1. CASE d = c
      <3>1. heap'[c].built = {BuiltAt(l, i) : i \in 0 .. heap'[c].left - 1}
        BY <1>4, <1>5 DEF Offsets
      <3>2. l.elems = 0 => Offsets(l) = {}
        BY DEF Offsets
      <3>3. heap'[c].left = l.elems /\ heap'[c].layout = l
            /\ l.elems <= l.elems
        BY <1>3, <1>4, <1>5
      <3> QED BY <1>4, <2>1, <3>1, <3>2, <3>3 DEF PayloadOK
    <2>2. CASE d # c
      <3>1. Destroying(d) => Destroying(d)'
        BY <1>1 DEF Destroying, Depth
      <3> QED BY <1>4, <2>2, <3>1, PayloadKept DEF PInv, Keeps
    <2> QED BY <2>1, <2>2
  <1>7. ASSUME NEW i \in 1 .. Depth PROVE ReleasingOK(i)'
    <2>1. stack[i].cell \in Cell \ {c}
      BY <1>1, <1>2, ClientFrames DEF PInv
    <2> QED BY <1>1, <1>4, <2>1, ReleasingKept DEF PInv
  <1> QED BY <1>1, <1>6, <1>7 DEF PInv, Depth

(* The destructor is called where its object is, and takes it away. *)
LEMMA DestroyElemPayloads ==
  ASSUME PInv, IInv', InContract, DestroyElem
  PROVE  PInv'
  <1>0. PICK n, c, l, k : /\ n = Depth /\ c = Top.cell
                          /\ l = heap[c].layout /\ k = heap[c].left
    OBVIOUS
  <1>1. /\ stack # <<>> /\ Top.pc = "destroy" /\ stack' = stack /\ k # 0
        /\ heap' = [heap EXCEPT ![c] =
             [heap[c] EXCEPT !.left = k - 1,
                             !.built = heap[c].built \ {DestroyedAt(l, k - 1)}]]
    BY <1>0 DEF DestroyElem
  <1>2. n \in 1 .. n /\ Top = stack[n] /\ c \in Cell /\ FrameOK(n)
    BY <1>0, <1>1, LastFrame DEF PInv
  <1>3. heap[c].status = "live" /\ l.dtor /\ heap[c].touched
    BY <1>0, <1>1, <1>2 DEF FrameOK, PInv, ReleasingOK
  <1>4. heap[c] \in CellState /\ l \in Layout /\ l.elems \in Nat /\ k \in Nat
    BY <1>0, <1>2, TypeCell, LayoutAssumption DEF PInv, IInv, CellState, IsLayout
  <1>5. /\ \A d \in Cell \ {c} : heap'[d] = heap[d]
        /\ heap'[c].status = "live" /\ heap'[c].left = k - 1
        /\ heap'[c].layout = l /\ heap'[c].touched = heap[c].touched
        /\ heap'[c].built = heap[c].built \ {DestroyedAt(l, k - 1)}
    <2>1. /\ \A d \in Cell \ {c} : heap'[d] = heap[d]
          /\ heap'[c] = [heap[c] EXCEPT
               !.left = k - 1,
               !.built = heap[c].built \ {DestroyedAt(l, k - 1)}]
      BY <1>1, <1>2 DEF PInv, IInv, TypeOK
    <2> QED BY <1>0, <1>3, <1>4, <2>1 DEF CellState
  <1>6. /\ k <= l.elems /\ l.elems # 0
        /\ heap[c].built = {BuiltAt(l, i) : i \in 0 .. k - 1}
    BY <1>0, <1>2, <1>3 DEF PInv, PayloadOK
  <1>7. DestroyedAt(l, k - 1) = BuiltAt(l, k - 1)
    BY <1>1, <1>3, <1>4, <1>6 DEF InContract, Strided
  <1>8. heap'[c].built = {BuiltAt(l, i) : i \in 0 .. (k - 1) - 1}
    <2>1. ASSUME NEW i \in 0 .. k - 1, BuiltAt(l, i) = BuiltAt(l, k - 1)
          PROVE  i = k - 1
      BY <1>1, <1>4, <2>1, OffsetsDiffer
    <2>2. \A i : i \in 0 .. (k - 1) - 1 <=> i \in 0 .. k - 1 /\ i # k - 1
      BY <1>1, <1>4
    <2>3. k - 1 \in 0 .. k - 1
      BY <1>1, <1>4
    <2> QED BY <1>5, <1>6, <1>7, <2>1, <2>2, <2>3
  <1>9. Destroying(c)'
    BY <1>0, <1>1, <1>2 DEF Destroying, Depth
  <1>10. ASSUME NEW d \in Cell PROVE PayloadOK(d)'
    <2>1. CASE d = c
      <3>1. k - 1 <= l.elems
        BY <1>4, <1>6
      <3> QED BY <1>3, <1>5, <1>6, <1>8, <1>9, <2>1, <3>1 DEF PayloadOK
    <2>2. CASE d # c
      <3>1. Destroying(d) => Destroying(d)'
        BY <1>1 DEF Destroying, Depth
      <3> QED BY <1>5, <2>2, <3>1, PayloadKept DEF PInv, Keeps
    <2> QED BY <2>1, <2>2
  <1>11. ASSUME NEW i \in 1 .. Depth PROVE ReleasingOK(i)'
    <2>1. ReleasingOK(i)
      BY DEF PInv
    <2>2. CASE stack[i].cell = c
      BY <1>0, <1>1, <1>5, <2>1, <2>2, ReleasingKept
    <2>3. CASE stack[i].cell # c
      <3>1. heap'[stack[i].cell] = heap[stack[i].cell]
        BY <1>1, <2>3
      <3> QED BY <1>1, <2>1, <3>1, ReleasingKept
    <2> QED BY <2>2, <2>3
  <1> QED BY <1>1, <1>10, <1>11 DEF PInv, Depth

(* Release decides to destroy where there are objects and a destructor. *)
LEMMA ReleasePayloads ==
  ASSUME PInv, IInv', ReleaseStart
  PROVE  PInv'
  <1>0. PICK n, f, c : n = Depth /\ f = Top /\ c = f.cell
    OBVIOUS
  <1>1. stack # <<>> /\ f.pc = "release"
    BY <1>0 DEF ReleaseStart
  <1>2. PICK m, pc : /\ heap' = [heap EXCEPT ![c].cnt = m]
                     /\ pc = AfterDecrement(c, m) /\ stack' = Goto(pc)
    BY <1>0 DEF ReleaseStart
  <1>3. /\ pc \in {"release", "destroy", "delete", "assign"}
        /\ pc = "destroy" => heap[c].layout.dtor /\ heap[c].touched
        /\ pc = "delete" => ~(heap[c].layout.dtor /\ heap[c].touched)
    BY <1>2 DEF AfterDecrement
  <1>4. /\ n \in Nat \ {0} /\ f = stack[n] /\ c \in Cell
        /\ \A i \in 1 .. n - 1 : stack[i].cell \in Cell
    BY <1>0, <1>1, LastFrame DEF PInv
  <1>5. /\ Depth' = n
        /\ \A i \in 1 .. n - 1 : stack'[i] = stack[i]
        /\ stack'[n].cell = c /\ stack'[n].pc = pc
    BY <1>0, <1>1, <1>2, <1>3, GotoFacts DEF PInv, IInv
  <1>6. \A d \in Cell : Keeps(d)
    BY <1>2, CountKeeps DEF PInv, IInv
  <1>7. \A d \in Cell : Destroying(d) => Destroying(d)'
    BY <1>0, <1>1, <1>4, <1>5 DEF Destroying
  <1>8. \A d \in Cell : PayloadOK(d)'
    BY <1>6, <1>7, PayloadKept DEF PInv
  <1>9. ASSUME NEW i \in 1 .. n PROVE ReleasingOK(i)'
    <2>1. CASE i = n
      BY <1>3, <1>4, <1>5, <1>6, <2>1 DEF ReleasingOK, Keeps
    <2>2. CASE i # n
      <3>1. i \in 1 .. n - 1 /\ stack[i].cell \in Cell /\ ReleasingOK(i)
        BY <1>0, <1>4, <2>2 DEF PInv
      <3> QED BY <1>5, <1>6, <3>1, ReleasingKept DEF Keeps
    <2> QED BY <2>1, <2>2
  <1> QED BY <1>5, <1>8, <1>9 DEF PInv

(* delete[]: the other payloads, and the operations on them, are kept. *)
LEMMA DeletePayloads ==
  ASSUME PInv, IInv', DeletePayload
  PROVE  PInv'
  <1>0. PICK n, f, c : n = Depth /\ f = Top /\ c = f.cell
    OBVIOUS
  <1>1. /\ stack # <<>> /\ f.pc \in {"destroy", "delete"}
        /\ heap' = [heap EXCEPT ![c] = Blank]
        /\ stack' = Goto("assign")
    BY <1>0 DEF DeletePayload
  <1>2. /\ n \in Nat \ {0} /\ n \in 1 .. n /\ f = stack[n] /\ c \in Cell
        /\ \A i \in 1 .. n - 1 : stack[i].cell \in Cell
    BY <1>0, <1>1, LastFrame DEF PInv
  <1>3. /\ Depth' = n
        /\ \A i \in 1 .. n - 1 : stack'[i] = stack[i]
        /\ stack'[n].cell = c /\ stack'[n].pc = "assign"
    BY <1>0, <1>1, GotoFacts DEF PInv, IInv
  <1>4. heap'[c] = Blank /\ \A d \in Cell \ {c} : heap'[d] = heap[d]
    BY <1>1, <1>2 DEF PInv, IInv, TypeOK
  <1>5. \A i \in 1 .. n - 1 : stack[i].cell # c
    <2>1. \A i \in 1 .. n - 1 : FramesApart(i, n)
      BY <1>0, <1>2 DEF PInv, IInv, StackOK
    <2> QED BY <1>0, <1>1, <1>2, <2>1 DEF FramesApart
  <1>6. ASSUME NEW d \in Cell PROVE PayloadOK(d)'
    <2>1. CASE d = c
      BY <1>4, <2>1 DEF PayloadOK, Blank
    <2>2. CASE d # c
      <3>1. Destroying(d) => Destroying(d)'
        BY <1>0, <1>2, <1>3, <2>2 DEF Destroying
      <3> QED BY <1>4, <2>2, <3>1, PayloadKept DEF PInv, Keeps
    <2> QED BY <2>1, <2>2
  <1>7. ASSUME NEW i \in 1 .. n PROVE ReleasingOK(i)'
    <2>1. CASE i = n
      BY <1>3, <2>1 DEF ReleasingOK
    <2>2. CASE i # n
      <3>1. /\ i \in 1 .. n - 1 /\ stack[i].cell \in Cell \ {c}
            /\ ReleasingOK(i)
        BY <1>0, <1>2, <1>5, <2>2 DEF PInv
      <3> QED BY <1>3, <1>4, <3>1, ReleasingKept
    <2> QED BY <2>1, <2>2
  <1> QED BY <1>3, <1>6, <1>7 DEF PInv

(* The end of an operation counts, at most. *)
LEMMA FinishPayloads ==
  ASSUME PInv, IInv', Finish
  PROVE  PInv'
  <1>0. PICK n, f : n = Depth /\ f = Top
    OBVIOUS
  <1>1. /\ n \in Nat \ {0} /\ Depth' = n - 1
        /\ \A i \in 1 .. n - 1 : stack'[i] = stack[i]
        /\ \A d : Destroying(d)' <=> Destroying(d)
    BY <1>0, FinishFacts DEF PInv
  <1>2. \A d \in Cell : Keeps(d)
    <2>1. CASE heap' = heap
      BY <2>1 DEF Keeps
    <2>2. CASE Retain(handle[Top.src])
      BY <2>2, RetainKeepsPayloads DEF PInv, IInv
    <2> QED BY <2>1, <2>2 DEF Finish
  <1>3. \A i \in 1 .. Depth' : i \in 1 .. Depth /\ stack'[i] = stack[i]
    BY <1>0, <1>1
  <1> QED BY <1>1, <1>2, <1>3, PayloadsKept

(* The start of an operation: it has not released anything. *)
LEMMA BeginPayloads ==
  ASSUME PInv, IInv', NEW h \in Handle, NEW g \in Handle,
         NEW op \in {"copy", "move", "destroy"}, Begin(op, h, g)
  PROVE  PInv'
  <1>0. PICK n, f : /\ n = Depth
                    /\ f = [op |-> op, dst |-> h, src |-> g, cell |-> handle[h].cell,
                            pc |-> IF Managed(h) THEN "release" ELSE "assign"]
    OBVIOUS
  <1>1. stack' = Append(stack, f) /\ heap' = heap
    BY <1>0 DEF Begin
  <1>2. f \in Frame
    BY <1>0 DEF PInv, IInv, TypeOK, HandleState, Frame
  <1>3. /\ n \in Nat /\ Depth' = n + 1
        /\ \A i \in 1 .. n : stack'[i] = stack[i]
        /\ stack'[n + 1] = f
    BY <1>0, <1>1, <1>2, PushStack DEF PInv, IInv, TypeOK
  <1>4. \A d \in Cell : Destroying(d) => Destroying(d)'
    BY <1>0, <1>3 DEF Destroying
  <1>5. ASSUME NEW i \in 1 .. Depth'
        PROVE  \/ i \in 1 .. Depth /\ stack'[i] = stack[i]
               \/ stack'[i].pc \in {"release", "assign"}
    <2>1. CASE i = n + 1
      BY <1>0, <1>3, <2>1
    <2>2. CASE i # n + 1
      BY <1>0, <1>3, <2>2
    <2> QED BY <2>1, <2>2
  <1>6. \A d \in Cell : Keeps(d)
    BY <1>1 DEF Keeps
  <1> QED BY <1>4, <1>5, <1>6, PayloadsKept

(* What clients call. *)
LEMMA ClientPayloads ==
  ASSUME PInv, IInv', InContract, Client
  PROVE  PInv'
  <1>1. PICK h \in Handle :
          \/ DefaultConstruct(h)
          \/ \E kind \in {"builtin", "object"} : ConstructPlain(h, kind)
          \/ \E l \in Layout, c \in Cell : ConstructManaged(h, l, c)
          \/ \E outcome \in Constructions : Construct(h, outcome)
          \/ \E g \in Handle : CopyConstruct(h, g)
          \/ \E g \in Handle : MoveConstruct(h, g)
          \/ \E g \in Handle : CopyAssign(h, g)
          \/ \E g \in Handle : MoveAssign(h, g)
          \/ Destroy(h)
    BY DEF Client
  <1>2. ASSUME UNCHANGED stack, \A d \in Cell : Keeps(d)
        PROVE  PInv'
    <2>1. \A d \in Cell : Destroying(d) => Destroying(d)'
      BY <1>2 DEF Destroying, Depth
    <2> QED BY <1>2, <2>1, PayloadsKept DEF Depth
  <1>3. CASE \/ DefaultConstruct(h)
             \/ \E kind \in {"builtin", "object"} : ConstructPlain(h, kind)
             \/ \E g \in Handle : MoveConstruct(h, g)
    <2>1. UNCHANGED <<heap, stack>>
      BY <1>3 DEF DefaultConstruct, ConstructPlain, MoveConstruct
    <2> QED BY <1>2, <2>1 DEF Keeps
  <1>4. CASE \E g \in Handle : CopyConstruct(h, g)
    BY <1>2, <1>4, RetainKeepsPayloads DEF CopyConstruct, PInv, IInv
  <1>5. CASE \/ \E g \in Handle : CopyAssign(h, g)
             \/ \E g \in Handle : MoveAssign(h, g)
             \/ Destroy(h)
    BY <1>5, BeginPayloads DEF CopyAssign, MoveAssign, Destroy
  <1> QED
    BY <1>1, <1>3, <1>4, <1>5, ConstructManagedPayloads, ConstructPayloads

(* A step that does nothing. *)
LEMMA IdlePayloads ==
  ASSUME PInv, IInv', UNCHANGED vars
  PROVE  PInv'
  <1>1. UNCHANGED <<heap, stack>>
    BY DEF vars
  <1>2. \A d \in Cell : Keeps(d) /\ (Destroying(d) => Destroying(d)')
    BY <1>1 DEF Keeps, Destroying, Depth
  <1> QED BY <1>1, <1>2, PayloadsKept DEF Depth

-----------------------------------------------------------------------------
(* The theorems.                                                           *)

(* Payloads and the operations that release them fit together, through     *)
(* every nesting of operations in destructors (Release, CreatePayload).    *)
THEOREM InductivePayloads == ASSUME InContract PROVE Spec => []PInv
  <1>1. Init => PInv
    <2> SUFFICES ASSUME Init PROVE PInv
      OBVIOUS
    <2>1. Depth = 0 /\ \A c \in Cell : heap[c].status = "free"
      BY DEF Init, Depth, Blank
    <2> QED BY <2>1, IInvInit DEF PInv, PayloadOK
  <1>2. PInv /\ IInv' /\ [Next]_vars => PInv'
    BY ClientPayloads, ReleasePayloads, DestroyElemPayloads, DeletePayloads,
       FinishPayloads, IdlePayloads DEF Next, Step
  <1>3. Misuse = {}
    BY DEF InContract
  <1>4. Spec => []IInv
    BY <1>3, Inductive
  <1> QED BY <1>1, <1>2, <1>4, PTL DEF Spec

(* "No elements!" never fires, and each destructor call gets the address   *)
(* of an object that was built and not destroyed before (Release).         *)
THEOREM DestructorsFindObjects ==
  ASSUME InContract PROVE Spec => []DestroysBuilt
  <1>1. PInv => DestroysBuilt
    <2> SUFFICES ASSUME PInv, stack # <<>>, Top.pc = "destroy",
                        NEW c, c = Top.cell
                 PROVE  /\ heap[c].layout.elems # 0
                        /\ heap[c].left # 0 =>
                             DestroyedAt(heap[c].layout, heap[c].left - 1)
                               \in heap[c].built
      BY DEF DestroysBuilt
    <2>0. PICK l, k : l = heap[c].layout /\ k = heap[c].left
      OBVIOUS
    <2>1. /\ Depth \in 1 .. Depth /\ Top = stack[Depth]
          /\ c \in Cell /\ FrameOK(Depth)
      BY LastFrame DEF PInv
    <2>2. heap[c].status = "live" /\ l.dtor /\ heap[c].touched
      BY <2>0, <2>1 DEF FrameOK, PInv, ReleasingOK
    <2>3. /\ l.elems # 0 /\ k <= l.elems
          /\ heap[c].built = {BuiltAt(l, i) : i \in 0 .. k - 1}
      BY <2>0, <2>1, <2>2 DEF PInv, PayloadOK
    <2>4. l \in Layout /\ l.elems \in Nat /\ k \in Nat
      BY <2>0, <2>1, TypeCell, LayoutAssumption DEF PInv, IInv, CellState, IsLayout
    <2>5. k # 0 => DestroyedAt(l, k - 1) = BuiltAt(l, k - 1)
      BY <2>2, <2>3, <2>4 DEF InContract, Strided
    <2>6. k # 0 => k - 1 \in 0 .. k - 1
      BY <2>4
    <2> QED BY <2>0, <2>3, <2>5, <2>6
  <1> QED BY <1>1, InductivePayloads, PTL

(* delete[] never frees a block with an object in it whose destructor has  *)
(* not run (Release).                                                      *)
THEOREM NothingUndestroyed == ASSUME InContract PROVE Spec => FreedDestroyed
  <1> DEFINE Freed(c) == heap[c].status = "live" /\ heap'[c].status = "free"
             Fine(c) == ~heap[c].layout.dtor \/ heap[c].built = {}
  <1>1. ASSUME PInv, DeletePayload, NEW c \in Cell, Freed(c)
        PROVE  Fine(c)
    <2>1. stack # <<>> /\ heap' = [heap EXCEPT ![Top.cell] = Blank]
          /\ (Top.pc = "delete" \/ (Top.pc = "destroy" /\ heap[Top.cell].left = 0))
      BY <1>1 DEF DeletePayload
    <2>2. c = Top.cell
      BY <1>1, <2>1 DEF PInv, IInv, TypeOK
    <2>3. /\ ReleasingOK(Depth) /\ PayloadOK(c)
          /\ Top = stack[Depth] /\ heap[c].left \in Nat
      BY <1>1, <2>1, LastFrame, TypeCell DEF PInv, IInv, CellState
    <2>4. CASE Top.pc = "delete"
      BY <1>1, <2>2, <2>3, <2>4 DEF ReleasingOK, PayloadOK
    <2>5. CASE Top.pc = "destroy" /\ heap[c].left = 0
      <3>1. heap[c].touched
        BY <2>2, <2>3, <2>5 DEF ReleasingOK
      <3>2. heap[c].built = {BuiltAt(heap[c].layout, i) : i \in 0 .. heap[c].left - 1}
        BY <1>1, <2>3, <3>1 DEF PayloadOK
      <3> QED BY <2>5, <3>2
    <2> QED BY <2>1, <2>2, <2>4, <2>5
  <1>2. ASSUME PInv, [Next]_vars, ~DeletePayload, NEW c \in Cell
        PROVE  ~Freed(c)
    <2> DEFINE Stays == heap'[c].status = heap[c].status
    <2>0. heap \in [Cell -> CellState]
      BY <1>2 DEF PInv, IInv, TypeOK
    <2>1. ASSUME NEW s, Retain(s) PROVE Stays
      BY <1>2, <2>1, RetainKeepsPayloads DEF PInv, IInv, Keeps
    <2>2. ASSUME heap' = heap PROVE Stays
      BY <2>2
    <2>3. CASE UNCHANGED vars
      BY <2>2, <2>3 DEF vars
    <2>4. CASE Step
      <3>1. CASE ReleaseStart
        <4>1. PICK m : heap' = [heap EXCEPT ![Top.cell].cnt = m]
          BY <3>1 DEF ReleaseStart
        <4> QED BY <2>0, <4>1 DEF CellState
      <3>2. CASE DestroyElem
        <4>1. PICK i, b : heap' = [heap EXCEPT ![Top.cell] =
                             [heap[Top.cell] EXCEPT !.left = i, !.built = b]]
          BY <3>2 DEF DestroyElem
        <4> QED BY <2>0, <4>1 DEF CellState
      <3>3. CASE Finish
        BY <2>1, <2>2, <3>3 DEF Finish
      <3> QED BY <1>2, <2>4, <3>1, <3>2, <3>3 DEF Step
    <2>5. ASSUME NEW h \in Handle, NEW l \in Layout, NEW d \in Cell,
                 ConstructManaged(h, l, d)
          PROVE  ~Freed(c)
      BY <2>0, <2>5 DEF ConstructManaged
    <2>6. ASSUME NEW h \in Handle, NEW outcome \in Constructions,
                 Construct(h, outcome)
          PROVE  Stays
      <3> DEFINE k == handle[h].cell
                 u == outcome # "silent" /\ heap[k].layout.elems > 0
                 w == IF outcome = "thrown" THEN {} ELSE Offsets(heap[k].layout)
      <3>1. heap' = [heap EXCEPT ![k] = [heap[k] EXCEPT !.touched = u, !.built = w]]
        BY <2>6 DEF Construct
      <3> HIDE DEF k, u, w
      <3> QED BY <2>0, <3>1 DEF CellState
    <2>7. CASE Client
      <3>1. PICK h \in Handle :
              \/ DefaultConstruct(h)
              \/ \E kind \in {"builtin", "object"} : ConstructPlain(h, kind)
              \/ \E l \in Layout, d \in Cell : ConstructManaged(h, l, d)
              \/ \E outcome \in Constructions : Construct(h, outcome)
              \/ \E g \in Handle : CopyConstruct(h, g)
              \/ \E g \in Handle : MoveConstruct(h, g)
              \/ \E g \in Handle : CopyAssign(h, g)
              \/ \E g \in Handle : MoveAssign(h, g)
              \/ Destroy(h)
        BY <2>7 DEF Client
      <3>2. CASE \E l \in Layout, d \in Cell : ConstructManaged(h, l, d)
        BY <2>5, <3>2
      <3>3. CASE \E outcome \in Constructions : Construct(h, outcome)
        BY <2>6, <3>3
      <3>4. CASE \E g \in Handle : CopyConstruct(h, g)
        BY <2>1, <3>4 DEF CopyConstruct
      <3>5. CASE \/ DefaultConstruct(h)
                 \/ \E kind \in {"builtin", "object"} : ConstructPlain(h, kind)
                 \/ \E g \in Handle : MoveConstruct(h, g)
        BY <2>2, <3>5 DEF DefaultConstruct, ConstructPlain, MoveConstruct
      <3>6. CASE \/ \E g \in Handle : CopyAssign(h, g)
                 \/ \E g \in Handle : MoveAssign(h, g)
                 \/ Destroy(h)
        BY <2>2, <3>6 DEF CopyAssign, MoveAssign, Destroy, Begin
      <3> QED BY <3>1, <3>2, <3>3, <3>4, <3>5, <3>6
    <2> QED BY <1>2, <2>3, <2>4, <2>7 DEF Next
  <1>3. PInv /\ [Next]_vars =>
          [\A c \in Cell : Freed(c) => Fine(c)]_vars
    BY <1>1, <1>2
  <1> QED BY <1>3, InductivePayloads, PTL DEF Spec, FreedDestroyed
-----------------------------------------------------------------------------
(* ManagedValue implements SharedPayload: sharing by counting is sharing   *)
(* by sets of owners, for any number of Values, cells and nested           *)
(* destructors, under the contract of the clients.  Under IInv the owners  *)
(* of a payload are its holders, and each step is one abstract step:       *)
(* ConstructManaged acquires, copies share, moves hand over, ReleaseStart  *)
(* leaves, DeletePayload reclaims; all others change nothing abstract.     *)


(* The expressions of the refinement mapping, under names of their own.    *)
Owners == [c \in Cell |-> IF heap[c].status = "live" THEN Holders(c) ELSE {}]

Phase == [c \in Cell |-> IF heap[c].status = "free" THEN "none"
                         ELSE IF heap[c].cnt > 0 THEN "held" ELSE "dying"]

(* Both as functions of the holders and of what is allocated.              *)
Mapping ==
  /\ Owners = [c \in Cell |-> Holders(c)]
  /\ Phase = [c \in Cell |-> IF Holders(c) # {} THEN "held"
                             ELSE IF heap[c].status = "live" THEN "dying"
                             ELSE "none"]

(* The counter is positive exactly when there are holders (ref_cnt_).      *)
LEMMA Mapped == IInv => Mapping
  <1> SUFFICES ASSUME IInv PROVE Mapping
    OBVIOUS
  <1>1. ASSUME NEW c \in Cell
        PROVE  /\ heap[c].status \in {"free", "live"} /\ heap[c].cnt \in Nat
               /\ heap[c].status # "live" => Holders(c) = {}
               /\ heap[c].status = "live" =>
                    (heap[c].cnt > 0 <=> Holders(c) # {})
    <2>1. heap[c].status \in {"free", "live"} /\ heap[c].cnt \in Nat
      BY TypeCell DEF IInv, CellState
    <2>2. Cardinality(Holders(c)) = 0 <=> Holders(c) = {}
      BY HoldersCount, FS_EmptySet
    <2> QED BY <2>1, <2>2 DEF IInv, CountIsHolders
  <1>2. Owners = [c \in Cell |-> Holders(c)]
    BY <1>1 DEF Owners
  <1>3. Phase = [c \in Cell |-> IF Holders(c) # {} THEN "held"
                                ELSE IF heap[c].status = "live" THEN "dying"
                                ELSE "none"]
    BY <1>1 DEF Phase
  <1> QED BY <1>2, <1>3 DEF Mapping

(* So it is after the step. *)
LEMMA MappedNext == IInv' => Mapping'
  <1>1. IInv => Mapping
    BY Mapped
  <1> QED BY <1>1, PTL

-----------------------------------------------------------------------------
(* One lemma per abstract action: what the holders have to do.             *)

(* Holders and blocks stay: nothing happens for SharedPayload.             *)
LEMMA Stutters ==
  ASSUME IInv, IInv',
         \A d \in Cell : /\ Holders(d)' = Holders(d)
                         /\ heap'[d].status = heap[d].status
  PROVE  UNCHANGED Abstract!vars
  <1>1. Owners' = Owners /\ Phase' = Phase
    BY Mapped, MappedNext DEF Mapping
  <1> QED BY <1>1 DEF Owners, Phase, Abstract!vars

(* A Value acquires a block that nobody had. *)
LEMMA Acquires ==
  ASSUME IInv, IInv', NEW c \in Cell, NEW h \in Handle,
         \A d \in Cell : h \notin Holders(d),
         \A d \in Cell \ {c} : /\ Holders(d)' = Holders(d)
                               /\ heap'[d].status = heap[d].status,
         heap[c].status = "free", Holders(c)' = {h}
  PROVE  Abstract!Next
  <1>1. Holders(c) = {}
    BY DEF IInv, CountIsHolders
  <1>2. /\ Phase[c] = "none"
        /\ \A d \in Cell : h \notin Owners[d]
        /\ Phase' = [Phase EXCEPT ![c] = "held"]
        /\ Owners' = [Owners EXCEPT ![c] = {h}]
    BY <1>1, Mapped, MappedNext DEF Mapping
  <1>3. Abstract!Acquire(c, h)
    BY <1>2 DEF Owners, Phase, Abstract!Acquire, Abstract!Free
  <1> QED BY <1>3 DEF Abstract!Next

(* A Value joins the owners of a payload. *)
LEMMA Shares ==
  ASSUME IInv, IInv', NEW c \in Cell, NEW h \in Handle,
         \A d \in Cell : h \notin Holders(d),
         \A d \in Cell \ {c} : Holders(d)' = Holders(d),
         \A d \in Cell : heap'[d].status = heap[d].status,
         Holders(c) # {}, Holders(c)' = Holders(c) \cup {h}
  PROVE  Abstract!Next
  <1>1. /\ Phase[c] = "held"
        /\ \A d \in Cell : h \notin Owners[d]
        /\ Owners' = [Owners EXCEPT ![c] = Owners[c] \cup {h}]
    BY Mapped, MappedNext DEF Mapping
  <1>2. Phase' = Phase
    <2>1. \A d \in Cell : Holders(d)' # {} <=> Holders(d) # {}
      OBVIOUS
    <2> QED BY <2>1, Mapped, MappedNext DEF Mapping
  <1>3. Abstract!Share(c, h)
    BY <1>1, <1>2 DEF Owners, Phase, Abstract!Share, Abstract!Free
  <1> QED BY <1>3 DEF Abstract!Next

(* A Value takes the place of another among the owners. *)
LEMMA HandsOver ==
  ASSUME IInv, IInv', NEW c \in Cell, NEW g \in Handle, NEW h \in Handle,
         \A d \in Cell : h \notin Holders(d),
         \A d \in Cell \ {c} : Holders(d)' = Holders(d),
         \A d \in Cell : heap'[d].status = heap[d].status,
         g \in Holders(c), Holders(c)' = (Holders(c) \ {g}) \cup {h}
  PROVE  Abstract!Next
  <1>1. /\ g \in Owners[c]
        /\ \A d \in Cell : h \notin Owners[d]
        /\ Owners' = [Owners EXCEPT ![c] = (Owners[c] \ {g}) \cup {h}]
    BY Mapped, MappedNext DEF Mapping
  <1>2. Phase' = Phase
    <2>1. \A d \in Cell : Holders(d)' # {} <=> Holders(d) # {}
      OBVIOUS
    <2> QED BY <2>1, Mapped, MappedNext DEF Mapping
  <1>3. Abstract!Hand(c, g, h)
    BY <1>1, <1>2 DEF Owners, Phase, Abstract!Hand, Abstract!Free
  <1> QED BY <1>3 DEF Abstract!Next

(* A Value leaves the owners; the last one leaves a dying payload. *)
LEMMA Leaves ==
  ASSUME IInv, IInv', NEW c \in Cell, NEW h \in Handle,
         \A d \in Cell \ {c} : Holders(d)' = Holders(d),
         \A d \in Cell : heap'[d].status = heap[d].status,
         h \in Holders(c), Holders(c)' = Holders(c) \ {h}
  PROVE  Abstract!Next
  <1>1. heap[c].status = "live"
    BY DEF IInv, CountIsHolders
  <1>2. /\ h \in Owners[c]
        /\ Owners' = [Owners EXCEPT ![c] = Owners[c] \ {h}]
    BY Mapped, MappedNext DEF Mapping
  <1>3. Phase' = [Phase EXCEPT ![c] = IF Owners[c] = {h} THEN "dying" ELSE Phase[c]]
    <2>1. Holders(c)' = {} <=> Holders(c) = {h}
      OBVIOUS
    <2>2. Owners[c] = Holders(c) /\ Phase[c] = "held"
      BY Mapped DEF Mapping
    <2>3. Phase'[c] = IF Owners[c] = {h} THEN "dying" ELSE Phase[c]
      BY <1>1, <2>1, <2>2, MappedNext DEF Mapping
    <2>4. \A d \in Cell \ {c} : Phase'[d] = Phase[d]
      BY Mapped, MappedNext DEF Mapping
    <2>5. DOMAIN Phase = Cell /\ DOMAIN Phase' = Cell
          /\ Phase' = [d \in Cell |-> Phase'[d]]
          /\ Phase = [d \in Cell |-> Phase[d]]
      BY DEF Phase
    <2> DEFINE ph == IF Owners[c] = {h} THEN "dying" ELSE Phase[c]
    <2>6. Phase'[c] = ph
      BY <2>3
    <2> HIDE DEF ph
    <2>7. Phase' = [Phase EXCEPT ![c] = ph]
      BY <2>4, <2>5, <2>6
    <2> QED BY <2>7 DEF ph
  <1>4. Abstract!Leave(c, h)
    BY <1>2, <1>3 DEF Owners, Phase, Abstract!Leave
  <1> QED BY <1>4 DEF Abstract!Next

(* A dying payload is given back. *)
LEMMA Reclaims ==
  ASSUME IInv, IInv', NEW c \in Cell,
         \A d \in Cell : Holders(d)' = Holders(d),
         \A d \in Cell \ {c} : heap'[d].status = heap[d].status,
         heap[c].status = "live", Holders(c) = {}, heap'[c].status = "free"
  PROVE  Abstract!Next
  <1>1. Phase[c] = "dying" /\ Owners' = Owners
    BY Mapped, MappedNext DEF Mapping
  <1>2. Phase' = [Phase EXCEPT ![c] = "none"]
    BY Mapped, MappedNext DEF Mapping
  <1>3. Abstract!Reclaim(c)
    BY <1>1, <1>2 DEF Owners, Phase, Abstract!Reclaim
  <1> QED BY <1>3 DEF Abstract!Next

-----------------------------------------------------------------------------
(* What the operations do to the holders.                                  *)

(* A handle without a cell, or whose operation released it, holds nothing. *)
LEMMA HoldsNothing ==
  ASSUME NEW h \in Handle, ~Managed(h) \/ Released(h)
  PROVE  \A d \in Cell : h \notin Holders(d)
  BY CellAssumption DEF Holders, Managed

(* Retain and the other changes of a counter allocate and free nothing.    *)
LEMMA RetainKeeps ==
  ASSUME IInv, NEW s \in HandleState, Retain(s)
  PROVE  \A d \in Cell : heap'[d].status = heap[d].status
  <1>1. heap \in [Cell -> CellState]
    BY DEF IInv, TypeOK
  <1>2. CASE s.cell = NoCell
    BY <1>2 DEF Retain
  <1>3. CASE s.cell # NoCell
    <2>1. PICK m : heap' = [heap EXCEPT ![s.cell].cnt = m]
      BY <1>3 DEF Retain
    <2> QED BY <1>1, <2>1 DEF CellState
  <1> QED BY <1>2, <1>3

(* Steps on the fields of a Value or of a payload that keep cells and stack. *)
LEMMA CellsKept ==
  ASSUME UNCHANGED stack, \A k \in Handle : handle'[k].cell = handle[k].cell
  PROVE  \A d \in Cell : Holders(d)' = Holders(d)
  <1>1. \A k \in Handle : Released(k)' = Released(k)
    BY DEF Released, Depth
  <1> QED BY <1>1, SameHolders

(* The start of an assignment or of ~Value releases nothing yet. *)
LEMMA BeginRefines ==
  ASSUME IInv, IInv', NEW h \in Handle, NEW g \in Handle,
         NEW op \in {"copy", "move", "destroy"}, Begin(op, h, g),
         \A i \in 1 .. Depth : stack[i].dst # h
  PROVE  UNCHANGED Abstract!vars
  <1>0. PICK n, f : /\ n = Depth
                    /\ f = [op |-> op, dst |-> h, src |-> g, cell |-> handle[h].cell,
                            pc |-> IF Managed(h) THEN "release" ELSE "assign"]
    OBVIOUS
  <1>1. stack' = Append(stack, f) /\ handle' = handle /\ heap' = heap
    BY <1>0 DEF Begin
  <1>2. f \in Frame
    BY <1>0 DEF IInv, TypeOK, HandleState, Frame
  <1>3. /\ n \in Nat /\ Depth' = n + 1
        /\ \A i \in 1 .. n : stack'[i] = stack[i]
        /\ stack'[n + 1] = f
    BY <1>0, <1>1, <1>2, PushStack DEF IInv, TypeOK
  <1>4. \A k \in Handle : Released(k)' <=> (Released(k) \/ (k = h /\ ~Managed(h)))
    BY <1>0, <1>3 DEF Released
  <1>5. \A d \in Cell : Holders(d)' = Holders(d)
    BY <1>1, <1>4, CellAssumption DEF Holders, Managed
  <1> QED BY <1>1, <1>5, Stutters

(* ManagedAllocate: the new Value acquires the block. *)
LEMMA ConstructRefines ==
  ASSUME IInv, IInv', Misuse = {}, NEW h \in Handle, NEW l \in Layout,
         NEW c \in Cell, ConstructManaged(h, l, c)
  PROVE  Abstract!Next
  <1>1. ~Managed(h) /\ ~Released(h)
    BY NotWritten DEF ConstructManaged, IInv, StackOK
  <1>2. /\ \A k \in Handle \ {h} : handle'[k] = handle[k]
        /\ handle'[h].cell = c
        /\ \A d \in Cell \ {c} : heap'[d] = heap[d]
        /\ heap[c].status = "free"
    BY DEF ConstructManaged, IInv, TypeOK
  <1>3. \A k \in Handle : Released(k)' = Released(k)
    BY DEF ConstructManaged, Released, Depth
  <1>4. Holders(c) = {}
    BY <1>2 DEF IInv, CountIsHolders
  <1>5. Holders(c)' = {h}
    BY <1>1, <1>2, <1>3, <1>4 DEF Holders
  <1>6. \A d \in Cell \ {c} : Holders(d)' = Holders(d)
    BY <1>1, <1>2, <1>3, CellAssumption DEF Holders, Managed
  <1>7. \A d \in Cell : h \notin Holders(d)
    BY <1>1, HoldsNothing
  <1> QED BY <1>2, <1>5, <1>6, <1>7, Acquires

(* Value(const Value&): the copy shares the payload, if there is one. *)
LEMMA CopyRefines ==
  ASSUME IInv, IInv', Misuse = {}, NEW h \in Handle, NEW g \in Handle,
         CopyConstruct(h, g)
  PROVE  Abstract!Next \/ UNCHANGED Abstract!vars
  <1>0. PICK c : c = handle[g].cell
    OBVIOUS
  <1>1. ~Managed(h) /\ ~Released(h) /\ ~Released(g) /\ h # g
    BY NotWritten DEF CopyConstruct, IInv, StackOK
  <1>2. /\ \A k \in Handle \ {h} : handle'[k] = handle[k]
        /\ handle'[h] = handle[g]
        /\ handle[g] \in HandleState
    BY DEF CopyConstruct, IInv, TypeOK
  <1>3. \A k \in Handle : Released(k)' = Released(k)
    BY DEF CopyConstruct, Released, Depth
  <1>4. \A d \in Cell : heap'[d].status = heap[d].status
    BY <1>2, RetainKeeps DEF CopyConstruct
  <1>5. \A d \in Cell \ {c} : Holders(d)' = Holders(d)
    BY <1>0, <1>1, <1>2, <1>3, CellAssumption DEF Holders, Managed
  <1>6. CASE c = NoCell
    BY <1>4, <1>5, <1>6, CellAssumption, Stutters
  <1>7. CASE c # NoCell
    <2>1. c \in Cell
      BY <1>0, <1>2, <1>7 DEF HandleState
    <2>2. g \in Holders(c) /\ Holders(c)' = Holders(c) \cup {h}
      BY <1>0, <1>1, <1>2, <1>3, <2>1, CellAssumption DEF Holders, Managed
    <2>3. \A d \in Cell : h \notin Holders(d)
      BY <1>1, HoldsNothing
    <2>4. Holders(c) # {}
      BY <2>2
    <2> QED BY <1>4, <1>5, <2>1, <2>2, <2>3, <2>4, Shares
  <1> QED BY <1>6, <1>7

(* Value(Value&&): the payload is handed over, if there is one. *)
LEMMA MoveRefines ==
  ASSUME IInv, IInv', Misuse = {}, NEW h \in Handle, NEW g \in Handle,
         MoveConstruct(h, g)
  PROVE  Abstract!Next \/ UNCHANGED Abstract!vars
  <1>0. PICK c : c = handle[g].cell
    OBVIOUS
  <1>1. ~Managed(h) /\ ~Released(h) /\ ~Released(g) /\ h # g
    BY NotWritten DEF MoveConstruct, IInv, StackOK
  <1>2. /\ \A k \in Handle \ {h, g} : handle'[k] = handle[k]
        /\ handle'[h] = handle[g] /\ handle'[g] = MovedFrom
        /\ handle[g] \in HandleState /\ heap' = heap
    BY <1>1 DEF MoveConstruct, IInv, TypeOK
  <1>3. \A k \in Handle : Released(k)' = Released(k)
    BY DEF MoveConstruct, Released, Depth
  <1>4. handle[h].cell = NoCell /\ handle'[g].cell = NoCell
    BY <1>1, <1>2 DEF Managed, MovedFrom
  <1>5. \A d \in Cell \ {c} : Holders(d)' = Holders(d)
    <2> SUFFICES ASSUME NEW d \in Cell \ {c} PROVE Holders(d)' = Holders(d)
      OBVIOUS
    <2> QED BY <1>0, <1>2, <1>3, <1>4, CellAssumption, SameHolders
  <1>6. CASE c = NoCell
    BY <1>2, <1>5, <1>6, CellAssumption, Stutters
  <1>7. CASE c # NoCell
    <2>1. c \in Cell
      BY <1>0, <1>2, <1>7 DEF HandleState
    <2>2. g \in Holders(c) /\ Holders(c)' = (Holders(c) \ {g}) \cup {h}
      BY <1>0, <1>1, <1>2, <1>3, <1>4, <2>1, CellAssumption DEF Holders
    <2>3. \A d \in Cell : h \notin Holders(d)
      BY <1>1, HoldsNothing
    <2> QED BY <1>2, <1>5, <2>1, <2>2, <2>3, HandsOver
  <1> QED BY <1>6, <1>7

(* The decrement of Release: the Value leaves the owners. *)
LEMMA ReleaseRefines ==
  ASSUME IInv, IInv', ReleaseStart
  PROVE  Abstract!Next
  <1>0. PICK n, f, c, h : n = Depth /\ f = Top /\ c = f.cell /\ h = f.dst
    OBVIOUS
  <1>1. stack # <<>> /\ f.pc = "release" /\ handle' = handle
    BY <1>0 DEF ReleaseStart
  <1>2. /\ n \in Nat \ {0} /\ n \in 1 .. n /\ f = stack[n]
        /\ h \in Handle /\ c \in Cell /\ handle[h].cell = c
        /\ \A i \in 1 .. n - 1 : stack[i].dst # h
    BY <1>0, <1>1, LastFrame
  <1>3. ~Released(h)
    BY <1>0, <1>1, <1>2 DEF Released
  <1>4. h \in Holders(c)
    BY <1>2, <1>3 DEF Holders
  <1>5. PICK m, pc : /\ pc \in {"destroy", "delete", "assign"}
                     /\ heap' = [heap EXCEPT ![c].cnt = m]
                     /\ stack' = Goto(pc)
    <2>1. PICK k \in Count(c) :
            /\ heap' = [heap EXCEPT ![c].cnt = Dec(k)]
            /\ stack' = Goto(AfterDecrement(c, Dec(k)))
      BY <1>0 DEF ReleaseStart
    <2>2. AfterDecrement(c, Dec(k)) \in {"destroy", "delete", "assign"}
      BY DEF AfterDecrement
    <2> QED BY <2>1, <2>2
  <1>6. /\ Depth' = n
        /\ \A i \in 1 .. n - 1 : stack'[i] = stack[i]
        /\ stack'[n].dst = h /\ stack'[n].pc = pc
    <2>1. pc \in {"release", "destroy", "delete", "assign"} /\ stack' = Goto(pc)
      BY <1>5
    <2> QED BY <1>0, <1>1, <2>1, GotoFacts DEF IInv
  <1>7. \A d \in Cell : heap'[d].status = heap[d].status
    BY <1>5 DEF IInv, TypeOK, CellState
  <1>8. \A k \in Handle : Released(k)' <=> (Released(k) \/ k = h)
    BY <1>0, <1>1, <1>2, <1>5, <1>6 DEF Released
  <1>9. Holders(c)' = Holders(c) \ {h}
    BY <1>1, <1>8 DEF Holders
  <1>10. \A d \in Cell \ {c} : Holders(d)' = Holders(d)
    BY <1>1, <1>2, <1>8, SameHolders
  <1> QED BY <1>2, <1>4, <1>7, <1>9, <1>10, Leaves

(* delete[]: the payload is reclaimed. *)
LEMMA DeleteRefines ==
  ASSUME IInv, IInv', DeletePayload
  PROVE  Abstract!Next
  <1>0. PICK n, f, c, h : n = Depth /\ f = Top /\ c = f.cell /\ h = f.dst
    OBVIOUS
  <1>1. /\ stack # <<>> /\ f.pc \in {"destroy", "delete"} /\ handle' = handle
        /\ heap' = [heap EXCEPT ![c] = Blank]
        /\ stack' = Goto("assign")
    BY <1>0 DEF DeletePayload
  <1>2. n \in Nat \ {0} /\ n \in 1 .. n /\ f = stack[n] /\ c \in Cell /\ FrameOK(n)
    BY <1>0, <1>1, LastFrame
  <1>3. heap[c].status = "live" /\ heap[c].cnt = 0
    BY <1>0, <1>1, <1>2 DEF FrameOK
  <1>4. /\ Depth' = n
        /\ \A i \in 1 .. n - 1 : stack'[i] = stack[i]
        /\ stack'[n].dst = h /\ stack'[n].pc = "assign"
    BY <1>0, <1>1, GotoFacts DEF IInv
  <1>5. heap'[c].status = "free" /\ \A d \in Cell \ {c} : heap'[d] = heap[d]
    BY <1>1, <1>2 DEF IInv, TypeOK, Blank
  <1>6. \A k \in Handle : Released(k)' <=> Released(k)
    BY <1>0, <1>1, <1>2, <1>4 DEF Released
  <1>7. \A d \in Cell : Holders(d)' = Holders(d)
    BY <1>1, <1>6, SameHolders
  <1>8. Holders(c) = {}
    BY <1>2, <1>3, HoldersCount, FS_EmptySet DEF IInv, CountIsHolders
  <1> QED BY <1>2, <1>3, <1>5, <1>7, <1>8, Reclaims

(* The end of ~Value: the handle held nothing any more. *)
LEMMA FinishDestroyRefines ==
  ASSUME IInv, IInv', Finish, Top.op = "destroy"
  PROVE  UNCHANGED Abstract!vars
  <1>0. PICK f, h : f = Top /\ h = f.dst
    OBVIOUS
  <1>1. handle' = [handle EXCEPT ![h] = Dead] /\ heap' = heap
    BY <1>0 DEF Finish
  <1>2. /\ h \in Handle /\ Released(h)
        /\ \A k \in Handle : Released(k)' <=> (Released(k) /\ k # h)
    BY <1>0, FinishFacts
  <1>3. handle'[h] = Dead /\ \A k \in Handle \ {h} : handle'[k] = handle[k]
    BY <1>1, <1>2 DEF IInv, TypeOK
  <1>4. \A d \in Cell : Holders(d)' = Holders(d)
    BY <1>2, <1>3, CellAssumption, SameHolders DEF Dead
  <1> QED BY <1>1, <1>4, Stutters

(* The end of operator=(Value&&): the payload is handed over; a handle     *)
(* moved to itself has given up its payload before.                        *)
LEMMA FinishMoveRefines ==
  ASSUME IInv, IInv', Finish, Top.op = "move"
  PROVE  Abstract!Next \/ UNCHANGED Abstract!vars
  <1>0. PICK f, h, g, s, c : /\ f = Top /\ h = f.dst /\ g = f.src
                             /\ s = handle[g] /\ c = s.cell
    OBVIOUS
  <1>1. handle' = [handle EXCEPT ![h] = s, ![g] = MovedFrom] /\ heap' = heap
    BY <1>0 DEF Finish
  <1>2. /\ h \in Handle /\ g \in Handle /\ Released(h)
        /\ g # h => ~Released(g)
        /\ \A k \in Handle : Released(k)' <=> (Released(k) /\ k # h)
    BY <1>0, FinishFacts
  <1>3. /\ handle'[g] = MovedFrom
        /\ g # h => handle'[h] = s
        /\ \A k \in Handle \ {h, g} : handle'[k] = handle[k]
        /\ c \in Cell \cup {NoCell}
    BY <1>0, <1>1, <1>2 DEF IInv, TypeOK, HandleState
  <1>4. ASSUME NEW d \in Cell, g = h \/ c # d
        PROVE  Holders(d)' = Holders(d)
    BY <1>0, <1>2, <1>3, <1>4, CellAssumption, SameHolders DEF MovedFrom
  <1>5. CASE g = h \/ c = NoCell
    BY <1>1, <1>4, <1>5, CellAssumption, Stutters
  <1>6. CASE g # h /\ c # NoCell
    <2>1. c \in Cell
      BY <1>3, <1>6
    <2>2. g \in Holders(c) /\ Holders(c)' = (Holders(c) \ {g}) \cup {h}
      <3>1. /\ handle[g].cell = c /\ handle'[h].cell = c
            /\ handle'[g].cell # c /\ ~Released(h)' /\ ~Released(g)
        BY <1>0, <1>2, <1>3, <1>6, <2>1, CellAssumption DEF MovedFrom
      <3> QED BY <1>2, <1>3, <1>6, <3>1 DEF Holders
    <2>3. \A d \in Cell : h \notin Holders(d)
      BY <1>2, HoldsNothing
    <2>4. \A d \in Cell \ {c} : Holders(d)' = Holders(d)
      BY <1>4
    <2> QED BY <1>1, <1>2, <2>1, <2>2, <2>3, <2>4, HandsOver
  <1> QED BY <1>5, <1>6

(* The end of operator=(const Value&): the payload of the source is shared. *)
LEMMA FinishCopyRefines ==
  ASSUME IInv, IInv', Finish, Top.op = "copy"
  PROVE  Abstract!Next \/ UNCHANGED Abstract!vars
  <1>0. PICK n, f, h, g, s, c : /\ n = Depth /\ f = Top /\ h = f.dst /\ g = f.src
                                /\ s = handle[g] /\ c = s.cell
    OBVIOUS
  <1>1. handle' = [handle EXCEPT ![h] = s] /\ Retain(s) /\ f.op = "copy"
    BY <1>0 DEF Finish
  <1>2. /\ f = stack[n] /\ f.pc = "assign" /\ FrameOK(n)
        /\ h \in Handle /\ g \in Handle /\ Released(h)
        /\ g # h => ~Released(g)
        /\ \A k \in Handle : Released(k)' <=> (Released(k) /\ k # h)
    BY <1>0, FinishFacts
  <1>3. /\ handle'[h] = s /\ \A k \in Handle \ {h} : handle'[k] = handle[k]
        /\ s \in HandleState
    BY <1>0, <1>1, <1>2 DEF IInv, TypeOK
  <1>4. \A d \in Cell : heap'[d].status = heap[d].status
    BY <1>1, <1>3, RetainKeeps
  <1>5. \A d \in Cell \ {c} : Holders(d)' = Holders(d)
    BY <1>0, <1>2, <1>3, SameHolders
  <1>6. CASE c = NoCell
    BY <1>4, <1>5, <1>6, CellAssumption, Stutters
  <1>7. CASE c # NoCell
    <2>1. c \in Cell
      BY <1>0, <1>3, <1>7 DEF HandleState
    <2>2. Holders(c) # {}
      <3>1. CASE g = h
        <4>1. heap[c].status = "live" /\ heap[c].cnt > 0
          BY <1>0, <1>1, <1>2, <1>7, <3>1 DEF FrameOK
        <4>2. heap[c].cnt = Cardinality(Holders(c))
          BY <2>1, <4>1 DEF IInv, CountIsHolders
        <4>3. Cardinality({}) = 0
          BY FS_EmptySet
        <4> QED BY <4>1, <4>2, <4>3
      <3>2. CASE g # h
        BY <1>0, <1>2, <3>2 DEF Holders
      <3> QED BY <3>1, <3>2
    <2>3. Holders(c)' = Holders(c) \cup {h}
      <3>1. handle'[h].cell = c /\ ~Released(h)'
        BY <1>0, <1>2, <1>3
      <3> QED BY <1>2, <1>3, <3>1 DEF Holders
    <2>4. \A d \in Cell : h \notin Holders(d)
      BY <1>2, HoldsNothing
    <2> QED BY <1>2, <1>4, <1>5, <2>1, <2>2, <2>3, <2>4, Shares
  <1> QED BY <1>6, <1>7

-----------------------------------------------------------------------------
(* The refinement.                                                         *)

(* What clients call. *)
LEMMA ClientRefines ==
  ASSUME IInv, IInv', Misuse = {}, Client
  PROVE  Abstract!Next \/ UNCHANGED Abstract!vars
  <1>1. PICK h \in Handle :
          \/ DefaultConstruct(h)
          \/ \E kind \in {"builtin", "object"} : ConstructPlain(h, kind)
          \/ \E l \in Layout, c \in Cell : ConstructManaged(h, l, c)
          \/ \E outcome \in Constructions : Construct(h, outcome)
          \/ \E g \in Handle : CopyConstruct(h, g)
          \/ \E g \in Handle : MoveConstruct(h, g)
          \/ \E g \in Handle : CopyAssign(h, g)
          \/ \E g \in Handle : MoveAssign(h, g)
          \/ Destroy(h)
    BY DEF Client
  <1>2. handle \in [Handle -> HandleState] /\ heap \in [Cell -> CellState]
    BY DEF IInv, TypeOK
  <1>3. ASSUME NEW kind, UNCHANGED <<heap, stack>>,
               handle' = [handle EXCEPT ![h].kind = kind]
        PROVE  UNCHANGED Abstract!vars
    <2>1. \A k \in Handle : handle'[k].cell = handle[k].cell
      BY <1>2, <1>3 DEF HandleState
    <2> QED BY <1>3, <2>1, CellsKept, Stutters
  <1>4. ASSUME NEW outcome \in Constructions, Construct(h, outcome)
        PROVE  UNCHANGED Abstract!vars
    <2>1. UNCHANGED <<handle, stack>>
          /\ \E t, b : heap' = [heap EXCEPT ![handle[h].cell] =
                 [heap[handle[h].cell] EXCEPT !.touched = t, !.built = b]]
      BY <1>4 DEF Construct
    <2>2. \A d \in Cell : heap'[d].status = heap[d].status
      BY <1>2, <2>1 DEF CellState
    <2> QED BY <2>1, <2>2, CellsKept, Stutters
  <1>5. CASE DefaultConstruct(h)
    BY <1>3, <1>5 DEF DefaultConstruct
  <1>6. CASE \E kind \in {"builtin", "object"} : ConstructPlain(h, kind)
    BY <1>3, <1>6 DEF ConstructPlain
  <1>7. CASE \E l \in Layout, c \in Cell : ConstructManaged(h, l, c)
    BY <1>7, ConstructRefines
  <1>8. CASE \E outcome \in Constructions : Construct(h, outcome)
    BY <1>4, <1>8
  <1>9. CASE \E g \in Handle : CopyConstruct(h, g)
    BY <1>9, CopyRefines
  <1>10. CASE \E g \in Handle : MoveConstruct(h, g)
    BY <1>10, MoveRefines
  <1>11. CASE \E g \in Handle : CopyAssign(h, g)
    <2>1. \A i \in 1 .. Depth : stack[i].dst # h
      BY <1>11, NotWritten DEF CopyAssign, MayAssign
    <2> QED BY <1>11, <2>1, BeginRefines DEF CopyAssign
  <1>12. CASE \E g \in Handle : MoveAssign(h, g)
    <2>1. \A i \in 1 .. Depth : stack[i].dst # h
      BY <1>12, NotWritten DEF MoveAssign
    <2> QED BY <1>12, <2>1, BeginRefines DEF MoveAssign
  <1>13. CASE Destroy(h)
    <2>1. \A i \in 1 .. Depth : stack[i].dst # h
      BY <1>13 DEF Destroy, MayDestroy
    <2> QED BY <1>13, <2>1, BeginRefines DEF Destroy
  <1> QED BY <1>1, <1>5, <1>6, <1>7, <1>8, <1>9, <1>10, <1>11, <1>12, <1>13

(* The steps of the operations in progress. *)
LEMMA StepRefines ==
  ASSUME IInv, IInv', Step
  PROVE  Abstract!Next \/ UNCHANGED Abstract!vars
  <1>1. CASE DestroyElem
    <2>1. /\ UNCHANGED <<handle, stack>>
          /\ \E i, b : heap' = [heap EXCEPT ![Top.cell] =
                          [heap[Top.cell] EXCEPT !.left = i, !.built = b]]
      BY <1>1 DEF DestroyElem
    <2>2. \A d \in Cell : heap'[d].status = heap[d].status
      BY <2>1 DEF IInv, TypeOK, CellState
    <2> QED BY <2>1, <2>2, CellsKept, Stutters
  <1>2. CASE Finish
    <2>1. Top.op = "copy" \/ Top.op = "move" \/ Top.op = "destroy"
      BY <1>2 DEF Finish
    <2> QED BY <1>2, <2>1, FinishCopyRefines, FinishMoveRefines, FinishDestroyRefines
  <1> QED BY <1>1, <1>2, ReleaseRefines, DeleteRefines DEF Step

(* Before any Value exists no payload has owners. *)
LEMMA InitRefines == Init => Abstract!Init
  <1> SUFFICES ASSUME Init PROVE Abstract!Init
    OBVIOUS
  <1>1. Mapping
    BY IInvInit, Mapped
  <1>2. \A c \in Cell : Holders(c) = {} /\ heap[c].status = "free"
    BY CellAssumption DEF Init, Blank, Holders, Dead
  <1>3. Owners = [c \in Cell |-> {}] /\ Phase = [c \in Cell |-> "none"]
    BY <1>1, <1>2 DEF Mapping
  <1> QED BY <1>3 DEF Owners, Phase, Abstract!Init

(* Value.cc promises what SharedPayload says of payloads: the counter      *)
(* behind the Values behaves as a set of owners that is given back when it *)
(* is empty, through every nesting of assignments in destructors.  (That   *)
(* it is given back at all, Shared's fairness, is left to TLC.)            *)
THEOREM ImplementsSharing == ASSUME Misuse = {} PROVE Spec => Abstract!Spec
  <1>1. Init => Abstract!Init
    BY InitRefines
  <1>2. IInv /\ IInv' /\ [Next]_vars => [Abstract!Next]_(Abstract!vars)
    <2> SUFFICES ASSUME IInv, IInv', [Next]_vars
                 PROVE  Abstract!Next \/ UNCHANGED Abstract!vars
      OBVIOUS
    <2>1. CASE UNCHANGED vars
      <3>1. UNCHANGED <<handle, heap, stack>>
        BY <2>1 DEF vars
      <3> QED BY <3>1, CellsKept, Stutters
    <2>2. CASE Next
      BY <2>2, ClientRefines, StepRefines DEF Next
    <2> QED BY <2>1, <2>2
  <1> QED BY <1>1, <1>2, Inductive, PTL DEF Spec, Abstract!Spec

(* No Value ever owns two payloads, and a payload that is held has an      *)
(* owner: no operation of Value.cc gives a handle a second cell.           *)
THEOREM OwnersExclusive == ASSUME Misuse = {} PROVE Spec => []Abstract!Exclusive
  <1>1. IInv => Abstract!Exclusive
    <2> SUFFICES ASSUME IInv PROVE Abstract!Exclusive
      OBVIOUS
    <2>1. Mapping
      BY Mapped
    <2>2. \A c \in Cell : Phase[c] = "held" <=> Owners[c] # {}
      BY <2>1 DEF Mapping
    <2>3. \A c, d \in Cell : c # d => Owners[c] \cap Owners[d] = {}
      BY <2>1 DEF Mapping, Holders
    <2> QED BY <2>2, <2>3 DEF Owners, Phase, Abstract!Exclusive
  <1> QED BY <1>1, Inductive, PTL
-----------------------------------------------------------------------------
(* Where the layouts come from: the types of ValueTypes.                   *)

AllHandled == \A t \in Type : Handled(t)

(* The number of elements of at most one dimension (GetNumberOfElements).  *)
LEMMA ProductOne ==
  ASSUME NEW s \in Seq(Nat), Len(s) <= 1
  PROVE  /\ Product(s) \in Nat
         /\ s = <<>> => Product(s) = 1
  <1>1. CASE Len(s) = 0
    <2> DEFINE P(f) == f = [i \in 0 .. Len(s) |-> IF i = 0 THEN 1 ELSE f[i - 1] * s[i]]
               f0 == [i \in 0 .. 0 |-> 1]
               product == CHOOSE f : P(f)
    <2>1. \A i \in 0 .. 0 : i = 0
      OBVIOUS
    <2>2. P(f0)
      BY <1>1, <2>1
    <2>3. P(product)
      <3> HIDE DEF P
      <3> QED BY <2>2
    <2>4. Product(s) = product[Len(s)]
      BY DEF Product
    <2> HIDE DEF product
    <2>5. product[Len(s)] = 1
      BY <1>1, <2>3
    <2> QED BY <2>4, <2>5
  <1>2. CASE Len(s) = 1
    <2> DEFINE P(f) == f = [i \in 0 .. Len(s) |-> IF i = 0 THEN 1 ELSE f[i - 1] * s[i]]
               f0 == [i \in 0 .. 1 |-> IF i = 0 THEN 1 ELSE s[1]]
               product == CHOOSE f : P(f)
    <2>1. \A i \in 0 .. 1 : i = 0 \/ i = 1
      OBVIOUS
    <2>2. s[1] \in Nat
      <3>1. 1 \in 1 .. Len(s)
        BY <1>2
      <3> QED BY <3>1, ElementOfSeq
    <2>3. P(f0)
      <3>1. ASSUME NEW i \in 0 .. 1
            PROVE  f0[i] = IF i = 0 THEN 1 ELSE f0[i - 1] * s[i]
        <4>1. CASE i = 0
          BY <4>1
        <4>2. CASE i = 1
          <5>1. f0[0] = 1 /\ f0[1] = s[1] /\ 1 * s[1] = s[1]
            BY <2>2
          <5> HIDE DEF f0
          <5> QED BY <4>2, <5>1
        <4> QED BY <2>1, <4>1, <4>2
      <3>2. f0 = [i \in 0 .. 1 |-> f0[i]]
        OBVIOUS
      <3> HIDE DEF f0
      <3> QED BY <1>2, <3>1, <3>2
    <2>4. P(product)
      <3> HIDE DEF P
      <3> QED BY <2>3
    <2>5. Product(s) = product[Len(s)]
      BY DEF Product
    <2> HIDE DEF product
    <2>6. product[0] = 1
      BY <1>2, <2>4
    <2>7. product[1] = product[0] * s[1]
      BY <1>2, <2>4
    <2>8. product[Len(s)] = s[1]
      BY <1>2, <2>2, <2>6, <2>7
    <2>9. s # <<>>
      <3> HIDE DEF P, f0
      <3>1. PICK none : none = <<>>
        OBVIOUS
      <3>2. Len(none) = 0
        BY <3>1
      <3>3. ASSUME s = none PROVE FALSE
        BY <1>2, <3>2, <3>3
      <3> QED BY <3>1, <3>3
    <2> QED BY <2>2, <2>5, <2>8, <2>9
  <1>3. Len(s) = 0 \/ Len(s) = 1
    <2>1. PICK n \in Nat : n = Len(s)
      OBVIOUS
    <2>2. n <= 1
      BY <2>1
    <2>3. n = 0 \/ n = 1
      BY <2>2
    <2> QED BY <2>1, <2>3
  <1> QED BY <1>1, <1>2, <1>3

(* A type whose objects have a destructor gets as many elements of its     *)
(* size as it has objects, with the destructor, and the right stride.      *)
LEMMA RecordLayout ==
  ASSUME NEW t, IsType(t), Handled(t), t.base = "record"
  PROVE  /\ NeedsManaged(t)
         /\ LET l == LayoutOf(t)
            IN  /\ l.dtor /\ IsLayout(l) /\ Strided(l)
                /\ l.elems = Product(t.dims)
                /\ l.elems # 0 => l.size = t.size
  <1>1. PICK n : n = Product(t.dims)
    OBVIOUS
  <1>2. PICK z : z = t.size
    OBVIOUS
  <1>3. /\ t.dims \in Seq(Nat) /\ z \in Nat \ {0} /\ t.visible = Len(t.dims)
        /\ Len(t.dims) <= 1 /\ (n <= 1 \/ n * z >= CanarySize)
    BY <1>1, <1>2 DEF IsType, Handled
  <1>4. n \in Nat
    BY <1>1, <1>3, ProductOne
  <1>5. SubSeq(t.dims, 1, t.visible) = t.dims
    BY <1>3
  <1>6. NumberOfElements(t) = n
    BY <1>1, <1>5 DEF NumberOfElements
  <1>7. HasDtor(t)
    BY <1>3 DEF HasDtor
  <1>8. n # 0 => (n * z) \div n = z
    BY <1>3, <1>4
  <1> DEFINE l == LayoutOf(t)
  <1>9. l = [elems |-> n, size |-> IF n = 0 THEN z ELSE (n * z) \div n,
             dtor |-> HasDtor(t)]
    BY <1>1, <1>2, <1>6 DEF LayoutOf, Bytes
  <1>10. HasDtor(t) \in BOOLEAN
    BY DEF HasDtor
  <1> HIDE DEF l
  <1>11. l.elems = n /\ l.size = z /\ l.dtor = HasDtor(t)
    BY <1>8, <1>9
  <1>12. IsLayout(l)
    BY <1>3, <1>4, <1>10, <1>11 DEF IsLayout
  <1>13. Strided(l)
    BY <1>3, <1>11, <1>12, StrideIsRight
  <1>14. NeedsManaged(t)
    <2>1. t.dims = <<>> \/ t.dims # <<>>
      OBVIOUS
    <2>2. TypeKind(t) = "object"
      BY <2>1 DEF TypeKind
    <2> QED BY <2>2 DEF NeedsManaged
  <1> QED BY <1>1, <1>2, <1>7, <1>11, <1>12, <1>13, <1>14 DEF l

(* Releasing a Value of a handled type destroys its objects, all and only. *)
LEMMA HandledIsDestroyed ==
  ASSUME NEW t, IsType(t), Handled(t)
  PROVE  ObjectsOf(t) = IF NeedsManaged(t)
                              THEN DestroyedBy(LayoutOf(t)) ELSE {}
  <1>1. CASE t.base = "record"
    <2> DEFINE l == LayoutOf(t)
    <2>1. /\ NeedsManaged(t) /\ l.dtor /\ IsLayout(l) /\ Strided(l)
          /\ l.elems = Product(t.dims) /\ (l.elems # 0 => l.size = t.size)
      BY <1>1, RecordLayout
    <2> HIDE DEF l
    <2>2. PICK n : n = l.elems
      OBVIOUS
    <2>3. n \in Nat
      BY <2>1, <2>2 DEF IsLayout
    <2>4. ObjectsOf(t) = {i * t.size : i \in 0 .. n - 1}
      BY <1>1, <2>1, <2>2 DEF ObjectsOf
    <2>5. DestroyedBy(l) = {DestroyedAt(l, i) : i \in 0 .. n - 1}
      BY <2>1, <2>2 DEF DestroyedBy
    <2>6. ASSUME NEW i \in 0 .. n - 1 PROVE DestroyedAt(l, i) = i * t.size
      <3>1. n # 0
        BY <2>3
      <3>2. l.size = t.size
        BY <2>1, <2>2, <3>1
      <3>3. DestroyedAt(l, i) = BuiltAt(l, i)
        BY <2>1, <2>2 DEF Strided
      <3>4. BuiltAt(l, i) = i * t.size
        BY <3>2 DEF BuiltAt
      <3> QED BY <3>3, <3>4
    <2>7. DestroyedBy(l) = {i * t.size : i \in 0 .. n - 1}
      BY <2>5, <2>6
    <2> QED BY <2>1, <2>4, <2>7 DEF l
  <1>2. CASE t.base # "record"
    <2>1. ObjectsOf(t) = {}
      BY <1>2 DEF ObjectsOf
    <2>2. ~LayoutOf(t).dtor
      BY <1>2 DEF LayoutOf, HasDtor
    <2>3. DestroyedBy(LayoutOf(t)) = {}
      BY <2>2 DEF DestroyedBy
    <2> QED BY <2>1, <2>3
  <1> QED BY <1>1, <1>2

(* "managed if the type needs destruction": whatever types a program makes *)
(* Values of, as long as they are handled, releasing one destroys exactly  *)
(* the objects that its type says are in the payload.                      *)
THEOREM HandledTypesDestroyed ==
  AllHandled => (ValueSpec => []DestroysObjects)
  <1> SUFFICES ASSUME AllHandled PROVE ValueSpec => []DestroysObjects
    OBVIOUS
  <1> DEFINE TInv ==
        /\ type \in Type
        /\ \/ value = NoValue
           \/ NeedsManaged(type)
                /\ value.managed /\ value.layout = LayoutOf(type)
           \/ ~NeedsManaged(type) /\ ~value.managed
  <1>1. ValueInit => TInv
    BY DEF ValueInit
  <1>2. TInv /\ [ValueNext]_valueVars => TInv'
    <2> SUFFICES ASSUME TInv, [ValueNext]_valueVars PROVE TInv'
      OBVIOUS
    <2>1. CASE ValueConstruct
      <3>1. /\ type' = type
            /\ value' = IF NeedsManaged(type)
                        THEN [kind |-> TypeKind(type), managed |-> TRUE,
                              layout |-> LayoutOf(type)]
                        ELSE [kind |-> TypeKind(type), managed |-> FALSE]
        BY <2>1 DEF ValueConstruct
      <3>2. CASE NeedsManaged(type)
        BY <3>1, <3>2
      <3>3. CASE ~NeedsManaged(type)
        BY <3>1, <3>3
      <3> QED BY <3>2, <3>3
    <2>2. CASE ValueForget
      BY <2>2 DEF ValueForget
    <2>3. CASE UNCHANGED valueVars
      BY <2>3 DEF valueVars
    <2> QED BY <2>1, <2>2, <2>3 DEF ValueNext
  <1>3. TInv => DestroysObjects
    <2> SUFFICES ASSUME TInv, value # NoValue
                 PROVE  ObjectsOf(type) =
                          IF value.managed THEN DestroyedBy(value.layout) ELSE {}
      BY DEF DestroysObjects
    <2>1. IsType(type) /\ Handled(type)
      BY TypeAssumption DEF AllHandled
    <2>2. ObjectsOf(type) = IF NeedsManaged(type)
                                  THEN DestroyedBy(LayoutOf(type)) ELSE {}
      BY <2>1, HandledIsDestroyed
    <2> QED BY <2>2
  <1> HIDE DEF TInv
  <1> QED BY <1>1, <1>2, <1>3, PTL DEF ValueSpec
=============================================================================
