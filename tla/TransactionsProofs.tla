------------------------- MODULE TransactionsProofs -------------------------
(***************************************************************************)
(* Scopes and transactions stay in step, for any number of scope objects   *)
(* and of blocks in the pool, and are to the input a stack of units.       *)
(***************************************************************************)
EXTENDS Transactions, FiniteSetTheorems, SequenceTheorems, WellFoundedInduction, TLAPS

-----------------------------------------------------------------------------
(* The types the proofs need: what the lists of nested transactions hold   *)
(* is of no concern to the scopes.                                         *)

Record(N) ==
    [state : State, parent : Txn \cup {NoTxn}, owns : BOOLEAN,
     nested : N, diags : {kErrors, kWarnings, kNone},
     decls : SUBSET Decls, shadow : BOOLEAN, failed : BOOLEAN]

Typed(f) == \E N : f \in [Txn -> Record(N)]

\* The blocks f and g agree in all that scopes rely on.
Alike(f, g, S) ==
    \A u \in S : f[u].state = g[u].state /\ f[u].parent = g[u].parent

-----------------------------------------------------------------------------
(* Blocks and what the parser does to them.                                *)

\* Nesting sets one parent.
LEMMA NestInIs ==
    ASSUME NEW f, Typed(f), NEW t \in Txn, NEW p \in Txn \cup {NoTxn},
           f[t].parent = NoTxn
    PROVE  /\ Typed(NestIn(f, p, t))
           /\ NestIn(f, p, t)[t].parent = p
           /\ NestIn(f, p, t)[t].state = f[t].state
           /\ Alike(NestIn(f, p, t), f, Txn \ {t})
<1>1. CASE p = NoTxn
  BY <1>1 DEF NestIn, Alike
<1>2. CASE p \in Txn
  <2>1. PICK N : f \in [Txn -> Record(N)]
    BY DEF Typed
  <2> DEFINE a == [f EXCEPT ![t].parent = p]
             list == Append(a[p].nested, t)
             M == N \cup {list}
             b == [a EXCEPT ![p].owns = TRUE, ![p].nested = list]
  <2>2. a \in [Txn -> Record(N)] /\ a[t].parent = p /\ a[t].state = f[t].state
          /\ Alike(a, f, Txn \ {t})
    BY <1>2, <2>1 DEF Record, Alike
  <2>3. NestIn(f, p, t) = b
    BY <1>2, TransactionsAssumption DEF NestIn
  <2> HIDE DEF a, list
  <2>4. b \in [Txn -> Record(M)]
    <3>1. a \in [Txn -> Record(M)] /\ list \in M
      BY <2>2 DEF Record
    <3> DEFINE r == [a[p] EXCEPT !.owns = TRUE, !.nested = list]
    <3>2. b = [a EXCEPT ![p] = r]
      OBVIOUS
    <3> HIDE DEF M, b
    <3>3. a[p] \in Record(M)
      BY <1>2, <3>1
    <3>4. r \in Record(M)
      BY <3>1, <3>3 DEF Record
    <3> HIDE DEF r
    <3> QED
      BY <1>2, <3>1, <3>2, <3>4
  <2>5. b[t].parent = p /\ b[t].state = f[t].state /\ Alike(b, f, Txn \ {t})
    BY <1>2, <2>2 DEF Record, Alike
  <2> QED
    BY <2>3, <2>4, <2>5 DEF Typed
<1> QED
  BY <1>1, <1>2

\* Taking a transaction out of its parent's list changes nothing else.
LEMMA UnnestIs ==
    ASSUME NEW f, Typed(f), NEW t \in Txn
    PROVE  Typed(Unnest(f, t)) /\ Alike(Unnest(f, t), f, Txn)
<1> DEFINE p == f[t].parent
<1>1. PICK N : f \in [Txn -> Record(N)]
  BY DEF Typed
<1>2. p \in Txn \cup {NoTxn}
  BY <1>1 DEF Record
<1>3. CASE p = NoTxn
  BY <1>3 DEF Unnest, Alike
<1>4. CASE p \in Txn
  <2> DEFINE rest == RemoveFirst(f[p].nested, t)
             M == N \cup {rest}
             b == [f EXCEPT ![p].nested = rest, ![p].owns = rest # <<>>]
  <2>1. Unnest(f, t) = b
    BY <1>4, TransactionsAssumption DEF Unnest
  <2> HIDE DEF rest, p
  <2>2. f \in [Txn -> Record(M)] /\ rest \in M
    BY <1>1 DEF Record
  <2> HIDE DEF M
  <2>3. b \in [Txn -> Record(M)]
    <3> DEFINE r == [f[p] EXCEPT !.nested = rest, !.owns = rest # <<>>]
    <3>1. b = [f EXCEPT ![p] = r]
      OBVIOUS
    <3> HIDE DEF b
    <3>2. f[p] \in Record(M)
      BY <1>4, <2>2
    <3>3. r \in Record(M)
      BY <2>2, <3>2 DEF Record
    <3> HIDE DEF r
    <3> QED
      BY <1>4, <2>2, <3>1, <3>3
  <2>4. Alike(b, f, Txn)
    BY <1>4, <2>2 DEF Record, Alike
  <2> QED
    BY <2>1, <2>3, <2>4 DEF Typed
<1> QED
  BY <1>2, <1>3, <1>4

\* A block leaves the pool: it is collecting, in the transaction that was
\* current.
LEMMA BeginIs ==
    ASSUME Typed(txn), current \in Txn \cup {NoTxn}, NEW t \in Txn,
           beginTransaction(t)
    PROVE  /\ Typed(txn') /\ current' = t /\ Pooled(t)
           /\ txn'[t].state = "collecting" /\ txn'[t].parent = current
           /\ Alike(txn', txn, Txn \ {t})
<1> DEFINE a == [txn EXCEPT ![t] = Initialize(@)]
<1>1. PICK N : txn \in [Txn -> Record(N)]
  BY DEF Typed
<1>2. a \in [Txn -> Record(N \cup {<<>>})]
  <2>1. txn \in [Txn -> Record(N \cup {<<>>})]
    BY <1>1 DEF Record
  <2>2. txn[t] \in Record(N \cup {<<>>})
    BY <2>1
  <2>3. Initialize(txn[t]) \in Record(N \cup {<<>>})
    BY <2>2 DEF Initialize, Record, State
  <2> QED
    BY <2>1, <2>3
<1>3. a[t] = Initialize(txn[t]) /\ \A u \in Txn \ {t} : a[u] = txn[u]
  BY <1>1
<1>4. a[t].parent = NoTxn /\ a[t].state = "collecting"
  <2>1. txn[t] \in Record(N)
    BY <1>1
  <2>2. /\ Initialize(txn[t]).parent = NoTxn
        /\ Initialize(txn[t]).state = "collecting"
    BY <2>1 DEF Initialize, Record
  <2> HIDE DEF a
  <2> QED
    BY <1>3, <2>2
<1> HIDE DEF a
<1>5. txn' = NestIn(a, current, t)
  BY DEF beginTransaction, a
<1>6. Typed(a)
  BY <1>2 DEF Typed
<1>7. /\ Typed(txn') /\ txn'[t].parent = current /\ txn'[t].state = "collecting"
      /\ Alike(txn', a, Txn \ {t})
  BY <1>4, <1>5, <1>6, NestInIs
<1> QED
  BY <1>3, <1>7 DEF Alike, beginTransaction

\* A transaction ends: its parent is current, and the others are as before.
LEMMA EndIs ==
    ASSUME Typed(txn), NEW t \in Txn, endTransaction(t)
    PROVE  /\ Typed(txn') /\ current' = txn[t].parent
           /\ Alike(txn', txn, Txn \ {t})
<1>1. CASE release(t)
  <2> DEFINE a == Unnest(txn, t)
  <2>1. Typed(a) /\ Alike(a, txn, Txn)
    BY UnnestIs
  <2>2. txn' = [a EXCEPT ![t] = Retired(@)]
    BY <1>1 DEF release
  <2> HIDE DEF a
  <2>3. PICK N : a \in [Txn -> Record(N)]
    BY <2>1 DEF Typed
  <2>4. a \in [Txn -> Record(N \cup {<<>>})]
    BY <2>3 DEF Record
  <2>5. Retired(a[t]) \in Record(N \cup {<<>>})
    <3>1. a[t] \in Record(N \cup {<<>>})
      BY <2>4
    <3> QED
      BY <3>1 DEF Retired, Record, State
  <2>6. txn' \in [Txn -> Record(N \cup {<<>>})]
    BY <2>2, <2>4, <2>5
  <2>7. Alike(txn', a, Txn \ {t})
    BY <2>2, <2>4 DEF Alike
  <2> QED
    BY <2>1, <2>6, <2>7 DEF Alike, Typed, endTransaction
<1>2. CASE commitTransaction(t)
  <2>1. PICK N : txn \in [Txn -> Record(N)]
    BY DEF Typed
  <2>2. PICK new \in {"rolledBack", "committed"} :
          txn' = [txn EXCEPT ![t].state = new]
    BY <1>2 DEF commitTransaction
  <2>3. txn' \in [Txn -> Record(N)]
    BY <2>1, <2>2 DEF Record, State
  <2>4. Alike(txn', txn, Txn \ {t})
    BY <2>1, <2>2 DEF Alike, Record
  <2> QED
    BY <2>3, <2>4 DEF Typed, endTransaction
<1> QED
  BY <1>1, <1>2 DEF endTransaction

\* The steps inside a scope touch neither states nor parents.
LEMMA InsideIs ==
    ASSUME Typed(txn), current \in Txn \cup {NoTxn},
           \/ \E d \in Decls \ {"ns"} : AppendDecl(d)
           \/ setDefinitionShadowNS
           \/ \E val \in {kErrors, kWarnings} : setIssuedDiags(val)
           \/ clear
    PROVE  /\ Typed(txn') /\ Alike(txn', txn, Txn)
           /\ current' = current /\ frames' = frames
<1>1. PICK N : txn \in [Txn -> Record(N)]
  BY DEF Typed
<1>2. current \in Txn
  BY DEF AppendDecl, setDefinitionShadowNS, setIssuedDiags, clear
<1>3. txn[current] \in Record(N)
  BY <1>1, <1>2
<1>4. CASE \E d \in Decls \ {"ns"} : AppendDecl(d)
  <2>1. PICK d \in Decls : /\ txn' = [txn EXCEPT ![current].decls = @ \cup {d}]
                           /\ current' = current /\ frames' = frames
    BY <1>4 DEF AppendDecl
  <2>2. txn' \in [Txn -> Record(N)]
    <3> DEFINE r == [txn[current] EXCEPT !.decls = @ \cup {d}]
    <3>1. txn' = [txn EXCEPT ![current] = r]
      BY <2>1
    <3>2. r \in Record(N)
      BY <1>3 DEF Record
    <3> HIDE DEF r
    <3> QED
      BY <1>1, <1>2, <3>1, <3>2
  <2>3. Alike(txn', txn, Txn)
    BY <1>1, <1>2, <2>1 DEF Record, Alike
  <2> QED
    BY <2>1, <2>2, <2>3 DEF Typed
<1>5. CASE setDefinitionShadowNS
  <2>1. /\ "ns" \in Decls /\ current' = current /\ frames' = frames
        /\ txn' = [txn EXCEPT ![current].shadow = TRUE,
                              ![current].decls = @ \cup {"ns"}]
    BY <1>5 DEF setDefinitionShadowNS
  <2>2. txn' \in [Txn -> Record(N)]
    <3> DEFINE r == [txn[current] EXCEPT !.shadow = TRUE, !.decls = @ \cup {"ns"}]
    <3>1. txn' = [txn EXCEPT ![current] = r]
      BY <2>1
    <3>2. r \in Record(N)
      BY <1>3, <2>1 DEF Record
    <3> HIDE DEF r
    <3> QED
      BY <1>1, <1>2, <3>1, <3>2
  <2>3. Alike(txn', txn, Txn)
    BY <1>1, <1>2, <2>1 DEF Record, Alike
  <2> QED
    BY <2>1, <2>2, <2>3 DEF Typed
<1>6. CASE \E val \in {kErrors, kWarnings} : setIssuedDiags(val)
  <2>1. PICK val \in {kErrors, kWarnings} : setIssuedDiags(val)
    BY <1>6
  <2>2. PICK top, line :
          /\ txn' = [t \in Txn |->
               [txn[t] EXCEPT !.diags = IF t = top THEN val ELSE @,
                              !.failed = @ \/ (val = kErrors /\ t \in line)]]
          /\ current' = current /\ frames' = frames
    BY <2>1 DEF setIssuedDiags
  <2>3. ASSUME NEW t \in Txn
        PROVE  /\ txn'[t] \in Record(N)
               /\ txn'[t].state = txn[t].state /\ txn'[t].parent = txn[t].parent
    <3>1. txn[t] \in Record(N)
      BY <1>1
    <3>2. PICK x \in {kErrors, kWarnings, kNone}, y \in BOOLEAN :
            txn'[t] = [txn[t] EXCEPT !.diags = x, !.failed = y]
      <4> DEFINE x == IF t = top THEN val ELSE txn[t].diags
                 y == txn[t].failed \/ (val = kErrors /\ t \in line)
      <4>1. x \in {kErrors, kWarnings, kNone} /\ y \in BOOLEAN
        BY <3>1 DEF Record
      <4>2. txn'[t] = [txn[t] EXCEPT !.diags = x, !.failed = y]
        BY <2>2, <3>1 DEF Record
      <4> HIDE DEF x, y
      <4> QED
        BY <4>1, <4>2
    <3> QED
      BY <3>1, <3>2 DEF Record
  <2>4. txn' \in [Txn -> Record(N)]
    BY <2>2, <2>3
  <2> QED
    BY <2>2, <2>3, <2>4 DEF Typed, Alike
<1>7. CASE clear
  <2>1. /\ current' = current /\ frames' = frames
        /\ txn' = [txn EXCEPT ![current].decls = @ \cap {"macro"},
                              ![current].nested = <<>>]
    BY <1>7 DEF clear
  <2>2. txn \in [Txn -> Record(N \cup {<<>>})]
    BY <1>1 DEF Record
  <2>3. txn' \in [Txn -> Record(N \cup {<<>>})]
    <3> DEFINE M == N \cup {<<>>}
               r == [txn[current] EXCEPT !.decls = @ \cap {"macro"}, !.nested = <<>>]
    <3>1. txn' = [txn EXCEPT ![current] = r]
      BY <2>1
    <3>2. txn[current] \in Record(M) /\ <<>> \in M
      BY <1>2, <2>2
    <3>3. r \in Record(M)
      <4> HIDE DEF M
      <4> QED
        BY <3>2 DEF Record
    <3> HIDE DEF r
    <3> QED
      BY <1>2, <2>2, <3>1, <3>3
  <2>4. Alike(txn', txn, Txn)
    BY <1>2, <2>1, <2>2 DEF Record, Alike
  <2> QED
    BY <2>1, <2>3, <2>4 DEF Typed
<1> QED
  BY <1>4, <1>5, <1>6, <1>7

-----------------------------------------------------------------------------
(* The inductive invariant.                                                *)

Types ==
    /\ Typed(txn)
    /\ current \in Txn \cup {NoTxn}
    /\ frames \in Seq(Frame)
    /\ \A i \in DOMAIN frames :
         frames[i].kind \in PushKind <=> frames[i].txn # NoTxn

\* ScopesNest, said of each pair of neighbours among the active scopes.
Chain ==
    /\ Active = {} => current = NoTxn
    /\ \A i \in Active : (\A j \in Active : j <= i) => current = frames[i].txn
    /\ \A i \in Active :
         /\ (\A j \in Active : i <= j) => txn[frames[i].txn].parent = NoTxn
         /\ \A j \in Active : j < i /\ (\A k \in Active : k < i => k <= j) =>
              txn[frames[i].txn].parent = frames[j].txn

IInv == Types /\ Chain /\ OwnTransaction

\* A scope that is not in use has no place among the active ones.
LEMMA ActiveAre ==
    ASSUME Types
    PROVE  /\ Active \subseteq 1 .. Len(frames) /\ Len(frames) \in Nat
           /\ DOMAIN frames = 1 .. Len(frames)
           /\ \A i \in DOMAIN frames : frames[i].txn \in Txn \cup {NoTxn}
           /\ \A i \in Active : frames[i].txn \in Txn
<1>1. frames \in Seq(Frame) /\ Len(frames) \in Nat /\ DOMAIN frames = 1 .. Len(frames)
  BY DEF Types
<1>2. ASSUME NEW i \in DOMAIN frames
      PROVE  frames[i].txn \in Txn \cup {NoTxn}
  <2>1. frames[i] \in Frame
    BY <1>1
  <2> QED
    BY <2>1 DEF Frame
<1>3. Active \subseteq DOMAIN frames /\ \A i \in Active : frames[i].txn # NoTxn
  BY DEF Active
<1> QED
  BY <1>1, <1>2, <1>3

\* Among some scopes one is the innermost.
LEMMA MaxExists ==
    ASSUME NEW n \in Nat, NEW S, S \subseteq 1 .. n, S # {}
    PROVE  \E i \in S : \A j \in S : j <= i
<1> DEFINE T == {n - i : i \in S}
<1>1. T \subseteq Nat /\ T # {}
  OBVIOUS
<1>2. PICK x \in T : \A y \in T : ~(<<y, x>> \in OpToRel(<, Nat))
  BY <1>1, NatLessThanWellFounded, WFMin
<1>3. \A y \in T : ~(y < x)
  BY <1>1, <1>2 DEF OpToRel
<1>4. PICK i \in S : x = n - i
  OBVIOUS
<1>5. \A j \in S : n - j \in T
  OBVIOUS
<1>6. ASSUME NEW j \in S PROVE j <= i
  <2>1. ~(n - j < n - i)
    BY <1>3, <1>4, <1>5
  <2> HIDE DEF T
  <2>2. i \in 1 .. n /\ j \in 1 .. n
    OBVIOUS
  <2>3. i \in Int /\ j \in Int
    BY <2>2
  <2> QED
    BY <2>1, <2>3
<1> QED
  BY <1>6

\* Neighbours among the active scopes stay neighbours.
LEMMA ChainSame ==
    ASSUME IInv, Active' = Active, current' = current,
           \A i \in Active : frames'[i].txn = frames[i].txn,
           \A i \in Active : txn'[frames[i].txn].parent = txn[frames[i].txn].parent
    PROVE  Chain'
BY DEF IInv, Chain

\* A scope is added, inside all the others.
LEMMA ChainPush ==
    ASSUME IInv, NEW n \in Nat, \A i \in Active : i < n,
           Active' = Active \cup {n},
           \A i \in Active : frames'[i].txn = frames[i].txn,
           \A i \in Active : txn'[frames[i].txn].parent = txn[frames[i].txn].parent,
           current' = frames'[n].txn, txn'[frames'[n].txn].parent = current
    PROVE  Chain'
<1>1. \A i \in Active : i \in Nat /\ i < n
  BY ActiveAre DEF IInv
<1>2. Active' # {} /\ \A i \in Active' : (\A j \in Active' : j <= i) => i = n
  BY <1>1
<1>3. Active = {} => txn'[frames'[n].txn].parent = NoTxn
  BY DEF IInv, Chain
<1>4. ASSUME NEW i \in Active', \A j \in Active' : i <= j
      PROVE  txn'[frames'[i].txn].parent = NoTxn
  <2>1. CASE i = n
    <3>1. Active = {}
      BY <1>1, <1>4, <2>1
    <3> QED
      BY <1>3, <2>1, <3>1
  <2>2. CASE i \in Active
    BY <1>4, <2>2 DEF IInv, Chain
  <2> QED
    BY <2>1, <2>2
<1>5. ASSUME NEW i \in Active', NEW j \in Active', j < i,
             \A k \in Active' : k < i => k <= j
      PROVE  txn'[frames'[i].txn].parent = frames'[j].txn
  <2>1. CASE i = n
    <3>1. j \in Active /\ \A k \in Active : k <= j
      BY <1>1, <1>5, <2>1
    <3> QED
      BY <2>1, <3>1 DEF IInv, Chain
  <2>2. CASE i \in Active
    <3>1. j \in Active
      BY <1>1, <1>5, <2>2
    <3> QED
      BY <1>5, <2>2, <3>1 DEF IInv, Chain
  <2> QED
    BY <2>1, <2>2
<1> QED
  BY <1>2, <1>4, <1>5 DEF Chain

\* The innermost of the active scopes is taken away.
LEMMA ChainPop ==
    ASSUME IInv, NEW n \in Active, \A j \in Active : j <= n,
           Active' = Active \ {n},
           \A i \in Active' : frames'[i].txn = frames[i].txn,
           \A i \in Active' : txn'[frames[i].txn].parent = txn[frames[i].txn].parent,
           current' = txn[frames[n].txn].parent
    PROVE  Chain'
<1>1. \A i \in Active : i \in Nat
  BY ActiveAre DEF IInv
<1>2. Active' = {} => current' = NoTxn
  BY <1>1 DEF IInv, Chain
<1>3. ASSUME NEW i \in Active', \A j \in Active' : j <= i
      PROVE  current' = frames'[i].txn
  <2>1. i \in Active /\ i < n /\ \A k \in Active : k < n => k <= i
    BY <1>1, <1>3
  <2> QED
    BY <2>1 DEF IInv, Chain
<1>4. ASSUME NEW i \in Active'
      PROVE  /\ (\A j \in Active' : i <= j) =>
                  txn'[frames'[i].txn].parent = NoTxn
             /\ \A j \in Active' : j < i /\ (\A k \in Active' : k < i => k <= j) =>
                  txn'[frames'[i].txn].parent = frames'[j].txn
  <2>1. i \in Active /\ i < n
    BY <1>1
  <2>2. (\A j \in Active' : i <= j) => \A j \in Active : i <= j
    BY <1>1, <2>1
  <2>3. \A j : (\A k \in Active' : k < i => k <= j)
                 => (\A k \in Active : k < i => k <= j)
    BY <1>1, <2>1
  <2> QED
    BY <2>1, <2>2, <2>3 DEF IInv, Chain
<1> QED
  BY <1>2, <1>3, <1>4 DEF Chain

-----------------------------------------------------------------------------
(* Opening and closing scopes.                                             *)

\* All but the innermost n scopes, and a new one on top.
LEMMA FramesPush ==
    ASSUME Types, NEW n \in {0, 1}, n <= Len(frames), NEW f \in Frame,
           frames' = Append(SubSeq(frames, 1, Len(frames) - n), f)
    PROVE  /\ frames' \in Seq(Frame) /\ Len(frames') = Len(frames) - n + 1
           /\ DOMAIN frames' = 1 .. Len(frames) - n + 1
           /\ \A i \in 1 .. Len(frames) - n : frames'[i] = frames[i]
           /\ frames'[Len(frames) - n + 1] = f
<1> DEFINE q == SubSeq(frames, 1, Len(frames) - n)
<1>1. frames \in Seq(Frame) /\ Len(frames) \in Nat /\ Len(frames) - n \in Nat
  BY DEF Types
<1>2. /\ q \in Seq(Frame) /\ Len(q) = Len(frames) - n
      /\ \A i \in 1 .. Len(frames) - n : q[i] = frames[i]
  BY <1>1
<1>3. frames' = Append(q, f)
  OBVIOUS
<1> HIDE DEF q
<1> QED
  BY <1>1, <1>2, <1>3

\* All but the innermost scope.
LEMMA FramesPop ==
    ASSUME Types, frames # <<>>, frames' = Front(frames)
    PROVE  /\ frames' \in Seq(Frame) /\ Len(frames) \in Nat \ {0}
           /\ DOMAIN frames' = 1 .. Len(frames) - 1
           /\ \A i \in 1 .. Len(frames) - 1 : frames'[i] = frames[i]
BY DEF Types, Front

\* A step that leaves the scopes, and what they rely on, as they are.
LEMMA KeepOK ==
    ASSUME IInv, Typed(txn'), Alike(txn', txn, Txn),
           current' = current, frames' = frames
    PROVE  IInv'
<1>1. Types'
  BY DEF IInv, Types
<1>2. \A i \in DOMAIN frames : frames[i].txn # NoTxn => frames[i].txn \in Txn
  BY ActiveAre DEF IInv
<1>3. \A u \in Txn : txn'[u].state = txn[u].state /\ txn'[u].parent = txn[u].parent
  BY DEF Alike
<1>4. Active' = Active
  BY <1>2, <1>3 DEF Active
<1>5. Chain'
  BY <1>3, <1>4, ChainSame, ActiveAre DEF IInv
<1>6. OwnTransaction'
  BY <1>2, <1>3 DEF IInv, OwnTransaction, Pooled
<1> QED
  BY <1>1, <1>5, <1>6 DEF IInv

\* A scope object without a transaction comes, or goes.
LEMMA PlainOK ==
    ASSUME IInv, txn' = txn, current' = current,
           \/ \E f \in Frame : /\ f.txn = NoTxn /\ f.kind \notin PushKind
                               /\ frames' = Append(frames, f)
           \/ /\ frames # <<>> /\ Innermost.kind \notin PushKind
              /\ frames' = Front(frames)
    PROVE  IInv'
<1>0. frames \in Seq(Frame) /\ Len(frames) \in Nat /\ DOMAIN frames = 1 .. Len(frames)
  BY DEF IInv, Types
<1>1. CASE \E f \in Frame : /\ f.txn = NoTxn /\ f.kind \notin PushKind
                            /\ frames' = Append(frames, f)
  <2>1. PICK f \in Frame : /\ f.txn = NoTxn /\ f.kind \notin PushKind
                           /\ frames' = Append(frames, f)
    BY <1>1
  <2>2. /\ frames' \in Seq(Frame) /\ DOMAIN frames' = 1 .. Len(frames) + 1
        /\ \A i \in 1 .. Len(frames) : frames'[i] = frames[i]
        /\ frames'[Len(frames) + 1] = f
    BY <1>0, <2>1
  <2>3. Types'
    BY <1>0, <2>1, <2>2 DEF IInv, Types
  <2>4. Active' = Active
    BY <1>0, <2>1, <2>2 DEF Active
  <2>5. Chain'
    <3>1. \A i \in Active : frames'[i].txn = frames[i].txn
      BY <2>2, ActiveAre DEF IInv
    <3> QED
      BY <2>4, <3>1, ChainSame
  <2>6. OwnTransaction'
    BY <1>0, <2>1, <2>2 DEF IInv, OwnTransaction, Pooled
  <2> QED
    BY <2>3, <2>5, <2>6 DEF IInv
<1>2. CASE /\ frames # <<>> /\ Innermost.kind \notin PushKind
           /\ frames' = Front(frames)
  <2>0. PICK n : n = Len(frames)
    OBVIOUS
  <2>1. /\ frames' \in Seq(Frame) /\ n \in Nat \ {0}
        /\ DOMAIN frames' = 1 .. n - 1 /\ DOMAIN frames = 1 .. n
        /\ \A i \in 1 .. n - 1 : frames'[i] = frames[i]
    BY <1>0, <1>2, <2>0, FramesPop DEF IInv
  <2>2. frames[n].txn = NoTxn
    <3>1. n \in DOMAIN frames /\ frames[n].kind \notin PushKind
      BY <1>2, <2>0, <2>1 DEF Innermost
    <3> QED
      BY <3>1 DEF IInv, Types
  <2>3. Types'
    <3>1. /\ \A i \in DOMAIN frames :
               frames[i].kind \in PushKind <=> frames[i].txn # NoTxn
          /\ Typed(txn') /\ current' \in Txn \cup {NoTxn}
      BY DEF IInv, Types
    <3> QED
      BY <2>1, <3>1 DEF Types
  <2>4. Active' = Active
    BY <2>1, <2>2 DEF Active
  <2>5. Chain'
    <3>1. \A i \in Active : i \in DOMAIN frames /\ i # n
      BY <2>2 DEF Active
    <3>2. \A i \in Active : frames'[i].txn = frames[i].txn
      BY <2>1, <3>1
    <3> QED
      BY <2>4, <3>2, ChainSame
  <2>6. OwnTransaction'
    <3>1. OwnTransaction
      BY DEF IInv
    <3> QED
      BY <2>1, <3>1 DEF OwnTransaction, Pooled
  <2> QED
    BY <2>3, <2>5, <2>6 DEF IInv
<1> QED
  BY <1>1, <1>2

\* PushTransactionRAII(): its transaction is a fresh one, and is collected
\* into.
LEMMA PushOK ==
    ASSUME IInv, NEW kind \in PushKind, NEW n \in {0, 1}, n <= Len(frames),
           n = 1 => Innermost.kind \notin PushKind,
           Push(kind, n)
    PROVE  IInv'
<1>1. PICK t \in Txn :
        /\ beginTransaction(t)
        /\ frames' = Append(SubSeq(frames, 1, Len(frames) - n),
                            PushFrame(kind, t))
  BY DEF Push
<1>2. /\ Typed(txn') /\ current' = t /\ Pooled(t)
      /\ txn'[t].state = "collecting" /\ txn'[t].parent = current
      /\ Alike(txn', txn, Txn \ {t})
  BY <1>1, BeginIs DEF IInv, Types
<1>3. /\ PushFrame(kind, t) \in Frame
      /\ PushFrame(kind, t).txn = t /\ PushFrame(kind, t).kind = kind
  BY TransactionsAssumption DEF PushFrame, Frame, FrameKind
<1>4. PICK m : m = Len(frames) - n
  OBVIOUS
<1>5. /\ m \in Nat /\ m <= Len(frames) /\ Len(frames) \in Nat
      /\ frames' \in Seq(Frame) /\ DOMAIN frames' = 1 .. m + 1
      /\ \A i \in 1 .. m : frames'[i] = frames[i]
      /\ frames'[m + 1].txn = t /\ frames'[m + 1].kind = kind
  <2>1. Types
    BY DEF IInv
  <2>2. /\ frames' \in Seq(Frame) /\ DOMAIN frames' = 1 .. Len(frames) - n + 1
        /\ \A i \in 1 .. Len(frames) - n : frames'[i] = frames[i]
        /\ frames'[Len(frames) - n + 1] = PushFrame(kind, t)
    BY <1>1, <1>3, <2>1, FramesPush
  <2>3. Len(frames) \in Nat
    BY <2>1, ActiveAre
  <2> QED
    BY <1>3, <1>4, <2>2, <2>3
<1>6. /\ DOMAIN frames = 1 .. Len(frames)
      /\ \A i \in DOMAIN frames : frames[i].txn # NoTxn => frames[i].txn \in Txn
  BY ActiveAre DEF IInv
<1>7. \A i \in DOMAIN frames : i \notin 1 .. m => frames[i].txn = NoTxn
  <2> SUFFICES ASSUME NEW i \in DOMAIN frames, i \notin 1 .. m
               PROVE  frames[i].txn = NoTxn
    OBVIOUS
  <2>1. n = 1 /\ i = Len(frames)
    BY <1>4, <1>5, <1>6
  <2>2. frames[i].kind \notin PushKind
    BY <2>1 DEF Innermost
  <2> QED
    BY <2>2 DEF IInv, Types
<1>8. \A i \in DOMAIN frames : frames[i].txn # t
  BY <1>2, TransactionsAssumption DEF IInv, OwnTransaction
<1>9. \A u \in Txn \ {t} : txn'[u].state = txn[u].state
                             /\ txn'[u].parent = txn[u].parent
  BY <1>2 DEF Alike
<1>10. Types'
  <2>1. \A i \in DOMAIN frames' :
          frames'[i].kind \in PushKind <=> frames'[i].txn # NoTxn
    <3> SUFFICES ASSUME NEW i \in DOMAIN frames'
                 PROVE  frames'[i].kind \in PushKind <=> frames'[i].txn # NoTxn
      OBVIOUS
    <3>1. CASE i = m + 1
      BY <1>5, <3>1, TransactionsAssumption
    <3>2. CASE i \in 1 .. m
      BY <1>5, <1>6, <3>2 DEF IInv, Types
    <3> QED
      BY <1>5, <3>1, <3>2
  <2> QED
    BY <1>2, <1>5, <2>1 DEF Types
<1>11. Active' = Active \cup {m + 1}
  <2>1. \A i \in 1 .. m : i \in Active' <=> i \in Active
    BY <1>5, <1>6, <1>8, <1>9 DEF Active
  <2>2. m + 1 \in Active'
    BY <1>2, <1>5, TransactionsAssumption DEF Active
  <2>3. Active' \subseteq 1 .. m + 1
    BY <1>5 DEF Active
  <2>4. Active \subseteq 1 .. m
    BY <1>7 DEF Active
  <2>5. \A i : i \in 1 .. m + 1 <=> i \in 1 .. m \/ i = m + 1
    BY <1>5
  <2>6. \A i : i \in Active' <=> i \in Active \cup {m + 1}
    BY <2>1, <2>2, <2>3, <2>4, <2>5
  <2> QED
    BY <2>6
<1>12. Chain'
  <2>1. Active \subseteq 1 .. m
    BY <1>7 DEF Active
  <2>2. m + 1 \in Nat /\ \A i \in Active : i < m + 1
    BY <1>5, <2>1
  <2>3. \A i \in Active : /\ frames'[i].txn = frames[i].txn
                          /\ frames[i].txn \in Txn \ {t}
    BY <1>5, <1>6, <1>8, <2>1 DEF Active
  <2>4. \A i \in Active :
          txn'[frames[i].txn].parent = txn[frames[i].txn].parent
    BY <1>9, <2>3
  <2>5. current' = frames'[m + 1].txn /\ txn'[frames'[m + 1].txn].parent = current
    BY <1>2, <1>5
  <2> QED
    BY <1>11, <2>2, <2>3, <2>4, <2>5, ChainPush
<1>13. OwnTransaction'
  <2> SUFFICES ASSUME NEW i \in DOMAIN frames', frames'[i].txn # NoTxn
               PROVE  /\ txn'[frames'[i].txn].state # "numStates"
                      /\ \A j \in DOMAIN frames' :
                           frames'[j].txn = frames'[i].txn => i = j
    BY DEF OwnTransaction, Pooled
  <2>1. \A j \in 1 .. m : j \in DOMAIN frames /\ frames'[j].txn = frames[j].txn
                            /\ frames[j].txn # t
    BY <1>5, <1>6, <1>8
  <2>2. CASE i = m + 1
    BY <1>2, <1>5, <2>1, <2>2
  <2>3. CASE i \in 1 .. m
    <3>1. frames[i].txn \in Txn \ {t} /\ txn[frames[i].txn].state # "numStates"
      BY <1>6, <2>1, <2>3 DEF IInv, OwnTransaction, Pooled
    <3>2. \A j \in 1 .. m : frames[j].txn = frames[i].txn => i = j
      BY <2>1, <2>3 DEF IInv, OwnTransaction
    <3> QED
      BY <1>5, <1>9, <2>1, <2>3, <3>1, <3>2
  <2> QED
    BY <1>5, <2>2, <2>3
<1> QED
  BY <1>10, <1>12, <1>13 DEF IInv

\* pop() of the innermost scope ends what is collected, or nothing if that was
\* rolled back; the scope object goes, or holds a snapshot from now on.
LEMMA PopOK ==
    ASSUME IInv, frames # <<>>, Innermost.kind \in PushKind, pop(Innermost.txn),
           \/ frames' = Front(frames)
           \/ frames' = Append(Front(frames), PlainFrame("debugger"))
    PROVE  IInv'
<1>1. PICK n : n = Len(frames)
  OBVIOUS
<1>2. /\ n \in Nat \ {0} /\ DOMAIN frames = 1 .. n /\ frames' \in Seq(Frame)
      /\ \/ DOMAIN frames' = 1 .. n - 1
         \/ /\ DOMAIN frames' = 1 .. n
            /\ frames'[n].txn = NoTxn /\ frames'[n].kind = "debugger"
      /\ \A i \in 1 .. n - 1 : frames'[i] = frames[i]
  <2>1. Types
    BY DEF IInv
  <2>2. frames \in Seq(Frame) /\ n \in Nat \ {0} /\ DOMAIN frames = 1 .. n
    BY <1>1, <2>1 DEF Types
  <2>3. CASE frames' = Front(frames)
    BY <1>1, <2>1, <2>2, <2>3, FramesPop
  <2>4. CASE frames' = Append(Front(frames), PlainFrame("debugger"))
    <3>1. /\ PlainFrame("debugger") \in Frame
          /\ PlainFrame("debugger").txn = NoTxn
          /\ PlainFrame("debugger").kind = "debugger"
      BY TransactionsAssumption DEF PlainFrame, Frame, FrameKind
    <3>2. /\ frames' \in Seq(Frame) /\ DOMAIN frames' = 1 .. Len(frames) - 1 + 1
          /\ \A i \in 1 .. Len(frames) - 1 : frames'[i] = frames[i]
          /\ frames'[Len(frames) - 1 + 1] = PlainFrame("debugger")
      BY <1>1, <2>1, <2>2, <2>4, <3>1, FramesPush DEF Front
    <3> QED
      BY <1>1, <2>2, <3>1, <3>2
  <2> QED
    BY <2>3, <2>4
<1>3. PICK t : t = frames[n].txn
  OBVIOUS
<1>4. t \in Txn /\ t # NoTxn /\ n \in DOMAIN frames /\ pop(t)
  <2>1. n \in DOMAIN frames /\ frames[n].kind \in PushKind /\ pop(t)
    BY <1>1, <1>2, <1>3 DEF Innermost
  <2> QED
    BY <1>3, <2>1, ActiveAre DEF IInv, Types
<1>5. /\ Typed(txn') /\ current' \in Txn \cup {NoTxn}
      /\ \A u \in Txn \ {t} : txn'[u].state = txn[u].state
                                /\ txn'[u].parent = txn[u].parent
  <2>1. CASE UNCHANGED <<txn, current>>
    BY <2>1 DEF IInv, Types
  <2>2. CASE endTransaction(t)
    <3>1. PICK N : txn \in [Txn -> Record(N)]
      BY DEF IInv, Types, Typed
    <3>2. txn[t].parent \in Txn \cup {NoTxn}
      BY <1>4, <3>1 DEF Record
    <3> QED
      BY <1>4, <2>2, <3>2, EndIs DEF IInv, Types, Alike
  <2> QED
    BY <1>4, <2>1, <2>2 DEF pop
<1>6. \A i \in 1 .. n - 1 :
        /\ i \in DOMAIN frames /\ frames'[i] = frames[i]
        /\ frames[i].txn # t
        /\ frames[i].txn # NoTxn => frames[i].txn \in Txn
  <2>1. \A i \in 1 .. n - 1 : i # n /\ i \in DOMAIN frames
    BY <1>2
  <2> QED
    BY <1>2, <1>3, <1>4, <2>1, ActiveAre DEF IInv, OwnTransaction
<1>7. Types'
  <2>1. \A i \in DOMAIN frames' :
          frames'[i].kind \in PushKind <=> frames'[i].txn # NoTxn
    <3> SUFFICES ASSUME NEW i \in DOMAIN frames'
                 PROVE  frames'[i].kind \in PushKind <=> frames'[i].txn # NoTxn
      OBVIOUS
    <3>1. CASE i \in 1 .. n - 1
      BY <1>6, <3>1 DEF IInv, Types
    <3>2. CASE i \notin 1 .. n - 1
      <4>1. frames'[i].txn = NoTxn /\ frames'[i].kind = "debugger"
        BY <1>2, <3>2
      <4> QED
        BY <4>1 DEF PushKind
    <3> QED
      BY <3>1, <3>2
  <2> QED
    BY <1>2, <1>5, <2>1 DEF Types
<1>8. Active' = Active \ {n}
  <2>1. \A i \in 1 .. n - 1 : i \in Active' <=> i \in Active
    BY <1>2, <1>5, <1>6 DEF Active
  <2>2. Active' \subseteq 1 .. n - 1
    BY <1>2 DEF Active
  <2>3. Active \subseteq 1 .. n
    BY <1>2 DEF Active
  <2>4. \A i : i \in 1 .. n - 1 <=> i \in 1 .. n /\ i # n
    BY <1>2
  <2>5. \A i : i \in Active' <=> i \in Active \ {n}
    BY <2>1, <2>2, <2>3, <2>4
  <2> QED
    BY <2>5
<1>9. \A i \in Active' : i \in 1 .. n - 1 /\ frames[i].txn \in Txn \ {t}
  <2>1. Active \subseteq 1 .. n /\ \A i \in Active : frames[i].txn # NoTxn
    BY <1>2 DEF Active
  <2>2. \A i \in Active' : i \in 1 .. n - 1 /\ i \in Active
    BY <1>2, <1>8, <2>1
  <2> QED
    BY <1>6, <2>1, <2>2
<1>10. /\ \A i \in Active' : frames'[i].txn = frames[i].txn
       /\ \A i \in Active' :
            txn'[frames[i].txn].parent = txn[frames[i].txn].parent
  BY <1>5, <1>6, <1>9
<1>11. Chain'
  <2>1. CASE txn[t].state = "rolledBack"
    <3>1. Active' = Active
      BY <1>3, <1>8, <2>1 DEF Active
    <3>2. current' = current
      BY <1>4, <2>1 DEF pop
    <3> QED
      BY <1>10, <3>1, <3>2, ChainSame
  <2>2. CASE txn[t].state # "rolledBack"
    <3>1. n \in Active
      BY <1>3, <1>4, <2>2 DEF Active
    <3>2. \A j \in Active : j <= n
      BY <1>2 DEF Active
    <3>3. current' = txn[frames[n].txn].parent
      BY <1>3, <1>4, <2>2, EndIs DEF pop, IInv, Types
    <3> QED
      BY <1>8, <1>10, <3>1, <3>2, <3>3, ChainPop
  <2> QED
    BY <2>1, <2>2
<1>12. OwnTransaction'
  <2> SUFFICES ASSUME NEW i \in DOMAIN frames', frames'[i].txn # NoTxn
               PROVE  /\ txn'[frames'[i].txn].state # "numStates"
                      /\ \A j \in DOMAIN frames' :
                           frames'[j].txn = frames'[i].txn => i = j
    BY DEF OwnTransaction, Pooled
  <2>1. i \in 1 .. n - 1
    BY <1>2
  <2>2. /\ i \in DOMAIN frames /\ frames'[i].txn = frames[i].txn
        /\ frames[i].txn \in Txn \ {t}
    BY <1>6, <2>1
  <2>3. txn'[frames[i].txn].state # "numStates"
    BY <1>5, <2>2, TransactionsAssumption DEF IInv, OwnTransaction, Pooled
  <2>4. ASSUME NEW j \in DOMAIN frames', frames'[j].txn = frames'[i].txn
        PROVE  i = j
    <3>1. j \in 1 .. n - 1
      BY <1>2, <2>4
    <3>2. j \in DOMAIN frames /\ frames[j].txn = frames[i].txn
      BY <1>6, <2>2, <2>4, <3>1
    <3> QED
      BY <2>2, <3>2, TransactionsAssumption DEF IInv, OwnTransaction
  <2> QED
    BY <2>2, <2>3, <2>4
<1> QED
  BY <1>7, <1>11, <1>12 DEF IInv

\* What is collected into is unloaded under its scope, the innermost that is
\* active.
LEMMA RollBackOK ==
    ASSUME IInv, RollBack
    PROVE  IInv'
<1>1. /\ current \in Txn /\ frames' = frames
      /\ txn' = [txn EXCEPT ![current].state = "rolledBack"]
      /\ current' = txn[current].parent
  BY DEF RollBack, IInv, Types
<1>2. PICK N : txn \in [Txn -> Record(N)]
  BY DEF IInv, Types, Typed
<1>3. /\ Typed(txn')
      /\ current' \in Txn \cup {NoTxn}
      /\ txn'[current].state = "rolledBack"
      /\ \A u \in Txn : txn'[u].parent = txn[u].parent
      /\ \A u \in Txn \ {current} : txn'[u].state = txn[u].state
  <2>1. txn' \in [Txn -> Record(N)]
    BY <1>1, <1>2 DEF Record, State
  <2>2. txn[current].parent \in Txn \cup {NoTxn}
    BY <1>1, <1>2 DEF Record
  <2> QED
    BY <1>1, <1>2, <2>1, <2>2 DEF Record, Typed
<1>4. PICK n \in Active : \A j \in Active : j <= n
  <2>1. Active # {}
    BY <1>1, TransactionsAssumption DEF IInv, Chain
  <2> QED
    BY <2>1, ActiveAre, MaxExists DEF IInv
<1>5. frames[n].txn = current
  BY <1>4 DEF IInv, Chain
<1>6. /\ \A i \in DOMAIN frames : frames[i].txn # NoTxn => frames[i].txn \in Txn
      /\ n \in DOMAIN frames
      /\ \A i \in DOMAIN frames : frames[i].txn = current => i = n
  BY <1>1, <1>5, ActiveAre, TransactionsAssumption
  DEF IInv, OwnTransaction, Active
<1>7. Types'
  BY <1>1, <1>3 DEF IInv, Types
<1>8. Active' = Active \ {n}
  <2>1. \A i \in DOMAIN frames \ {n} : i \in Active' <=> i \in Active
    BY <1>1, <1>3, <1>6 DEF Active
  <2>2. n \notin Active'
    BY <1>1, <1>3, <1>5 DEF Active
  <2>3. Active' \subseteq DOMAIN frames /\ Active \subseteq DOMAIN frames
    BY <1>1 DEF Active
  <2> QED
    BY <2>1, <2>2, <2>3
<1>9. Chain'
  <2>1. \A i \in Active' : frames[i].txn \in Txn
    BY <1>8, ActiveAre DEF IInv
  <2> QED
    BY <1>1, <1>3, <1>4, <1>5, <1>8, <2>1, ChainPop
<1>10. OwnTransaction'
  <2>1. \A u \in Txn : txn[u].state # "numStates" => txn'[u].state # "numStates"
    BY <1>3
  <2> QED
    BY <1>1, <1>6, <2>1 DEF IInv, OwnTransaction, Pooled
<1> QED
  BY <1>7, <1>9, <1>10 DEF IInv

\* A finished transaction is destroyed with those nested in it, none of which
\* a scope refers to.
LEMMA DestroyOK ==
    ASSUME IInv, NEW t \in Txn, Destroy(t)
    PROVE  IInv'
<1>1. PICK gone :
        /\ \A i \in DOMAIN frames : frames[i].txn \notin gone
        /\ txn' = [u \in Txn |-> IF u \in gone THEN Retired(txn[u]) ELSE txn[u]]
        /\ current' = current /\ frames' = frames
  BY DEF Destroy
<1>2. PICK N : txn \in [Txn -> Record(N)]
  BY DEF IInv, Types, Typed
<1>3. Typed(txn')
  <2>1. ASSUME NEW u \in Txn
        PROVE  txn'[u] \in Record(N \cup {<<>>})
    <3>1. txn[u] \in Record(N \cup {<<>>})
      BY <1>2 DEF Record
    <3>2. Retired(txn[u]) \in Record(N \cup {<<>>})
      BY <3>1 DEF Retired, Record, State
    <3> QED
      BY <1>1, <3>1, <3>2
  <2>2. txn' \in [Txn -> Record(N \cup {<<>>})]
    BY <1>1, <2>1
  <2> QED
    BY <2>2 DEF Typed
<1>4. \A i \in DOMAIN frames : frames[i].txn # NoTxn =>
        frames[i].txn \in Txn /\ txn'[frames[i].txn] = txn[frames[i].txn]
  BY <1>1, ActiveAre DEF IInv
<1>5. Types'
  BY <1>1, <1>3 DEF IInv, Types
<1>6. Active' = Active
  BY <1>1, <1>4 DEF Active
<1>7. Chain'
  <2>1. \A i \in Active : txn'[frames[i].txn] = txn[frames[i].txn]
    BY <1>4 DEF Active
  <2> QED
    BY <1>1, <1>6, <2>1, ChainSame
<1>8. OwnTransaction'
  BY <1>1, <1>4 DEF IInv, OwnTransaction, Pooled
<1> QED
  BY <1>5, <1>7, <1>8 DEF IInv

\* The scope objects' constructors and destructors, each of which is one of
\* the cases above.
LEMMA ScopesOK ==
    ASSUME IInv, OpenScope \/ OpenDebugger \/ Close
    PROVE  IInv'
<1>0. /\ PushKind = {"scope", "snap", "compare"} /\ Len(frames) \in Nat
      /\ frames # <<>> => Len(frames) >= 1
  <2>1. frames \in Seq(Frame)
    BY DEF IInv, Types
  <2> QED
    BY <2>1 DEF PushKind
<1>1. CASE OpenScope
  BY <1>0, <1>1, PushOK DEF OpenScope
<1>2. CASE OpenDebugger
  <2>1. CASE debug
    BY <1>0, <1>2, <2>1, PushOK DEF OpenDebugger
  <2>2. CASE ~debug
    <3>1. /\ PlainFrame("quiet") \in Frame /\ PlainFrame("quiet").txn = NoTxn
          /\ PlainFrame("quiet").kind \notin PushKind
      BY TransactionsAssumption DEF PlainFrame, Frame, FrameKind, PushKind
    <3>2. /\ txn' = txn /\ current' = current
          /\ frames' = Append(frames, PlainFrame("quiet"))
      BY <1>2, <2>2 DEF OpenDebugger
    <3> QED
      BY <3>1, <3>2, PlainOK
  <2> QED
    BY <2>1, <2>2
<1>3. CASE CloseScope \/ Compare
  BY <1>0, <1>3, PopOK DEF CloseScope, Compare, InnermostIs
<1>4. CASE TakeSnapshot
  BY <1>0, <1>4, PopOK DEF TakeSnapshot, InnermostIs
<1>5. CASE CloseDebugger
  <2>1. /\ "compare" \in PushKind /\ 1 \in {0, 1} /\ 1 <= Len(frames)
        /\ Innermost.kind \notin PushKind /\ Push("compare", 1)
    BY <1>0, <1>5 DEF CloseDebugger, InnermostIs
  <2> QED
    BY <2>1, PushOK
<1>6. CASE CloseQuiet \/ CloseFlags
  <2>1. /\ txn' = txn /\ current' = current /\ frames # <<>>
        /\ Innermost.kind \notin PushKind /\ frames' = Front(frames)
    BY <1>0, <1>6 DEF CloseQuiet, CloseFlags, InnermostIs
  <2> QED
    BY <2>1, PlainOK
<1> QED
  BY <1>1, <1>2, <1>3, <1>4, <1>5, <1>6 DEF Close

\* Flags are saved in a scope object of their own.
LEMMA FlagsOK ==
    ASSUME IInv, flags \in Flags, NEW new \in Flags, OpenFlags(new)
    PROVE  IInv'
<1> DEFINE f == [PlainFrame("flags") EXCEPT !.old = flags]
<1>1. f \in Frame /\ f.txn = NoTxn /\ f.kind \notin PushKind
  BY TransactionsAssumption DEF PlainFrame, Frame, FrameKind, PushKind
<1>2. txn' = txn /\ current' = current /\ frames' = Append(frames, f)
  BY DEF OpenFlags
<1> HIDE DEF f
<1> QED
  BY <1>1, <1>2, PlainOK

\* Without calls of pop() beyond the contract, every step keeps the invariant.
LEMMA InvNext ==
    ASSUME "pop" \notin Misuse, IInv, flags \in Flags, [Next]_vars
    PROVE  IInv' /\ flags' \in Flags
<1>0. Typed(txn) /\ current \in Txn \cup {NoTxn} /\ Alike(txn, txn, Txn)
  BY DEF IInv, Types, Alike
<1>1. CASE \/ \E d \in Decls \ {"ns"} : AppendDecl(d)
           \/ setDefinitionShadowNS
           \/ \E val \in {kErrors, kWarnings} : setIssuedDiags(val)
           \/ clear
  <2>1. flags' = flags
    BY <1>1 DEF AppendDecl, setDefinitionShadowNS, setIssuedDiags, clear
  <2> QED
    BY <1>0, <1>1, <2>1, InsideIs, KeepOK
<1>2. CASE RollBack
  <2>1. flags' = flags
    BY <1>2 DEF RollBack
  <2> QED
    BY <1>2, <2>1, RollBackOK
<1>3. CASE ToggleDebug \/ PopEarly \/ UNCHANGED vars
  <2>1. /\ txn' = txn /\ current' = current /\ frames' = frames
        /\ flags' = flags
    BY <1>3 DEF ToggleDebug, PopEarly, pop, vars
  <2> QED
    BY <1>0, <2>1, KeepOK
<1>4. CASE OpenScope \/ OpenDebugger \/ Close
  <2>1. flags' \in Flags
    <3>1. CASE CloseFlags
      <4>1. frames \in Seq(Frame) /\ frames # <<>>
        BY <3>1 DEF CloseFlags, InnermostIs, IInv, Types
      <4>2. Len(frames) \in DOMAIN frames
        BY <4>1
      <4>3. frames[Len(frames)] \in Frame
        BY <4>1, <4>2
      <4>4. flags' = frames[Len(frames)].old
        BY <3>1 DEF CloseFlags, Innermost
      <4> QED
        BY <4>3, <4>4 DEF Frame
    <3>2. CASE ~CloseFlags
      BY <1>4, <3>2 DEF OpenScope, OpenDebugger, Close, Push, CloseScope,
         TakeSnapshot, CloseDebugger, Compare, CloseQuiet
    <3> QED
      BY <3>1, <3>2
  <2> QED
    BY <1>4, <2>1, ScopesOK
<1>5. CASE \E new \in Flags : OpenFlags(new)
  <2>1. PICK new \in Flags : OpenFlags(new)
    BY <1>5
  <2>2. flags' \in Flags
    BY <2>1 DEF OpenFlags
  <2> QED
    BY <2>1, <2>2, FlagsOK
<1>6. CASE \E t \in Txn : Destroy(t)
  <2>1. flags' = flags
    BY <1>6 DEF Destroy
  <2> QED
    BY <1>6, <2>1, DestroyOK
<1> QED
  BY <1>1, <1>2, <1>3, <1>4, <1>5, <1>6 DEF Next

\* At the start no scope is open.
LEMMA InvInit == Init => IInv /\ flags \in Flags
<1> SUFFICES ASSUME Init PROVE IInv /\ flags \in Flags
  OBVIOUS
<1>1. /\ frames = <<>> /\ current = NoTxn /\ flags \in Flags
      /\ txn = [t \in Txn |-> Unused]
  BY TransactionsAssumption DEF Init
<1>2. Active = {} /\ frames \in Seq(Frame) /\ DOMAIN frames = {}
  BY <1>1 DEF Active
<1>3. Unused \in Record({<<>>})
  BY DEF Unused, Record, State
<1>4. txn \in [Txn -> Record({<<>>})]
  BY <1>1, <1>3
<1>5. Typed(txn)
  BY <1>4 DEF Typed
<1> QED
  BY <1>1, <1>2, <1>5 DEF IInv, Types, Chain, OwnTransaction

\* The innermost of the active scopes inside a scope, by its transaction.
LEMMA ScopesAre == IInv => ScopesNest
<1> SUFFICES ASSUME IInv PROVE ScopesNest
  OBVIOUS
<1> DEFINE Outer(i) == {j \in Active : j < i}
           At(S) == CHOOSE i \in S : \A j \in S : j <= i
           Top(S) == IF S = {} THEN NoTxn ELSE frames[At(S)].txn
<1>1. Active \subseteq 1 .. Len(frames) /\ Len(frames) \in Nat
  BY ActiveAre DEF IInv
<1>2. ASSUME NEW S \in SUBSET Active, S # {}
      PROVE  At(S) \in S /\ \A j \in S : j <= At(S)
  <2>1. \E i \in S : \A j \in S : j <= i
    BY <1>1, <1>2, MaxExists
  <2> QED
    BY <2>1
<1> HIDE DEF At
<1>3. current = Top(Active)
  BY <1>2 DEF IInv, Chain
<1>4. ASSUME NEW i \in Active
      PROVE  txn[frames[i].txn].parent = Top(Outer(i))
  <2>1. CASE Outer(i) = {}
    <3>1. \A j \in Active : i <= j
      BY <1>1, <2>1
    <3> QED
      BY <2>1, <3>1 DEF IInv, Chain
  <2>2. CASE Outer(i) # {}
    <3>1. At(Outer(i)) \in Outer(i) /\ \A j \in Outer(i) : j <= At(Outer(i))
      BY <1>2, <2>2
    <3> QED
      BY <2>2, <3>1 DEF IInv, Chain
  <2> QED
    BY <2>1, <2>2
<1> QED
  BY <1>3, <1>4 DEF ScopesNest, At

-----------------------------------------------------------------------------
(* The tree of nested transactions: what a chain of parents reaches.       *)

Parents == [Txn -> Txn \cup {NoTxn}]

Closed(par, S) == \A x \in S : par[x] # NoTxn => par[x] \in S

\* t and the blocks it is nested in, for any parents, circular ones included:
\* what lies in every set that holds t and its members' parents.
Ancestors(par, t) ==
    {u \in Txn : \A S \in SUBSET Txn : t \in S /\ Closed(par, S) => u \in S}

Rooted(par, t) == \E r \in Ancestors(par, t) : par[r] = NoTxn

LEMMA AncestorsLeast ==
    ASSUME NEW par, NEW S \in SUBSET Txn, NEW t \in S, Closed(par, S)
    PROVE  Ancestors(par, t) \subseteq S
BY DEF Ancestors

\* A block is its own ancestor, and an ancestor's parent is an ancestor.
LEMMA AncestorsClosed ==
    ASSUME NEW par \in Parents, NEW t \in Txn
    PROVE  /\ t \in Ancestors(par, t) /\ Ancestors(par, t) \subseteq Txn
           /\ Closed(par, Ancestors(par, t))
<1>1. t \in Ancestors(par, t) /\ Ancestors(par, t) \subseteq Txn
  BY DEF Ancestors
<1>2. ASSUME NEW x \in Ancestors(par, t), par[x] # NoTxn
      PROVE  par[x] \in Ancestors(par, t)
  <2>1. par[x] \in Txn
    BY <1>1, <1>2 DEF Parents
  <2>2. ASSUME NEW S \in SUBSET Txn, t \in S, Closed(par, S)
        PROVE  par[x] \in S
    BY <1>2, <2>2 DEF Ancestors, Closed
  <2> QED
    BY <2>1, <2>2 DEF Ancestors
<1> QED
  BY <1>1, <1>2 DEF Closed

LEMMA AncestorsTransitive ==
    ASSUME NEW par \in Parents, NEW t \in Txn, NEW u \in Ancestors(par, t)
    PROVE  Ancestors(par, u) \subseteq Ancestors(par, t)
BY AncestorsClosed, AncestorsLeast

\* The ancestors of a block are itself and those of its parent.
LEMMA AncestorsStep ==
    ASSUME NEW par \in Parents, NEW t \in Txn
    PROVE  Ancestors(par, t) =
             {t} \cup (IF par[t] = NoTxn THEN {} ELSE Ancestors(par, par[t]))
<1> DEFINE R == {t} \cup (IF par[t] = NoTxn THEN {} ELSE Ancestors(par, par[t]))
<1>1. par[t] # NoTxn => par[t] \in Txn
  BY DEF Parents
<1>2. R \subseteq Ancestors(par, t)
  <2>1. t \in Ancestors(par, t) /\ (par[t] # NoTxn => par[t] \in Ancestors(par, t))
    BY AncestorsClosed DEF Closed
  <2> QED
    BY <2>1, AncestorsTransitive
<1>3. Ancestors(par, t) \subseteq R
  <2>1. R \in SUBSET Txn /\ t \in R
    BY <1>1, AncestorsClosed
  <2>2. Closed(par, R)
    <3>1. CASE par[t] = NoTxn
      BY <3>1 DEF Closed
    <3>2. CASE par[t] # NoTxn
      <4>1. /\ par[t] \in Ancestors(par, par[t])
            /\ Closed(par, Ancestors(par, par[t]))
        BY <1>1, <3>2, AncestorsClosed
      <4> QED
        BY <3>2, <4>1 DEF Closed
    <3> QED
      BY <3>1, <3>2
  <2> HIDE DEF R
  <2> QED
    BY <2>1, <2>2, AncestorsLeast
<1> QED
  BY <1>2, <1>3

\* A chain of parents ends at one block only.
LEMMA OneRoot ==
    ASSUME NEW par \in Parents, NEW t \in Txn,
           NEW q \in Ancestors(par, t), NEW r \in Ancestors(par, t),
           par[q] = NoTxn, par[r] = NoTxn
    PROVE  q = r
<1> DEFINE S == {x \in Ancestors(par, t) : q \in Ancestors(par, x)}
<1>0. Ancestors(par, t) \subseteq Txn /\ t \in Ancestors(par, t)
  BY AncestorsClosed
<1>1. S \in SUBSET Txn /\ t \in S
  BY <1>0
<1>2. Closed(par, S)
  <2> SUFFICES ASSUME NEW x \in S, par[x] # NoTxn PROVE par[x] \in S
    BY DEF Closed
  <2>1. x \in Txn /\ par[x] \in Ancestors(par, t)
    BY <1>0, AncestorsClosed DEF Closed
  <2>2. q \in {x} \cup Ancestors(par, par[x])
    BY <2>1, AncestorsStep
  <2> QED
    BY <2>1, <2>2
<1>3. r \in S
  <2> HIDE DEF S
  <2> QED
    BY <1>1, <1>2, AncestorsLeast
<1>4. q \in Ancestors(par, r) /\ r \in Txn
  BY <1>0, <1>3
<1>5. Ancestors(par, r) = {r}
  BY <1>4, AncestorsStep
<1> QED
  BY <1>4, <1>5

\* An ancestor other than the block itself is the parent of an ancestor.
LEMMA AncestorHasChild ==
    ASSUME NEW par \in Parents, NEW t \in Txn, NEW u \in Ancestors(par, t), u # t
    PROVE  \E x \in Ancestors(par, t) : par[x] = u
<1> SUFFICES ASSUME \A x \in Ancestors(par, t) : par[x] # u PROVE FALSE
  OBVIOUS
<1> DEFINE S == Ancestors(par, t) \ {u}
<1>1. S \in SUBSET Txn /\ t \in S
  BY AncestorsClosed
<1>2. Closed(par, S)
  BY AncestorsClosed DEF Closed
<1> HIDE DEF S
<1>3. u \in S
  BY <1>1, <1>2, AncestorsLeast
<1> QED
  BY <1>3 DEF S

\* Changing the parents of blocks outside a chain does not change the chain.
LEMMA AncestorsSame ==
    ASSUME NEW par \in Parents, NEW new \in Parents, NEW S \in SUBSET Txn,
           NEW t \in S, Closed(par, S), \A x \in S : new[x] = par[x]
    PROVE  Ancestors(new, t) = Ancestors(par, t)
<1>0. Closed(new, S)
  BY DEF Closed
<1>1. ASSUME NEW p \in Parents, NEW q \in Parents, Closed(p, S),
             \A x \in S : q[x] = p[x]
      PROVE  Ancestors(q, t) \subseteq Ancestors(p, t)
  <2>1. Ancestors(p, t) \subseteq S
    BY <1>1, AncestorsLeast
  <2>2. t \in Ancestors(p, t) /\ Closed(p, Ancestors(p, t))
    BY AncestorsClosed
  <2>3. Closed(q, Ancestors(p, t))
    BY <1>1, <2>1, <2>2 DEF Closed
  <2>4. Ancestors(p, t) \in SUBSET Txn
    BY <2>1
  <2> QED
    BY <2>2, <2>3, <2>4, AncestorsLeast
<1>2. Ancestors(new, t) \subseteq Ancestors(par, t)
  BY <1>1
<1>3. Ancestors(par, t) \subseteq Ancestors(new, t)
  BY <1>0, <1>1
<1> QED
  BY <1>2, <1>3

Par == [t \in Txn |-> txn[t].parent]

\* The recursive Line of a transaction whose parents end somewhere holds its
\* ancestors.
LEMMA LineIs ==
    ASSUME Par \in Parents, NEW t \in Txn, Rooted(Par, t)
    PROVE  Line(t) = Ancestors(Par, t)
<1> DEFINE Eq(g) == [u \in Txn |->
             {u} \cup (IF txn[u].parent = NoTxn THEN {} ELSE g[txn[u].parent])]
           up == CHOOSE g : g = Eq(g)
           A == [u \in Txn |-> Ancestors(Par, u)]
<1>1. \A u \in Txn : txn[u].parent = Par[u]
  BY DEF Par
<1>2. A = Eq(A)
  <2>1. ASSUME NEW u \in Txn
        PROVE  A[u] = {u} \cup (IF txn[u].parent = NoTxn THEN {} ELSE A[txn[u].parent])
    <3>1. Par[u] # NoTxn => Par[u] \in Txn
      BY DEF Parents
    <3> QED
      BY <1>1, <3>1, AncestorsStep
  <2> QED
    BY <2>1
<1>3. up = Eq(up)
  <2> HIDE DEF A
  <2> QED
    BY <1>2
<1>4. Line(t) = up[t]
  BY DEF Line
<1> HIDE DEF up, A
<1>5. \A u \in Txn : up[u] = {u} \cup (IF Par[u] = NoTxn THEN {} ELSE up[Par[u]])
  BY <1>1, <1>3
<1> DEFINE B == {u \in Ancestors(Par, t) : up[u] # Ancestors(Par, u)}
<1>6. ASSUME t \in B PROVE FALSE
  <2>0. Ancestors(Par, t) \subseteq Txn
    BY AncestorsClosed
  <2>1. Closed(Par, B)
    <3> SUFFICES ASSUME NEW u \in B, Par[u] # NoTxn PROVE Par[u] \in B
      BY DEF Closed
    <3>1. u \in Txn /\ Par[u] \in Ancestors(Par, t)
      BY <2>0, AncestorsClosed DEF Closed
    <3>2. up[u] = {u} \cup up[Par[u]]
      BY <1>5, <3>1
    <3>3. Ancestors(Par, u) = {u} \cup Ancestors(Par, Par[u])
      BY <3>1, AncestorsStep
    <3> QED
      BY <3>1, <3>2, <3>3
  <2>2. PICK r \in Ancestors(Par, t) : Par[r] = NoTxn
    BY DEF Rooted
  <2>3. r \in B
    <3>1. B \in SUBSET Txn
      BY <2>0
    <3> HIDE DEF B
    <3> QED
      BY <1>6, <2>1, <2>2, <3>1, AncestorsLeast
  <2>4. up[r] = {r} /\ Ancestors(Par, r) = {r}
    BY <1>5, <2>0, <2>2, AncestorsStep
  <2> QED
    BY <2>3, <2>4
<1>7. t \in Ancestors(Par, t)
  BY AncestorsClosed
<1> QED
  BY <1>4, <1>6, <1>7

-----------------------------------------------------------------------------
(* The lists of nested transactions and the parents.                       *)

Live(f) == {t \in Txn : f[t].state # "numStates"}

ParentOf(f) == [t \in Txn |-> f[t].parent]

\* What the pool hands out has no place in a list, and the lists of the
\* blocks in use are the parents' inverse.
Listed(f) ==
    \A t \in Live(f) :
      /\ f[t].owns => f[t].nested # <<>>
      /\ \A i \in DOMAIN f[t].nested :
           f[t].nested[i] \in Live(f) /\ f[f[t].nested[i]].parent = t
      /\ \A i, j \in DOMAIN f[t].nested : f[t].nested[i] = f[t].nested[j] => i = j
      /\ \A u \in Live(f) : f[u].parent = t =>
           \E i \in DOMAIN f[t].nested : f[t].nested[i] = u

\* A block in use is nested in one in use, and at the end in a topmost one.
Planted(f) ==
    \A t \in Live(f) :
      f[t].parent \in Live(f) \cup {NoTxn} /\ Rooted(ParentOf(f), t)

LEMMA TransactionIs ==
    ASSUME NEW f \in [Txn -> Transaction], NEW t \in Txn
    PROVE  /\ f[t] \in Transaction
           /\ f[t].parent \in Txn \cup {NoTxn} /\ f[t].nested \in Seq(Txn)
           /\ DOMAIN f[t].nested = 1 .. Len(f[t].nested)
           /\ Len(f[t].nested) \in Nat
<1>1. f[t] \in Transaction
  OBVIOUS
<1>2. f[t].parent \in Txn \cup {NoTxn} /\ f[t].nested \in Seq(Txn)
  BY <1>1 DEF Transaction
<1> QED
  BY <1>1, <1>2

LEMMA ParentOfIs ==
    ASSUME NEW f \in [Txn -> Transaction]
    PROVE  ParentOf(f) \in Parents /\ \A t \in Txn : ParentOf(f)[t] = f[t].parent
BY TransactionIs DEF ParentOf, Parents

\* The element at one place is removed, and the others stay in order.
LEMMA RemoveAtIs ==
    ASSUME NEW S, NEW s \in Seq(S), NEW i \in 1 .. Len(s)
    PROVE  /\ RemoveAt(s, i) \in Seq(S) /\ Len(RemoveAt(s, i)) = Len(s) - 1
           /\ \A k \in 1 .. Len(s) - 1 :
                RemoveAt(s, i)[k] = IF k < i THEN s[k] ELSE s[k + 1]
<1> DEFINE a == SubSeq(s, 1, i - 1)
           b == SubSeq(s, i + 1, Len(s))
<1>1. PICK n \in Nat : n = Len(s)
  OBVIOUS
<1>2. i \in 1 .. n
  BY <1>1
<1>3. /\ a \in Seq(S) /\ Len(a) = i - 1
      /\ \A k \in 1 .. i - 1 : a[k] = s[k]
  BY <1>1, <1>2
<1>4. /\ b \in Seq(S) /\ Len(b) = n - i
      /\ \A k \in 1 .. n - i : b[k] = s[k + i]
  BY <1>1, <1>2
<1>5. RemoveAt(s, i) = a \o b
  BY DEF RemoveAt
<1> HIDE DEF a, b
<1>6. /\ a \o b \in Seq(S) /\ Len(a \o b) = n - 1
      /\ \A k \in 1 .. n - 1 : (a \o b)[k] = IF k <= i - 1 THEN a[k] ELSE b[k - (i - 1)]
  <2>4. a \in Seq(S) /\ b \in Seq(S)
    BY <1>3, <1>4
  <2>1. /\ a \o b \in Seq(S) /\ Len(a \o b) = Len(a) + Len(b)
    BY <2>4, ConcatProperties
  <2>2. \A k \in 1 .. Len(a) + Len(b) :
          (a \o b)[k] = IF k <= Len(a) THEN a[k] ELSE b[k - Len(a)]
    BY <2>4, ConcatProperties
  <2>3. Len(a) + Len(b) = n - 1
    BY <1>2, <1>3, <1>4
  <2> QED
    BY <1>3, <2>1, <2>2, <2>3
<1>7. ASSUME NEW k \in 1 .. n - 1
      PROVE  (a \o b)[k] = IF k < i THEN s[k] ELSE s[k + 1]
  <2>1. CASE k < i
    BY <1>2, <1>3, <1>6, <2>1
  <2>2. CASE ~(k < i)
    <3>1. k - (i - 1) \in 1 .. n - i /\ (k - (i - 1)) + i = k + 1
      BY <1>2, <2>2
    <3> QED
      BY <1>2, <1>4, <1>6, <2>2, <3>1
  <2> QED
    BY <2>1, <2>2
<1> QED
  BY <1>1, <1>5, <1>6, <1>7

\* Removing what is in a list once leaves the others, each once.
LEMMA RemoveFirstIs ==
    ASSUME NEW S, NEW s \in Seq(S), NEW i \in DOMAIN s,
           \A j, k \in DOMAIN s : s[j] = s[k] => j = k
    PROVE  LET r == RemoveFirst(s, s[i])
           IN  /\ r \in Seq(S)
               /\ \A k \in DOMAIN r : \E j \in DOMAIN s : j # i /\ r[k] = s[j]
               /\ \A j \in DOMAIN s : j # i => \E k \in DOMAIN r : r[k] = s[j]
               /\ \A j, k \in DOMAIN r : r[j] = r[k] => j = k
<1> DEFINE I == {k \in 1 .. Len(s) : s[k] = s[i]}
           r == RemoveAt(s, i)
<1>1. PICK n \in Nat : n = Len(s)
  OBVIOUS
<1>2. DOMAIN s = 1 .. n
  BY <1>1
<1>3. I = {i}
  BY <1>1, <1>2
<1>4. SelectInSeq(s, LAMBDA v : v = s[i]) = i
  <2>1. SelectInSeq(s, LAMBDA v : v = s[i]) = Min(I)
    BY <1>3 DEF SelectInSeq
  <2> HIDE DEF I
  <2>2. Min(I) = i
    BY <1>2, <1>3 DEF Min
  <2> QED
    BY <2>1, <2>2
<1>5. RemoveFirst(s, s[i]) = r
  BY <1>1, <1>2, <1>4 DEF RemoveFirst
<1>6. /\ r \in Seq(S) /\ Len(r) = n - 1
      /\ \A k \in 1 .. n - 1 : r[k] = IF k < i THEN s[k] ELSE s[k + 1]
  <2>1. i \in 1 .. Len(s)
    BY <1>1, <1>2
  <2>2. /\ r \in Seq(S) /\ Len(r) = Len(s) - 1
        /\ \A k \in 1 .. Len(s) - 1 : r[k] = IF k < i THEN s[k] ELSE s[k + 1]
    BY <2>1, RemoveAtIs
  <2> QED
    BY <1>1, <2>2
<1> HIDE DEF r, I
<1>7. DOMAIN r = 1 .. n - 1
  BY <1>6
<1>8. ASSUME NEW k \in 1 .. n - 1
      PROVE  \E j \in DOMAIN s : j # i /\ r[k] = s[j] /\ (j = k \/ j = k + 1)
                                 /\ (j < i => j = k) /\ (i < j => j = k + 1)
  <2>1. CASE k < i
    BY <1>2, <1>6, <2>1
  <2>2. CASE ~(k < i)
    BY <1>2, <1>6, <2>2
  <2> QED
    BY <2>1, <2>2
<1>9. ASSUME NEW j \in DOMAIN s, j # i
      PROVE  \E k \in DOMAIN r : r[k] = s[j]
  <2>1. CASE j < i
    BY <1>2, <1>6, <1>7, <2>1
  <2>2. CASE ~(j < i)
    <3>1. j - 1 \in 1 .. n - 1 /\ ~(j - 1 < i) /\ (j - 1) + 1 = j
      BY <1>2, <1>9, <2>2
    <3> QED
      BY <1>6, <1>7, <3>1
  <2> QED
    BY <2>1, <2>2
<1>10. ASSUME NEW j \in 1 .. n - 1, NEW k \in 1 .. n - 1, r[j] = r[k]
       PROVE  j = k
  <2>1. PICK x \in DOMAIN s : /\ x # i /\ r[j] = s[x] /\ (x = j \/ x = j + 1)
                              /\ (x < i => x = j) /\ (i < x => x = j + 1)
    BY <1>8
  <2>2. PICK y \in DOMAIN s : /\ y # i /\ r[k] = s[y] /\ (y = k \/ y = k + 1)
                              /\ (y < i => y = k) /\ (i < y => y = k + 1)
    BY <1>8
  <2>3. x = y
    BY <1>10, <2>1, <2>2
  <2> QED
    BY <1>2, <2>1, <2>2, <2>3
<1> QED
  BY <1>5, <1>6, <1>7, <1>8, <1>9, <1>10

\* A step that leaves the lists, the parents and the pool alone.
LEMMA SameTree ==
    ASSUME NEW f \in [Txn -> Transaction], NEW g \in [Txn -> Transaction],
           Listed(f), Planted(f),
           \A u \in Txn : /\ g[u].parent = f[u].parent
                          /\ g[u].nested = f[u].nested /\ g[u].owns = f[u].owns
                          /\ g[u].state = "numStates" <=> f[u].state = "numStates"
    PROVE  Listed(g) /\ Planted(g) /\ Live(g) = Live(f) /\ ParentOf(g) = ParentOf(f)
<1>1. Live(g) = Live(f) /\ ParentOf(g) = ParentOf(f)
  BY DEF Live, ParentOf
<1>2. Listed(g)
  <2> SUFFICES ASSUME NEW t \in Live(f)
               PROVE  /\ g[t].owns => g[t].nested # <<>>
                      /\ \A i \in DOMAIN g[t].nested :
                           g[t].nested[i] \in Live(f) /\ g[g[t].nested[i]].parent = t
                      /\ \A i, j \in DOMAIN g[t].nested :
                           g[t].nested[i] = g[t].nested[j] => i = j
                      /\ \A u \in Live(f) : g[u].parent = t =>
                           \E i \in DOMAIN g[t].nested : g[t].nested[i] = u
    BY <1>1 DEF Listed
  <2>1. t \in Txn /\ g[t].nested = f[t].nested /\ g[t].owns = f[t].owns
    BY DEF Live
  <2>2. \A u \in Live(f) : g[u].parent = f[u].parent
    BY DEF Live
  <2> QED
    BY <2>1, <2>2 DEF Listed
<1>3. Planted(g)
  <2> SUFFICES ASSUME NEW t \in Live(f)
               PROVE  g[t].parent \in Live(f) \cup {NoTxn} /\ Rooted(ParentOf(f), t)
    BY <1>1 DEF Planted
  <2>1. g[t].parent = f[t].parent
    BY DEF Live
  <2> QED
    BY <2>1 DEF Planted
<1> QED
  BY <1>1, <1>2, <1>3

\* beginTransaction: the fresh block joins the end of its parent's list.
LEMMA BeginSets ==
    ASSUME txn \in [Txn -> Transaction], NEW t \in Txn,
           current \in Txn \cup {NoTxn}, current # t, beginTransaction(t)
    PROVE  /\ txn' \in [Txn -> Transaction]
           /\ txn'[t] = [Initialize(txn[t]) EXCEPT !.parent = current]
           /\ \A u \in Txn \ {t} : u # current => txn'[u] = txn[u]
           /\ current # NoTxn =>
                txn'[current] = [txn[current] EXCEPT !.owns = TRUE,
                                   !.nested = Append(txn[current].nested, t)]
<1> DEFINE a == [txn EXCEPT ![t] = Initialize(@)]
           r == Initialize(txn[t])
           s == [r EXCEPT !.parent = current]
<1>1. r \in Transaction /\ r.parent = NoTxn
  <2>1. PICK N : N = Seq(Txn)
    OBVIOUS
  <2>2. Transaction = Record(N) /\ <<>> \in N
    BY <2>1 DEF Transaction, Record
  <2>3. txn[t] \in Record(N)
    BY <2>2
  <2>4. r \in Record(N) /\ r.parent = NoTxn
    BY <2>2, <2>3 DEF Initialize, Record, State
  <2> QED
    BY <2>2, <2>4
<1>2. a \in [Txn -> Transaction] /\ a[t] = r /\ \A u \in Txn \ {t} : a[u] = txn[u]
  <2> HIDE DEF r
  <2>1. a = [txn EXCEPT ![t] = r]
    BY DEF r
  <2> HIDE DEF a
  <2> QED
    BY <1>1, <2>1
<1>3. txn' = NestIn(a, current, t)
  BY DEF beginTransaction
<1> HIDE DEF a
<1>4. CASE current = NoTxn
  <2>1. txn' = a
    BY <1>3, <1>4 DEF NestIn
  <2>2. s = r
    <3> HIDE DEF r
    <3> QED
      BY <1>1, <1>4 DEF Transaction
  <2> HIDE DEF r, s
  <2>3. txn'[t] = s
    BY <1>2, <2>1, <2>2
  <2> QED
    BY <1>2, <1>4, <2>1, <2>3 DEF r, s
<1>5. CASE current \in Txn
  <2> DEFINE list == Append(txn[current].nested, t)
             q == [txn[current] EXCEPT !.owns = TRUE, !.nested = list]
             b == [a EXCEPT ![t].parent = current]
             c == [b EXCEPT ![current].owns = TRUE, ![current].nested = Append(@, t)]
  <2>1. current # NoTxn
    BY <1>5, TransactionsAssumption
  <2>2. txn' = c
    BY <1>3, <2>1 DEF NestIn
  <2>3. /\ s \in Transaction /\ b \in [Txn -> Transaction]
        /\ b[t] = s /\ \A u \in Txn \ {t} : b[u] = txn[u]
    <3>1. s \in Transaction
      <4> HIDE DEF r
      <4> QED
        BY <1>1 DEF Transaction
    <3> HIDE DEF r, s
    <3>2. b = [a EXCEPT ![t] = s]
      BY <1>2 DEF s
    <3> HIDE DEF b
    <3> QED
      BY <1>2, <3>1, <3>2
  <2>4. q \in Transaction
    <3>1. txn[current] \in Transaction /\ list \in Seq(Txn)
      BY <1>5, TransactionIs
    <3> HIDE DEF list
    <3> QED
      BY <3>1 DEF Transaction
  <2>5. b[current] = txn[current]
    BY <1>5, <2>3
  <2> HIDE DEF b
  <2>6. c = [b EXCEPT ![current] = q]
    BY <2>5
  <2>7. c \in [Txn -> Transaction] /\ c[current] = q /\ \A u \in Txn \ {current} : c[u] = b[u]
    <3> HIDE DEF c, q
    <3> QED
      BY <1>5, <2>3, <2>4, <2>6
  <2> HIDE DEF c, q, r, s
  <2>8. txn'[t] = s /\ \A u \in Txn \ {t} : u # current => txn'[u] = txn[u]
    BY <2>2, <2>3, <2>7
  <2>9. txn'[current] = q
    BY <2>2, <2>7
  <2> QED
    BY <2>2, <2>7, <2>8, <2>9 DEF q, r, s
<1> QED
  BY <1>4, <1>5

\* An empty transaction leaves its parent's list, which goes with the last.
LEMMA ReleaseSets ==
    ASSUME txn \in [Txn -> Transaction], NEW t \in Txn, release(t),
           txn[t].parent # t,
           NEW p, p = txn[t].parent,
           NEW rest, rest = RemoveFirst(txn[p].nested, t),
           p # NoTxn => rest \in Seq(Txn),
           NEW w \in BOOLEAN, w <=> rest # <<>>
    PROVE  /\ txn' \in [Txn -> Transaction]
           /\ txn'[t] = Retired(txn[t])
           /\ \A u \in Txn \ {t} : u # p => txn'[u] = txn[u]
           /\ p # NoTxn =>
                /\ txn'[p].nested = rest /\ txn'[p].owns = w
                /\ txn'[p].state = txn[p].state /\ txn'[p].parent = txn[p].parent
                /\ txn'[p].diags = txn[p].diags /\ txn'[p].decls = txn[p].decls
                /\ txn'[p].shadow = txn[p].shadow
                /\ txn'[p].failed = txn[p].failed
<1> DEFINE a == Unnest(txn, t)
           r == Retired(txn[t])
<1>1. r \in Transaction
  <2>1. PICK N : N = Seq(Txn)
    OBVIOUS
  <2>2. Transaction = Record(N) /\ <<>> \in N
    BY <2>1 DEF Transaction, Record
  <2>3. txn[t] \in Record(N)
    BY <2>2
  <2>4. r \in Record(N)
    BY <2>2, <2>3 DEF Retired, Record, State
  <2> QED
    BY <2>2, <2>4
<1>2. txn' = [a EXCEPT ![t] = Retired(@)]
  BY DEF release
<1>3. p \in Txn \cup {NoTxn} /\ p # t
  BY TransactionIs
<1>4. CASE p = NoTxn
  <2>1. a = txn
    BY <1>4 DEF Unnest
  <2> HIDE DEF a
  <2>2. txn' = [txn EXCEPT ![t] = r]
    BY <1>2, <2>1
  <2> HIDE DEF r
  <2>3. txn'[t] = r
    BY <2>2
  <2> QED
    BY <1>1, <1>4, <2>2, <2>3 DEF r
<1>5. CASE p \in Txn
  <2> DEFINE q == [txn[p] EXCEPT !.nested = rest, !.owns = w]
             b == [txn EXCEPT ![p].nested = rest, ![p].owns = rest # <<>>]
  <2>1. p # NoTxn
    BY <1>5, TransactionsAssumption
  <2>2. a = b
    BY <2>1 DEF Unnest
  <2>3. /\ q \in Transaction /\ q.nested = rest /\ q.owns = w
        /\ q.state = txn[p].state /\ q.parent = txn[p].parent
        /\ q.diags = txn[p].diags /\ q.decls = txn[p].decls
        /\ q.shadow = txn[p].shadow /\ q.failed = txn[p].failed
    <3>1. txn[p] \in Transaction
      BY <1>5
    <3> QED
      BY <2>1, <3>1 DEF Transaction
  <2>4. b = [txn EXCEPT ![p] = q]
    OBVIOUS
  <2> HIDE DEF a, b, q
  <2>5. /\ a \in [Txn -> Transaction] /\ a[p] = q
        /\ \A u \in Txn \ {p} : a[u] = txn[u]
    BY <1>5, <2>2, <2>3, <2>4
  <2>6. txn' = [a EXCEPT ![t] = r]
    BY <1>2, <1>3, <2>5
  <2> HIDE DEF r
  <2>7. /\ txn' \in [Txn -> Transaction] /\ txn'[t] = r
        /\ \A u \in Txn \ {t} : txn'[u] = a[u]
    BY <1>1, <2>5, <2>6
  <2>8. txn'[p] = q /\ \A u \in Txn \ {t} : u # p => txn'[u] = txn[u]
    BY <1>3, <1>5, <2>5, <2>7
  <2> QED
    BY <2>3, <2>7, <2>8 DEF r
<1> QED
  BY <1>3, <1>4, <1>5

\* Where errors were issued, the topmost parent knows; a block in the pool has
\* forgotten them.
Blamed(f) ==
    \A t \in Txn : f[t].failed =>
      /\ t \in Live(f)
      /\ \A r \in Ancestors(ParentOf(f), t) :
           f[r].parent = NoTxn => f[r].diags = kErrors

\* What knows of errors had them in this life of the block, or what is nested
\* in it did.
Owing(f) == \A t \in Live(f) : f[t].diags = kErrors => f[t].failed

Tree(f) ==
    f \in [Txn -> Transaction] /\ Listed(f) /\ Planted(f) /\ Blamed(f) /\ Owing(f)

\* The ancestors of what is in use are in use.
LEMMA LiveClosed ==
    ASSUME NEW f \in [Txn -> Transaction], Planted(f)
    PROVE  /\ Closed(ParentOf(f), Live(f)) /\ Live(f) \in SUBSET Txn
           /\ \A t \in Live(f) : Ancestors(ParentOf(f), t) \subseteq Live(f)
<1>1. Live(f) \in SUBSET Txn
  BY DEF Live
<1>2. Closed(ParentOf(f), Live(f))
  BY <1>1, ParentOfIs DEF Closed, Planted
<1> QED
  BY <1>1, <1>2, AncestorsLeast

\* A block joins the tree.
LEMMA BeginTree ==
    ASSUME Tree(txn), NEW t \in Txn, current \in Live(txn) \cup {NoTxn},
           beginTransaction(t)
    PROVE  Tree(txn') /\ Live(txn') = Live(txn) \cup {t}
<1> DEFINE f == txn
           g == txn'
           c == current
<1>1. f \in [Txn -> Transaction] /\ Listed(f) /\ Planted(f) /\ Blamed(f) /\ Owing(f)
  BY DEF Tree
<1>2. t \notin Live(f) /\ c # t /\ c \in Txn \cup {NoTxn}
  BY TransactionsAssumption DEF beginTransaction, Pooled, Live
<1>3. /\ g \in [Txn -> Transaction]
      /\ g[t] = [Initialize(f[t]) EXCEPT !.parent = c]
      /\ \A u \in Txn \ {t} : u # c => g[u] = f[u]
      /\ c # NoTxn => g[c] = [f[c] EXCEPT !.owns = TRUE, !.nested = Append(f[c].nested, t)]
  BY <1>1, <1>2, BeginSets
<1>4. /\ g[t].parent = c /\ g[t].nested = <<>> /\ g[t].owns = FALSE
      /\ g[t].state = "collecting" /\ g[t].diags # kErrors /\ g[t].failed = f[t].failed
  <2>1. f[t] \in Transaction
    BY <1>1
  <2> QED
    BY <1>3, <2>1 DEF Initialize, Transaction, kNone, kErrors
<1>5. c # NoTxn =>
        /\ c \in Live(f) /\ c \in Txn /\ g[c].owns = TRUE
        /\ g[c].nested = Append(f[c].nested, t)
        /\ g[c].state = f[c].state /\ g[c].parent = f[c].parent
        /\ g[c].diags = f[c].diags /\ g[c].decls = f[c].decls
        /\ g[c].shadow = f[c].shadow /\ g[c].failed = f[c].failed
  <2> SUFFICES ASSUME c # NoTxn
               PROVE  /\ c \in Live(f) /\ c \in Txn /\ g[c].owns = TRUE
                      /\ g[c].nested = Append(f[c].nested, t)
                      /\ g[c].state = f[c].state /\ g[c].parent = f[c].parent
                      /\ g[c].diags = f[c].diags /\ g[c].decls = f[c].decls
                      /\ g[c].shadow = f[c].shadow /\ g[c].failed = f[c].failed
    OBVIOUS
  <2>1. c \in Live(f) /\ c \in Txn
    BY <1>2
  <2>2. f[c] \in Transaction
    BY <1>1, <2>1
  <2> QED
    BY <1>3, <2>1, <2>2 DEF Transaction
<1> HIDE DEF f, g, c
<1>6. \A u \in Txn \ {t} :
        /\ g[u].state = f[u].state /\ g[u].parent = f[u].parent
        /\ g[u].diags = f[u].diags /\ g[u].decls = f[u].decls
        /\ g[u].shadow = f[u].shadow /\ g[u].failed = f[u].failed
  BY <1>3, <1>5, TransactionsAssumption
<1>7. Live(g) = Live(f) \cup {t}
  BY <1>2, <1>4, <1>6 DEF Live
<1>8. \A u \in Live(f) : u \in Txn \ {t} /\ f[u].parent \in Live(f) \cup {NoTxn}
  BY <1>1, <1>2 DEF Live, Planted
<1>9. Listed(g)
  <2> SUFFICES ASSUME NEW x \in Live(f) \cup {t}
               PROVE  /\ g[x].owns => g[x].nested # <<>>
                      /\ \A i \in DOMAIN g[x].nested :
                           /\ g[x].nested[i] \in Live(f) \cup {t}
                           /\ g[g[x].nested[i]].parent = x
                      /\ \A i, j \in DOMAIN g[x].nested :
                           g[x].nested[i] = g[x].nested[j] => i = j
                      /\ \A u \in Live(f) \cup {t} : g[u].parent = x =>
                           \E i \in DOMAIN g[x].nested : g[x].nested[i] = u
    BY <1>7 DEF Listed
  <2>1. CASE x = t
    <3>1. \A u \in Live(f) \cup {t} : g[u].parent # t
      BY <1>2, <1>4, <1>6, <1>8, TransactionsAssumption
    <3> QED
      BY <1>4, <2>1, <3>1
  <2>2. CASE x \in Live(f) /\ x = c
    <3> DEFINE old == f[c].nested
    <3>0. c \in Txn
      BY <1>8, <2>2
    <3>1. PICK n \in Nat : n = Len(old)
      BY <1>1, <3>0, TransactionIs
    <3>2. /\ old \in Seq(Txn) /\ DOMAIN old = 1 .. n
          /\ \A i \in DOMAIN old : old[i] \in Live(f) /\ f[old[i]].parent = c
          /\ \A i, j \in DOMAIN old : old[i] = old[j] => i = j
          /\ \A u \in Live(f) : f[u].parent = c => \E i \in DOMAIN old : old[i] = u
      BY <1>1, <2>2, <3>0, <3>1, TransactionIs DEF Listed
    <3>3. g[c].nested = Append(old, t) /\ c # NoTxn
      BY <1>5, <1>8, <2>2, TransactionsAssumption
    <3> HIDE DEF old
    <3> DEFINE new == Append(old, t)
    <3>4. /\ DOMAIN new = 1 .. n + 1 /\ new[n + 1] = t /\ new # <<>>
          /\ \A i \in 1 .. n : new[i] = old[i]
      <4>1. new \in Seq(Txn) /\ Len(new) = n + 1
        BY <3>1, <3>2
      <4>2. new[n + 1] = t /\ \A i \in 1 .. n : new[i] = old[i]
        BY <3>1, <3>2
      <4> HIDE DEF new
      <4> QED
        BY <3>1, <4>1, <4>2
    <3> HIDE DEF new
    <3>5. \A i \in 1 .. n + 1 : i \in 1 .. n \/ i = n + 1
      BY <3>1
    <3>6. \A i \in 1 .. n : new[i] # t
      BY <1>2, <3>2, <3>4
    <3>7. \A i \in 1 .. n + 1 : new[i] \in Live(f) \cup {t} /\ g[new[i]].parent = c
      BY <1>4, <1>6, <1>8, <3>2, <3>4, <3>5
    <3>8. \A i, j \in 1 .. n + 1 : new[i] = new[j] => i = j
      BY <3>2, <3>4, <3>5, <3>6
    <3>9. \A u \in Live(f) \cup {t} : g[u].parent = c => \E i \in 1 .. n + 1 : new[i] = u
      <4>1. 1 .. n \subseteq 1 .. n + 1 /\ n + 1 \in 1 .. n + 1
        BY <3>1
      <4> QED
        BY <1>6, <1>8, <3>2, <3>4, <4>1
    <3>10. g[x].nested = new /\ x = c
      BY <2>2, <3>3 DEF new
    <3>11. DOMAIN g[x].nested = 1 .. n + 1 /\ g[x].nested # <<>>
      BY <3>4, <3>10
    <3> QED
      BY <3>7, <3>8, <3>9, <3>10, <3>11
  <2>3. CASE x \in Live(f) /\ x # c
    <3>1. g[x] = f[x] /\ x # t
      BY <1>3, <1>8, <2>3
    <3>2. g[t].parent # x
      BY <1>4, <2>3
    <3> QED
      BY <1>1, <1>6, <1>8, <2>3, <3>1, <3>2 DEF Listed
  <2> QED
    BY <2>1, <2>2, <2>3
<1>10. /\ ParentOf(f) \in Parents /\ \A u \in Txn : ParentOf(f)[u] = f[u].parent
       /\ ParentOf(g) \in Parents /\ \A u \in Txn : ParentOf(g)[u] = g[u].parent
  BY <1>1, <1>3, ParentOfIs
<1>11. \A u \in Live(f) : /\ Ancestors(ParentOf(g), u) = Ancestors(ParentOf(f), u)
                          /\ Ancestors(ParentOf(f), u) \subseteq Live(f)
  <2>1. /\ Closed(ParentOf(f), Live(f)) /\ Live(f) \in SUBSET Txn
        /\ \A u \in Live(f) : Ancestors(ParentOf(f), u) \subseteq Live(f)
    BY <1>1, LiveClosed
  <2>2. \A u \in Live(f) : ParentOf(g)[u] = ParentOf(f)[u]
    BY <1>6, <1>8, <1>10
  <2> QED
    BY <1>10, <2>1, <2>2, AncestorsSame
<1>12. \A u \in Live(f) : Rooted(ParentOf(g), u)
  <2> SUFFICES ASSUME NEW u \in Live(f) PROVE Rooted(ParentOf(g), u)
    OBVIOUS
  <2>1. PICK r \in Ancestors(ParentOf(f), u) : ParentOf(f)[r] = NoTxn
    BY <1>1 DEF Planted, Rooted
  <2>2. r \in Txn \ {t} /\ ParentOf(g)[r] = NoTxn
    BY <1>6, <1>8, <1>10, <1>11, <2>1
  <2> QED
    BY <1>11, <2>1, <2>2 DEF Rooted
<1>13. Planted(g)
  <2>1. ASSUME NEW u \in Live(f)
        PROVE  g[u].parent \in Live(g) \cup {NoTxn} /\ Rooted(ParentOf(g), u)
    BY <1>6, <1>7, <1>8, <1>12
  <2>2. g[t].parent \in Live(g) \cup {NoTxn}
    BY <1>4, <1>7 DEF c, f
  <2>3. Rooted(ParentOf(g), t)
    <3>1. CASE c = NoTxn
      <4>1. t \in Ancestors(ParentOf(g), t) /\ ParentOf(g)[t] = NoTxn
        BY <1>4, <1>10, <3>1, AncestorsClosed
      <4> QED
        BY <4>1 DEF Rooted
    <3>2. CASE c # NoTxn
      <4>1. c \in Live(f) /\ ParentOf(g)[t] = c
        BY <1>4, <1>5, <1>10, <3>2
      <4>2. PICK r \in Ancestors(ParentOf(g), c) : ParentOf(g)[r] = NoTxn
        BY <1>12, <4>1 DEF Rooted
      <4>3. r \in Ancestors(ParentOf(g), t)
        BY <1>10, <3>2, <4>1, <4>2, AncestorsStep
      <4> QED
        BY <4>2, <4>3 DEF Rooted
    <3> QED
      BY <3>1, <3>2
  <2> QED
    BY <1>7, <2>1, <2>2, <2>3 DEF Planted
<1>14. Blamed(g)
  <2> SUFFICES ASSUME NEW u \in Txn, g[u].failed
               PROVE  /\ u \in Live(g)
                      /\ \A r \in Ancestors(ParentOf(g), u) :
                           g[r].parent = NoTxn => g[r].diags = kErrors
    BY DEF Blamed
  <2>1. u \in Live(f)
    BY <1>1, <1>2, <1>4, <1>6 DEF Blamed
  <2>2. ASSUME NEW r \in Ancestors(ParentOf(g), u), g[r].parent = NoTxn
        PROVE  g[r].diags = kErrors
    <3>1. r \in Ancestors(ParentOf(f), u) /\ r \in Live(f)
      BY <1>11, <2>1
    <3>2. f[r].parent = NoTxn /\ g[r].diags = f[r].diags /\ f[u].failed
      BY <1>6, <1>8, <2>1, <2>2, <3>1
    <3> QED
      BY <1>1, <3>1, <3>2 DEF Blamed
  <2> QED
    BY <1>7, <2>1, <2>2
<1>15. Owing(g)
  BY <1>1, <1>4, <1>6, <1>7, <1>8 DEF Owing
<1>16. g \in [Txn -> Transaction]
  BY <1>3
<1> QED
  BY <1>7, <1>9, <1>13, <1>14, <1>15, <1>16 DEF Tree, f, g

\* An empty transaction leaves the tree.
LEMMA ReleaseTree ==
    ASSUME Tree(txn), NEW t \in Live(txn), empty(t), release(t)
    PROVE  Tree(txn') /\ Live(txn') = Live(txn) \ {t}
<1> DEFINE f == txn
           g == txn'
<1>1. f \in [Txn -> Transaction] /\ Listed(f) /\ Planted(f) /\ Blamed(f) /\ Owing(f)
  BY DEF Tree
<1>2. t \in Txn /\ f[t].nested = <<>> /\ \A u \in Live(f) : f[u].parent # t
  <2>1. t \in Txn /\ f[t].nested = <<>>
    BY DEF Live, empty
  <2> QED
    BY <1>1, <2>1 DEF Listed
<1> DEFINE p == f[t].parent
           rest == RemoveFirst(f[p].nested, t)
<1>3. p # t /\ p \in Live(f) \cup {NoTxn}
  BY <1>1, <1>2 DEF Planted
<1>4. p # NoTxn =>
        /\ rest \in Seq(Txn)
        /\ \A k \in DOMAIN rest : rest[k] \in Live(f) \ {t} /\ f[rest[k]].parent = p
        /\ \A u \in Live(f) \ {t} : f[u].parent = p => \E k \in DOMAIN rest : rest[k] = u
        /\ \A j, k \in DOMAIN rest : rest[j] = rest[k] => j = k
  <2> SUFFICES ASSUME p # NoTxn
               PROVE  /\ rest \in Seq(Txn)
                      /\ \A k \in DOMAIN rest :
                           rest[k] \in Live(f) \ {t} /\ f[rest[k]].parent = p
                      /\ \A u \in Live(f) \ {t} :
                           f[u].parent = p => \E k \in DOMAIN rest : rest[k] = u
                      /\ \A j, k \in DOMAIN rest : rest[j] = rest[k] => j = k
    OBVIOUS
  <2>1. p \in Live(f) /\ p \in Txn
    BY <1>3 DEF Live
  <2> DEFINE old == f[p].nested
  <2>2. /\ old \in Seq(Txn)
        /\ \A i \in DOMAIN old : old[i] \in Live(f) /\ f[old[i]].parent = p
        /\ \A i, j \in DOMAIN old : old[i] = old[j] => i = j
        /\ \A u \in Live(f) : f[u].parent = p => \E i \in DOMAIN old : old[i] = u
    <3>1. old \in Seq(Txn)
      BY <1>1, <2>1, TransactionIs
    <3> QED
      BY <1>1, <2>1, <3>1 DEF Listed
  <2> HIDE DEF f
  <2>3. PICK i \in DOMAIN old : old[i] = t
    BY <2>2 DEF f
  <2> HIDE DEF old, p
  <2>4. /\ rest \in Seq(Txn)
        /\ \A k \in DOMAIN rest : \E j \in DOMAIN old : j # i /\ rest[k] = old[j]
        /\ \A j \in DOMAIN old : j # i => \E k \in DOMAIN rest : rest[k] = old[j]
        /\ \A j, k \in DOMAIN rest : rest[j] = rest[k] => j = k
    BY <2>2, <2>3, RemoveFirstIs DEF old
  <2> HIDE DEF rest
  <2>5. \A k \in DOMAIN rest : rest[k] \in Live(f) \ {t} /\ f[rest[k]].parent = p
    BY <2>2, <2>3, <2>4
  <2>6. \A u \in Live(f) \ {t} : f[u].parent = p => \E k \in DOMAIN rest : rest[k] = u
    BY <2>2, <2>3, <2>4
  <2> QED
    BY <2>4, <2>5, <2>6
<1>5. PICK w \in BOOLEAN : w <=> rest # <<>>
  OBVIOUS
<1>6. /\ g \in [Txn -> Transaction] /\ g[t] = Retired(f[t])
      /\ \A u \in Txn \ {t} : u # p => g[u] = f[u]
      /\ p # NoTxn =>
           /\ g[p].nested = rest /\ g[p].owns = w
           /\ g[p].state = f[p].state /\ g[p].parent = f[p].parent
           /\ g[p].diags = f[p].diags /\ g[p].decls = f[p].decls
           /\ g[p].shadow = f[p].shadow /\ g[p].failed = f[p].failed
  <2>1. PICK q : q = p
    OBVIOUS
  <2>2. PICK r : r = rest
    OBVIOUS
  <2>3. /\ q = txn[t].parent /\ r = RemoveFirst(txn[q].nested, t)
        /\ q # t /\ (q # NoTxn => r \in Seq(Txn)) /\ (w <=> r # <<>>)
    BY <1>3, <1>4, <1>5, <2>1, <2>2
  <2> HIDE DEF rest, p
  <2>4. /\ txn' \in [Txn -> Transaction] /\ txn'[t] = Retired(txn[t])
        /\ \A u \in Txn \ {t} : u # q => txn'[u] = txn[u]
        /\ q # NoTxn =>
             /\ txn'[q].nested = r /\ txn'[q].owns = w
             /\ txn'[q].state = txn[q].state /\ txn'[q].parent = txn[q].parent
             /\ txn'[q].diags = txn[q].diags /\ txn'[q].decls = txn[q].decls
             /\ txn'[q].shadow = txn[q].shadow
             /\ txn'[q].failed = txn[q].failed
    BY <1>1, <1>2, <2>3, ReleaseSets
  <2> QED
    BY <2>1, <2>2, <2>4
<1>7. /\ g[t].state = "numStates" /\ g[t].parent = f[t].parent /\ ~g[t].failed
  <2>1. f[t] \in Transaction
    BY <1>1, <1>2
  <2> HIDE DEF f, g, rest, p
  <2> QED
    BY <1>6, <2>1 DEF Retired, Transaction
<1> HIDE DEF rest
<1>8. p # NoTxn => /\ p \in Txn /\ (g[p].owns => rest # <<>>)
  BY <1>3, <1>5, <1>6 DEF Live
<1> HIDE DEF f, g, p
<1>9. \A u \in Txn \ {t} :
        /\ g[u].state = f[u].state /\ g[u].parent = f[u].parent
        /\ g[u].diags = f[u].diags /\ g[u].decls = f[u].decls
        /\ g[u].shadow = f[u].shadow /\ g[u].failed = f[u].failed
  BY <1>3, <1>6, TransactionsAssumption
<1>10. Live(g) = Live(f) \ {t}
  BY <1>2, <1>7, <1>9 DEF Live
<1>11. \A u \in Live(f) : u \in Txn /\ f[u].parent \in Live(f) \cup {NoTxn}
  BY <1>1 DEF Live, Planted
<1>12. Listed(g)
  <2> SUFFICES ASSUME NEW x \in Live(f) \ {t}
               PROVE  /\ g[x].owns => g[x].nested # <<>>
                      /\ \A i \in DOMAIN g[x].nested :
                           /\ g[x].nested[i] \in Live(f) \ {t}
                           /\ g[g[x].nested[i]].parent = x
                      /\ \A i, j \in DOMAIN g[x].nested :
                           g[x].nested[i] = g[x].nested[j] => i = j
                      /\ \A u \in Live(f) \ {t} : g[u].parent = x =>
                           \E i \in DOMAIN g[x].nested : g[x].nested[i] = u
    BY <1>10 DEF Listed
  <2>1. CASE x = p
    <3>1. p # NoTxn
      BY <1>11, <2>1, TransactionsAssumption
    <3> QED
      BY <1>4, <1>6, <1>8, <1>9, <1>11, <2>1, <3>1
  <2>2. CASE x # p
    <3>1. g[x] = f[x] /\ x \in Live(f)
      BY <1>6, <1>11, <2>2
    <3>2. \A i \in DOMAIN f[x].nested : f[x].nested[i] \in Live(f) \ {t}
      BY <1>1, <2>2, <3>1 DEF Listed, p
    <3> QED
      BY <1>1, <1>9, <1>11, <3>1, <3>2 DEF Listed
  <2> QED
    BY <2>1, <2>2
<1>13. ParentOf(g) = ParentOf(f)
  BY <1>7, <1>9 DEF ParentOf
<1>14. Planted(g)
  BY <1>1, <1>2, <1>9, <1>10, <1>11, <1>13 DEF Planted
<1>15. Blamed(g)
  <2> SUFFICES ASSUME NEW u \in Txn, g[u].failed
               PROVE  /\ u \in Live(g)
                      /\ \A r \in Ancestors(ParentOf(f), u) :
                           g[r].parent = NoTxn => g[r].diags = kErrors
    BY <1>13 DEF Blamed
  <2>1. u # t /\ f[u].failed /\ u \in Live(f)
    BY <1>1, <1>7, <1>9 DEF Blamed
  <2>2. ASSUME NEW r \in Ancestors(ParentOf(f), u), g[r].parent = NoTxn
        PROVE  g[r].diags = kErrors
    <3>1. /\ ParentOf(f) \in Parents /\ Ancestors(ParentOf(f), u) \subseteq Live(f)
          /\ \A x \in Txn : ParentOf(f)[x] = f[x].parent
      BY <1>1, <2>1, LiveClosed, ParentOfIs
    <3>2. r # t
      <4> SUFFICES ASSUME r = t PROVE FALSE
        OBVIOUS
      <4>1. PICK x \in Ancestors(ParentOf(f), u) : ParentOf(f)[x] = t
        BY <2>1, <3>1, AncestorHasChild
      <4> QED
        BY <1>2, <1>11, <3>1, <4>1
    <3> QED
      BY <1>1, <1>9, <1>11, <2>1, <2>2, <3>1, <3>2 DEF Blamed
  <2> QED
    BY <1>10, <2>1, <2>2
<1>16. Owing(g)
  BY <1>1, <1>9, <1>10, <1>11 DEF Owing
<1>17. g \in [Txn -> Transaction]
  BY <1>6
<1> QED
  BY <1>10, <1>12, <1>14, <1>15, <1>16, <1>17 DEF Tree, f, g

\* Following the lists of nested transactions down leads to the transactions
\* from which following the parents up leads back.
LEMMA WithinIs ==
    ASSUME Tree(txn), NEW t \in Live(txn)
    PROVE  Within(t) = {u \in Live(txn) : t \in Ancestors(ParentOf(txn), u)}
<1> DEFINE f == txn
           par == ParentOf(f)
           G == {u \in Live(f) : t \in Ancestors(par, u)}
           Down(S) == \A v \in S : ToSet(f[v].nested) \subseteq S
<1>1. f \in [Txn -> Transaction] /\ Listed(f) /\ Planted(f)
  BY DEF Tree
<1>2. /\ par \in Parents /\ \A u \in Txn : par[u] = f[u].parent
      /\ Live(f) \in SUBSET Txn /\ t \in Txn
  BY <1>1, ParentOfIs DEF Live
<1>3. \A u \in Txn : u \in Within(t) <=>
        \A S \in SUBSET Txn : t \in S /\ Down(S) => u \in S
  BY DEF Within
<1>4. \A v \in Live(f) : \A u : u \in ToSet(f[v].nested) <=>
                                 u \in Live(f) /\ f[u].parent = v
  BY <1>1 DEF ToSet, Listed
<1>5. Within(t) \subseteq Txn
  BY DEF Within
<1> HIDE DEF f, par
<1>6. G \in SUBSET Txn /\ t \in G
  BY <1>2, AncestorsClosed DEF f
<1>7. Down(G)
  <2> SUFFICES ASSUME NEW v \in G, NEW u \in ToSet(f[v].nested) PROVE u \in G
    OBVIOUS
  <2>1. v \in Live(f) /\ v \in Txn /\ t \in Ancestors(par, v)
    BY <1>6
  <2>2. u \in Live(f) /\ u \in Txn /\ par[u] = v
    BY <1>2, <1>4, <2>1
  <2>3. Ancestors(par, v) \subseteq Ancestors(par, u)
    BY <1>2, <2>1, <2>2, AncestorsStep, TransactionsAssumption
  <2> QED
    BY <2>1, <2>2, <2>3
<1>8. Within(t) \subseteq G
  BY <1>3, <1>5, <1>6, <1>7
<1>9. ASSUME NEW u \in G, NEW S \in SUBSET Txn, t \in S, Down(S)
      PROVE  u \in S
  <2> SUFFICES ASSUME u \notin S PROVE FALSE
    OBVIOUS
  <2> DEFINE R == Live(f) \ S
  <2>1. R \in SUBSET Txn /\ u \in R
    BY <1>2
  <2>2. Closed(par, R)
    <3> SUFFICES ASSUME NEW x \in R, par[x] # NoTxn PROVE par[x] \in R
      BY DEF Closed
    <3>1. x \in Live(f) /\ x \in Txn /\ f[x].parent = par[x]
      BY <1>2
    <3>2. par[x] \in Live(f)
      BY <1>1, <3>1 DEF Planted
    <3>3. x \in ToSet(f[par[x]].nested)
      BY <1>4, <3>1, <3>2
    <3> QED
      BY <1>9, <3>2, <3>3
  <2> HIDE DEF R
  <2>3. Ancestors(par, u) \subseteq R
    BY <2>1, <2>2, AncestorsLeast
  <2>4. t \in R
    BY <2>3
  <2> QED
    BY <1>9, <2>4 DEF R
<1>10. G \subseteq Within(t)
  BY <1>3, <1>6, <1>9
<1> QED
  BY <1>8, <1>10 DEF f, par

\* A topmost transaction goes with all that is nested in it.
LEMMA DestroyTree ==
    ASSUME Tree(txn), \E t \in Txn : Destroy(t)
    PROVE  Tree(txn') /\ Live(txn') \subseteq Live(txn)
           /\ \A u \in Live(txn') : txn'[u] = txn[u]
<1>0. PICK t \in Txn : Destroy(t)
  OBVIOUS
<1> DEFINE f == txn
           g == txn'
           par == ParentOf(f)
           gone == Within(t)
<1>1. f \in [Txn -> Transaction] /\ Listed(f) /\ Planted(f) /\ Blamed(f) /\ Owing(f)
  BY DEF Tree
<1>2. /\ t \in Live(f) /\ f[t].parent = NoTxn
      /\ g = [u \in Txn |-> IF u \in gone THEN Retired(f[u]) ELSE f[u]]
  BY <1>0 DEF Destroy, Live
<1>3. /\ par \in Parents /\ \A u \in Txn : par[u] = f[u].parent
      /\ \A u \in Live(f) : Ancestors(par, u) \subseteq Live(f)
      /\ Par = par
  BY <1>1, ParentOfIs, LiveClosed DEF Par, ParentOf
<1>4. /\ gone \subseteq Txn
      /\ \A u \in Live(f) : u \in Txn /\ (u \in gone <=> t \in Ancestors(par, u))
  BY <1>2, WithinIs DEF Live
<1>5. ASSUME NEW u \in gone
      PROVE  /\ u \in Txn /\ g[u] \in Transaction /\ g[u].state = "numStates"
             /\ g[u].parent = f[u].parent /\ ~g[u].failed
  <2>1. u \in Txn /\ g[u] = Retired(f[u]) /\ f[u] \in Transaction
    BY <1>1, <1>2, <1>4
  <2>2. PICK N : N = Seq(Txn)
    OBVIOUS
  <2>3. Transaction = Record(N) /\ <<>> \in N
    BY <2>2 DEF Transaction, Record
  <2> HIDE DEF f, g, gone
  <2>4. f[u] \in Record(N)
    BY <2>1, <2>3
  <2>5. /\ Retired(f[u]) \in Record(N) /\ Retired(f[u]).state = "numStates"
        /\ Retired(f[u]).parent = f[u].parent /\ ~Retired(f[u]).failed
    BY <2>3, <2>4 DEF Retired, Record, State
  <2> QED
    BY <2>1, <2>3, <2>5
<1>6. \A u \in Txn \ gone : g[u] = f[u]
  BY <1>2
<1>7. g \in [Txn -> Transaction]
  <2>1. \A u \in Txn : g[u] \in Transaction
    BY <1>1, <1>5, <1>6
  <2> HIDE DEF g
  <2>2. g = [u \in Txn |-> g[u]]
    BY <1>2 DEF g
  <2> QED
    BY <2>1, <2>2
<1> HIDE DEF f, g, gone, par
<1>8. Live(g) = Live(f) \ gone
  BY <1>5, <1>6 DEF Live
<1>9. ParentOf(g) = par
  <2>1. \A u \in Txn : g[u].parent = f[u].parent
    BY <1>5, <1>6
  <2> QED
    BY <2>1 DEF ParentOf, par
\* A block that stays is not nested, at any depth, in one that goes.
<1>10. ASSUME NEW u \in Live(f) \ gone, NEW x \in Ancestors(par, u)
       PROVE  x \in Live(f) \ gone
  <2>1. x \in Live(f) /\ u \in Txn /\ t \notin Ancestors(par, u)
    BY <1>3, <1>4
  <2>2. Ancestors(par, x) \subseteq Ancestors(par, u)
    BY <1>3, <2>1, AncestorsTransitive
  <2> QED
    BY <1>4, <2>1, <2>2
<1>11. Listed(g)
  <2> SUFFICES ASSUME NEW x \in Live(f) \ gone
               PROVE  /\ g[x].owns => g[x].nested # <<>>
                      /\ \A i \in DOMAIN g[x].nested :
                           /\ g[x].nested[i] \in Live(f) \ gone
                           /\ g[g[x].nested[i]].parent = x
                      /\ \A i, j \in DOMAIN g[x].nested :
                           g[x].nested[i] = g[x].nested[j] => i = j
                      /\ \A u \in Live(f) \ gone : g[u].parent = x =>
                           \E i \in DOMAIN g[x].nested : g[x].nested[i] = u
    BY <1>8 DEF Listed
  <2>1. g[x] = f[x] /\ x \in Txn
    BY <1>4, <1>6
  <2>2. \A i \in DOMAIN f[x].nested : f[x].nested[i] \in Live(f) \ gone
    <3> SUFFICES ASSUME NEW i \in DOMAIN f[x].nested PROVE f[x].nested[i] \in Live(f) \ gone
      OBVIOUS
    <3>1. PICK w \in Live(f) : w = f[x].nested[i] /\ f[w].parent = x
      BY <1>1 DEF Listed
    <3>2. w \in Txn /\ par[w] = x /\ x # NoTxn /\ w # t
      BY <1>2, <1>3, <1>4, <2>1, <3>1, TransactionsAssumption
    <3>3. Ancestors(par, w) = {w} \cup Ancestors(par, x)
      BY <1>3, <3>2, AncestorsStep
    <3> QED
      BY <1>4, <3>1, <3>2, <3>3
  <2>3. \A u \in Live(f) \ gone : g[u].parent = f[u].parent
    BY <1>4, <1>6
  <2> QED
    BY <1>1, <2>1, <2>2, <2>3 DEF Listed
<1>12. Planted(g)
  <2> SUFFICES ASSUME NEW u \in Live(f) \ gone
               PROVE  g[u].parent \in Live(g) \cup {NoTxn} /\ Rooted(par, u)
    BY <1>8, <1>9 DEF Planted
  <2>1. u \in Txn /\ g[u].parent = par[u] /\ Rooted(par, u)
    BY <1>1, <1>3, <1>4, <1>6 DEF Planted, par
  <2>2. par[u] # NoTxn => par[u] \in Ancestors(par, u)
    BY <1>3, <2>1, AncestorsClosed DEF Closed
  <2> QED
    BY <1>8, <1>10, <2>1, <2>2
<1>13. Blamed(g)
  <2> SUFFICES ASSUME NEW u \in Txn, g[u].failed
               PROVE  /\ u \in Live(g)
                      /\ \A r \in Ancestors(par, u) :
                           g[r].parent = NoTxn => g[r].diags = kErrors
    BY <1>9 DEF Blamed
  <2>1. u \in Live(f) \ gone /\ f[u].failed
    BY <1>1, <1>5, <1>6 DEF Blamed
  <2>2. \A r \in Ancestors(par, u) : r \in Txn /\ g[r] = f[r]
    BY <1>4, <1>6, <1>10, <2>1
  <2> QED
    BY <1>1, <1>8, <2>1, <2>2 DEF Blamed, par
<1>14. Owing(g)
  BY <1>1, <1>4, <1>6, <1>8 DEF Owing
<1>15. \A u \in Live(g) : g[u] = f[u]
  BY <1>4, <1>6, <1>8
<1> QED
  BY <1>2, <1>7, <1>8, <1>11, <1>12, <1>13, <1>14, <1>15 DEF Tree, f, g

\* Steps that change states of what is in use, or declarations, leave the tree.
LEMMA FieldsTree ==
    ASSUME NEW f, Tree(f), NEW g \in [Txn -> Transaction],
           \A u \in Txn :
             /\ g[u].parent = f[u].parent
             /\ g[u].nested = f[u].nested /\ g[u].owns = f[u].owns
             /\ g[u].state = "numStates" <=> f[u].state = "numStates",
           \A u \in Txn : g[u].diags = f[u].diags /\ g[u].failed = f[u].failed
    PROVE  Tree(g) /\ Live(g) = Live(f)
<1>1. f \in [Txn -> Transaction] /\ Listed(f) /\ Planted(f) /\ Blamed(f) /\ Owing(f)
  BY DEF Tree
<1>2. Listed(g) /\ Planted(g) /\ Live(g) = Live(f) /\ ParentOf(g) = ParentOf(f)
  BY <1>1, SameTree
<1>3. Blamed(g)
  <2>1. \A t \in Txn : Ancestors(ParentOf(f), t) \subseteq Txn
    BY DEF Ancestors
  <2> QED
    BY <1>1, <1>2, <2>1 DEF Blamed
<1>4. Owing(g)
  <2>1. Live(f) \subseteq Txn
    BY DEF Live
  <2> QED
    BY <1>1, <1>2, <2>1 DEF Owing
<1> QED
  BY <1>2, <1>3, <1>4 DEF Tree

\* A transaction in use is committed or rolled back.
LEMMA FinishTree ==
    ASSUME Tree(txn), NEW t \in Live(txn), NEW new \in {"rolledBack", "committed"},
           txn' = [txn EXCEPT ![t].state = new]
    PROVE  Tree(txn') /\ Live(txn') = Live(txn)
<1>1. /\ txn \in [Txn -> Transaction] /\ Listed(txn) /\ Planted(txn)
      /\ Blamed(txn) /\ t \in Txn /\ txn[t].state # "numStates"
  BY DEF Tree, Live
<1>2. /\ txn' \in [Txn -> Transaction] /\ txn'[t].state = new
      /\ \A u \in Txn :
           /\ txn'[u].parent = txn[u].parent /\ txn'[u].nested = txn[u].nested
           /\ txn'[u].owns = txn[u].owns /\ txn'[u].diags = txn[u].diags
           /\ txn'[u].failed = txn[u].failed
      /\ \A u \in Txn \ {t} : txn'[u].state = txn[u].state
  <2> DEFINE r == [txn[t] EXCEPT !.state = new]
  <2>1. txn[t] \in Transaction
    BY <1>1
  <2>2. /\ r \in Transaction /\ r.state = new
        /\ r.parent = txn[t].parent /\ r.nested = txn[t].nested
        /\ r.owns = txn[t].owns /\ r.diags = txn[t].diags
        /\ r.failed = txn[t].failed
    BY <2>1 DEF Transaction, State
  <2>3. txn' = [txn EXCEPT ![t] = r]
    OBVIOUS
  <2> HIDE DEF r
  <2> QED
    BY <1>1, <2>2, <2>3
<1> QED
  <2>1. \A u \in Txn :
          /\ txn'[u].parent = txn[u].parent
          /\ txn'[u].nested = txn[u].nested /\ txn'[u].owns = txn[u].owns
          /\ txn'[u].state = "numStates" <=> txn[u].state = "numStates"
    BY <1>1, <1>2
  <2>2. PICK g : g = txn'
    OBVIOUS
  <2>3. /\ g \in [Txn -> Transaction]
        /\ \A u \in Txn :
             /\ g[u].parent = txn[u].parent
             /\ g[u].nested = txn[u].nested /\ g[u].owns = txn[u].owns
             /\ g[u].state = "numStates" <=> txn[u].state = "numStates"
        /\ \A u \in Txn : g[u].diags = txn[u].diags /\ g[u].failed = txn[u].failed
    BY <1>2, <2>1, <2>2
  <2>4. Tree(g) /\ Live(g) = Live(txn)
    BY <2>3, FieldsTree
  <2> QED
    BY <2>2, <2>4

\* What happens to declarations leaves the tree as it is, if clear() is only
\* asked of a transaction that has no nested ones.
LEMMA DeclsTree ==
    ASSUME Tree(txn), current \in Live(txn) \cup {NoTxn}, "clear" \notin Misuse,
           \/ \E d \in Decls \ {"ns"} : AppendDecl(d)
           \/ setDefinitionShadowNS
           \/ clear /\ MayClear
    PROVE  Tree(txn') /\ Live(txn') = Live(txn)
<1>1. /\ txn \in [Txn -> Transaction] /\ Listed(txn) /\ Planted(txn)
      /\ Blamed(txn) /\ current \in Txn /\ current \in Live(txn)
  BY DEF Tree, Live, AppendDecl, setDefinitionShadowNS, clear
<1>2. txn[current] \in Transaction
  BY <1>1
<1>3. PICK s \in BOOLEAN, D \in SUBSET Decls :
        txn' = [txn EXCEPT ![current] =
                  [txn[current] EXCEPT !.shadow = s, !.decls = D]]
  <2> DEFINE r(s, D) == [txn[current] EXCEPT !.shadow = s, !.decls = D]
  <2>0. txn[current].shadow \in BOOLEAN /\ txn[current].decls \in SUBSET Decls
    BY <1>2 DEF Transaction
  <2>1. CASE \E d \in Decls \ {"ns"} : AppendDecl(d)
    <3>1. PICK d \in Decls : txn' = [txn EXCEPT ![current].decls = @ \cup {d}]
      BY <2>1 DEF AppendDecl
    <3> DEFINE D == txn[current].decls \cup {d}
    <3>2. D \in SUBSET Decls
      BY <2>0
    <3>3. [txn[current] EXCEPT !.decls = D] = r(txn[current].shadow, D)
      <4> HIDE DEF D
      <4> QED
        BY <1>2 DEF Transaction
    <3>4. txn' = [txn EXCEPT ![current] = [txn[current] EXCEPT !.decls = D]]
      BY <3>1
    <3> HIDE DEF D
    <3> QED
      BY <2>0, <3>2, <3>3, <3>4
  <2>2. CASE setDefinitionShadowNS
    <3> DEFINE D == txn[current].decls \cup {"ns"}
    <3>1. /\ "ns" \in Decls
          /\ txn' = [txn EXCEPT ![current].shadow = TRUE, ![current].decls = @ \cup {"ns"}]
      BY <2>2 DEF setDefinitionShadowNS
    <3>2. D \in SUBSET Decls
      BY <2>0, <3>1
    <3>3. txn' = [txn EXCEPT ![current] = r(TRUE, D)]
      BY <3>1
    <3> HIDE DEF D
    <3> QED
      BY <3>2, <3>3
  <2>3. CASE clear /\ MayClear
    <3> DEFINE D == txn[current].decls \cap {"macro"}
    <3>1. /\ txn[current].nested = <<>>
          /\ txn' = [txn EXCEPT ![current].decls = @ \cap {"macro"},
                                ![current].nested = <<>>]
      BY <2>3 DEF clear, MayClear
    <3>2. D \in SUBSET Decls
      BY <2>0
    <3>3. txn' = [txn EXCEPT ![current] =
                    [txn[current] EXCEPT !.decls = D, !.nested = <<>>]]
      BY <3>1
    <3>4. [txn[current] EXCEPT !.decls = D, !.nested = <<>>]
            = r(txn[current].shadow, D)
      <4> HIDE DEF D
      <4> QED
        BY <1>2, <3>1 DEF Transaction
    <3> HIDE DEF D
    <3>5. txn' = [txn EXCEPT ![current] = r(txn[current].shadow, D)]
      BY <3>3, <3>4
    <3> QED
      BY <2>0, <3>2, <3>5
  <2> QED
    BY <2>1, <2>2, <2>3
<1> DEFINE r == [txn[current] EXCEPT !.shadow = s, !.decls = D]
<1>4. /\ r \in Transaction /\ r.state = txn[current].state
      /\ r.parent = txn[current].parent /\ r.nested = txn[current].nested
      /\ r.owns = txn[current].owns /\ r.diags = txn[current].diags
      /\ r.failed = txn[current].failed
  BY <1>2 DEF Transaction
<1>5. txn' = [txn EXCEPT ![current] = r]
  BY <1>3
<1> HIDE DEF r
<1>6. /\ txn' \in [Txn -> Transaction]
      /\ \A u \in Txn :
           /\ txn'[u].parent = txn[u].parent /\ txn'[u].nested = txn[u].nested
           /\ txn'[u].owns = txn[u].owns /\ txn'[u].diags = txn[u].diags
           /\ txn'[u].failed = txn[u].failed /\ txn'[u].state = txn[u].state
  <2>1. \A u \in Txn \ {current} : txn'[u] = txn[u]
    BY <1>1, <1>5
  <2>2. txn'[current] = r
    BY <1>1, <1>5
  <2> QED
    BY <1>1, <1>4, <1>5, <2>1, <2>2
<1>7. \A u \in Txn :
        /\ txn'[u].parent = txn[u].parent
        /\ txn'[u].nested = txn[u].nested /\ txn'[u].owns = txn[u].owns
        /\ txn'[u].state = "numStates" <=> txn[u].state = "numStates"
  BY <1>6
<1> QED
  BY <1>6, <1>7, FieldsTree

\* Diagnostics go to the topmost parent, and blame the transactions between.
LEMMA DiagsTree ==
    ASSUME Tree(txn), current \in Live(txn) \cup {NoTxn}, "lower" \notin Misuse,
           NEW val \in {kErrors, kWarnings}, setIssuedDiags(val), MaySet(val)
    PROVE  Tree(txn') /\ Live(txn') = Live(txn)
<1> DEFINE par == ParentOf(txn)
           top == getTopmostParent(current)
           line == Line(current)
<1>1. /\ txn \in [Txn -> Transaction] /\ Listed(txn) /\ Planted(txn)
      /\ Blamed(txn) /\ Owing(txn) /\ current \in Txn /\ current \in Live(txn)
  BY DEF Tree, Live, setIssuedDiags
<1>2. /\ par \in Parents /\ \A u \in Txn : par[u] = txn[u].parent
      /\ par = Par
  BY <1>1, ParentOfIs DEF Par, ParentOf
<1>3. /\ line = Ancestors(par, current) /\ line \subseteq Live(txn)
      /\ \E r \in line : par[r] = NoTxn
  <2>1. Rooted(par, current)
    BY <1>1 DEF Planted
  <2>2. line = Ancestors(par, current)
    BY <1>1, <1>2, <2>1, LineIs
  <2> QED
    BY <1>1, <2>1, <2>2, LiveClosed DEF Rooted
<1>4. Live(txn) \subseteq Txn
  BY DEF Live
<1>5. top \in line /\ txn[top].parent = NoTxn
  <2>1. \E r \in line : txn[r].parent = NoTxn
    BY <1>2, <1>3, <1>4
  <2> QED
    BY <2>1 DEF getTopmostParent
<1>6. /\ val <= txn[top].diags
      /\ txn' = [t \in Txn |->
           [txn[t] EXCEPT !.diags = IF t = top THEN val ELSE @,
                          !.failed = @ \/ (val = kErrors /\ t \in line)]]
  BY DEF setIssuedDiags, MaySet, getIssuedDiags
<1> HIDE DEF par, top, line
<1>7. ASSUME NEW t \in Txn
      PROVE  /\ txn'[t] \in Transaction
             /\ txn'[t].diags = IF t = top THEN val ELSE txn[t].diags
             /\ txn'[t].failed <=> txn[t].failed \/ (val = kErrors /\ t \in line)
             /\ txn'[t].parent = txn[t].parent /\ txn'[t].nested = txn[t].nested
             /\ txn'[t].owns = txn[t].owns /\ txn'[t].state = txn[t].state
             /\ txn'[t].decls = txn[t].decls /\ txn'[t].shadow = txn[t].shadow
  <2>1. txn[t] \in Transaction
    BY <1>1
  <2> DEFINE x == IF t = top THEN val ELSE txn[t].diags
  <2>2. PICK y \in BOOLEAN : y <=> txn[t].failed \/ (val = kErrors /\ t \in line)
    OBVIOUS
  <2>3. x \in {kErrors, kWarnings, kNone}
    BY <2>1 DEF Transaction
  <2>4. txn'[t] = [txn[t] EXCEPT !.diags = x, !.failed = y]
    <3>1. txn[t].failed \in BOOLEAN
      BY <2>1 DEF Transaction
    <3> QED
      BY <1>6, <2>2, <3>1
  <2> HIDE DEF x
  <2>5. /\ txn'[t] \in Transaction
        /\ txn'[t].diags = x /\ txn'[t].failed = y
        /\ txn'[t].parent = txn[t].parent /\ txn'[t].nested = txn[t].nested
        /\ txn'[t].owns = txn[t].owns /\ txn'[t].state = txn[t].state
        /\ txn'[t].decls = txn[t].decls /\ txn'[t].shadow = txn[t].shadow
    BY <2>1, <2>3, <2>4 DEF Transaction
  <2> QED
    BY <2>2, <2>5 DEF x
<1>8. txn' \in [Txn -> Transaction]
  BY <1>6, <1>7
<1>9. /\ Listed(txn') /\ Planted(txn') /\ Live(txn') = Live(txn)
      /\ ParentOf(txn') = par
  BY <1>1, <1>7, <1>8, SameTree DEF par
<1>10. Blamed(txn')
  <2> SUFFICES ASSUME NEW t \in Txn, txn'[t].failed
               PROVE  /\ t \in Live(txn)
                      /\ \A r \in Ancestors(par, t) :
                           txn'[r].parent = NoTxn => txn'[r].diags = kErrors
    BY <1>9 DEF Blamed
  <2>0. Ancestors(par, t) \subseteq Txn /\ top \in Live(txn) /\ top \in Txn
    BY <1>3, <1>4, <1>5 DEF Ancestors
  <2>1. CASE txn[t].failed
    <3>1. /\ t \in Live(txn)
          /\ \A r \in Ancestors(par, t) :
               txn[r].parent = NoTxn => txn[r].diags = kErrors
      BY <1>1, <2>1 DEF Blamed, par
    <3>2. val <= kErrors => val = kErrors
      BY DEF kErrors, kWarnings
    <3>3. ASSUME NEW r \in Ancestors(par, t), txn'[r].parent = NoTxn
          PROVE  txn'[r].diags = kErrors
      <4>1. r \in Txn /\ txn[r].parent = NoTxn
        BY <1>7, <2>0, <3>3
      <4>2. txn[r].diags = kErrors
        BY <3>1, <4>1
      <4>3. r = top => val = kErrors
        BY <1>6, <3>2, <4>2
      <4> QED
        BY <1>7, <4>1, <4>2, <4>3
    <3> QED
      BY <3>1, <3>3
  <2>2. CASE ~txn[t].failed
    <3>1. val = kErrors /\ t \in line
      BY <1>7, <2>2
    <3>2. ASSUME NEW r \in Ancestors(par, t), txn'[r].parent = NoTxn
          PROVE  r = top
      <4>1. r \in line /\ r \in Txn
        BY <1>1, <1>2, <1>3, <1>4, <3>1, AncestorsTransitive
      <4> QED
        BY <1>1, <1>2, <1>3, <1>5, <1>7, <2>0, <3>2, <4>1, OneRoot
    <3> QED
      BY <1>3, <1>7, <2>0, <3>1, <3>2
  <2> QED
    BY <2>1, <2>2
<1>11. Owing(txn')
  BY <1>1, <1>4, <1>5, <1>7, <1>9 DEF Owing
<1> QED
  BY <1>8, <1>9, <1>10, <1>11 DEF Tree

\* The transactions that open scopes name.
Open == {t \in Txn : \E i \in DOMAIN frames : frames[i].txn = t}

\* What collects has an open scope; what a scope names is collecting or was
\* rolled back.
Held ==
    /\ \A t \in Txn : Collecting(t) => t \in Open
    /\ \A t \in Open : txn[t].state \in {"collecting", "rolledBack"}

TreeInv == IInv /\ Tree(txn) /\ Held

\* The parser collects into a transaction in use, if into any; so does a scope.
LEMMA CurrentIsLive ==
    ASSUME IInv
    PROVE  current \in Live(txn) \cup {NoTxn} /\ Open \subseteq Live(txn)
<1>1. Open \subseteq Live(txn)
  BY TransactionsAssumption DEF Open, Live, IInv, OwnTransaction, Pooled
<1>2. CASE Active = {}
  BY <1>1, <1>2 DEF IInv, Chain
<1>3. CASE Active # {}
  <2>1. PICK n \in Active : \A j \in Active : j <= n
    BY <1>3, ActiveAre, MaxExists DEF IInv
  <2>2. current = frames[n].txn /\ frames[n].txn \in Txn /\ n \in DOMAIN frames
    BY <2>1, ActiveAre DEF IInv, Chain, Active
  <2> QED
    BY <1>1, <2>2 DEF Open
<1> QED
  BY <1>1, <1>2, <1>3

\* Scope objects without a transaction come and go.
LEMMA HeldSame ==
    ASSUME Held, \A t \in Txn : txn'[t].state = txn[t].state, Open' = Open
    PROVE  Held'
<1>1. Open \subseteq Txn
  BY DEF Open
<1> QED
  BY <1>1 DEF Held, Collecting

LEMMA OpenSame ==
    ASSUME IInv,
           \/ frames' = frames
           \/ \E f \in Frame : f.txn = NoTxn /\ frames' = Append(frames, f)
           \/ frames # <<>> /\ Innermost.kind \notin PushKind /\ frames' = Front(frames)
    PROVE  Open' = Open
<1>0. frames \in Seq(Frame) /\ Len(frames) \in Nat /\ DOMAIN frames = 1 .. Len(frames)
  BY DEF IInv, Types
<1>1. CASE frames' = frames
  BY <1>1 DEF Open
<1>2. CASE \E f \in Frame : f.txn = NoTxn /\ frames' = Append(frames, f)
  <2>1. PICK f \in Frame : f.txn = NoTxn /\ frames' = Append(frames, f)
    BY <1>2
  <2>2. /\ frames' \in Seq(Frame) /\ DOMAIN frames' = 1 .. Len(frames) + 1
        /\ \A i \in 1 .. Len(frames) : frames'[i] = frames[i]
        /\ frames'[Len(frames) + 1] = f
    <3>1. PICK q : q = frames
      OBVIOUS
    <3>2. /\ q \in Seq(Frame) /\ Len(q) \in Nat
          /\ Append(q, f) \in Seq(Frame) /\ Len(Append(q, f)) = Len(q) + 1
          /\ \A i \in 1 .. Len(q) : Append(q, f)[i] = q[i]
          /\ Append(q, f)[Len(q) + 1] = f
      BY <1>0, <3>1, AppendProperties
    <3> QED
      BY <2>1, <3>1, <3>2
  <2>3. \A i : i \in 1 .. Len(frames) + 1 <=> i \in 1 .. Len(frames) \/ i = Len(frames) + 1
    BY <1>0
  <2>4. ASSUME NEW t \in Txn
        PROVE  t \in Open' <=> t \in Open
    <3>1. t \in Open' <=> \E i \in 1 .. Len(frames) + 1 : frames'[i].txn = t
      BY <2>2 DEF Open
    <3>2. t \in Open <=> \E i \in 1 .. Len(frames) : frames[i].txn = t
      BY <1>0 DEF Open
    <3>3. frames'[Len(frames) + 1].txn # t
      BY <2>1, <2>2, TransactionsAssumption
    <3> QED
      BY <2>2, <2>3, <3>1, <3>2, <3>3
  <2> QED
    BY <2>4 DEF Open
<1>3. CASE frames # <<>> /\ Innermost.kind \notin PushKind /\ frames' = Front(frames)
  <2>0. PICK n : n = Len(frames)
    OBVIOUS
  <2>1. /\ n \in Nat \ {0} /\ DOMAIN frames' = 1 .. n - 1 /\ DOMAIN frames = 1 .. n
        /\ \A i \in 1 .. n - 1 : frames'[i] = frames[i]
    BY <1>0, <1>3, <2>0, FramesPop DEF IInv
  <2>2. frames[n].txn = NoTxn
    <3>1. n \in DOMAIN frames /\ frames[n].kind \notin PushKind
      BY <1>3, <2>0, <2>1 DEF Innermost
    <3> QED
      BY <3>1 DEF IInv, Types
  <2>3. \A i : i \in 1 .. n <=> i \in 1 .. n - 1 \/ i = n
    BY <2>1
  <2>4. \A t \in Txn : t \in Open' <=> t \in Open
    BY <2>1, <2>2, <2>3, TransactionsAssumption DEF Open
  <2> QED
    BY <2>4 DEF Open
<1> QED
  BY <1>1, <1>2, <1>3

\* PushTransactionRAII(): a fresh block joins the tree and the scopes.
LEMMA PushTree ==
    ASSUME TreeInv, NEW kind \in PushKind, NEW n \in {0, 1}, n <= Len(frames),
           n = 1 => Innermost.kind \notin PushKind,
           Push(kind, n)
    PROVE  Tree(txn') /\ Held'
<1>1. PICK t \in Txn :
        /\ beginTransaction(t)
        /\ frames' = Append(SubSeq(frames, 1, Len(frames) - n), PushFrame(kind, t))
  BY DEF Push
<1>2. Tree(txn')
  BY <1>1, CurrentIsLive, BeginTree DEF TreeInv
<1>3. /\ txn'[t].state = "collecting" /\ Alike(txn', txn, Txn \ {t})
  BY <1>1, BeginIs DEF TreeInv, IInv, Types
<1>4. PushFrame(kind, t) \in Frame /\ PushFrame(kind, t).txn = t
  BY TransactionsAssumption DEF PushFrame, Frame, FrameKind
<1>5. PICK m : m = Len(frames) - n
  OBVIOUS
<1>6. /\ m \in Nat /\ m <= Len(frames) /\ Len(frames) \in Nat
      /\ DOMAIN frames' = 1 .. m + 1 /\ DOMAIN frames = 1 .. Len(frames)
      /\ \A i \in 1 .. m : frames'[i] = frames[i]
      /\ frames'[m + 1].txn = t
  <2>1. Types
    BY DEF TreeInv, IInv
  <2>2. /\ DOMAIN frames' = 1 .. Len(frames) - n + 1
        /\ \A i \in 1 .. Len(frames) - n : frames'[i] = frames[i]
        /\ frames'[Len(frames) - n + 1] = PushFrame(kind, t)
    BY <1>1, <1>4, <2>1, FramesPush
  <2>3. Len(frames) \in Nat /\ DOMAIN frames = 1 .. Len(frames)
    BY <2>1, ActiveAre
  <2> QED
    BY <1>4, <1>5, <2>2, <2>3
<1>7. \A i \in DOMAIN frames : i \notin 1 .. m => frames[i].txn = NoTxn
  <2> SUFFICES ASSUME NEW i \in DOMAIN frames, i \notin 1 .. m
               PROVE  frames[i].txn = NoTxn
    OBVIOUS
  <2>1. n = 1 /\ i = Len(frames)
    BY <1>5, <1>6
  <2>2. frames[i].kind \notin PushKind
    BY <2>1 DEF Innermost
  <2> QED
    BY <2>2 DEF TreeInv, IInv, Types
<1>8. \A u \in Txn : u \in Open' <=> u \in Open \/ u = t
  <2>1. \A i : i \in 1 .. m + 1 <=> i \in 1 .. m \/ i = m + 1
    BY <1>6
  <2>2. \A i \in 1 .. m : i \in DOMAIN frames
    BY <1>6
  <2> QED
    BY <1>6, <1>7, <2>1, <2>2, TransactionsAssumption DEF Open
<1>9. Held'
  <2>1. Open \subseteq Txn /\ Open' \subseteq Txn
    BY DEF Open
  <2> QED
    BY <1>3, <1>8, <2>1 DEF TreeInv, Held, Alike, Collecting
<1> QED
  BY <1>2, <1>9

\* pop(): the transaction of the innermost scope leaves the tree, or is
\* finished, unless it was rolled back.
LEMMA PopTree ==
    ASSUME TreeInv, frames # <<>>, Innermost.kind \in PushKind, pop(Innermost.txn),
           \/ frames' = Front(frames)
           \/ frames' = Append(Front(frames), PlainFrame("debugger"))
    PROVE  Tree(txn') /\ Held'
<1>1. PICK n : n = Len(frames)
  OBVIOUS
<1>2. /\ n \in Nat \ {0} /\ DOMAIN frames = 1 .. n
      /\ \/ DOMAIN frames' = 1 .. n - 1
         \/ DOMAIN frames' = 1 .. n /\ frames'[n].txn = NoTxn
      /\ \A i \in 1 .. n - 1 : frames'[i] = frames[i]
  <2>1. Types
    BY DEF TreeInv, IInv
  <2>2. frames \in Seq(Frame) /\ n \in Nat \ {0} /\ DOMAIN frames = 1 .. n
    BY <1>1, <2>1 DEF Types
  <2>3. CASE frames' = Front(frames)
    BY <1>1, <2>1, <2>2, <2>3, FramesPop
  <2>4. CASE frames' = Append(Front(frames), PlainFrame("debugger"))
    <3>1. PlainFrame("debugger") \in Frame /\ PlainFrame("debugger").txn = NoTxn
      BY TransactionsAssumption DEF PlainFrame, Frame, FrameKind
    <3>2. /\ DOMAIN frames' = 1 .. Len(frames) - 1 + 1
          /\ \A i \in 1 .. Len(frames) - 1 : frames'[i] = frames[i]
          /\ frames'[Len(frames) - 1 + 1] = PlainFrame("debugger")
      BY <1>1, <2>1, <2>2, <2>4, <3>1, FramesPush DEF Front
    <3> QED
      BY <1>1, <2>2, <3>1, <3>2
  <2> QED
    BY <2>3, <2>4
<1>3. PICK t : t = frames[n].txn
  OBVIOUS
<1>4. /\ t \in Txn /\ n \in DOMAIN frames /\ pop(t)
      /\ t \in Open /\ t \in Live(txn)
  <2>1. n \in DOMAIN frames /\ frames[n].kind \in PushKind /\ pop(t)
    BY <1>1, <1>2, <1>3 DEF Innermost
  <2>2. t \in Txn
    BY <1>3, <2>1, ActiveAre DEF TreeInv, IInv, Types
  <2> QED
    BY <1>3, <2>1, <2>2, CurrentIsLive DEF Open, TreeInv
<1>5. \A u \in Txn : u \in Open' <=> u \in Open /\ u # t
  <2>1. \A i \in DOMAIN frames : frames[i].txn = t => i = n
    BY <1>3, <1>4, TransactionsAssumption DEF TreeInv, IInv, OwnTransaction
  <2>2. \A i : i \in 1 .. n <=> i \in 1 .. n - 1 \/ i = n
    BY <1>2
  <2>3. \A i \in 1 .. n - 1 : i # n /\ i \in DOMAIN frames
    BY <1>2
  <2> QED
    BY <1>2, <1>3, <2>1, <2>2, <2>3, TransactionsAssumption DEF Open
<1>6. /\ Tree(txn') /\ \A u \in Txn \ {t} : txn'[u].state = txn[u].state
      /\ txn'[t].state # "collecting"
  <2>1. CASE txn[t].state = "rolledBack"
    BY <1>4, <2>1 DEF pop, TreeInv
  <2>2. CASE txn[t].state # "rolledBack"
    <3>1. endTransaction(t)
      BY <1>4, <2>2 DEF pop
    <3>2. \A u \in Txn \ {t} : txn'[u].state = txn[u].state
      BY <1>4, <3>1, EndIs DEF TreeInv, IInv, Types, Alike
    <3>3. CASE empty(t)
      <4>1. release(t)
        BY <3>1, <3>3 DEF endTransaction
      <4>2. Tree(txn') /\ t \notin Live(txn')
        BY <1>4, <3>3, <4>1, ReleaseTree DEF TreeInv
      <4> QED
        BY <1>4, <3>2, <4>2 DEF Live
    <3>4. CASE ~empty(t)
      <4>1. PICK new \in {"rolledBack", "committed"} :
              txn' = [txn EXCEPT ![t].state = new]
        BY <3>1, <3>4 DEF endTransaction, commitTransaction
      <4>2. Tree(txn')
        BY <1>4, <4>1, FinishTree DEF TreeInv
      <4>3. txn'[t].state = new
        <5>1. txn[t] \in Transaction /\ txn \in [Txn -> Transaction]
          BY <1>4 DEF TreeInv, Tree
        <5> QED
          BY <1>4, <4>1, <5>1 DEF Transaction
      <4> QED
        BY <3>2, <4>2, <4>3
    <3> QED
      BY <3>3, <3>4
  <2> QED
    BY <2>1, <2>2
<1>7. Held'
  <2>1. Open \subseteq Txn /\ Open' \subseteq Txn
    BY DEF Open
  <2> QED
    BY <1>5, <1>6, <2>1 DEF TreeInv, Held, Collecting
<1> QED
  BY <1>6, <1>7

\* Every step within the contracts keeps the tree.
LEMMA TreeNext ==
    ASSUME Misuse = {}, TreeInv, flags \in Flags, [Next]_vars
    PROVE  Tree(txn') /\ Held'
<1>0. /\ IInv /\ Tree(txn) /\ Held /\ current \in Live(txn) \cup {NoTxn}
      /\ Open \subseteq Live(txn) /\ Open \subseteq Txn
  BY CurrentIsLive DEF TreeInv, Open
<1>1. CASE \/ \E d \in Decls \ {"ns"} : AppendDecl(d)
           \/ setDefinitionShadowNS
           \/ \E val \in {kErrors, kWarnings} : setIssuedDiags(val) /\ MaySet(val)
           \/ clear /\ MayClear
  <2>1. Tree(txn')
    BY <1>0, <1>1, DeclsTree, DiagsTree
  <2>2. Alike(txn', txn, Txn) /\ frames' = frames
    BY <1>0, <1>1, InsideIs DEF IInv, Types
  <2>3. Held'
    BY <1>0, <2>2, OpenSame, HeldSame DEF Alike
  <2> QED
    BY <2>1, <2>3
<1>2. CASE RollBack
  <2>1. /\ current \in Live(txn) /\ frames' = frames
        /\ txn' = [txn EXCEPT ![current].state = "rolledBack"]
    BY <1>0, <1>2 DEF RollBack
  <2>2. Tree(txn')
    BY <1>0, <2>1, FinishTree
  <2>3. /\ current \in Txn /\ txn'[current].state = "rolledBack"
        /\ \A u \in Txn \ {current} : txn'[u].state = txn[u].state
    <3>1. txn \in [Txn -> Transaction] /\ current \in Txn
      BY <1>0, <2>1 DEF Tree, Live
    <3> QED
      BY <2>1, <3>1 DEF Transaction
  <2>4. Open' = Open
    BY <2>1 DEF Open
  <2>5. Held'
    BY <1>0, <2>3, <2>4 DEF Held, Collecting
  <2> QED
    BY <2>2, <2>5
<1>3. CASE ToggleDebug \/ PopEarly \/ UNCHANGED vars
  <2>1. txn' = txn /\ frames' = frames
    BY <1>3 DEF ToggleDebug, PopEarly, pop, vars
  <2> QED
    BY <1>0, <2>1, OpenSame, HeldSame
<1>4. CASE OpenScope \/ OpenDebugger \/ Close \/ \E new \in Flags : OpenFlags(new)
  <2>0. /\ PushKind = {"scope", "snap", "compare"} /\ Len(frames) \in Nat
        /\ frames # <<>> => Len(frames) >= 1
    <3>1. frames \in Seq(Frame)
      BY <1>0 DEF IInv, Types
    <3> QED
      BY <3>1 DEF PushKind
  <2>1. CASE OpenScope
    BY <2>0, <2>1, PushTree DEF OpenScope
  <2>2. CASE OpenDebugger /\ debug
    BY <2>0, <2>2, PushTree DEF OpenDebugger
  <2>3. CASE OpenDebugger /\ ~debug
    <3>1. PlainFrame("quiet") \in Frame /\ PlainFrame("quiet").txn = NoTxn
      BY TransactionsAssumption DEF PlainFrame, Frame, FrameKind
    <3>2. txn' = txn /\ frames' = Append(frames, PlainFrame("quiet"))
      BY <2>3 DEF OpenDebugger
    <3> QED
      BY <1>0, <3>1, <3>2, OpenSame, HeldSame
  <2>4. CASE CloseScope \/ Compare \/ TakeSnapshot
    BY <2>0, <2>4, PopTree DEF CloseScope, Compare, TakeSnapshot, InnermostIs
  <2>5. CASE CloseDebugger
    <3>1. /\ "compare" \in PushKind /\ 1 \in {0, 1} /\ 1 <= Len(frames)
          /\ Innermost.kind \notin PushKind /\ Push("compare", 1)
      BY <2>0, <2>5 DEF CloseDebugger, InnermostIs
    <3> QED
      BY <3>1, PushTree
  <2>6. CASE CloseQuiet \/ CloseFlags
    <3>1. /\ txn' = txn /\ frames # <<>>
          /\ Innermost.kind \notin PushKind /\ frames' = Front(frames)
      BY <2>0, <2>6 DEF CloseQuiet, CloseFlags, InnermostIs
    <3> QED
      BY <1>0, <3>1, OpenSame, HeldSame
  <2>7. CASE \E new \in Flags : OpenFlags(new)
    <3> DEFINE f == [PlainFrame("flags") EXCEPT !.old = flags]
    <3>1. f \in Frame /\ f.txn = NoTxn
      BY TransactionsAssumption DEF PlainFrame, Frame, FrameKind
    <3>2. txn' = txn /\ frames' = Append(frames, f)
      BY <2>7 DEF OpenFlags
    <3> HIDE DEF f
    <3> QED
      BY <1>0, <3>1, <3>2, OpenSame, HeldSame
  <2> QED
    BY <1>4, <2>1, <2>2, <2>3, <2>4, <2>5, <2>6, <2>7 DEF Close
<1>5. CASE \E t \in Txn : Destroy(t)
  <2>1. PICK t \in Txn : Destroy(t)
    BY <1>5
  <2>2. /\ Tree(txn') /\ Live(txn') \subseteq Live(txn)
        /\ \A u \in Live(txn') : txn'[u] = txn[u]
    BY <1>0, <1>5, DestroyTree
  <2>3. frames' = frames
    BY <2>1 DEF Destroy
  <2>4. Open' = Open
    BY <2>3 DEF Open
  <2>5. \A u \in Open : txn'[u] = txn[u]
    <3>1. \A u \in Open : u \in Txn /\ u \notin Within(t)
      BY <1>0, <2>1 DEF Destroy, Open
    <3>2. txn' = [u \in Txn |-> IF u \in Within(t) THEN Retired(txn[u]) ELSE txn[u]]
      BY <2>1 DEF Destroy
    <3> QED
      BY <3>1, <3>2
  <2>6. \A u \in Txn : Collecting(u)' => Collecting(u)
    BY <2>2 DEF Collecting, Live
  <2>7. Held'
    <3>1. \A u \in Txn : Collecting(u)' => u \in Open'
      BY <1>0, <2>4, <2>6 DEF Held
    <3>2. \A u \in Open' : txn'[u].state \in {"collecting", "rolledBack"}
      BY <1>0, <2>4, <2>5 DEF Held
    <3> QED
      BY <3>1, <3>2 DEF Held
  <2> QED
    BY <2>2, <2>7
<1> QED
  BY <1>1, <1>2, <1>3, <1>4, <1>5 DEF Next

LEMMA TreeInit == Init => Tree(txn) /\ Held
<1> SUFFICES ASSUME Init PROVE Tree(txn) /\ Held
  OBVIOUS
<1>1. frames = <<>> /\ txn = [t \in Txn |-> Unused]
  BY DEF Init
<1>2. Unused \in Transaction /\ Unused.state = "numStates" /\ ~Unused.failed
  BY DEF Unused, Transaction, State
<1>3. txn \in [Txn -> Transaction] /\ \A t \in Txn : txn[t] = Unused
  BY <1>1, <1>2
<1>4. Live(txn) = {}
  BY <1>2, <1>3 DEF Live
<1>5. Open = {}
  BY <1>1 DEF Open
<1> QED
  BY <1>2, <1>3, <1>4, <1>5
  DEF Tree, Held, Listed, Planted, Blamed, Owing, Collecting

\* When a transaction is over those nested in it are: each scope's transaction
\* is nested in one that still collects.
LEMMA NestedAreOver ==
    ASSUME TreeInv, NEW u \in Live(txn), Collecting(u), txn[u].parent # NoTxn
    PROVE  Collecting(txn[u].parent)
<1>1. /\ DOMAIN frames = 1 .. Len(frames) /\ Len(frames) \in Nat
      /\ Active \subseteq 1 .. Len(frames)
      /\ \A i \in Active : frames[i].txn \in Txn
  BY ActiveAre DEF TreeInv, IInv
<1>2. PICK i \in DOMAIN frames : frames[i].txn = u /\ u # NoTxn
  BY TransactionsAssumption DEF TreeInv, Held, Open, Live
<1>3. i \in Active
  BY <1>2 DEF Active, Collecting
<1> DEFINE S == {j \in Active : j < i}
<1>4. S # {}
  <2>1. ~ \A j \in Active : i <= j
    BY <1>2, <1>3 DEF TreeInv, IInv, Chain
  <2> QED
    BY <1>1, <1>3, <2>1
<1>5. PICK j \in S : \A k \in S : k <= j
  <2>1. S \subseteq 1 .. Len(frames)
    BY <1>1
  <2> HIDE DEF S
  <2> QED
    BY <1>1, <1>4, <2>1, MaxExists
<1>6. txn[u].parent = frames[j].txn
  BY <1>2, <1>3, <1>5 DEF TreeInv, IInv, Chain
<1>7. frames[j].txn \in Open /\ txn[frames[j].txn].state # "rolledBack"
  BY <1>1, <1>5 DEF Open, Active
<1> QED
  BY <1>6, <1>7 DEF TreeInv, Held, Collecting

LEMMA TreeIsFamily == TreeInv => FamilyTree
<1> SUFFICES ASSUME TreeInv, NEW t \in Txn, ~Pooled(t)
             PROVE  /\ txn[t].owns => txn[t].nested # <<>>
                    /\ \A u \in Txn : ~Pooled(u) =>
                         Cardinality({i \in DOMAIN txn[t].nested : txn[t].nested[i] = u})
                           = IF txn[u].parent = t THEN 1 ELSE 0
                    /\ \A i \in DOMAIN txn[t].nested :
                         /\ ~Pooled(txn[t].nested[i])
                         /\ ~Collecting(t) => ~Collecting(txn[t].nested[i])
  BY DEF FamilyTree
<1>1. t \in Live(txn)
  BY DEF Live, Pooled
<1>2. /\ txn[t].owns => txn[t].nested # <<>>
      /\ \A i \in DOMAIN txn[t].nested :
           txn[t].nested[i] \in Live(txn) /\ txn[txn[t].nested[i]].parent = t
      /\ \A i, j \in DOMAIN txn[t].nested : txn[t].nested[i] = txn[t].nested[j] => i = j
      /\ \A u \in Live(txn) : txn[u].parent = t =>
           \E i \in DOMAIN txn[t].nested : txn[t].nested[i] = u
  BY <1>1 DEF TreeInv, Tree, Listed
<1>3. ASSUME NEW u \in Txn, ~Pooled(u)
      PROVE  Cardinality({i \in DOMAIN txn[t].nested : txn[t].nested[i] = u})
               = IF txn[u].parent = t THEN 1 ELSE 0
  <2> DEFINE I == {i \in DOMAIN txn[t].nested : txn[t].nested[i] = u}
  <2>1. u \in Live(txn)
    BY <1>3 DEF Live, Pooled
  <2>2. CASE txn[u].parent = t
    <3>1. PICK i \in DOMAIN txn[t].nested : txn[t].nested[i] = u
      BY <1>2, <2>1, <2>2
    <3>4. I = {i}
      BY <1>2, <3>1
    <3>2. Cardinality({i}) = 1
      BY FS_Singleton
    <3> HIDE DEF I
    <3>3. Cardinality(I) = 1
      BY <3>2, <3>4
    <3> QED
      BY <2>2, <3>3 DEF I
  <2>3. CASE txn[u].parent # t
    <3>1. I = {}
      BY <1>2, <2>3
    <3> HIDE DEF I
    <3>2. Cardinality(I) = 0
      BY <3>1, FS_EmptySet
    <3> QED
      BY <2>3, <3>2 DEF I
  <2> QED
    BY <2>2, <2>3
<1>4. ASSUME NEW i \in DOMAIN txn[t].nested
      PROVE  /\ ~Pooled(txn[t].nested[i])
             /\ ~Collecting(t) => ~Collecting(txn[t].nested[i])
  <2>1. PICK u \in Live(txn) : u = txn[t].nested[i] /\ txn[u].parent = t
    BY <1>2
  <2>2. ~Pooled(u) /\ t # NoTxn
    BY <2>1, TransactionsAssumption DEF Live, Pooled
  <2> QED
    BY <2>1, <2>2, NestedAreOver
<1> QED
  BY <1>2, <1>3, <1>4

\* What the topmost parent knows keeps the others from being committed.
LEMMA BlamedNotCommitted ==
    ASSUME TreeInv, [Next]_vars, "pop" \notin Misuse,
           NEW t \in Txn, txn[t].failed, txn[t].state # "committed"
    PROVE  txn'[t].state # "committed"
<1>0. /\ txn \in [Txn -> Transaction] /\ t \in Live(txn) /\ Planted(txn)
      /\ \A r \in Ancestors(ParentOf(txn), t) :
           txn[r].parent = NoTxn => txn[r].diags = kErrors
  BY DEF TreeInv, Tree, Blamed
<1>1. getIssuedDiags(t) = kErrors
  <2>1. /\ Par \in Parents /\ Par = ParentOf(txn) /\ Rooted(Par, t)
        /\ \A u \in Txn : Par[u] = txn[u].parent
    BY <1>0, ParentOfIs DEF Par, ParentOf, Planted
  <2>2. Line(t) = Ancestors(Par, t)
    BY <2>1, LineIs
  <2>3. \E r \in Line(t) : txn[r].parent = NoTxn
    BY <2>1, <2>2 DEF Rooted, Ancestors
  <2>4. getTopmostParent(t) \in Line(t) /\ txn[getTopmostParent(t)].parent = NoTxn
    BY <2>3 DEF getTopmostParent
  <2> QED
    BY <1>0, <2>1, <2>2, <2>4 DEF getIssuedDiags
<1>2. ASSUME NEW u \in Txn, endTransaction(u)
      PROVE  txn'[t].state # "committed"
  <2>1. CASE u # t
    BY <1>2, <2>1, EndIs DEF TreeInv, IInv, Types, Alike
  <2>2. CASE u = t /\ empty(t)
    <3>1. release(t)
      BY <1>2, <2>2 DEF endTransaction
    <3>2. t \notin Live(txn')
      BY <1>0, <2>2, <3>1, ReleaseTree DEF TreeInv
    <3> QED
      BY <3>2 DEF Live
  <2>3. CASE u = t /\ ~empty(t)
    <3>1. txn' = [txn EXCEPT ![t].state = "rolledBack"]
      BY <1>1, <1>2, <2>3 DEF endTransaction, commitTransaction
    <3>2. txn[t] \in Transaction
      BY <1>0
    <3> QED
      BY <1>0, <3>1, <3>2 DEF Transaction
  <2> QED
    BY <2>1, <2>2, <2>3
<1>3. ASSUME frames # <<>>, Innermost.kind \in PushKind, pop(Innermost.txn)
      PROVE  txn'[t].state # "committed"
  <2>1. Innermost.txn \in Txn
    <3>1. frames \in Seq(Frame)
      BY DEF TreeInv, IInv, Types
    <3>2. Len(frames) \in DOMAIN frames
      BY <1>3, <3>1
    <3> QED
      BY <1>3, <3>2, ActiveAre DEF Innermost, TreeInv, IInv, Types
  <2> QED
    BY <1>2, <1>3, <2>1 DEF pop
<1>4. ASSUME NEW u \in Txn, beginTransaction(u)
      PROVE  txn'[t].state # "committed"
  BY <1>4, BeginIs DEF TreeInv, IInv, Types, Alike
<1>5. CASE \/ \E d \in Decls \ {"ns"} : AppendDecl(d)
           \/ setDefinitionShadowNS
           \/ \E val \in {kErrors, kWarnings} : setIssuedDiags(val)
           \/ clear
  BY <1>5, InsideIs DEF TreeInv, IInv, Types, Alike
<1>6. CASE RollBack
  <2>1. /\ current \in Txn /\ txn' = [txn EXCEPT ![current].state = "rolledBack"]
    BY <1>6 DEF RollBack, TreeInv, IInv, Types
  <2> QED
    BY <1>0, <2>1 DEF Transaction
<1>7. CASE \/ ToggleDebug \/ CloseQuiet \/ CloseFlags \/ UNCHANGED vars
           \/ \E new \in Flags : OpenFlags(new)
           \/ (OpenDebugger /\ ~debug)
  BY <1>7 DEF ToggleDebug, CloseQuiet, CloseFlags, OpenFlags, OpenDebugger, vars
<1>8. CASE OpenScope \/ CloseDebugger \/ (OpenDebugger /\ debug)
  BY <1>4, <1>8 DEF OpenScope, CloseDebugger, OpenDebugger, Push
<1>9. CASE CloseScope \/ TakeSnapshot \/ Compare \/ PopEarly
  BY <1>3, <1>9 DEF CloseScope, TakeSnapshot, Compare, PopEarly, InnermostIs, PushKind
<1>10. CASE \E u \in Txn : Destroy(u)
  <2>1. \A u \in Live(txn') : txn'[u] = txn[u]
    BY <1>10, DestroyTree DEF TreeInv
  <2> QED
    BY <2>1 DEF Live
<1> QED
  <2>1. OpenDebugger => (OpenDebugger /\ debug) \/ (OpenDebugger /\ ~debug)
    OBVIOUS
  <2> QED
    BY <1>5, <1>6, <1>7, <1>8, <1>9, <1>10, <2>1 DEF Next, Close

\* A scope's end rolls back only where the topmost parent knows of errors, and
\* what it knows happened in this life of the tree.
LEMMA RollBackEarned ==
    ASSUME TreeInv, [Next]_vars, NEW t \in Txn, Collecting(t),
           frames' # frames, txn'[t].state = "rolledBack"
    PROVE  txn[getTopmostParent(t)].failed
<1>0. /\ txn \in [Txn -> Transaction] /\ t \in Live(txn) /\ Planted(txn)
      /\ Owing(txn) /\ txn[t].state = "collecting" /\ txn[t].state # "rolledBack"
  BY DEF TreeInv, Tree, Live, Collecting
<1>1. getTopmostParent(t) \in Live(txn)
  <2>1. /\ Par \in Parents /\ Par = ParentOf(txn) /\ Rooted(Par, t)
        /\ \A u \in Txn : Par[u] = txn[u].parent
    BY <1>0, ParentOfIs DEF Par, ParentOf, Planted
  <2>2. Line(t) = Ancestors(Par, t) /\ Line(t) \subseteq Live(txn)
    BY <1>0, <2>1, LineIs, LiveClosed
  <2>3. \E r \in Line(t) : txn[r].parent = NoTxn
    BY <2>1, <2>2 DEF Rooted, Ancestors
  <2>4. getTopmostParent(t) \in Line(t)
    BY <2>3 DEF getTopmostParent
  <2> QED
    BY <2>2, <2>4
<1>2. getIssuedDiags(t) = kErrors => txn[getTopmostParent(t)].failed
  BY <1>0, <1>1 DEF getIssuedDiags, Owing
<1>3. ASSUME NEW u \in Txn, endTransaction(u)
      PROVE  txn[getTopmostParent(t)].failed
  <2>1. u = t
    BY <1>0, <1>3, EndIs DEF TreeInv, IInv, Types, Alike
  <2>2. CASE empty(t)
    <3>1. release(t)
      BY <1>3, <2>1, <2>2 DEF endTransaction
    <3>2. t \notin Live(txn')
      BY <1>0, <2>2, <3>1, ReleaseTree DEF TreeInv
    <3> QED
      BY <3>2 DEF Live
  <2>3. CASE ~empty(t)
    <3>1. txn' = [txn EXCEPT ![t].state = IF getIssuedDiags(t) = kErrors
                                            THEN "rolledBack" ELSE "committed"]
      BY <1>3, <2>1, <2>3 DEF endTransaction, commitTransaction
    <3>2. txn[t] \in Transaction
      BY <1>0
    <3>3. getIssuedDiags(t) = kErrors
      BY <1>0, <3>1, <3>2 DEF Transaction
    <3> QED
      BY <1>2, <3>3
  <2> QED
    BY <2>2, <2>3
<1>4. ASSUME frames # <<>>, Innermost.kind \in PushKind, pop(Innermost.txn)
      PROVE  txn[getTopmostParent(t)].failed
  <2>1. Innermost.txn \in Txn
    <3>1. frames \in Seq(Frame)
      BY DEF TreeInv, IInv, Types
    <3>2. Len(frames) \in DOMAIN frames
      BY <1>4, <3>1
    <3> QED
      BY <1>4, <3>2, ActiveAre DEF Innermost, TreeInv, IInv, Types
  <2> QED
    BY <1>0, <1>3, <1>4, <2>1 DEF pop
<1>5. ASSUME NEW u \in Txn, beginTransaction(u) PROVE FALSE
  BY <1>0, <1>5, BeginIs DEF TreeInv, IInv, Types, Alike
<1>6. CASE \/ \E d \in Decls \ {"ns"} : AppendDecl(d)
           \/ setDefinitionShadowNS
           \/ \E val \in {kErrors, kWarnings} : setIssuedDiags(val) /\ MaySet(val)
           \/ clear /\ MayClear
  BY <1>6 DEF AppendDecl, setDefinitionShadowNS, setIssuedDiags, clear
<1>7. CASE RollBack \/ PopEarly \/ ToggleDebug \/ UNCHANGED vars
           \/ \E u \in Txn : Destroy(u)
  BY <1>7 DEF RollBack, PopEarly, ToggleDebug, Destroy, vars
<1>8. CASE \/ CloseQuiet \/ CloseFlags \/ (OpenDebugger /\ ~debug)
           \/ \E new \in Flags : OpenFlags(new)
  BY <1>0, <1>8 DEF CloseQuiet, CloseFlags, OpenFlags, OpenDebugger
<1>9. CASE OpenScope \/ CloseDebugger \/ (OpenDebugger /\ debug)
  BY <1>5, <1>9 DEF OpenScope, CloseDebugger, OpenDebugger, Push
<1>10. CASE CloseScope \/ TakeSnapshot \/ Compare
  BY <1>4, <1>10 DEF CloseScope, TakeSnapshot, Compare, InnermostIs, PushKind
<1> QED
  <2>1. OpenDebugger => (OpenDebugger /\ debug) \/ (OpenDebugger /\ ~debug)
    OBVIOUS
  <2> QED
    BY <1>6, <1>7, <1>8, <1>9, <1>10, <2>1 DEF Next, Close

-----------------------------------------------------------------------------
(* The scopes implement TransactionStack: units are the transactions that  *)
(* collect, each inside its ancestors, the current one innermost.          *)

\* The expressions of the refinement mapping, under names of their own.
Nesting == [t \in Txn |-> Around(t)]
Queued == [t \in Txn |-> txn[t].decls]
InState(s) == {t \in Txn : txn[t].state = s}
Failures == {t \in Txn : txn[t].failed}

\* What is above each transaction in use.
Above(f) ==
    [t \in Txn |-> IF t \in Live(f) THEN Ancestors(ParentOf(f), t) \ {t} ELSE {}]

Mapping ==
    /\ Units = InState("collecting") /\ Nesting = Above(txn)
    /\ \A t \in Live(txn) : Line(t) = Ancestors(ParentOf(txn), t)

\* What open scopes collect into is what collects, and lines are ancestors.
LEMMA Mapped == TreeInv => Mapping
<1> SUFFICES ASSUME TreeInv PROVE Mapping
  OBVIOUS
<1>1. /\ \A i \in Active : frames[i].txn \in Txn /\ i \in DOMAIN frames
      /\ Held /\ Tree(txn)
  BY ActiveAre DEF TreeInv, IInv, Active
<1>2. ASSUME NEW t \in Txn
      PROVE  t \in Units <=> txn[t].state = "collecting"
  <2>1. ASSUME t \in Units
        PROVE  txn[t].state = "collecting"
    <3>1. PICK i \in Active : frames[i].txn = t
      BY <2>1 DEF Units
    <3>2. t \in Open /\ txn[t].state # "rolledBack"
      BY <1>1, <3>1 DEF Open, Active
    <3> QED
      BY <1>1, <3>2 DEF Held
  <2>2. ASSUME txn[t].state = "collecting"
        PROVE  t \in Units
    <3>1. PICK i \in DOMAIN frames : frames[i].txn = t
      BY <1>1, <2>2 DEF Held, Collecting, Open
    <3>2. i \in Active
      BY <2>2, <3>1, TransactionsAssumption DEF Active
    <3> QED
      BY <3>1, <3>2 DEF Units
  <2> QED
    BY <2>1, <2>2
<1>3. Units \subseteq Txn
  BY <1>1 DEF Units
<1>4. Units = InState("collecting")
  BY <1>2, <1>3 DEF InState
<1>5. ASSUME NEW t \in Txn
      PROVE  Pooled(t) <=> t \notin Live(txn)
  BY DEF Pooled, Live
<1>6. ASSUME NEW t \in Live(txn)
      PROVE  Line(t) = Ancestors(ParentOf(txn), t)
  <2>1. /\ Par \in Parents /\ Par = ParentOf(txn) /\ t \in Txn /\ Rooted(Par, t)
    BY <1>1, ParentOfIs DEF Par, ParentOf, Tree, Planted, Live
  <2> QED
    BY <2>1, LineIs
<1>7. Nesting = Above(txn)
  BY <1>5, <1>6 DEF Nesting, Around, Above
<1> QED
  BY <1>4, <1>6, <1>7 DEF Mapping

\* So it is after the step.
LEMMA MappedNext == TreeInv' => Mapping'
<1>1. TreeInv => Mapping
  BY Mapped
<1> QED
  BY <1>1, PTL

\* Among some scopes one is the outermost.
LEMMA MinExists ==
    ASSUME NEW n \in Nat, NEW S, S \subseteq 1 .. n, S # {}
    PROVE  \E i \in S : \A j \in S : i <= j
<1>1. S \subseteq Nat
  OBVIOUS
<1>2. PICK i \in S : \A j \in S : ~(<<j, i>> \in OpToRel(<, Nat))
  BY <1>1, NatLessThanWellFounded, WFMin
<1>3. \A j \in S : ~(j < i)
  BY <1>1, <1>2 DEF OpToRel
<1> QED
  BY <1>1, <1>3

\* The transactions that collect are the current one and its ancestors.
LEMMA CurrentLine ==
    ASSUME TreeInv
    PROVE  /\ current = NoTxn => Units = {}
           /\ current # NoTxn =>
                /\ current \in Units /\ current \in Live(txn)
                /\ Ancestors(ParentOf(txn), current) = Units
<1> DEFINE par == ParentOf(txn)
<1>1. /\ Active \subseteq 1 .. Len(frames) /\ Len(frames) \in Nat
      /\ \A i \in Active : frames[i].txn \in Txn
      /\ Chain /\ Tree(txn)
  BY ActiveAre DEF TreeInv, IInv
<1>2. par \in Parents /\ \A t \in Txn : par[t] = txn[t].parent
  BY <1>1, ParentOfIs DEF Tree
<1>3. CASE Active = {}
  BY <1>1, <1>3 DEF Units, Chain
<1>4. CASE Active # {}
  <2>1. PICK n \in Active : \A j \in Active : j <= n
    BY <1>1, <1>4, MaxExists
  <2>2. current = frames[n].txn /\ current \in Txn /\ current \in Units
    BY <1>1, <2>1 DEF Chain, Units
  <2> DEFINE A == Ancestors(par, current)
  <2>3. current \in A /\ A \subseteq Txn /\ Closed(par, A)
    BY <1>2, <2>2, AncestorsClosed
  <2>4. Closed(par, Units) /\ Units \subseteq Txn
    <3>1. ASSUME NEW i \in Active, txn[frames[i].txn].parent # NoTxn
          PROVE  txn[frames[i].txn].parent \in Units
      <4> DEFINE S == {j \in Active : j < i}
      <4>1. S # {}
        <5>1. ~ \A j \in Active : i <= j
          BY <1>1, <3>1 DEF Chain
        <5> QED
          BY <1>1, <5>1
      <4>2. PICK j \in S : \A k \in S : k <= j
        <5>1. S \subseteq 1 .. Len(frames)
          BY <1>1
        <5> HIDE DEF S
        <5> QED
          BY <1>1, <4>1, <5>1, MaxExists
      <4>3. txn[frames[i].txn].parent = frames[j].txn
        BY <1>1, <4>2 DEF Chain
      <4> QED
        BY <4>2, <4>3 DEF Units
    <3>2. Units \subseteq Txn
      BY <1>1 DEF Units
    <3> QED
      BY <1>1, <1>2, <3>1, <3>2 DEF Closed, Units
  <2>5. A \subseteq Units
    BY <2>2, <2>4, AncestorsLeast
  <2>6. Units \subseteq A
    <3> DEFINE B == {i \in Active : frames[i].txn \notin A}
    <3> SUFFICES ASSUME B # {} PROVE FALSE
      BY DEF Units
    <3>1. PICK i \in B : \A k \in B : k <= i
      <4>1. B \subseteq 1 .. Len(frames)
        BY <1>1
      <4> HIDE DEF B
      <4> QED
        BY <1>1, <4>1, MaxExists
    <3> DEFINE L == {j \in Active : i < j}
    <3>2. L # {}
      <4>1. i # n /\ i \in Active
        BY <2>2, <2>3, <3>1
      <4>2. n \in L
        BY <1>1, <2>1, <4>1
      <4> QED
        BY <4>2
    <3>3. PICK j \in L : \A k \in L : j <= k
      <4>1. L \subseteq 1 .. Len(frames)
        BY <1>1
      <4> HIDE DEF L
      <4> QED
        BY <1>1, <3>2, <4>1, MinExists
    <3>4. frames[j].txn \in A
      BY <1>1, <3>1, <3>3
    <3>5. txn[frames[j].txn].parent = frames[i].txn
      <4>1. /\ i \in Active /\ j \in Active /\ i < j
            /\ \A k \in Active : k < j => k <= i
        BY <1>1, <3>1, <3>3
      <4> QED
        BY <1>1, <4>1 DEF Chain
    <3>6. frames[i].txn \in Txn /\ frames[i].txn # NoTxn
      BY <1>1, <3>1, TransactionsAssumption
    <3>7. frames[i].txn \in A
      BY <1>1, <1>2, <2>3, <3>4, <3>5, <3>6 DEF Closed
    <3> QED
      BY <3>1, <3>7
  <2>7. current \in Live(txn)
    BY <2>2, CurrentIsLive, TransactionsAssumption DEF TreeInv
  <2> QED
    BY <2>2, <2>5, <2>6, <2>7, TransactionsAssumption
<1> QED
  BY <1>3, <1>4

\* The parser collects into the innermost unit.
LEMMA CurrentInnermost ==
    ASSUME TreeInv, NEW t \in Txn, t = current
    PROVE  Stack!Innermost(t)
<1>1. /\ t \in Units /\ t \in Live(txn)
      /\ Ancestors(ParentOf(txn), t) = Units
  BY CurrentLine, TransactionsAssumption
<1>2. Nesting[t] = Units \ {t}
  BY <1>1, Mapped DEF Mapping, Above
<1> QED
  BY <1>1, <1>2 DEF Stack!Innermost, Units, Nesting

-----------------------------------------------------------------------------
(* One lemma per abstract action.                                          *)

\* Nesting stays where blocks and parents do.
LEMMA NestingSame ==
    ASSUME TreeInv, TreeInv', Alike(txn', txn, Txn)
    PROVE  Nesting' = Nesting /\ Units' = Units
           /\ \A s \in State : InState(s)' = InState(s)
<1>1. \A t \in Txn : txn'[t].state = txn[t].state /\ txn'[t].parent = txn[t].parent
  BY DEF Alike
<1>2. Live(txn') = Live(txn) /\ ParentOf(txn') = ParentOf(txn)
  BY <1>1 DEF Live, ParentOf
<1>3. Above(txn') = Above(txn)
  BY <1>2 DEF Above
<1>4. \A s \in State : InState(s)' = InState(s)
  BY <1>1 DEF InState
<1>5. Units' = Units
  BY <1>4, Mapped, MappedNext DEF Mapping, State
<1> QED
  BY <1>3, <1>4, <1>5, Mapped, MappedNext DEF Mapping

\* Nothing happens to the input.
LEMMA Stutters ==
    ASSUME TreeInv, TreeInv', Alike(txn', txn, Txn),
           \A t \in Txn : txn'[t].decls = txn[t].decls /\ txn'[t].failed = txn[t].failed
    PROVE  UNCHANGED Stack!vars
<1>1. Queued' = Queued /\ Failures' = Failures
  BY DEF Queued, Failures
<1>2. InState("committed")' = InState("committed") /\ InState("rolledBack")' = InState("rolledBack")
  BY NestingSame DEF State
<1> QED
  BY <1>1, <1>2, NestingSame DEF Stack!vars, Nesting, Queued, Failures, InState

\* beginTransaction begins a unit, inside all that collect.
LEMMA Begins ==
    ASSUME TreeInv, TreeInv', NEW t \in Txn, beginTransaction(t)
    PROVE  Stack!Next
<1> DEFINE par == ParentOf(txn)
           new == ParentOf(txn')
<1>1. /\ current' = t /\ txn[t].state = "numStates"
      /\ txn'[t].state = "collecting" /\ txn'[t].parent = current
      /\ \A u \in Txn \ {t} : txn'[u].state = txn[u].state
                               /\ txn'[u].parent = txn[u].parent
  BY BeginIs DEF TreeInv, IInv, Types, Alike, Pooled
<1>2. /\ txn \in [Txn -> Transaction] /\ Planted(txn) /\ txn' \in [Txn -> Transaction]
      /\ current \in Live(txn) \cup {NoTxn}
  BY CurrentIsLive DEF TreeInv, Tree
<1>3. t \notin Live(txn) /\ current # t /\ Live(txn') = Live(txn) \cup {t}
  BY <1>1, <1>2, TransactionsAssumption DEF Live
<1>4. /\ par \in Parents /\ \A u \in Txn : par[u] = txn[u].parent
      /\ new \in Parents /\ \A u \in Txn : new[u] = txn'[u].parent
      /\ Closed(par, Live(txn)) /\ Live(txn) \in SUBSET Txn
  BY <1>2, ParentOfIs, LiveClosed
<1> HIDE DEF par, new
<1>5. \A u \in Live(txn) : Ancestors(new, u) = Ancestors(par, u)
  BY <1>1, <1>3, <1>4, AncestorsSame
<1>6. Ancestors(new, t) \ {t} = Units
  <2>1. CASE current = NoTxn
    BY <1>1, <1>4, <2>1, AncestorsStep, CurrentLine
  <2>2. CASE current # NoTxn
    <3>1. current \in Live(txn) /\ new[t] = current
      BY <1>1, <1>2, <1>4, <2>2
    <3>2. Ancestors(new, t) = {t} \cup Ancestors(new, current)
      BY <1>4, <2>2, <3>1, AncestorsStep
    <3>3. Ancestors(new, current) = Units
      BY <1>5, <2>2, <3>1, CurrentLine DEF par
    <3>4. t \notin Units
      BY <1>1, Mapped DEF Mapping, InState
    <3> QED
      BY <3>2, <3>3, <3>4
  <2> QED
    BY <2>1, <2>2
<1>7. Nesting' = [Nesting EXCEPT ![t] = Units]
  <2>1. Nesting = Above(txn) /\ Nesting' = Above(txn')
    BY Mapped, MappedNext DEF Mapping
  <2>2. Above(txn')[t] = Units /\ \A u \in Txn \ {t} : Above(txn')[u] = Above(txn)[u]
    BY <1>3, <1>5, <1>6 DEF Above, par, new
  <2>3. \A f : Above(f) = [u \in Txn |-> Above(f)[u]]
    BY DEF Above
  <2> QED
    BY <2>1, <2>2, <2>3
<1>8. /\ t \notin Units \cup InState("committed") \cup InState("rolledBack")
      /\ Units' = Units \cup {t}
      /\ InState("committed")' = InState("committed")
      /\ InState("rolledBack")' = InState("rolledBack")
  BY <1>1, Mapped, MappedNext DEF Mapping, InState
<1>9. \A u \in Txn : txn'[u].decls = txn[u].decls /\ txn'[u].failed = txn[u].failed
  <2>1. /\ txn'[t] = [Initialize(txn[t]) EXCEPT !.parent = current]
        /\ \A u \in Txn \ {t} : u # current => txn'[u] = txn[u]
        /\ current # NoTxn =>
             txn'[current] = [txn[current] EXCEPT !.owns = TRUE,
                                !.nested = Append(txn[current].nested, t)]
    BY <1>2, <1>3, BeginSets DEF Live
  <2>2. txn'[t].decls = txn[t].decls /\ txn'[t].failed = txn[t].failed
    <3>1. txn[t] \in Transaction
      BY <1>2
    <3> QED
      BY <2>1, <3>1 DEF Initialize, Transaction
  <2>3. ASSUME current # NoTxn
        PROVE  txn'[current].decls = txn[current].decls
               /\ txn'[current].failed = txn[current].failed
    <3>1. txn[current] \in Transaction
      BY <1>2, <2>3 DEF Live
    <3> QED
      BY <2>1, <2>3, <3>1 DEF Transaction
  <2> QED
    BY <2>1, <2>2, <2>3, TransactionsAssumption
<1>10. Queued' = Queued /\ Failures' = Failures
  BY <1>9 DEF Queued, Failures
<1>11. Stack!Begin(t)
  BY <1>7, <1>8, <1>10 DEF Stack!Begin, Nesting, Queued, Failures, InState
<1> QED
  BY <1>11 DEF Stack!Next

\* What happens to the declarations of the current transaction.
LEMMA Declares ==
    ASSUME TreeInv, TreeInv',
           (\E d \in Decls \ {"ns"} : AppendDecl(d)) \/ setDefinitionShadowNS \/ clear
    PROVE  Stack!Next
<1>0. PICK t : t = current
  OBVIOUS
<1>1. Alike(txn', txn, Txn)
  BY InsideIs DEF TreeInv, IInv, Types
<1>2. txn \in [Txn -> Transaction] /\ t \in Txn /\ txn[t] \in Transaction
  BY <1>0, CurrentIsLive, TransactionsAssumption
  DEF TreeInv, Tree, Live, AppendDecl, setDefinitionShadowNS, clear
<1>3. /\ Nesting' = Nesting /\ Units' = Units
      /\ InState("committed")' = InState("committed")
      /\ InState("rolledBack")' = InState("rolledBack")
  BY <1>1, NestingSame DEF State
<1>4. ASSUME NEW D,
             \A u \in Txn : /\ txn'[u].failed = txn[u].failed
                            /\ txn'[u].decls = IF u = t THEN D ELSE txn[u].decls
      PROVE  Queued' = [Queued EXCEPT ![t] = D] /\ Failures' = Failures
  BY <1>2, <1>4 DEF Queued, Failures
<1>5. Queued[t] = txn[t].decls /\ t \in DOMAIN Queued
  BY <1>2 DEF Queued
<1>6. ASSUME NEW d \in Decls,
             \A u \in Txn :
               /\ txn'[u].failed = txn[u].failed
               /\ txn'[u].decls = IF u = t THEN txn[u].decls \cup {d} ELSE txn[u].decls
      PROVE  Stack!Take(t, d)
  <2> DEFINE D == txn[t].decls \cup {d}
  <2>1. \A u \in Txn : /\ txn'[u].failed = txn[u].failed
                       /\ txn'[u].decls = IF u = t THEN D ELSE txn[u].decls
    BY <1>6
  <2> HIDE DEF D
  <2>2. Queued' = [Queued EXCEPT ![t] = D] /\ Failures' = Failures
    BY <1>4, <2>1
  <2>3. Queued' = [Queued EXCEPT ![t] = @ \cup {d}]
    BY <1>5, <2>2 DEF D
  <2>4. Stack!Innermost(t)
    BY <1>0, <1>2, CurrentInnermost
  <2> QED
    BY <1>3, <2>2, <2>3, <2>4 DEF Stack!Take, Nesting, Queued, Failures, InState
<1>7. CASE \E d \in Decls \ {"ns"} : AppendDecl(d)
  <2>1. PICK d \in Decls : txn' = [txn EXCEPT ![t].decls = @ \cup {d}]
    BY <1>0, <1>7 DEF AppendDecl
  <2>2. Stack!Take(t, d)
    BY <1>2, <1>6, <2>1 DEF Transaction
  <2> QED
    BY <1>2, <2>2 DEF Stack!Next
<1>8. CASE setDefinitionShadowNS
  <2>1. /\ "ns" \in Decls
        /\ txn' = [txn EXCEPT ![t].shadow = TRUE,
                              ![t].decls = @ \cup {"ns"}]
    BY <1>0, <1>8 DEF setDefinitionShadowNS
  <2>2. \A u \in Txn :
          /\ txn'[u].failed = txn[u].failed
          /\ txn'[u].decls = IF u = t THEN txn[u].decls \cup {"ns"} ELSE txn[u].decls
    BY <1>2, <2>1 DEF Transaction
  <2>3. Stack!Take(t, "ns")
    BY <1>6, <2>1, <2>2
  <2> QED
    BY <1>2, <2>1, <2>3 DEF Stack!Next
<1>9. CASE clear
  <2>1. PICK rest \in SUBSET txn[t].decls :
          txn' = [txn EXCEPT ![t].decls = rest, ![t].nested = <<>>]
    BY <1>0, <1>9 DEF clear
  <2>2. \A u \in Txn : /\ txn'[u].failed = txn[u].failed
                       /\ txn'[u].decls = IF u = t THEN rest ELSE txn[u].decls
    BY <1>2, <2>1 DEF Transaction
  <2>3. Queued' = [Queued EXCEPT ![t] = rest] /\ Failures' = Failures
    BY <1>4, <2>2
  <2>4. Stack!Innermost(t)
    BY <1>0, <1>2, CurrentInnermost
  <2>5. Stack!Drop(t)
    BY <1>3, <1>5, <2>3, <2>4 DEF Stack!Drop, Nesting, Queued, Failures, InState
  <2> QED
    BY <1>2, <2>5 DEF Stack!Next
<1> QED
  BY <1>7, <1>8, <1>9

\* Errors are those of the current transaction and of all it is nested in.
LEMMA Fails ==
    ASSUME TreeInv, TreeInv', NEW val \in {kErrors, kWarnings}, setIssuedDiags(val)
    PROVE  Stack!Next \/ UNCHANGED Stack!vars
<1>1. Alike(txn', txn, Txn)
  BY InsideIs DEF TreeInv, IInv, Types
<1>2. txn \in [Txn -> Transaction] /\ current # NoTxn
  BY DEF TreeInv, Tree, setIssuedDiags
<1>3. Line(current) = Units
  BY <1>2, CurrentLine, Mapped DEF Mapping
<1>4. ASSUME NEW u \in Txn
      PROVE  /\ txn'[u].decls = txn[u].decls
             /\ txn'[u].failed = (txn[u].failed \/ (val = kErrors /\ u \in Units))
  <2>1. txn[u] \in Transaction
    BY <1>2
  <2>2. PICK x : txn'[u] = [txn[u] EXCEPT !.diags = x,
                              !.failed = @ \/ (val = kErrors /\ u \in Units)]
    BY <1>3 DEF setIssuedDiags
  <2> QED
    BY <2>1, <2>2 DEF Transaction
<1>5. CASE val = kErrors
  <2>1. Queued' = Queued
    BY <1>4 DEF Queued
  <2>2. Failures' = Failures \cup Units
    <3>1. Units \subseteq Txn
      BY Mapped DEF Mapping, InState
    <3> QED
      BY <1>4, <1>5, <3>1 DEF Failures
  <2>3. Stack!Fail
    BY <1>1, <2>1, <2>2, NestingSame
    DEF Stack!Fail, Nesting, Queued, Failures, InState, State
  <2> QED
    BY <2>3 DEF Stack!Next
<1>6. CASE val # kErrors
  <2>1. \A u \in Txn : txn[u].failed \in BOOLEAN
    <3>1. \A u \in Txn : txn[u] \in Transaction
      BY <1>2
    <3> QED
      BY <3>1 DEF Transaction
  <2> QED
    BY <1>1, <1>4, <1>6, <2>1, Stutters
<1> QED
  BY <1>5, <1>6

\* The current transaction is committed or rolled back: a unit ends.
LEMMA Finishes ==
    ASSUME TreeInv, TreeInv', NEW t \in Txn, t = current, NEW new \in {"rolledBack", "committed"},
           txn' = [txn EXCEPT ![t].state = new],
           new = "committed" => ~txn[t].failed
    PROVE  Stack!Next
<1>1. /\ txn \in [Txn -> Transaction] /\ t \in Live(txn) /\ t \in Units
      /\ txn[t].state = "collecting"
  BY CurrentLine, Mapped, TransactionsAssumption DEF TreeInv, Tree, Live, Mapping, InState
<1>2. \A u \in Txn :
        /\ txn'[u].state = IF u = t THEN new ELSE txn[u].state
        /\ txn'[u].parent = txn[u].parent /\ txn'[u].decls = txn[u].decls
        /\ txn'[u].failed = txn[u].failed
  <2>1. \A u \in Txn : txn[u] \in Transaction
    BY <1>1
  <2> QED
    BY <1>1, <2>1 DEF Transaction
<1>3. Queued' = Queued /\ Failures' = Failures
  BY <1>2 DEF Queued, Failures
<1>4. Nesting' = Nesting
  <2>1. Live(txn') = Live(txn) /\ ParentOf(txn') = ParentOf(txn)
    BY <1>1, <1>2 DEF Live, ParentOf
  <2>2. Above(txn') = Above(txn)
    BY <2>1 DEF Above
  <2> QED
    BY <2>2, Mapped, MappedNext DEF Mapping
<1>5. Units' = Units \ {t}
  BY <1>2, Mapped, MappedNext DEF Mapping, InState
<1>6. Stack!Innermost(t)
  BY CurrentInnermost
<1>7. CASE new = "committed"
  <2>1. /\ InState("committed")' = InState("committed") \cup {t}
        /\ InState("rolledBack")' = InState("rolledBack")
    BY <1>1, <1>2, <1>7 DEF InState
  <2>2. t \notin Failures
    BY <1>7 DEF Failures
  <2>3. Stack!Keep(t)
    BY <1>3, <1>4, <1>5, <1>6, <2>1, <2>2
    DEF Stack!Keep, Nesting, Queued, Failures, InState
  <2> QED
    BY <2>3 DEF Stack!Next
<1>8. CASE new = "rolledBack"
  <2>1. /\ InState("committed")' = InState("committed")
        /\ InState("rolledBack")' = InState("rolledBack") \cup {t}
    BY <1>1, <1>2, <1>8 DEF InState
  <2>2. Stack!Undo(t)
    BY <1>3, <1>4, <1>5, <1>6, <2>1
    DEF Stack!Undo, Nesting, Queued, Failures, InState
  <2> QED
    BY <2>2 DEF Stack!Next
<1> QED
  BY <1>7, <1>8

\* The current transaction is empty and returns to the pool: nothing that was
\* begun inside it is left without it.
LEMMA Discards ==
    ASSUME TreeInv, TreeInv', NEW t \in Txn, t = current, empty(t), release(t)
    PROVE  Stack!Next
<1> DEFINE par == ParentOf(txn)
<1>1. /\ txn \in [Txn -> Transaction] /\ t \in Live(txn) /\ t \in Units
      /\ txn[t].state = "collecting"
      /\ Tree(txn) /\ Listed(txn) /\ Planted(txn)
  BY CurrentLine, Mapped, TransactionsAssumption DEF TreeInv, Tree, Live, Mapping, InState
<1>2. txn[t].decls = {} /\ txn[t].nested = <<>>
  BY DEF empty
<1>3. /\ txn'[t].state = "numStates" /\ txn'[t].decls = {} /\ ~txn'[t].failed
      /\ txn'[t].parent = txn[t].parent
      /\ \A u \in Txn \ {t} :
           /\ txn'[u].state = txn[u].state /\ txn'[u].parent = txn[u].parent
           /\ txn'[u].decls = txn[u].decls /\ txn'[u].failed = txn[u].failed
  <2> DEFINE a == Unnest(txn, t)
             p == txn[t].parent
  <2>1. Typed(txn)
    BY DEF TreeInv, IInv, Types
  <2>2. Typed(a) /\ Alike(a, txn, Txn)
    BY <1>1, <2>1, UnnestIs
  <2>3. PICK N : a \in [Txn -> Record(N)]
    BY <2>2 DEF Typed
  <2>4. \A u \in Txn : a[u].decls = txn[u].decls /\ a[u].failed = txn[u].failed
    <3>1. \A u \in Txn : txn[u] \in Transaction
      BY <1>1
    <3>2. CASE p = NoTxn
      BY <3>2 DEF Unnest
    <3>3. CASE p \in Txn
      <4>1. PICK rest, w : a = [txn EXCEPT ![p].nested = rest, ![p].owns = w]
        <5>1. p # NoTxn
          BY <3>3, TransactionsAssumption
        <5> QED
          BY <5>1 DEF Unnest
      <4> QED
        BY <1>1, <3>1, <3>3, <4>1 DEF Transaction
    <3>4. p \in Txn \cup {NoTxn}
      BY <1>1, TransactionIs
    <3> QED
      BY <3>2, <3>3, <3>4
  <2>5. txn' = [a EXCEPT ![t] = Retired(a[t])]
    BY DEF release
  <2> HIDE DEF a
  <2>6. a[t] \in Record(N)
    BY <1>1, <2>3
  <2>7. /\ Retired(a[t]).state = "numStates" /\ Retired(a[t]).decls = {}
        /\ ~Retired(a[t]).failed /\ Retired(a[t]).parent = a[t].parent
    BY <2>6 DEF Retired, Record
  <2> QED
    BY <1>1, <2>2, <2>3, <2>4, <2>5, <2>7 DEF Alike
<1>4. ParentOf(txn') = par /\ Live(txn') = Live(txn) \ {t}
  BY <1>1, <1>3 DEF ParentOf, Live
<1>5. Nesting' = [Nesting EXCEPT ![t] = {}]
  <2>1. Nesting = Above(txn) /\ Nesting' = Above(txn')
    BY Mapped, MappedNext DEF Mapping
  <2>2. Above(txn')[t] = {} /\ \A u \in Txn \ {t} : Above(txn')[u] = Above(txn)[u]
    BY <1>1, <1>4 DEF Above
  <2>3. \A f : Above(f) = [u \in Txn |-> Above(f)[u]]
    BY DEF Above
  <2> QED
    BY <2>1, <2>2, <2>3
<1>6. \A u \in Txn : t \notin Nesting[u]
  <2> SUFFICES ASSUME NEW u \in Live(txn), t \in Ancestors(par, u), t # u
               PROVE  FALSE
    BY Mapped DEF Mapping, Above
  <2>1. par \in Parents /\ u \in Txn /\ Ancestors(par, u) \subseteq Live(txn)
    BY <1>1, ParentOfIs, LiveClosed DEF Live
  <2>2. PICK x \in Ancestors(par, u) : par[x] = t
    BY <2>1, AncestorHasChild
  <2>3. x \in Live(txn) /\ txn[x].parent = t
    BY <1>1, <2>1, <2>2, ParentOfIs DEF Live
  <2>4. PICK i \in DOMAIN txn[t].nested : txn[t].nested[i] = x
    BY <1>1, <2>3 DEF Listed
  <2> QED
    BY <1>2, <2>4
<1>7. Stack!Whole(t) = {t}
  BY <1>1, <1>6 DEF Stack!Whole, Nesting
<1>8. /\ Units' = Units \ {t}
      /\ InState("committed")' = InState("committed")
      /\ InState("rolledBack")' = InState("rolledBack")
  BY <1>1, <1>3, Mapped, MappedNext DEF Mapping, InState
<1>9. Queued' = Queued /\ Failures' = Failures \ {t} /\ Queued[t] = {}
  BY <1>1, <1>2, <1>3 DEF Queued, Failures
<1>10. Stack!Innermost(t)
  BY CurrentInnermost
<1>11. Stack!Discard(t)
  BY <1>5, <1>7, <1>8, <1>9, <1>10
  DEF Stack!Discard, Nesting, Queued, Failures, InState
<1> QED
  BY <1>11 DEF Stack!Next

\* A finished topmost transaction is deleted with all that was begun inside.
LEMMA Forgets ==
    ASSUME TreeInv, TreeInv', NEW t \in Txn, Destroy(t)
    PROVE  Stack!Next
<1> DEFINE par == ParentOf(txn)
           gone == Within(t)
<1>1. /\ txn \in [Txn -> Transaction] /\ Planted(txn)
      /\ txn[t].state \in {"committed", "rolledBack"}
      /\ txn[t].parent = NoTxn /\ t \in Live(txn)
      /\ \A i \in DOMAIN frames : frames[i].txn \notin gone
      /\ txn' = [u \in Txn |-> IF u \in gone THEN Retired(txn[u]) ELSE txn[u]]
  BY DEF TreeInv, Tree, Destroy, Live
<1>2. par \in Parents /\ \A u \in Txn : par[u] = txn[u].parent
  BY <1>1, ParentOfIs
<1>3. \A u \in Txn : u \in gone <=> u \in Live(txn) /\ t \in Ancestors(par, u)
  BY <1>1, WithinIs DEF TreeInv
<1>4. Ancestors(par, t) = {t} /\ t \in gone /\ gone \subseteq Txn
  BY <1>1, <1>2, <1>3, AncestorsStep DEF Within
<1> HIDE DEF gone
<1>5. Nesting = Above(txn) /\ Nesting' = Above(txn')
  BY Mapped, MappedNext DEF Mapping
<1>6. Nesting[t] = {} /\ Stack!Whole(t) = gone
  <2>1. Nesting[t] = {}
    BY <1>4, <1>5 DEF Above
  <2>2. \A u \in Txn : u \in gone <=> u = t \/ t \in Nesting[u]
    BY <1>3, <1>4, <1>5 DEF Above
  <2>3. Stack!Whole(t) = {u \in Txn : u = t \/ t \in Nesting[u]}
    BY DEF Stack!Whole, Nesting
  <2> QED
    BY <1>4, <2>1, <2>2, <2>3
<1>7. \A u \in Txn :
        /\ txn'[u].parent = txn[u].parent
        /\ u \in gone => /\ txn'[u].state = "numStates"
                         /\ txn'[u].decls = {} /\ ~txn'[u].failed
        /\ u \notin gone => txn'[u] = txn[u]
  <2>1. \A u \in Txn : txn[u] \in Transaction
    BY <1>1
  <2>2. \A u \in Txn : /\ Retired(txn[u]).parent = txn[u].parent
                       /\ Retired(txn[u]).state = "numStates"
                       /\ Retired(txn[u]).decls = {} /\ ~Retired(txn[u]).failed
    BY <2>1 DEF Retired, Transaction
  <2> QED
    BY <1>1, <2>2
<1>8. ParentOf(txn') = par /\ Live(txn') = Live(txn) \ gone
  BY <1>7 DEF ParentOf, Live
<1>9. Nesting' = [u \in Txn |-> IF u \in gone THEN {} ELSE Nesting[u]]
  BY <1>5, <1>8 DEF Above
<1>10. Queued' = [u \in Txn |-> IF u \in gone THEN {} ELSE Queued[u]]
       /\ Failures' = Failures \ gone
  BY <1>7 DEF Queued, Failures
<1>11. /\ Units' = Units /\ gone \cap Units = {}
       /\ InState("committed")' = InState("committed") \ gone
       /\ InState("rolledBack")' = InState("rolledBack") \ gone
  <2>1. gone \cap Units = {}
    BY <1>1 DEF Units, Active
  <2>2. Units' = Units
    BY <1>7, <2>1, Mapped, MappedNext DEF Mapping, InState
  <2> QED
    BY <1>7, <2>1, <2>2 DEF InState
<1>12. t \in InState("committed") \cup InState("rolledBack")
  BY <1>1 DEF InState
<1>13. Stack!Forget(t)
  <2>1. /\ Nesting' = [u \in Txn |-> IF u \in Stack!Whole(t) THEN {} ELSE Nesting[u]]
        /\ Queued' = [u \in Txn |-> IF u \in Stack!Whole(t) THEN {} ELSE Queued[u]]
        /\ Failures' = Failures \ Stack!Whole(t)
        /\ Stack!Whole(t) \cap Units = {}
        /\ InState("committed")' = InState("committed") \ Stack!Whole(t)
        /\ InState("rolledBack")' = InState("rolledBack") \ Stack!Whole(t)
    BY <1>6, <1>9, <1>10, <1>11
  <2> QED
    BY <1>6, <1>11, <1>12, <2>1
    DEF Stack!Forget, Nesting, Queued, Failures, InState
<1> QED
  BY <1>13 DEF Stack!Next

\* pop(): the transaction of the innermost scope is the current one, or was
\* rolled back; it is discarded, kept or undone, or left alone.
LEMMA Pops ==
    ASSUME Misuse = {}, TreeInv, TreeInv', [Next]_vars,
           frames # <<>>, Innermost.kind \in PushKind, pop(Innermost.txn)
    PROVE  Stack!Next \/ UNCHANGED Stack!vars
<1>1. PICK n : n = Len(frames)
  OBVIOUS
<1>2. PICK t : t = frames[n].txn
  OBVIOUS
<1>3. /\ n \in DOMAIN frames /\ t \in Txn /\ t # NoTxn /\ pop(t)
      /\ \A i \in DOMAIN frames : i <= n
  <2>1. Types
    BY DEF TreeInv, IInv
  <2>2. n \in DOMAIN frames /\ \A i \in DOMAIN frames : i <= n
    BY <1>1, <2>1 DEF Types
  <2>3. frames[n].kind \in PushKind /\ pop(t)
    BY <1>1, <1>2 DEF Innermost
  <2> QED
    BY <1>2, <2>1, <2>2, <2>3, ActiveAre DEF Types
<1>4. CASE txn[t].state = "rolledBack"
  <2>1. txn' = txn
    BY <1>3, <1>4 DEF pop
  <2> QED
    BY <2>1, Stutters DEF Alike
<1>5. CASE txn[t].state # "rolledBack"
  <2>1. n \in Active /\ \A j \in Active : j <= n
    BY <1>2, <1>3, <1>5 DEF Active
  <2>2. t = current
    BY <1>2, <2>1 DEF TreeInv, IInv, Chain
  <2>3. endTransaction(t)
    BY <1>3, <1>5 DEF pop
  <2>4. CASE empty(t)
    <3>1. release(t)
      BY <2>3, <2>4 DEF endTransaction
    <3> QED
      BY <1>3, <2>2, <2>4, <3>1, Discards
  <2>5. CASE ~empty(t)
    <3>1. PICK new \in {"rolledBack", "committed"} :
            txn' = [txn EXCEPT ![t].state = new]
      BY <2>3, <2>5 DEF endTransaction, commitTransaction
    <3>2. txn \in [Txn -> Transaction] /\ txn[t].state = "collecting"
      BY <1>3, <2>2, CurrentLine, Mapped DEF TreeInv, Tree, Mapping, InState
    <3>3. txn'[t].state = new
      BY <1>3, <3>1, <3>2 DEF Transaction
    <3>4. new = "committed" => ~txn[t].failed
      BY <1>3, <3>2, <3>3, BlamedNotCommitted
    <3> QED
      BY <1>3, <2>2, <3>1, <3>4, Finishes
  <2> QED
    BY <2>4, <2>5
<1> QED
  BY <1>4, <1>5

\* Every step is one of TransactionStack, or none.
LEMMA StackNext ==
    ASSUME Misuse = {}, TreeInv, TreeInv', [Next]_vars
    PROVE  Stack!Next \/ UNCHANGED Stack!vars
<1>1. ASSUME txn' = txn
      PROVE  UNCHANGED Stack!vars
  BY <1>1, Stutters DEF Alike
<1>2. CASE (\E d \in Decls \ {"ns"} : AppendDecl(d)) \/ setDefinitionShadowNS \/ clear
  BY <1>2, Declares
<1>3. CASE \E val \in {kErrors, kWarnings} : setIssuedDiags(val)
  BY <1>3, Fails
<1>4. CASE RollBack
  <2>1. PICK t : t = current
    OBVIOUS
  <2>2. t \in Txn /\ txn' = [txn EXCEPT ![t].state = "rolledBack"]
    BY <1>4, <2>1 DEF RollBack, TreeInv, IInv, Types
  <2> QED
    BY <2>1, <2>2, Finishes
<1>5. CASE \/ ToggleDebug \/ CloseQuiet \/ CloseFlags \/ UNCHANGED vars
           \/ \E new \in Flags : OpenFlags(new)
           \/ (OpenDebugger /\ ~debug)
  BY <1>1, <1>5 DEF ToggleDebug, CloseQuiet, CloseFlags, OpenFlags, OpenDebugger, vars
<1>6. CASE OpenScope \/ CloseDebugger \/ (OpenDebugger /\ debug)
  <2>1. \E t \in Txn : beginTransaction(t)
    BY <1>6 DEF OpenScope, CloseDebugger, OpenDebugger, Push
  <2> QED
    BY <2>1, Begins
<1>7. CASE CloseScope \/ TakeSnapshot \/ Compare \/ PopEarly
  <2>1. frames # <<>> /\ Innermost.kind \in PushKind /\ pop(Innermost.txn)
    BY <1>7 DEF CloseScope, TakeSnapshot, Compare, PopEarly, InnermostIs, PushKind
  <2> QED
    BY <2>1, Pops
<1>8. CASE \E t \in Txn : Destroy(t)
  BY <1>8, Forgets
<1> QED
  <2>1. OpenDebugger => (OpenDebugger /\ debug) \/ (OpenDebugger /\ ~debug)
    OBVIOUS
  <2> QED
    BY <1>2, <1>3, <1>4, <1>5, <1>6, <1>7, <1>8, <2>1 DEF Next, Close

\* The pool is unused, and no unit is open.
LEMMA StackInit == Init => Stack!Init
<1> SUFFICES ASSUME Init PROVE Stack!Init
  OBVIOUS
<1>1. /\ frames = <<>> /\ \A t \in Txn : txn[t] = Unused
  BY DEF Init
<1>2. Unused.state = "numStates" /\ Unused.decls = {} /\ ~Unused.failed
  BY DEF Unused
<1>3. Units = {}
  BY <1>1 DEF Units, Active
<1>4. /\ Nesting = [t \in Txn |-> {}] /\ Queued = [t \in Txn |-> {}]
      /\ InState("committed") = {} /\ InState("rolledBack") = {} /\ Failures = {}
  BY <1>1, <1>2 DEF Nesting, Around, Pooled, Queued, InState, Failures
<1> QED
  BY <1>3, <1>4 DEF Stack!Init, Nesting, Queued, InState, Failures

-----------------------------------------------------------------------------
(* What TransactionStack implies, carried over.                            *)

\* Stack!Disciplined, of any units: open ones O, those around each In, kept K,
\* undone N, failed F.
Orderly(O, In, K, N, F) ==
    /\ O \cap (K \cup N) = {} /\ K \cap (N \cup F) = {}
    /\ \A u, v \in Txn : u \in In[v] => v \notin In[u] /\ In[u] \subseteq In[v]
    /\ \A v \in Txn : In[v] \subseteq O \cup K \cup N
    /\ \A u, v \in O : u = v \/ u \in In[v] \/ v \in In[u]
    /\ \A v \in O : In[v] \subseteq O

\* A unit begins.
LEMMA OrderlyBegin ==
    ASSUME NEW O \in SUBSET Txn, NEW In \in [Txn -> SUBSET Txn],
           NEW K, NEW N, NEW F, Orderly(O, In, K, N, F),
           NEW t \in Txn, t \notin O \cup K \cup N
    PROVE  Orderly(O \cup {t}, [In EXCEPT ![t] = O], K, N, F)
<1> DEFINE J == [In EXCEPT ![t] = O]
<1>1. /\ J \in [Txn -> SUBSET Txn] /\ J[t] = O /\ \A u \in Txn \ {t} : J[u] = In[u]
  OBVIOUS
<1>2. \A v \in Txn : t \notin In[v]
  BY DEF Orderly
<1> HIDE DEF J
<1>3. \A u, v \in Txn : u \in J[v] => v \notin J[u] /\ J[u] \subseteq J[v]
  BY <1>1, <1>2 DEF Orderly
<1>4. \A v \in Txn : J[v] \subseteq O \cup {t} \cup K \cup N
  BY <1>1 DEF Orderly
<1>5. \A u, v \in O \cup {t} : u = v \/ u \in J[v] \/ v \in J[u]
  BY <1>1 DEF Orderly
<1>6. \A v \in O \cup {t} : J[v] \subseteq O \cup {t}
  BY <1>1 DEF Orderly
<1>7. (O \cup {t}) \cap (K \cup N) = {} /\ K \cap (N \cup F) = {}
  BY DEF Orderly
<1>8. Orderly(O \cup {t}, J, K, N, F)
  BY <1>3, <1>4, <1>5, <1>6, <1>7 DEF Orderly
<1> QED
  BY <1>8 DEF J

\* The innermost unit ends, and stays known.
LEMMA OrderlyEnd ==
    ASSUME NEW O \in SUBSET Txn, NEW In \in [Txn -> SUBSET Txn],
           NEW K, NEW N, NEW F, Orderly(O, In, K, N, F),
           NEW t \in O, O \ {t} \subseteq In[t]
    PROVE  /\ t \notin F => Orderly(O \ {t}, In, K \cup {t}, N, F)
           /\ Orderly(O \ {t}, In, K, N \cup {t}, F)
<1>1. \A v \in O \ {t} : In[v] \subseteq O \ {t}
  BY DEF Orderly
<1> QED
  BY <1>1 DEF Orderly

\* The innermost unit is discarded, with nothing inside it.
LEMMA OrderlyDiscard ==
    ASSUME NEW O \in SUBSET Txn, NEW In \in [Txn -> SUBSET Txn],
           NEW K, NEW N, NEW F, Orderly(O, In, K, N, F),
           NEW t \in O, \A v \in Txn : v # t => t \notin In[v]
    PROVE  Orderly(O \ {t}, [In EXCEPT ![t] = {}], K, N, F \ {t})
<1> DEFINE J == [In EXCEPT ![t] = {}]
<1>1. J[t] = {} /\ \A u \in Txn \ {t} : J[u] = In[u]
  OBVIOUS
<1> HIDE DEF J
<1>2. \A u, v \in Txn : u \in J[v] => v \notin J[u] /\ J[u] \subseteq J[v]
  BY <1>1 DEF Orderly
<1>3. Orderly(O \ {t}, J, K, N, F \ {t})
  BY <1>1, <1>2 DEF Orderly
<1> QED
  BY <1>3 DEF J

\* A unit is forgotten with all that was begun inside it.
LEMMA OrderlyForget ==
    ASSUME NEW O \in SUBSET Txn, NEW In \in [Txn -> SUBSET Txn],
           NEW K, NEW N, NEW F, Orderly(O, In, K, N, F),
           NEW t \in Txn, NEW W \in SUBSET Txn, W \cap O = {},
           \A v \in Txn : v \in W <=> v = t \/ t \in In[v]
    PROVE  Orderly(O, [v \in Txn |-> IF v \in W THEN {} ELSE In[v]],
                   K \ W, N \ W, F \ W)
<1> DEFINE J == [v \in Txn |-> IF v \in W THEN {} ELSE In[v]]
<1>1. \A v \in Txn : J[v] = IF v \in W THEN {} ELSE In[v]
  OBVIOUS
<1> HIDE DEF J
<1>2. \A v \in Txn, u \in Txn : v \notin W /\ u \in In[v] => u \notin W
  BY DEF Orderly
<1>3. \A u, v \in Txn : u \in J[v] => v \notin J[u] /\ J[u] \subseteq J[v]
  BY <1>1, <1>2 DEF Orderly
<1>4. \A v \in Txn : J[v] \subseteq O \cup (K \ W) \cup (N \ W)
  <2> SUFFICES ASSUME NEW v \in Txn, NEW u \in J[v]
               PROVE  u \in O \cup (K \ W) \cup (N \ W)
    OBVIOUS
  <2>1. v \notin W /\ u \in In[v] /\ u \in Txn
    BY <1>1
  <2> QED
    BY <1>2, <2>1 DEF Orderly
<1>5. \A v \in O : J[v] = In[v]
  BY <1>1
<1>6. Orderly(O, J, K \ W, N \ W, F \ W)
  BY <1>3, <1>4, <1>5 DEF Orderly
<1> QED
  BY <1>6 DEF J

\* It holds of what the scopes do.
OrderlyNow ==
    Orderly(Units, Nesting, InState("committed"), InState("rolledBack"), Failures)

LEMMA OrderlyNext ==
    ASSUME TreeInv, TreeInv', OrderlyNow, Stack!Next \/ UNCHANGED Stack!vars
    PROVE  OrderlyNow'
<1>1. Units \in SUBSET Txn /\ Nesting \in [Txn -> SUBSET Txn]
  <2>1. \A t \in Txn : Ancestors(ParentOf(txn), t) \subseteq Txn
    BY DEF Ancestors
  <2> QED
    BY <2>1, Mapped DEF Mapping, InState, Above
<1> DEFINE K == InState("committed")
           N == InState("rolledBack")
<1>2. ASSUME UNCHANGED Stack!vars \/ Stack!Fail \/
             \E u \in Txn : Stack!Drop(u) \/ \E i \in Decls : Stack!Take(u, i)
      PROVE  OrderlyNow'
  <2>1. /\ Units' = Units /\ Nesting' = Nesting /\ K' = K /\ N' = N
        /\ Failures' \subseteq Failures \cup Units
    BY <1>2 DEF Stack!vars, Stack!Fail, Stack!Take, Stack!Drop,
                Nesting, Failures, InState
  <2> HIDE DEF K, N
  <2>2. Orderly(Units, Nesting, K, N, Failures)
    BY DEF OrderlyNow, K, N
  <2>3. Orderly(Units', Nesting', K', N', Failures')
    BY <2>1, <2>2 DEF Orderly
  <2> QED
    BY <2>3 DEF OrderlyNow, K, N
<1>3. ASSUME NEW t \in Txn, Stack!Begin(t)
      PROVE  OrderlyNow'
  <2>1. /\ t \notin Units \cup K \cup N
        /\ Units' = Units \cup {t} /\ Nesting' = [Nesting EXCEPT ![t] = Units]
        /\ K' = K /\ N' = N /\ Failures' = Failures
    BY <1>3 DEF Stack!Begin, Nesting, Failures, InState
  <2>2. Orderly(Units \cup {t}, [Nesting EXCEPT ![t] = Units], K, N, Failures)
    BY <1>1, <2>1, OrderlyBegin DEF OrderlyNow
  <2> QED
    BY <2>1, <2>2 DEF OrderlyNow
<1>4. ASSUME NEW t \in Txn, Stack!Keep(t) \/ Stack!Undo(t)
      PROVE  OrderlyNow'
  <2>1. t \in Units /\ Units \ {t} \subseteq Nesting[t]
    BY <1>4 DEF Stack!Keep, Stack!Undo, Stack!Innermost, Nesting
  <2>2. /\ Units' = Units \ {t} /\ Nesting' = Nesting /\ Failures' = Failures
        /\ \/ t \notin Failures /\ K' = K \cup {t} /\ N' = N
           \/ K' = K /\ N' = N \cup {t}
    BY <1>4 DEF Stack!Keep, Stack!Undo, Nesting, Failures, InState
  <2>3. /\ t \notin Failures => Orderly(Units \ {t}, Nesting, K \cup {t}, N, Failures)
        /\ Orderly(Units \ {t}, Nesting, K, N \cup {t}, Failures)
    BY <1>1, <2>1, OrderlyEnd DEF OrderlyNow
  <2> QED
    BY <2>2, <2>3 DEF OrderlyNow
<1>5. ASSUME NEW t \in Txn, Stack!Discard(t)
      PROVE  OrderlyNow'
  <2>0. t \in Units /\ Stack!Whole(t) = {t}
    BY <1>5 DEF Stack!Discard, Stack!Innermost
  <2>1. \A v \in Txn : v # t => t \notin Nesting[v]
    <3>1. \A v \in Txn : v \in Stack!Whole(t) <=> v = t \/ t \in Nesting[v]
      BY DEF Stack!Whole, Nesting
    <3> QED
      BY <2>0, <3>1
  <2>2. /\ Units' = Units \ {t} /\ Nesting' = [Nesting EXCEPT ![t] = {}]
        /\ K' = K /\ N' = N /\ Failures' = Failures \ {t}
    BY <1>5 DEF Stack!Discard, Nesting, Failures, InState
  <2>3. Orderly(Units \ {t}, [Nesting EXCEPT ![t] = {}], K, N, Failures \ {t})
    BY <1>1, <2>0, <2>1, OrderlyDiscard DEF OrderlyNow
  <2> QED
    BY <2>2, <2>3 DEF OrderlyNow
<1>6. ASSUME NEW t \in Txn, Stack!Forget(t)
      PROVE  OrderlyNow'
  <2>0. /\ Stack!Whole(t) \in SUBSET Txn
        /\ \A v \in Txn : v \in Stack!Whole(t) <=> v = t \/ t \in Nesting[v]
    BY DEF Stack!Whole, Nesting
  <2>1. PICK W \in SUBSET Txn :
          Stack!Whole(t) = W /\ \A v \in Txn : v \in W <=> v = t \/ t \in Nesting[v]
    BY <2>0
  <2>3. /\ W \cap Units = {} /\ Units' = Units
        /\ Nesting' = [v \in Txn |-> IF v \in W THEN {} ELSE Nesting[v]]
        /\ K' = K \ W /\ N' = N \ W /\ Failures' = Failures \ W
    BY <1>6, <2>1 DEF Stack!Forget, Nesting, Failures, InState
  <2>4. Orderly(Units, [v \in Txn |-> IF v \in W THEN {} ELSE Nesting[v]],
                K \ W, N \ W, Failures \ W)
    BY <1>1, <2>1, <2>3, OrderlyForget DEF OrderlyNow
  <2> QED
    BY <2>3, <2>4 DEF OrderlyNow
<1> QED
  BY <1>2, <1>3, <1>4, <1>5, <1>6 DEF Stack!Next

-----------------------------------------------------------------------------
(* The theorems.                                                           *)

\* The chain of active scopes is kept by every step, if pop() is called on a
\* scope by its destructor only, or after a roll back.
THEOREM Inductive ==
    ASSUME "pop" \notin Misuse
    PROVE  Spec => [](IInv /\ flags \in Flags)
<1>1. Init => IInv /\ flags \in Flags
  BY InvInit
<1>2. (IInv /\ flags \in Flags) /\ [Next]_vars => (IInv /\ flags \in Flags)'
  BY InvNext
<1> QED
  BY <1>1, <1>2, PTL DEF Spec

\* Whatever is opened, rolled back, compared and closed, the parser collects
\* into the transaction of the innermost scope that was not rolled back, which
\* is nested in the next one's (PushTransactionRAII, StateDebuggerRAII).
THEOREM ScopesStayNested ==
    ASSUME "pop" \notin Misuse
    PROVE  Spec => []ScopesNest
<1> QED
  BY ScopesAre, Inductive, PTL

\* pop() ends the transaction of its own scope, and that has not returned to
\* the pool: blocks may be re-used at any time without a scope noticing.
THEOREM ScopesKeepTheirs ==
    ASSUME "pop" \notin Misuse
    PROVE  Spec => []OwnTransaction
<1>1. IInv => OwnTransaction
  BY DEF IInv
<1> QED
  BY <1>1, Inductive, PTL

\* The two together, for the properties that need both.
THEOREM TreeInductive ==
    ASSUME Misuse = {}
    PROVE  Spec => [](TreeInv /\ flags \in Flags)
<1>1. Init => TreeInv /\ flags \in Flags
  BY InvInit, TreeInit DEF TreeInv
<1>2. (TreeInv /\ flags \in Flags) /\ [Next]_vars => (TreeInv /\ flags \in Flags)'
  BY InvNext, TreeNext DEF TreeInv
<1> QED
  BY <1>1, <1>2, PTL DEF Spec

\* Parents and lists of nested transactions stay inverse to each other through
\* beginTransaction, release, commit and the deletion of whole trees: each
\* nested transaction is deleted once, with its parent, and is over before it.
THEOREM FamilyStaysTree ==
    ASSUME Misuse = {}
    PROVE  Spec => []FamilyTree
<1>1. TreeInv => FamilyTree
  BY TreeIsFamily
<1> QED
  BY <1>1, TreeInductive, PTL

\* Errors reported to a nested transaction reach the topmost parent and stay
\* there, so that none of the transactions they were issued in is committed.
THEOREM ErrorsAreNotCommitted ==
    ASSUME Misuse = {}
    PROVE  Spec => ErrorsNotCommitted
<1>1. TreeInv /\ flags \in Flags /\ [Next]_vars
        => [\A t \in Txn : txn[t].failed => ~ /\ txn[t].state # "committed"
                                              /\ txn'[t].state = "committed"]_vars
  BY BlamedNotCommitted
<1> QED
  BY <1>1, TreeInductive, PTL DEF Spec, ErrorsNotCommitted

\* Nothing is rolled back by the end of its scope for errors of a block's former
\* use: whatever blocks the pool hands out, the level starts at none.
THEOREM OnlyErrorsDo ==
    ASSUME Misuse = {}
    PROVE  Spec => OnlyErrorsRollBack
<1>1. TreeInv /\ flags \in Flags /\ [Next]_vars
        => [\A t \in Txn :
              /\ Collecting(t) /\ frames' # frames
              /\ txn'[t].state = "rolledBack"
              => txn[getTopmostParent(t)].failed]_vars
  BY RollBackEarned
<1> QED
  BY <1>1, TreeInductive, PTL DEF Spec, OnlyErrorsRollBack

\* Scope objects, parents, lists, levels of diagnostics and the pool do to the
\* input what a stack of units would (PushTransactionRAII, Transaction).
THEOREM ImplementsStack ==
    ASSUME Misuse = {}
    PROVE  Spec => Stacked
<1>1. Init => Stack!Init
  BY StackInit
<1>2. TreeInv /\ TreeInv' /\ [Next]_vars => [Stack!Next]_(Stack!vars)
  BY StackNext
<1> QED
  BY <1>1, <1>2, TreeInductive, PTL DEF Spec, Stacked, Stack!Spec

\* A scope's transaction is nested in those of the scopes around it, which have
\* not ended; each transaction is open, kept or undone, or nobody knows it; and
\* none that is kept had errors, itself or in one nested in it.
THEOREM UnitsAreDisciplined ==
    ASSUME Misuse = {}
    PROVE  Spec => []Stack!Disciplined
<1>1. Init => OrderlyNow
  <2> SUFFICES ASSUME Init PROVE OrderlyNow
    OBVIOUS
  <2>1. Stack!Init
    BY StackInit
  <2>2. /\ Units = {} /\ Nesting = [t \in Txn |-> {}] /\ InState("committed") = {}
        /\ InState("rolledBack") = {}
    BY <2>1 DEF Stack!Init, Nesting, InState
  <2> QED
    BY <2>2 DEF OrderlyNow, Orderly
<1>2. TreeInv /\ TreeInv' /\ OrderlyNow /\ [Next]_vars => OrderlyNow'
  BY StackNext, OrderlyNext
<1>3. OrderlyNow => Stack!Disciplined
  BY DEF OrderlyNow, Orderly, Stack!Disciplined, Nesting, Failures, InState
<1> QED
  BY <1>1, <1>2, <1>3, TreeInductive, PTL DEF Spec
=============================================================================
