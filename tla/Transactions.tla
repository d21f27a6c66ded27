---------------------------- MODULE Transactions ----------------------------
(***************************************************************************)
(* Transactions and the scopes that open and close them.                   *)
(*                                                                         *)
(* A Transaction collects what the parser sees.  The objects whose         *)
(* constructors and destructors delimit a stretch of work (PushTransaction-*)
(* RAII, StateDebuggerRAII, InputFlagsRAII) live on the C++ stack, so the  *)
(* model keeps them in a sequence of frames of which only the last can be  *)
(* destroyed.  The incremental parser, declared in the repository and not  *)
(* defined there, is modelled from the way the scopes use it: it takes a   *)
(* transaction from a pool, nests it in the current one, and at the end    *)
(* gives an empty transaction back and commits the others.                 *)
(***************************************************************************)
EXTENDS Naturals, Sequences, SequencesExt, FiniteSets

CONSTANTS
    Txn,        \* the blocks of the transaction pool
    NoTxn,      \* the null pointer
    Flags,      \* values of Interpreter::input_flags_
    NoFlags,    \* the one it starts with
    MaxFrames,  \* bound on scopes open at a time
    Decls,      \* the kinds of declarations the input has: ordinary ones,
                \* shadow namespaces, macros
    Misuse      \* what clients do against the contract of the classes:
                \*   "pop"   pop() a scope whose transaction is not rolled back
                \*   "clear" clear() a transaction that has nested ones
                \*   "lower" set a milder diagnostics level than the present

ASSUME TransactionsAssumption ==
    /\ NoTxn \notin Txn
    /\ IsFiniteSet(Txn)
    /\ NoFlags \in Flags
    /\ MaxFrames \in Nat
    /\ Decls \subseteq {"decl", "ns", "macro"}
    /\ Misuse \subseteq {"pop", "clear", "lower"}

VARIABLES
    txn,      \* the fields of every Transaction
    current,  \* the transaction the parser collects into
    frames,   \* the scope objects on the C++ stack, innermost last
    flags,    \* Interpreter::input_flags_
    debug     \* Interpreter::isPrintingDebug()

vars == <<txn, current, frames, flags, debug>>

-----------------------------------------------------------------------------
(* The fields of a Transaction.                                            *)

State == {"collecting", "completed", "rolledBack", "rolledBackWithErrors",
          "committed", "numStates"}

kErrors == 0
kWarnings == 1
kNone == 2

\* decls holds the kinds of declarations queued, macros included.  owns says
\* that nested_transactions_ is allocated.  failed is history: the transaction or one nested in it issued errors.
Transaction ==
    [state : State, parent : Txn \cup {NoTxn}, owns : BOOLEAN,
     nested : Seq(Txn), diags : {kErrors, kWarnings, kNone},
     decls : SUBSET Decls, shadow : BOOLEAN,
     failed : BOOLEAN]

\* A block nobody has used yet.
Unused ==
    [state |-> "numStates", parent |-> NoTxn, owns |-> FALSE,
     nested |-> <<>>, diags |-> kNone, decls |-> {}, shadow |-> FALSE,
     failed |-> FALSE]

\* Defects of Initialize(): parent_, or the diagnostics level, is forgotten.
Initialize_KeepsParent(r) ==
    [r EXCEPT !.owns = FALSE, !.nested = <<>>, !.state = "collecting",
              !.diags = kNone, !.shadow = FALSE]
Initialize_KeepsDiags(r) ==
    [r EXCEPT !.owns = FALSE, !.nested = <<>>, !.parent = NoTxn,
              !.state = "collecting", !.shadow = FALSE]

\* Initialize() of the block r, on its way out of the pool.
Initialize(r) ==
    [r EXCEPT !.owns = FALSE, !.nested = <<>>, !.parent = NoTxn,
              !.state = "collecting", !.diags = kNone, !.shadow = FALSE]

\* The state a transaction has in the pool.
Pooled(t) == txn[t].state = "numStates"

Collecting(t) == txn[t].state = "collecting"

\* t and the transactions it is nested in.
Line(t) ==
    LET up[u \in Txn] ==
          {u} \cup (IF txn[u].parent = NoTxn THEN {} ELSE up[txn[u].parent])
    IN  up[t]

\* A defect: each transaction keeps its own level of diagnostics.
getTopmostParent_Self(t) == t

getTopmostParent(t) == CHOOSE u \in Line(t) : txn[u].parent = NoTxn

getIssuedDiags(t) == txn[getTopmostParent(t)].diags

\* A defect: what is nested in the transaction is not asked for.
empty_Alone(t) == txn[t].decls = {}

\* Does the transaction hold no declaration?
empty(t) == txn[t].decls = {} /\ txn[t].nested = <<>>

-----------------------------------------------------------------------------
(* The scope objects.                                                      *)

\* The kinds of frames: a PushTransactionRAII of a client, or of the
\* constructor or the destructor of a StateDebuggerRAII; a StateDebuggerRAII
\* that holds a snapshot, or none; an InputFlagsRAII.
PushKind == {"scope", "snap", "compare"}
FrameKind == PushKind \cup {"debugger", "quiet", "flags"}

PushFrame(kind, t) == [kind |-> kind, txn |-> t, old |-> NoFlags]
PlainFrame(kind) == [kind |-> kind, txn |-> NoTxn, old |-> NoFlags]

Innermost == frames[Len(frames)]

InnermostIs(kind) == frames # <<>> /\ Innermost.kind = kind

\* The blocks a debugger's destructor will still need, so that the bound on
\* blocks stops the opening of scopes and never their closing.
Promised == Cardinality({i \in DOMAIN frames :
                           frames[i].kind \in {"snap", "debugger"}})

Available(n) == Cardinality({t \in Txn : Pooled(t)}) >= n + Promised

-----------------------------------------------------------------------------
(* The incremental parser.                                                 *)

\* addNestedTransaction of the fresh block t to the transaction p.
NestIn(f, p, t) ==
    IF p = NoTxn THEN f
    ELSE [f EXCEPT ![t].parent = p,
                   ![p].owns = TRUE, ![p].nested = Append(@, t)]

\* removeNestedTransaction: the last one to leave takes the list with it.
Unnest(f, t) ==
    LET p == f[t].parent
    IN  IF p = NoTxn THEN f
        ELSE LET rest == RemoveFirst(f[p].nested, t)
             IN  [f EXCEPT ![p].nested = rest, ![p].owns = rest # <<>>]

beginTransaction(t) ==
    /\ Pooled(t)
    /\ txn' = NestIn([txn EXCEPT ![t] = Initialize(@)], current, t)
    /\ current' = t

\* A block in the pool: its containers are destroyed, its plain fields keep
\* what they held until Initialize.
Retired(r) ==
    [r EXCEPT !.state = "numStates", !.decls = {}, !.nested = <<>>,
              !.owns = FALSE, !.failed = FALSE]

\* An empty transaction returns to the pool.
release(t) ==
    txn' = [Unnest(txn, t) EXCEPT ![t] = Retired(@)]

\* The others are committed, or rolled back if errors were issued.
commitTransaction(t) ==
    txn' = [txn EXCEPT ![t].state = IF getIssuedDiags(t) = kErrors
                                      THEN "rolledBack" ELSE "committed"]

endTransaction(t) ==
    /\ IF empty(t) THEN release(t) ELSE commitTransaction(t)
    /\ current' = txn[t].parent

-----------------------------------------------------------------------------
(* What happens inside a scope.                                            *)

\* append of a declaration or a macro.
AppendDecl(d) ==
    /\ current # NoTxn
    /\ d \notin txn[current].decls
    /\ txn' = [txn EXCEPT ![current].decls = @ \cup {d}]
    /\ UNCHANGED <<current, frames, flags, debug>>

\* setDefinitionShadowNS: once per transaction.
setDefinitionShadowNS ==
    /\ current # NoTxn
    /\ "ns" \in Decls
    /\ ~txn[current].shadow
    /\ txn' = [txn EXCEPT ![current].shadow = TRUE,
                          ![current].decls = @ \cup {"ns"}]
    /\ UNCHANGED <<current, frames, flags, debug>>

\* setIssuedDiags writes to the topmost parent, whatever stood there.
setIssuedDiags(val) ==
    /\ current # NoTxn
    /\ LET top == getTopmostParent(current)
           line == Line(current)
       IN  txn' = [t \in Txn |->
             [txn[t] EXCEPT !.diags = IF t = top THEN val ELSE @,
                            !.failed = @ \/ (val = kErrors /\ t \in line)]]
    /\ UNCHANGED <<current, frames, flags, debug>>

\* clear drops the declarations and the list of nested transactions; macros,
\* the pointer to the shadow namespace and the nested transactions' parents stay.
clear ==
    /\ current # NoTxn
    /\ txn' = [txn EXCEPT ![current].decls = @ \cap {"macro"},
                          ![current].nested = <<>>]
    /\ UNCHANGED <<current, frames, flags, debug>>

\* The transaction being collected is unloaded while its scope is open.
RollBack ==
    /\ current # NoTxn
    /\ txn' = [txn EXCEPT ![current].state = "rolledBack"]
    /\ current' = txn[current].parent
    /\ UNCHANGED <<frames, flags, debug>>

\* isPrintingDebug() changes under an open debugger as well.
ToggleDebug ==
    /\ debug' = ~debug
    /\ UNCHANGED <<txn, current, frames, flags>>

-----------------------------------------------------------------------------
(* Constructors and destructors of the scopes.                             *)

\* PushTransactionRAII(): the frame takes the place of n innermost frames.
Push(kind, n) ==
    \E t \in Txn :
      /\ beginTransaction(t)
      /\ frames' = Append(SubSeq(frames, 1, Len(frames) - n),
                          PushFrame(kind, t))
      /\ UNCHANGED <<flags, debug>>

\* A defect: pop() without the test for kRolledBack.
pop_Always(t) == endTransaction(t)

\* pop(): what was rolled back is left alone.
pop(t) ==
    IF txn[t].state = "rolledBack"
      THEN UNCHANGED <<txn, current>>
      ELSE endTransaction(t)

OpenScope ==
    /\ Len(frames) < MaxFrames
    /\ Available(1)
    /\ Push("scope", 0)

\* pop() called on a scope that stays open until its destructor calls it
\* again.
PopEarly ==
    /\ InnermostIs("scope")
    /\ \/ txn[Innermost.txn].state = "rolledBack"
       \/ "pop" \in Misuse
    /\ pop(Innermost.txn)
    /\ UNCHANGED <<frames, flags, debug>>

\* A defect: the destructor does not pop.
CloseScope_NoPop ==
    /\ InnermostIs("scope")
    /\ frames' = Front(frames)
    /\ UNCHANGED <<txn, current, flags, debug>>

CloseScope ==
    /\ InnermostIs("scope")
    /\ pop(Innermost.txn)
    /\ frames' = Front(frames)
    /\ UNCHANGED <<flags, debug>>

\* StateDebuggerRAII(): under a transaction of its own if it takes a snapshot.
OpenDebugger ==
    /\ Len(frames) < MaxFrames
    /\ IF debug
         THEN Available(2) /\ Push("snap", 0)
         ELSE /\ frames' = Append(frames, PlainFrame("quiet"))
              /\ UNCHANGED <<txn, current, flags, debug>>

\* A defect: the constructor's transaction outlives the constructor.
TakeSnapshot_NoPop ==
    /\ InnermostIs("snap")
    /\ frames' = Append(Front(frames), PlainFrame("debugger"))
    /\ UNCHANGED <<txn, current, flags, debug>>

\* The snapshot is taken and the constructor's transaction popped.
TakeSnapshot ==
    /\ InnermostIs("snap")
    /\ pop(Innermost.txn)
    /\ frames' = Append(Front(frames), PlainFrame("debugger"))
    /\ UNCHANGED <<flags, debug>>

\* ~StateDebuggerRAII(): a second transaction, if there is a snapshot.
CloseDebugger ==
    /\ InnermostIs("debugger")
    /\ Push("compare", 1)

Compare ==
    /\ InnermostIs("compare")
    /\ pop(Innermost.txn)
    /\ frames' = Front(frames)
    /\ UNCHANGED <<flags, debug>>

CloseQuiet ==
    /\ InnermostIs("quiet")
    /\ frames' = Front(frames)
    /\ UNCHANGED <<txn, current, flags, debug>>

OpenFlags(new) ==
    /\ Len(frames) < MaxFrames
    /\ frames' = Append(frames, [PlainFrame("flags") EXCEPT !.old = flags])
    /\ flags' = new
    /\ UNCHANGED <<txn, current, debug>>

CloseFlags ==
    /\ InnermostIs("flags")
    /\ flags' = Innermost.old
    /\ frames' = Front(frames)
    /\ UNCHANGED <<txn, current, debug>>

-----------------------------------------------------------------------------
(* The end of a transaction's life.                                        *)

\* What ~Transaction of t deletes: t, and what is listed in a transaction that
\* is deleted.
Within(t) ==
    {u \in Txn :
       \A S \in SUBSET Txn :
         /\ t \in S
         /\ \A v \in S : ToSet(txn[v].nested) \subseteq S
         => u \in S}

\* The nested transactions are deleted with their parent.  Only a finished topmost transaction to which no scope refers is destroyed.
Destroy(t) ==
    /\ txn[t].state \in {"committed", "rolledBack"}
    /\ txn[t].parent = NoTxn
    /\ \A i \in DOMAIN frames : frames[i].txn \notin Within(t)
    /\ LET gone == Within(t)
       IN  txn' = [u \in Txn |->
             IF u \in gone THEN Retired(txn[u]) ELSE txn[u]]
    /\ UNCHANGED <<current, frames, flags, debug>>

-----------------------------------------------------------------------------
Init ==
    /\ txn = [t \in Txn |-> Unused]
    /\ current = NoTxn
    /\ frames = <<>>
    /\ flags = NoFlags
    /\ debug \in BOOLEAN

Close ==
    \/ CloseScope
    \/ TakeSnapshot
    \/ CloseDebugger
    \/ Compare
    \/ CloseQuiet
    \/ CloseFlags

\* What clients keep to: clear() would lose nested transactions, and a milder
\* level would take an error back.
MayClear == "clear" \in Misuse \/ txn[current].nested = <<>>

MaySet(val) == "lower" \in Misuse \/ val <= getIssuedDiags(current)

Next ==
    \/ \E d \in Decls \ {"ns"} : AppendDecl(d)
    \/ setDefinitionShadowNS
    \/ \E val \in {kErrors, kWarnings} : setIssuedDiags(val) /\ MaySet(val)
    \/ clear /\ MayClear
    \/ RollBack
    \/ ToggleDebug
    \/ OpenScope
    \/ PopEarly
    \/ OpenDebugger
    \/ \E new \in Flags : OpenFlags(new)
    \/ Close
    \/ \E t \in Txn : Destroy(t)

Spec == Init /\ [][Next]_vars

\* Control leaves every block, whatever it opened and closed inside.
FairSpec ==
    Spec /\ \A n \in 1..MaxFrames + 1 : SF_vars(Len(frames) = n /\ Close)

-----------------------------------------------------------------------------
(* Properties.                                                             *)

Frame == [kind : FrameKind, txn : Txn \cup {NoTxn}, old : Flags]

\* The variables have their types; a scope's frame names a transaction.
TypeOK ==
    /\ txn \in [Txn -> Transaction]
    /\ current \in Txn \cup {NoTxn}
    /\ frames \in Seq(Frame)
    /\ \A i \in DOMAIN frames :
         frames[i].kind \in PushKind <=> frames[i].txn # NoTxn
    /\ flags \in Flags
    /\ debug \in BOOLEAN

\* The open scopes whose transactions are still collecting.
Active == {i \in DOMAIN frames :
             frames[i].txn # NoTxn /\ txn[frames[i].txn].state # "rolledBack"}

\* The parser collects into the transaction of the innermost scope that was
\* not rolled back, whatever was opened, rolled back, printed or compared
\* in between; that scope's transaction is nested in the next one's.
ScopesNest ==
    LET Outer(i) == {j \in Active : j < i}
        Top(S) == IF S = {} THEN NoTxn
                  ELSE frames[CHOOSE i \in S : \A j \in S : j <= i].txn
    IN  /\ current = Top(Active)
        /\ \A i \in Active : txn[frames[i].txn].parent = Top(Outer(i))

\* No two open scopes name one transaction, and none names a block that is
\* in the pool: pop() never ends a transaction of someone else, and
\* setState's assertion "already returned in the pool" holds.
OwnTransaction ==
    \A i \in DOMAIN frames : frames[i].txn # NoTxn =>
      /\ ~Pooled(frames[i].txn)
      /\ \A j \in DOMAIN frames : frames[j].txn = frames[i].txn => i = j

\* The lists of nested transactions and the parent pointers are inverse to
\* each other, so every nested transaction is deleted, once, with its parent;
\* back() is never asked of an empty list; and when a transaction is over, those
\* nested in it are: "All nested transactions must be committed!".
FamilyTree ==
    \A t \in Txn : ~Pooled(t) =>
      /\ txn[t].owns => txn[t].nested # <<>>
      /\ \A u \in Txn : ~Pooled(u) =>
           Cardinality({i \in DOMAIN txn[t].nested : txn[t].nested[i] = u})
             = IF txn[u].parent = t THEN 1 ELSE 0
      /\ \A i \in DOMAIN txn[t].nested :
           /\ ~Pooled(txn[t].nested[i])
           /\ ~Collecting(t) => ~Collecting(txn[t].nested[i])

\* No transaction is committed after it or one nested in it issued errors:
\* the level kept in the topmost parent carries them across scopes.
ErrorsNotCommitted ==
    [][\A t \in Txn : txn[t].failed => ~ /\ txn[t].state # "committed"
                                         /\ txn'[t].state = "committed"]_vars

\* A scope that closes rolls its transaction back only if errors were issued in
\* this life of the tree: neither a former use of a block nor another tree's
\* errors count.
OnlyErrorsRollBack ==
    [][\A t \in Txn :
         /\ Collecting(t) /\ frames' # frames
         /\ txn'[t].state = "rolledBack"
         => txn[getTopmostParent(t)].failed]_vars

\* Every transaction that collects is ended: rolled back, committed, or
\* returned to the pool.
Ended ==
    \A t \in Txn : Collecting(t) ~> ~Collecting(t)

-----------------------------------------------------------------------------
(* The scopes implement TransactionStack.                                  *)

\* The transactions that open scopes still collect into.
Units == {frames[i].txn : i \in Active}

\* The transactions in which t is nested.
Around(t) == IF Pooled(t) THEN {} ELSE Line(t) \ {t}

Stack == INSTANCE TransactionStack WITH
    Unit <- Txn, Input <- Decls,
    open <- Units,
    inside <- [t \in Txn |-> Around(t)],
    input <- [t \in Txn |-> txn[t].decls],
    kept <- {t \in Txn : txn[t].state = "committed"},
    undone <- {t \in Txn : txn[t].state = "rolledBack"},
    failed <- {t \in Txn : txn[t].failed}

\* What scope objects, parents and lists of nested transactions do to the input
\* is what a stack of units would: only the innermost scope's transaction takes
\* input and ends, it is discarded only if neither it nor anything nested in it
\* holds input, none that had errors is kept, none ends twice, and a tree is
\* deleted as a whole, when no open scope is left in it.
Stacked == Stack!Spec

=============================================================================
