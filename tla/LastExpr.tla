------------------------------ MODULE LastExpr ------------------------------
(***************************************************************************)
(* ast::analyze::GetOrCreateLastExpr: which expression of a function that  *)
(* wraps a line of input is the line's value.  If the last statement that  *)
(* is not null declares variables, a reference to the last of them is put  *)
(* behind it, in the body itself.  Value printing and evaluation both ask, *)
(* so the function is called more than once on one body, with and without  *)
(* leave to change it.                                                     *)
(*                                                                         *)
(* Its names leave room for those of ManagedValue and ValueTypes, so that  *)
(* one module can extend all three.                                        *)
(***************************************************************************)
EXTENDS Integers, Sequences, SequencesExt

CONSTANTS
    Bodies,   \* function bodies: sequences of statements
    Var       \* the variables that may be declared; "type" stands for any
              \* other declaration

\* Statements: null ones, expressions, DeclStmts with what they declare,
\* references that were synthesized, and others.
Plain(kind) == [kind |-> kind, names |-> <<>>]
Decl(names) == [kind |-> "decl", names |-> names]
Ref(v) == [kind |-> "ref", names |-> <<v>>]

Stmt ==
    [kind : {"null", "expr", "other", "decl"}, names : Seq(Var \cup {"type"})]

\* The body of a wrapper is a CompoundStmt that is not empty and has a
\* statement that is not null: for others the code reads stmts[-1].
ASSUME BodyAssumption ==
    /\ "type" \notin Var
    /\ \A b \in Bodies :
         /\ b \in Seq(Stmt)
         /\ \A i \in DOMAIN b : b[i].kind = "decl" <=> b[i].names # <<>>
         /\ \E i \in DOMAIN b : b[i].kind # "null"

VARIABLES
    original,   \* history: the body as it was parsed
    body,
    reply       \* of the last call: the value of found_at, the expression
                \* that was returned, and whether one could be made

exprVars == <<original, body, reply>>

NoReply == [found |-> -1, expr |-> Plain("null"), omit |-> TRUE]

ExprInit ==
    /\ original \in Bodies
    /\ body = original
    /\ reply = NoReply

IsExpr(s) == s.kind \in {"expr", "ref"}

\* A defect: null statements at the end are not skipped.
LastIndex_OfAll(b) == Len(b)

\* The loop down from the end, past null statements.
LastIndex(b) == CHOOSE i \in DOMAIN b :
                  /\ b[i].kind # "null"
                  /\ \A j \in i + 1 .. Len(b) : b[j].kind = "null"

\* Where s declares variables.
Variables(s) == {i \in DOMAIN s.names : s.names[i] \in Var}

\* A defect: the index is not moved behind the declaration.
Place_OfDecl(i) == i

Place(i) == i + 1

\* found_at counts from 0, and is set whether or not there is an expression.
Reply(i, expr, omit) == [found |-> i - 1, expr |-> expr, omit |-> omit]

GetOrCreateLastExpr(omit) ==
    /\ LET i == LastIndex(body)
           last == body[i]
       IN  IF IsExpr(last)
             THEN reply' = Reply(i, last, omit) /\ UNCHANGED body
           ELSE IF omit \/ last.kind # "decl" \/ Variables(last) = {}
             THEN reply' = Reply(i, Plain("null"), omit) /\ UNCHANGED body
           ELSE LET ref == Ref(last.names[Max(Variables(last))])
                IN  /\ body' = InsertAt(body, Place(i), ref)
                    /\ reply' = Reply(Place(i), ref, omit)
    /\ UNCHANGED original

ExprNext == \E omit \in BOOLEAN : GetOrCreateLastExpr(omit)

ExprSpec == ExprInit /\ [][ExprNext]_exprVars

-----------------------------------------------------------------------------
(* Properties.                                                             *)

\* What of the parsed body counts: its last statement that is not null, and
\* the last variable that this declares.
Significant == {i \in DOMAIN original : original[i].kind # "null"}
Parsed == original[Max(Significant)]

\* GetOrCreateLastExpr finds the value of the line: the last statement if that
\* is an expression, else a reference to the last variable it declares, if
\* there is one and it may be, or was already, made.  It is where found_at says.
FindsValue ==
    reply # NoReply =>
      /\ body[reply.found + 1].kind # "null"
      /\ reply.expr.kind # "null" => body[reply.found + 1] = reply.expr
      /\ IF Parsed.kind = "expr" THEN reply.expr = Parsed
         ELSE IF Variables(Parsed) # {} /\ (~reply.omit \/ body # original)
           THEN reply.expr = Ref(Parsed.names[Max(Variables(Parsed))])
         ELSE reply.expr = Plain("null")

\* However often and in whatever order printing and evaluation ask, the body is
\* the parsed one with at most one statement added, behind all that counts.
AddsOneReference ==
    \/ body = original
    \/ \E i \in DOMAIN body :
         /\ body[i].kind = "ref"
         /\ RemoveAt(body, i) = original
         /\ \A j \in i + 1 .. Len(body) : body[j].kind = "null"
=============================================================================
