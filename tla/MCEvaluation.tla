---------------------------- MODULE MCEvaluation ----------------------------
(***************************************************************************)
(* An instance for TLC of what happens to the value of a line of input:    *)
(* which expression it is (LastExpr), what Value is made of its type       *)
(* (ValueTypes), and how Values live (ManagedValue).  A behaviour is one   *)
(* of one part, the other parts stay in an initial state: the parts share  *)
(* no state, and only the layouts of payloads link the last two.           *)
(***************************************************************************)
EXTENDS MCManagedValue, ValueTypes, LastExpr

VARIABLE part

mcVars == <<part, vars, valueVars, exprVars>>

-----------------------------------------------------------------------------
(* All types of up to two dimensions, as the code gets them right.         *)
Dims == {<<>>} \cup {<<m>> : m \in 0 .. 3} \cup {<<m, n>> : m, n \in 1 .. 3}

SizeOf(base) ==
  CASE base = "record" -> {1, 2, 8, 12}
    [] base = "vector" -> {16, 32}
    [] base \in {"int", "enum"} -> {1, 4}
    [] base = "memberptr" -> {16}
    [] OTHER -> {8}

Every ==
  UNION {[base : {b}, size : SizeOf(b), sugar : BOOLEAN, dims : {d},
          visible : 0 .. Len(d)] : b \in Bases, d \in Dims}

HandledTypes == {t \in Every : Handled(t)}

(* All bodies of up to four statements. *)
Declared == {<<"v">>, <<"type">>, <<"v", "w">>, <<"v", "type">>, <<"type", "v">>}

Statements == {Plain(k) : k \in {"null", "expr", "other"}} \cup
                {Decl(names) : names \in Declared}

ShortBodies ==
  {b \in UNION {[1 .. n -> Statements] : n \in 1 .. 4} :
     \E i \in DOMAIN b : b[i].kind # "null"}

-----------------------------------------------------------------------------
NoValues == Init
NoType == type = (CHOOSE t \in Type : t.base = "int") /\ value = NoValue
NoLine == original = <<Plain("expr")>> /\ body = original /\ reply = NoReply

MCInit ==
  \/ part = "line" /\ ExprInit /\ NoType /\ NoValues
  \/ part = "type" /\ ValueInit /\ NoLine /\ NoValues
  \/ part = "life" /\ Init /\ NoLine /\ NoType

Line == part = "line" /\ ExprNext /\ UNCHANGED <<part, vars, valueVars>>
Classify == part = "type" /\ ValueNext /\ UNCHANGED <<part, vars, exprVars>>
Live == part = "life" /\ Next /\ UNCHANGED <<part, valueVars, exprVars>>

MCNext == Line \/ Classify \/ Live

MCSpec == MCInit /\ [][MCNext]_mcVars /\ Fairness
=============================================================================
