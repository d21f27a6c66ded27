--------------------------- MODULE LastExprProofs ---------------------------
(***************************************************************************)
(* GetOrCreateLastExpr finds the value of a line and adds one reference at *)
(* most, for bodies of any length and any sequence of calls.               *)
(***************************************************************************)
EXTENDS LastExpr, SequenceTheorems, WellFoundedInduction, TLAPS

\* The statements a body has after calls.
AnyStmt == Stmt \cup {Ref(v) : v \in Var}

\* The reference that a call may make.
Reference == Ref(Parsed.names[Max(Variables(Parsed))])

\* A call has put it behind the declaration.
Grown ==
    /\ Parsed.kind = "decl" /\ Variables(Parsed) # {}
    /\ body = InsertAt(original, Max(Significant) + 1, Reference)

IInv ==
    /\ original \in Bodies
    /\ body = original \/ Grown
    /\ FindsValue

-----------------------------------------------------------------------------
(* Sequences.                                                              *)

\* A set of positions has a last one.
LEMMA MaxIs ==
    ASSUME NEW n \in Nat, NEW S, S \subseteq 1 .. n, S # {}
    PROVE  Max(S) \in S /\ \A j \in S : j <= Max(S)
<1> DEFINE T == {n - i : i \in S}
<1>0. \A i \in S : n - i \in Nat
  OBVIOUS
<1>1. T \subseteq Nat /\ T # {}
  BY <1>0
<1>2. PICK x \in T : \A y \in T : ~(<<y, x>> \in OpToRel(<, Nat))
  BY <1>1, NatLessThanWellFounded, WFMin
<1>3. \A y \in T : ~(y < x)
  BY <1>1, <1>2 DEF OpToRel
<1>4. PICK i \in S : x = n - i
  OBVIOUS
<1>5. \A j \in S : n - j \in T
  OBVIOUS
<1> HIDE DEF T
<1>6. \A j \in S : i >= j
  BY <1>3, <1>4, <1>5
<1>7. Max(S) \in S /\ \A j \in S : Max(S) >= j
  BY <1>6 DEF Max
<1> QED
  BY <1>7

\* r is s with e at position i, among sequences over S; n is the length of s.
Inserted(r, s, n, i, e, S) ==
    /\ r \in Seq(S) /\ Len(r) = n + 1
    /\ \A k \in 1 .. i - 1 : r[k] = s[k]
    /\ r[i] = e
    /\ \A k \in i .. n : r[k + 1] = s[k]

\* InsertAt puts the element there.
LEMMA InsertAtIs ==
    ASSUME NEW S, NEW s \in Seq(S), NEW n \in Nat, Len(s) = n,
           NEW i \in 1 .. n + 1, NEW e \in S
    PROVE  Inserted(InsertAt(s, i, e), s, n, i, e, S)
<1> DEFINE a == SubSeq(s, 1, i - 1)
           b == SubSeq(s, i, Len(s))
           c == <<e>>
<1>1. i \in 1 .. n + 1 /\ n = Len(s) /\ \A k \in 1 .. n : s[k] \in S
  OBVIOUS
<1>2. /\ a \in Seq(S) /\ Len(a) = i - 1
      /\ \A k \in 1 .. i - 1 : a[k] = s[k]
  BY <1>1, SubSeqProperties
<1>3. /\ b \in Seq(S) /\ Len(b) = n - i + 1
      /\ \A k \in 1 .. n - i + 1 : b[k] = s[i + k - 1]
  BY <1>1, SubSeqProperties
<1>4. c \in Seq(S) /\ Len(c) = 1 /\ c[1] = e
  OBVIOUS
<1>5. InsertAt(s, i, e) = (a \o c) \o b
  BY DEF InsertAt
<1> HIDE DEF a, b, c
<1>6. PICK d : d = a \o c
  OBVIOUS
<1>7. /\ d \in Seq(S) /\ Len(d) = i
      /\ \A k \in 1 .. i - 1 : d[k] = s[k]
      /\ d[i] = e
  <2>1. /\ d \in Seq(S) /\ Len(d) = Len(a) + Len(c)
        /\ \A k \in 1 .. Len(a) + Len(c) :
             d[k] = IF k <= Len(a) THEN a[k] ELSE c[k - Len(a)]
    BY <1>2, <1>4, <1>6, ConcatProperties
  <2>2. Len(a) + Len(c) = i /\ i \in Nat
    BY <1>1, <1>2, <1>4
  <2>3. /\ d \in Seq(S) /\ Len(d) = i
        /\ \A k \in 1 .. i : d[k] = IF k <= i - 1 THEN a[k] ELSE c[k - (i - 1)]
    BY <1>2, <2>1, <2>2
  <2>4. \A k \in 1 .. i - 1 : k \in 1 .. i /\ k <= i - 1
    BY <2>2
  <2>5. i \in 1 .. i /\ ~(i <= i - 1) /\ i - (i - 1) = 1
    BY <1>1
  <2> QED
    BY <1>2, <1>4, <2>3, <2>4, <2>5
<1>8. PICK r : r = d \o b
  OBVIOUS
<1>9. /\ r \in Seq(S) /\ Len(r) = n + 1
      /\ \A k \in 1 .. n + 1 : r[k] = IF k <= i THEN d[k] ELSE b[k - i]
  <2>1. /\ r \in Seq(S) /\ Len(r) = Len(d) + Len(b)
        /\ \A k \in 1 .. Len(d) + Len(b) :
             r[k] = IF k <= Len(d) THEN d[k] ELSE b[k - Len(d)]
    BY <1>3, <1>7, <1>8, ConcatProperties
  <2>2. Len(d) + Len(b) = n + 1 /\ Len(d) = i
    BY <1>1, <1>3, <1>7
  <2> QED
    BY <2>1, <2>2
<1>10. ASSUME NEW k \in 1 .. i PROVE r[k] = d[k]
  <2>1. k \in 1 .. n + 1 /\ k <= i
    BY <1>1
  <2> QED
    BY <1>9, <2>1
<1>11. ASSUME NEW k \in i .. n PROVE r[k + 1] = s[k]
  <2>1. /\ k + 1 \in 1 .. n + 1 /\ ~(k + 1 <= i) /\ (k + 1) - i \in 1 .. n - i + 1
        /\ i + ((k + 1) - i) - 1 = k
    BY <1>1
  <2>2. r[k + 1] = b[(k + 1) - i]
    BY <1>9, <2>1
  <2>3. b[(k + 1) - i] = s[k]
    BY <1>3, <2>1
  <2> QED
    BY <2>2, <2>3
<1>12. \A k \in 1 .. i - 1 : k \in 1 .. i
  BY <1>1
<1>13. i \in 1 .. i
  BY <1>1
<1>14. Inserted(r, s, n, i, e, S)
  BY <1>7, <1>9, <1>10, <1>11, <1>12, <1>13 DEF Inserted
<1> QED
  BY <1>5, <1>6, <1>8, <1>14

\* What is put somewhere can be taken from there.
LEMMA InsertRemove ==
    ASSUME NEW S, NEW s \in Seq(S), NEW n \in Nat, Len(s) = n,
           NEW i \in 1 .. n + 1, NEW e, NEW t, Inserted(t, s, n, i, e, S)
    PROVE  RemoveAt(t, i) = s
<1> DEFINE a == SubSeq(t, 1, i - 1)
           b == SubSeq(t, i + 1, n + 1)
<1>1. /\ t \in Seq(S) /\ Len(t) = n + 1 /\ i \in 1 .. n + 1
      /\ \A k \in 1 .. i - 1 : t[k] = s[k]
      /\ \A k \in i .. n : t[k + 1] = s[k]
  BY DEF Inserted
<1>2. \A k \in 1 .. n + 1 : t[k] \in S
  BY <1>1, ElementOfSeq
<1>3. /\ a \in Seq(S) /\ Len(a) = i - 1
      /\ \A k \in 1 .. i - 1 : a[k] = t[k]
  BY <1>1, <1>2, SubSeqProperties
<1>4. /\ b \in Seq(S) /\ Len(b) = n + 1 - i
      /\ \A k \in 1 .. n + 1 - i : b[k] = t[i + k]
  <2>1. /\ b \in Seq(S)
        /\ Len(b) = IF i + 1 <= n + 1 THEN (n + 1) - (i + 1) + 1 ELSE 0
        /\ \A k \in 1 .. (n + 1) - (i + 1) + 1 : b[k] = t[(i + 1) + k - 1]
    <3>1. i + 1 \in Int /\ n + 1 \in Int /\ \A k \in i + 1 .. n + 1 : t[k] \in S
      BY <1>1, <1>2
    <3> QED
      BY <3>1, SubSeqProperties
  <2> HIDE DEF b
  <2>2. /\ (n + 1) - (i + 1) + 1 = n + 1 - i
        /\ \A k \in 1 .. n + 1 - i : (i + 1) + k - 1 = i + k
    BY <1>1
  <2>3. i + 1 <= n + 1 \/ n + 1 - i = 0
    BY <1>1
  <2>4. Len(b) = n + 1 - i
    BY <2>1, <2>2, <2>3
  <2> QED
    BY <2>1, <2>2, <2>4
<1>5. RemoveAt(t, i) = a \o b
  BY <1>1 DEF RemoveAt
<1> HIDE DEF a, b
<1>6. PICK r : r = a \o b
  OBVIOUS
<1>7. /\ r \in Seq(S) /\ Len(r) = n
      /\ \A k \in 1 .. n : r[k] = IF k <= i - 1 THEN a[k] ELSE b[k - (i - 1)]
  <2>1. /\ r \in Seq(S) /\ Len(r) = Len(a) + Len(b)
        /\ \A k \in 1 .. Len(a) + Len(b) :
             r[k] = IF k <= Len(a) THEN a[k] ELSE b[k - Len(a)]
    BY <1>3, <1>4, <1>6, ConcatProperties
  <2>2. Len(a) + Len(b) = n /\ Len(a) = i - 1
    BY <1>1, <1>3, <1>4
  <2> QED
    BY <2>1, <2>2
<1>8. ASSUME NEW k \in 1 .. n PROVE r[k] = s[k]
  <2>1. CASE k <= i - 1
    <3>1. k \in 1 .. i - 1
      BY <1>1, <2>1
    <3>2. r[k] = a[k] /\ a[k] = t[k] /\ t[k] = s[k]
      BY <1>1, <1>3, <1>7, <2>1, <3>1
    <3> QED
      BY <3>2
  <2>2. CASE ~(k <= i - 1)
    <3>1. k - (i - 1) \in 1 .. n + 1 - i /\ i + (k - (i - 1)) = k + 1 /\ k \in i .. n
      BY <1>1, <2>2
    <3>2. r[k] = b[k - (i - 1)]
      BY <1>7, <2>2
    <3>3. b[k - (i - 1)] = t[k + 1]
      BY <1>4, <3>1
    <3> QED
      BY <1>1, <3>1, <3>2, <3>3
  <2> QED
    BY <2>1, <2>2
<1>9. r = s
  BY <1>7, <1>8, SeqEqual
<1> QED
  BY <1>5, <1>6, <1>9

-----------------------------------------------------------------------------
(* Bodies.                                                                 *)

\* The statement the loop stops at.
LEMMA LastIndexIs ==
    ASSUME NEW n \in Nat, NEW b, DOMAIN b = 1 .. n, Len(b) = n, NEW m \in 1 .. n,
           b[m].kind # "null", \A j \in m + 1 .. n : b[j].kind = "null"
    PROVE  LastIndex(b) = m
<1> DEFINE P(i) == /\ b[i].kind # "null"
                   /\ \A j \in i + 1 .. Len(b) : b[j].kind = "null"
<1>1. m \in DOMAIN b /\ P(m)
  OBVIOUS
<1>2. ASSUME NEW i \in DOMAIN b, P(i) PROVE i = m
  <2>1. i \in Nat /\ m \in Nat /\ i <= n /\ m <= n
    OBVIOUS
  <2>2. ~(i < m)
    <3>1. i < m => m \in i + 1 .. Len(b)
      BY <2>1
    <3> QED
      BY <1>2, <3>1
  <2>3. ~(m < i)
    <3>1. m < i => i \in m + 1 .. n
      BY <2>1
    <3> QED
      BY <1>2, <3>1
  <2> QED
    BY <2>1, <2>2, <2>3
<1>3. LastIndex(b) = CHOOSE i \in DOMAIN b : P(i)
  BY DEF LastIndex
<1> HIDE DEF P
<1> QED
  BY <1>1, <1>2, <1>3

\* The parsed body and its last statement that is not null.
LEMMA ParsedIs ==
    ASSUME original \in Bodies
    PROVE  \E n, m \in Nat :
             /\ m \in 1 .. n
             /\ original \in Seq(Stmt) /\ Len(original) = n
             /\ DOMAIN original = 1 .. n
             /\ m = Max(Significant) /\ Parsed = original[m] /\ Parsed \in Stmt
             /\ Parsed.kind # "null"
             /\ \A j \in m + 1 .. n : original[j].kind = "null"
             /\ Parsed.kind = "decl" <=> Parsed.names # <<>>
<1>1. /\ original \in Seq(Stmt)
      /\ \A i \in DOMAIN original :
           original[i].kind = "decl" <=> original[i].names # <<>>
      /\ \E i \in DOMAIN original : original[i].kind # "null"
  BY BodyAssumption
<1>2. PICK n : n = Len(original)
  OBVIOUS
<1>3. n \in Nat /\ DOMAIN original = 1 .. n
  BY <1>1, <1>2
<1>4. Significant \subseteq 1 .. n /\ Significant # {}
  BY <1>1, <1>3 DEF Significant
<1>5. PICK m : m = Max(Significant)
  OBVIOUS
<1>6. m \in Significant /\ \A j \in Significant : j <= m
  BY <1>3, <1>4, <1>5, MaxIs
<1>7. m \in 1 .. n /\ original[m].kind # "null"
  BY <1>3, <1>6 DEF Significant
<1>8. \A j \in m + 1 .. n : original[j].kind = "null"
  <2> SUFFICES ASSUME NEW j \in m + 1 .. n PROVE original[j].kind = "null"
    OBVIOUS
  <2>1. j \in 1 .. n /\ ~(j <= m)
    BY <1>3, <1>7
  <2>2. j \notin Significant
    BY <1>6, <2>1
  <2> QED
    BY <1>3, <2>1, <2>2 DEF Significant
<1>9. Parsed = original[m]
  BY <1>5 DEF Parsed
<1>10. original[m] \in Stmt
  BY <1>1, <1>2, <1>7, ElementOfSeq
<1> QED
  BY <1>1, <1>2, <1>3, <1>5, <1>7, <1>8, <1>9, <1>10

\* The reference names a variable that is declared.
LEMMA ReferenceIs ==
    ASSUME Parsed \in Stmt, Variables(Parsed) # {}
    PROVE  Reference \in AnyStmt /\ Reference.kind = "ref"
<1>1. PICK s : s = Parsed.names
  OBVIOUS
<1>2. PICK n : n = Len(s)
  OBVIOUS
<1>3. n \in Nat /\ DOMAIN s = 1 .. n
  BY <1>1, <1>2 DEF Stmt
<1>4. PICK V : V = Variables(Parsed)
  OBVIOUS
<1>5. V \subseteq 1 .. n /\ V # {} /\ \A i \in V : s[i] \in Var
  BY <1>1, <1>3, <1>4 DEF Variables
<1>6. Max(V) \in V
  BY <1>3, <1>5, MaxIs
<1>7. Reference = Ref(s[Max(V)])
  BY <1>1, <1>4 DEF Reference
<1> QED
  BY <1>5, <1>6, <1>7 DEF AnyStmt, Ref

\* The body that has grown ends, but for null statements, in the reference.
LEMMA GrownIs ==
    ASSUME original \in Bodies, Variables(Parsed) # {},
           NEW b, b = InsertAt(original, Max(Significant) + 1, Reference)
    PROVE  \E n, m \in Nat :
             /\ m \in 1 .. n
             /\ m = Max(Significant)
             /\ DOMAIN b = 1 .. n + 1 /\ Len(b) = n + 1 /\ b # original
             /\ b[m + 1] = Reference /\ Reference.kind = "ref"
             /\ \A j \in m + 2 .. n + 1 : b[j].kind = "null"
             /\ RemoveAt(b, m + 1) = original
             /\ LastIndex(b) = m + 1
<1>1. PICK n, m \in Nat :
        /\ m \in 1 .. n
        /\ original \in Seq(Stmt) /\ Len(original) = n
        /\ m = Max(Significant) /\ Parsed \in Stmt
        /\ \A j \in m + 1 .. n : original[j].kind = "null"
  BY ParsedIs
<1>2. Reference \in AnyStmt /\ Reference.kind = "ref"
  BY <1>1, ReferenceIs
<1>3. original \in Seq(AnyStmt)
  <2>1. Stmt \subseteq AnyStmt
    BY DEF AnyStmt
  <2> QED
    BY <1>1, <2>1, SeqMonotonic
<1>4. PICK r, o, i, N : r = Reference /\ o = original /\ i = m + 1 /\ N = n + 1
  OBVIOUS
<1>5. /\ i \in 1 .. n + 1 /\ i \in 1 .. N /\ N \in Nat /\ i + 1 = m + 2
      /\ o \in Seq(AnyStmt) /\ r \in AnyStmt /\ Len(o) = n /\ r.kind = "ref"
      /\ b = InsertAt(o, i, r)
  BY <1>1, <1>2, <1>3, <1>4
<1>6. Inserted(b, o, n, i, r, AnyStmt) /\ RemoveAt(b, i) = o
  <2>1. Inserted(InsertAt(o, i, r), o, n, i, r, AnyStmt)
    BY <1>5, InsertAtIs
  <2>2. Inserted(b, o, n, i, r, AnyStmt)
    BY <1>5, <2>1
  <2>3. RemoveAt(b, i) = o
    BY <1>5, <2>2, InsertRemove
  <2> QED
    BY <2>2, <2>3
<1>7. b \in Seq(AnyStmt) /\ Len(b) = N
  BY <1>4, <1>6 DEF Inserted
<1>8. DOMAIN b = 1 .. N /\ b # o
  <2>1. DOMAIN b = 1 .. Len(b)
    BY <1>7
  <2>2. N # n
    BY <1>4
  <2> QED
    BY <1>5, <1>7, <2>1, <2>2
<1>9. b[i] = r
  BY <1>6 DEF Inserted
<1>10. \A j \in i + 1 .. N : b[j].kind = "null"
  <2> SUFFICES ASSUME NEW j \in i + 1 .. N PROVE b[j].kind = "null"
    OBVIOUS
  <2>1. j - 1 \in m + 1 .. n /\ j - 1 \in i .. n /\ (j - 1) + 1 = j
    BY <1>1, <1>4, <1>5
  <2>2. PICK k : k = j - 1
    OBVIOUS
  <2>3. b[k + 1] = o[k]
    BY <1>6, <2>1, <2>2 DEF Inserted
  <2> QED
    BY <1>1, <1>4, <2>1, <2>2, <2>3
<1>11. LastIndex(b) = i
  <2>1. b[i].kind # "null"
    BY <1>5, <1>9
  <2> QED
    BY <1>5, <1>6, <1>8, <1>10, <2>1, LastIndexIs
<1> QED
  BY <1>1, <1>2, <1>4, <1>5, <1>6, <1>7, <1>8, <1>9, <1>10, <1>11

\* An index one before an element of a sequence, as found_at counts.
LEMMA FoundAt ==
    ASSUME NEW i \in Nat, NEW e, NEW omit
    PROVE  /\ Reply(i, e, omit).found + 1 = i
           /\ Reply(i, e, omit).expr = e /\ Reply(i, e, omit).omit = omit
BY DEF Reply

-----------------------------------------------------------------------------
(* Calls.                                                                  *)

\* A call on the body as it was parsed.
LEMMA FirstCall ==
    ASSUME IInv, body = original, NEW omit \in BOOLEAN, GetOrCreateLastExpr(omit)
    PROVE  IInv'
<1>1. PICK n, m \in Nat :
        /\ m \in 1 .. n
        /\ original \in Seq(Stmt) /\ Len(original) = n
        /\ DOMAIN original = 1 .. n
        /\ m = Max(Significant) /\ Parsed = original[m] /\ Parsed \in Stmt
        /\ Parsed.kind # "null"
        /\ \A j \in m + 1 .. n : original[j].kind = "null"
        /\ Parsed.kind = "decl" <=> Parsed.names # <<>>
  BY ParsedIs DEF IInv
<1>2. LastIndex(body) = m /\ body[m] = Parsed
  BY <1>1, LastIndexIs
<1>3. /\ original' = original /\ Parsed' = Parsed /\ Variables(Parsed)' = Variables(Parsed)
      /\ Max(Significant)' = m
  BY <1>1 DEF GetOrCreateLastExpr, Parsed, Significant, Variables
<1>4. Parsed.kind # "decl" => Variables(Parsed) = {}
  <2>1. Parsed.names = <<>> => Variables(Parsed) = {}
    BY DEF Variables
  <2> QED
    BY <1>1, <2>1
<1>5. CASE IsExpr(Parsed)
  <2>1. reply' = Reply(m, Parsed, omit) /\ body' = body
    BY <1>2, <1>5 DEF GetOrCreateLastExpr
  <2>2. Parsed.kind = "expr"
    BY <1>1, <1>5 DEF IsExpr, Stmt
  <2>3. /\ reply'.found + 1 = m /\ reply'.expr = Parsed
    BY <1>1, <2>1, FoundAt
  <2>4. FindsValue'
    BY <1>1, <1>2, <1>3, <2>1, <2>2, <2>3 DEF FindsValue
  <2> QED
    BY <1>3, <2>1, <2>4 DEF IInv
<1>6. CASE ~IsExpr(Parsed) /\ (omit \/ Parsed.kind # "decl" \/ Variables(Parsed) = {})
  <2>1. reply' = Reply(m, Plain("null"), omit) /\ body' = body
    BY <1>2, <1>6 DEF GetOrCreateLastExpr
  <2>2. /\ reply'.found + 1 = m /\ reply'.expr = Plain("null") /\ reply'.omit = omit
    BY <1>1, <2>1, FoundAt
  <2>3. Parsed.kind # "expr" /\ Plain("null").kind = "null"
    BY <1>6 DEF IsExpr, Plain
  <2>4. body'[reply'.found + 1].kind # "null"
    BY <1>1, <1>2, <2>1, <2>2
  <2>5. ~(Variables(Parsed) # {} /\ (~omit \/ body' # original))
    BY <1>4, <1>6, <2>1
  <2>6. FindsValue'
    BY <1>3, <2>2, <2>3, <2>4, <2>5 DEF FindsValue
  <2> QED
    BY <1>3, <2>1, <2>6 DEF IInv
<1>7. CASE ~IsExpr(Parsed) /\ ~omit /\ Parsed.kind = "decl" /\ Variables(Parsed) # {}
  <2>1. /\ body' = InsertAt(original, m + 1, Reference)
        /\ reply' = Reply(m + 1, Reference, omit)
    BY <1>2, <1>7 DEF GetOrCreateLastExpr, Place, Reference
  <2>2. body'[m + 1] = Reference /\ Reference.kind = "ref"
    <3>1. PICK b : b = body'
      OBVIOUS
    <3>2. b = InsertAt(original, Max(Significant) + 1, Reference)
      BY <1>1, <2>1, <3>1
    <3>3. b[Max(Significant) + 1] = Reference /\ Reference.kind = "ref"
      BY <1>7, <3>2, GrownIs DEF IInv
    <3> QED
      BY <1>1, <3>1, <3>3
  <2>3. reply'.found + 1 = m + 1 /\ reply'.expr = Reference /\ reply'.omit = omit
    <3>1. PICK i : i = m + 1
      OBVIOUS
    <3>2. i \in Nat /\ reply' = Reply(i, Reference, omit)
      BY <2>1, <3>1
    <3> QED
      BY <3>1, <3>2, FoundAt
  <2>4. Reference' = Reference
    BY <1>3 DEF Reference
  <2>5. FindsValue'
    BY <1>3, <1>7, <2>2, <2>3, <2>4 DEF FindsValue, Reference
  <2>6. Grown'
    BY <1>1, <1>3, <1>7, <2>1, <2>4 DEF Grown
  <2> QED
    BY <1>3, <2>5, <2>6 DEF IInv
<1> QED
  BY <1>5, <1>6, <1>7

\* A call on a body that has grown finds the reference.
LEMMA LaterCall ==
    ASSUME IInv, Grown, NEW omit \in BOOLEAN, GetOrCreateLastExpr(omit)
    PROVE  IInv'
<1>1. PICK n, m \in Nat :
        /\ m \in 1 .. n
        /\ m = Max(Significant)
        /\ body # original
        /\ body[m + 1] = Reference /\ Reference.kind = "ref"
        /\ LastIndex(body) = m + 1
  BY GrownIs DEF IInv, Grown
<1>2. body' = body /\ reply' = Reply(m + 1, Reference, omit) /\ original' = original
  BY <1>1 DEF GetOrCreateLastExpr, IsExpr
<1>3. /\ Parsed' = Parsed /\ Significant' = Significant /\ Reference' = Reference
  BY <1>2 DEF Parsed, Significant, Reference, Variables
<1>4. reply'.found + 1 = m + 1 /\ reply'.expr = Reference
  BY <1>1, <1>2, FoundAt
<1>5. Grown'
  BY <1>2, <1>3 DEF Grown
<1>6. FindsValue'
  BY <1>1, <1>2, <1>3, <1>4, <1>5 DEF FindsValue, Grown, Reference
<1> QED
  BY <1>2, <1>5, <1>6 DEF IInv

-----------------------------------------------------------------------------
(* The theorems.                                                           *)

\* Whoever asks, and however often, the value of the line is found: the body is
\* the parsed one or that with one reference behind the last declaration.
THEOREM Inductive == ExprSpec => []IInv
<1>1. ExprInit => IInv
  BY DEF ExprInit, IInv, FindsValue
<1>2. IInv /\ [ExprNext]_exprVars => IInv'
  <2> SUFFICES ASSUME IInv, [ExprNext]_exprVars PROVE IInv'
    OBVIOUS
  <2>1. CASE ExprNext
    BY <2>1, FirstCall, LaterCall DEF ExprNext, IInv
  <2>2. CASE UNCHANGED exprVars
    BY <2>2 DEF exprVars, IInv, Grown, FindsValue, Parsed, Significant, Reference
  <2> QED
    BY <2>1, <2>2
<1> QED
  BY <1>1, <1>2, PTL DEF ExprSpec

\* The value found is that of the line as it was parsed, whether an earlier call
\* has changed the body or not.
THEOREM ValueIsFound == ExprSpec => []FindsValue
<1>1. IInv => FindsValue
  BY DEF IInv
<1> QED
  BY <1>1, Inductive, PTL

\* No sequence of calls adds a second statement, or puts the one it adds before
\* anything that counts (new_body.insert).
THEOREM AddsOneAtMost == ExprSpec => []AddsOneReference
<1>1. IInv => AddsOneReference
  <2> SUFFICES ASSUME IInv, Grown
               PROVE  \E i \in DOMAIN body :
                        /\ body[i].kind = "ref"
                        /\ RemoveAt(body, i) = original
                        /\ \A j \in i + 1 .. Len(body) : body[j].kind = "null"
    BY DEF IInv, AddsOneReference
  <2>1. PICK n, m \in Nat :
          /\ m \in 1 .. n
          /\ DOMAIN body = 1 .. n + 1 /\ Len(body) = n + 1
          /\ body[m + 1] = Reference /\ Reference.kind = "ref"
          /\ \A j \in m + 2 .. n + 1 : body[j].kind = "null"
          /\ RemoveAt(body, m + 1) = original
    BY GrownIs DEF IInv, Grown
  <2>2. m + 1 \in DOMAIN body /\ (m + 1) + 1 = m + 2
    BY <2>1
  <2> QED
    BY <2>1, <2>2
<1> QED
  BY <1>1, Inductive, PTL
=============================================================================
