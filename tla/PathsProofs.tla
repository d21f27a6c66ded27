----------------------------- MODULE PathsProofs -----------------------------
(***************************************************************************)
(* The helpers for paths give what their definitions say for strings, path *)
(* lists and arguments of any length.                                      *)
(***************************************************************************)
EXTENDS Paths, SequenceTheorems, WellFoundedInduction, TLAPS

-----------------------------------------------------------------------------
(* Induction, with a set for the predicate, and recursion.                 *)

\* A set that holds 0, and i when it holds i - 1, holds everything up to n.
LEMMA UpInduction ==
    ASSUME NEW n \in Nat, NEW T, 0 \in T,
           \A i \in 1 .. n : i - 1 \in T => i \in T
    PROVE  \A i \in 0 .. n : i \in T
<1>1. SUFFICES ASSUME NEW k \in 0 .. n, k \notin T PROVE FALSE
  OBVIOUS
<1> DEFINE C == {i \in 0 .. n : i \notin T}
<1>2. C \subseteq Nat /\ C # {}
  BY <1>1
<1>3. PICK x \in C : \A y \in C : ~(<<y, x>> \in OpToRel(<, Nat))
  BY <1>2, NatLessThanWellFounded, WFMin
<1>4. \A y \in C : ~(y < x)
  BY <1>2, <1>3 DEF OpToRel
<1>5. x \in 1 .. n /\ x - 1 \in 0 .. n /\ x - 1 < x /\ x \notin T
  OBVIOUS
<1>6. x - 1 \notin C
  BY <1>4, <1>5
<1>7. x - 1 \in T
  BY <1>5, <1>6
<1> QED
  BY <1>5, <1>7

\* A set that holds q when it holds all greater ones holds everything to n.
LEMMA DownInduction ==
    ASSUME NEW n \in Nat, NEW T,
           \A q \in 1 .. n : (\A r \in q + 1 .. n : r \in T) => q \in T
    PROVE  \A q \in 1 .. n : q \in T
<1>1. SUFFICES ASSUME NEW k \in 1 .. n, k \notin T PROVE FALSE
  OBVIOUS
<1> DEFINE C == {n - i : i \in {j \in 1 .. n : j \notin T}}
<1>2. C \subseteq Nat /\ n - k \in C
  BY <1>1
<1>3. PICK x \in C : \A y \in C : ~(<<y, x>> \in OpToRel(<, Nat))
  BY <1>2, NatLessThanWellFounded, WFMin
<1>4. \A y \in C : ~(y < x)
  BY <1>2, <1>3 DEF OpToRel
<1>5. PICK q \in 1 .. n : q \notin T /\ x = n - q
  OBVIOUS
<1>6. ASSUME NEW r \in q + 1 .. n PROVE r \in T
  <2>1. r \in 1 .. n /\ n - r < x
    BY <1>5
  <2>2. n - r \notin C
    BY <1>4, <2>1
  <2> QED
    BY <2>1, <2>2
<1> QED
  BY <1>5, <1>6

-----------------------------------------------------------------------------
(* Recursive functions of the two shapes that the lexer uses exist.        *)

\* f is where a loop over 1 .. n ends that stops at the positions in Stop and
\* goes on at next otherwise.
Loop(f, n, Stop, next) ==
    f = [q \in 1 .. n |-> IF q \in Stop THEN q ELSE f[next[q]]]

\* A loop that stops somewhere and else goes on further to the right.
LEMMA LoopExists ==
    ASSUME NEW n \in Nat, NEW Stop, NEW next,
           \A q \in 1 .. n : q \in Stop \/ next[q] \in q + 1 .. n
    PROVE  \E f : Loop(f, n, Stop, next)
<1> DEFINE Solves(f, m) ==
        f = [q \in m .. n |-> IF q \in Stop THEN q ELSE f[next[q]]]
      T == {m \in 1 .. n : \E f : Solves(f, m)}
<1>1. ASSUME NEW m \in 1 .. n, \A r \in m + 1 .. n : r \in T
      PROVE  m \in T
  <2>1. CASE m = n
    <3> DEFINE f == [q \in m .. n |-> q]
    <3>1. n \in Stop
      <4>1. n \in 1 .. n /\ ~(\E x : x \in n + 1 .. n)
        OBVIOUS
      <4> QED
        BY <4>1
    <3>2. \A q \in m .. n : q = n
      BY <2>1
    <3>3. Solves(f, m)
      BY <3>1, <3>2
    <3> QED
      BY <3>3
  <2>2. CASE m # n
    <3>1. m + 1 \in m + 1 .. n
      BY <2>2
    <3>2. m + 1 \in T
      BY <1>1, <3>1
    <3>3. PICK g : Solves(g, m + 1)
      BY <3>2
    <3> DEFINE f == [q \in m .. n |->
          IF q = m THEN (IF m \in Stop THEN m ELSE g[next[m]]) ELSE g[q]]
    <3>4. ASSUME NEW q \in m .. n
          PROVE  f[q] = IF q \in Stop THEN q ELSE f[next[q]]
      <4>1. q \in Stop \/ (next[q] \in m + 1 .. n /\ next[q] # m /\ next[q] \in m .. n)
        <5>1. q \in 1 .. n
          OBVIOUS
        <5>2. q \in Stop \/ next[q] \in q + 1 .. n
          BY <5>1
        <5> QED
          BY <5>2
      <4>2. q \notin Stop => f[next[q]] = g[next[q]]
        BY <4>1
      <4>3. CASE q = m
        <5>1. f[q] = IF q \in Stop THEN q ELSE g[next[q]]
          BY <4>3
        <5> HIDE DEF f
        <5> QED
          BY <5>1, <4>2
      <4>4. CASE q # m
        <5>1. f[q] = g[q] /\ q \in m + 1 .. n
          BY <4>4
        <5>2. g[q] = IF q \in Stop THEN q ELSE g[next[q]]
          BY <3>3, <5>1
        <5> HIDE DEF f
        <5> QED
          BY <5>1, <5>2, <4>2
      <4> QED
        BY <4>3, <4>4
    <3>5. f = [q \in m .. n |-> f[q]]
      OBVIOUS
    <3>6. Solves(f, m)
      <4> HIDE DEF f
      <4> QED
        BY <3>4, <3>5
    <3> QED
      BY <3>6
  <2> QED
    BY <2>1, <2>2
<1> HIDE DEF T
<1>2. \A q \in 1 .. n : q \in T
  BY <1>1, DownInduction
<1>3. CASE n = 0
  <2> DEFINE f == [q \in 1 .. n |-> q]
  <2>1. \A q : q \notin 1 .. n
    BY <1>3
  <2>2. Solves(f, 1)
    BY <2>1
  <2> QED
    BY <2>2 DEF Loop
<1>4. CASE n # 0
  <2>1. 1 \in T
    BY <1>2, <1>4
  <2> QED
    BY <2>1 DEF T, Loop
<1> QED
  BY <1>3, <1>4

\* f folds the steps g over 1 .. n, from b on.
Folds(f, n, b, g) ==
    f = [i \in 0 .. n |-> IF i = 0 THEN b ELSE g[i][f[i - 1]]]

\* Such a function exists, and its values are where the steps lead.
LEMMA FoldExists ==
    ASSUME NEW n \in Nat, NEW S, NEW b \in S, NEW g \in [1 .. n -> [S -> S]]
    PROVE  \E f \in [0 .. n -> S] : Folds(f, n, b, g)
<1> DEFINE Solves(f, m) ==
        f = [i \in 0 .. m |-> IF i = 0 THEN b ELSE g[i][f[i - 1]]]
      T == {m \in 0 .. n : \E f \in [0 .. m -> S] : Solves(f, m)}
<1>1. 0 \in T
  <2> DEFINE f == [i \in 0 .. 0 |-> b]
  <2>1. \A i \in 0 .. 0 : i = 0
    OBVIOUS
  <2>2. Solves(f, 0) /\ f \in [0 .. 0 -> S]
    BY <2>1
  <2>3. 0 \in 0 .. n
    OBVIOUS
  <2> QED
    BY <2>2, <2>3
<1>2. ASSUME NEW m \in 1 .. n, m - 1 \in T
      PROVE  m \in T
  <2>1. PICK h \in [0 .. m - 1 -> S] : Solves(h, m - 1)
    BY <1>2
  <2> DEFINE f == [i \in 0 .. m |-> IF i = m THEN g[m][h[m - 1]] ELSE h[i]]
  <2>2. ASSUME NEW i \in 0 .. m
        PROVE  f[i] = (IF i = 0 THEN b ELSE g[i][f[i - 1]]) /\ f[i] \in S
    <3>1. i # 0 => f[i - 1] = h[i - 1]
      <4>1. i # 0 => i - 1 \in 0 .. m /\ i - 1 # m
        OBVIOUS
      <4> QED
        BY <4>1
    <3>2. CASE i = m
      <4>1. f[i] = g[i][h[i - 1]] /\ i # 0
        BY <3>2
      <4>2. g[m] \in [S -> S] /\ h[m - 1] \in S
        OBVIOUS
      <4> HIDE DEF f
      <4> QED
        BY <3>1, <3>2, <4>1, <4>2
    <3>3. CASE i # m
      <4>1. f[i] = h[i] /\ i \in 0 .. m - 1
        BY <3>3
      <4> HIDE DEF f
      <4>2. h[i] = IF i = 0 THEN b ELSE g[i][h[i - 1]]
        BY <2>1, <4>1
      <4>3. h[i] \in S
        BY <4>1
      <4> QED
        BY <3>1, <4>1, <4>2, <4>3
    <3> QED
      BY <3>2, <3>3
  <2>3. f = [i \in 0 .. m |-> f[i]]
    OBVIOUS
  <2>4. Solves(f, m) /\ f \in [0 .. m -> S]
    <3> HIDE DEF f
    <3> QED
      BY <2>2, <2>3
  <2>5. m \in 0 .. n
    OBVIOUS
  <2> HIDE DEF f
  <2> QED
    BY <2>4, <2>5
<1> HIDE DEF T
<1>3. \A m \in 0 .. n : m \in T
  BY <1>1, <1>2, UpInduction
<1>4. n \in 0 .. n
  OBVIOUS
<1> QED
  BY <1>3, <1>4 DEF T, Folds

-----------------------------------------------------------------------------
(* Lists in the order of their places.                                     *)

\* The list grows by what stands at a place behind those it has.
LEMMA AscendAppend ==
    ASSUME NEW n \in Nat, NEW P \in SUBSET Nat, NEW f \in [1 .. n -> P], Ascends(f, P),
           NEW p \in Nat, \A q \in P : q < p,
           NEW g, g = [i \in 1 .. n + 1 |-> IF i = n + 1 THEN p ELSE f[i]]
    PROVE  g \in [1 .. n + 1 -> P \cup {p}] /\ Ascends(g, P \cup {p})
<1>1. /\ \A i \in 1 .. n : i \in 1 .. n + 1 /\ i # n + 1 /\ g[i] = f[i]
      /\ n + 1 \in 1 .. n + 1 /\ g[n + 1] = p
      /\ \A i \in 1 .. n + 1 : i = n + 1 \/ i \in 1 .. n
  OBVIOUS
<1>2. DOMAIN g = 1 .. n + 1 /\ DOMAIN f = 1 .. n
  OBVIOUS
<1>3. g \in [1 .. n + 1 -> P \cup {p}]
  <2>1. \A i \in 1 .. n + 1 : g[i] \in P \cup {p}
    BY <1>1
  <2>2. g = [i \in 1 .. n + 1 |-> g[i]]
    OBVIOUS
  <2> QED
    BY <2>1, <2>2
<1>4. ASSUME NEW i \in 1 .. n + 1, NEW j \in 1 .. n + 1, i < j
      PROVE  g[i] < g[j]
  <2>1. i \in 1 .. n /\ g[i] = f[i] /\ f[i] \in P
    BY <1>1, <1>4
  <2>2. CASE j = n + 1
    BY <1>1, <2>1, <2>2
  <2>3. CASE j # n + 1
    <3>1. j \in 1 .. n /\ g[j] = f[j]
      BY <1>1, <2>3
    <3>2. \A a, b \in 1 .. n : a < b => f[a] < f[b]
      BY <1>2 DEF Ascends
    <3> QED
      BY <1>4, <2>1, <3>1, <3>2
  <2> QED
    BY <2>2, <2>3
<1>5. ASSUME NEW q PROVE q \in P \cup {p} <=> \E i \in 1 .. n + 1 : q = g[i]
  <2>1. q \in P <=> \E i \in 1 .. n : q = f[i]
    BY <1>2 DEF Ascends
  <2> QED
    BY <1>1, <2>1
<1>6. P \cup {p} = {g[i] : i \in 1 .. n + 1}
  BY <1>5
<1> QED
  BY <1>2, <1>3, <1>4, <1>6 DEF Ascends

\* list holds the members of s at the places P, in their order.
Picks(list, s, P) ==
    \E f \in [DOMAIN list -> P] :
       Ascends(f, P) /\ \A i \in DOMAIN list : list[i] = s[f[i]]

LEMMA PicksNone ==
    ASSUME NEW s PROVE Picks(<<>>, s, {})
<1> DEFINE f == [i \in {} |-> 0]
<1>1. f \in [{} -> {}] /\ DOMAIN f = {} /\ DOMAIN <<>> = {}
  OBVIOUS
<1>2. Ascends(f, {})
  BY DEF Ascends
<1> QED
  BY <1>1, <1>2 DEF Picks

LEMMA PicksOneMore ==
    ASSUME NEW X, NEW s, NEW list \in Seq(X), NEW P \in SUBSET Nat, Picks(list, s, P),
           NEW p \in Nat, \A q \in P : q < p, s[p] \in X
    PROVE  Picks(Append(list, s[p]), s, P \cup {p})
<1> DEFINE n == Len(list)
<1>1. n \in Nat /\ DOMAIN list = 1 .. n
  OBVIOUS
<1>2. PICK f \in [1 .. n -> P] : Ascends(f, P) /\ \A i \in 1 .. n : list[i] = s[f[i]]
  BY <1>1 DEF Picks
<1> HIDE DEF n
<1>3. PICK g : g = [i \in 1 .. n + 1 |-> IF i = n + 1 THEN p ELSE f[i]]
  OBVIOUS
<1>4. g \in [1 .. n + 1 -> P \cup {p}] /\ Ascends(g, P \cup {p})
  BY <1>1, <1>2, <1>3, AscendAppend
<1>5. PICK new : new = Append(list, s[p])
  OBVIOUS
<1>6. /\ DOMAIN new = 1 .. n + 1
      /\ \A i \in 1 .. n + 1 : new[i] = IF i = n + 1 THEN s[p] ELSE list[i]
  BY <1>5 DEF n
<1>7. \A i \in 1 .. n + 1 : new[i] = s[g[i]]
  <2>1. \A i \in 1 .. n + 1 : i = n + 1 \/ i \in 1 .. n
    BY <1>1
  <2> QED
    BY <1>1, <1>2, <1>3, <1>6, <2>1
<1> QED
  BY <1>4, <1>5, <1>6, <1>7 DEF Picks

\* Kept keeps what it is told to.
LEMMA KeptProperties ==
    ASSUME NEW X, NEW s \in Seq(X), NEW P, \A p \in P : p \in 1 .. Len(s)
    PROVE  Kept(s, P) \in Seq(X) /\ Picks(Kept(s, P), s, P)
<1> DEFINE n == Len(s)
           g == [i \in 1 .. n |-> [t \in Seq(X) |-> IF i \in P THEN Append(t, s[i]) ELSE t]]
           Solves(f) == f = [i \in 0 .. n |-> IF i = 0 THEN <<>>
                                               ELSE IF i \in P THEN Append(f[i - 1], s[i])
                                               ELSE f[i - 1]]
           upto == CHOOSE f : Solves(f)
<1>1. n \in Nat /\ \A i \in 1 .. n : s[i] \in X
  OBVIOUS
<1>2. g \in [1 .. n -> [Seq(X) -> Seq(X)]]
  <2>1. \A i \in 1 .. n, t \in Seq(X) : Append(t, s[i]) \in Seq(X)
    BY <1>1
  <2> HIDE DEF n
  <2> QED
    BY <2>1
<1>3. \E f : Solves(f)
  <2>1. PICK f \in [0 .. n -> Seq(X)] : Folds(f, n, <<>>, g)
    <3>1. <<>> \in Seq(X)
      OBVIOUS
    <3> HIDE DEF n, g
    <3> QED
      BY <1>1, <1>2, <3>1, FoldExists
  <2>2. \A i \in 0 .. n : f[i] = IF i = 0 THEN <<>> ELSE g[i][f[i - 1]]
    BY <2>1 DEF Folds
  <2>3. ASSUME NEW i \in 1 .. n
        PROVE  g[i][f[i - 1]] = IF i \in P THEN Append(f[i - 1], s[i]) ELSE f[i - 1]
    <3>1. f[i - 1] \in Seq(X)
      <4>1. i - 1 \in 0 .. n
        BY <1>1
      <4> QED
        BY <4>1
    <3> QED
      BY <3>1
  <2>4. \A i \in 0 .. n : f[i] = IF i = 0 THEN <<>>
                                  ELSE IF i \in P THEN Append(f[i - 1], s[i])
                                  ELSE f[i - 1]
    <3>1. \A i \in 0 .. n : i = 0 \/ i \in 1 .. n
      BY <1>1
    <3> HIDE DEF g, n
    <3> QED
      BY <2>2, <2>3, <3>1
  <2>5. f = [i \in 0 .. n |-> f[i]]
    OBVIOUS
  <2> QED
    BY <2>4, <2>5
<1>4. Solves(upto)
  <2> HIDE DEF Solves
  <2> QED
    BY <1>3
<1>5. Kept(s, P) = upto[n]
  BY DEF Kept
<1>6. \A i \in 0 .. n : upto[i] = IF i = 0 THEN <<>>
                                  ELSE IF i \in P THEN Append(upto[i - 1], s[i])
                                  ELSE upto[i - 1]
  <2> HIDE DEF upto
  <2> QED
    BY <1>4
<1>0. n \in Nat /\ \A p \in P : p \in Nat /\ 1 <= p /\ p <= n
  OBVIOUS
<1> HIDE DEF upto, Solves, g, n
<1> DEFINE Q(i) == {p \in P : p <= i}
           T == {i \in 0 .. n : upto[i] \in Seq(X) /\ Picks(upto[i], s, Q(i))}
<1>7. 0 \in T
  <2>1. Q(0) = {} /\ 0 \in 0 .. n
    BY <1>0
  <2>2. upto[0] = <<>>
    BY <1>6, <2>1
  <2>3. Picks(<<>>, s, {}) /\ <<>> \in Seq(X)
    BY PicksNone
  <2>4. upto[0] \in Seq(X) /\ Picks(upto[0], s, Q(0))
    <3> HIDE DEF Q
    <3> QED
      BY <2>1, <2>2, <2>3
  <2> QED
    BY <2>1, <2>4
<1>8. ASSUME NEW i \in 1 .. n, i - 1 \in T
      PROVE  i \in T
  <2>1. i \in Nat /\ i \in 0 .. n /\ i # 0 /\ s[i] \in X
    BY <1>1
  <2>2. Q(i - 1) \in SUBSET Nat /\ \A q \in Q(i - 1) : q < i
    <3>1. \A q \in Q(i - 1) : q \in Nat /\ q <= i - 1
      BY <1>0
    <3> QED
      BY <2>1, <3>1
  <2>3. Q(i) = IF i \in P THEN Q(i - 1) \cup {i} ELSE Q(i - 1)
    <3>1. ASSUME NEW q \in P PROVE q <= i <=> q <= i - 1 \/ q = i
      BY <1>0, <2>1
    <3> QED
      BY <3>1
  <2>4. PICK t : t = upto[i - 1]
    OBVIOUS
  <2>5. t \in Seq(X) /\ Picks(t, s, Q(i - 1))
    BY <1>8, <2>4
  <2>6. upto[i] = IF i \in P THEN Append(t, s[i]) ELSE t
    BY <1>6, <2>1, <2>4
  <2> HIDE DEF Q, T
  <2>7. Append(t, s[i]) \in Seq(X) /\ Picks(Append(t, s[i]), s, Q(i - 1) \cup {i})
    <3>1. PICK R : R = Q(i - 1)
      OBVIOUS
    <3>2. \A q \in R : q < i
      BY <2>2, <3>1
    <3>3. Picks(Append(t, s[i]), s, R \cup {i})
      BY <2>1, <2>2, <2>5, <3>1, <3>2, PicksOneMore
    <3> QED
      BY <2>1, <2>5, <3>1, <3>3
  <2>8. upto[i] \in Seq(X) /\ Picks(upto[i], s, Q(i))
    BY <2>3, <2>5, <2>6, <2>7
  <2> QED
    BY <2>1, <2>8 DEF T
<1>9. \A i \in 0 .. n : i \in T
  <2> HIDE DEF T
  <2> QED
    BY <1>0, <1>7, <1>8, UpInduction
<1>10. upto[n] \in Seq(X) /\ Picks(upto[n], s, Q(n)) /\ Q(n) = P
  <2>1. n \in 0 .. n
    BY <1>0
  <2>2. n \in T
    BY <1>9, <2>1
  <2>3. Q(n) = P
    BY <1>0
  <2> HIDE DEF Q
  <2> QED
    BY <2>2, <2>3
<1> QED
  BY <1>5, <1>10

-----------------------------------------------------------------------------
(* Where characters are, and the components of a list.                     *)

\* d is the first place of c in s from i on.
FirstPlace(c, s, i, d) ==
    d \in i .. Len(s) /\ s[d] = c /\ \A k \in i .. d - 1 : s[k] # c

\* Find finds the first place if there is one.
LEMMA FindProperties ==
    ASSUME NEW s \in Seq(STRING), NEW c, NEW i \in Nat \ {0}
    PROVE  \/ Find(c, s, i) = 0 /\ \A k \in i .. Len(s) : s[k] # c
           \/ Find(c, s, i) \in Nat \ {0} /\ FirstPlace(c, s, i, Find(c, s, i))
<1> DEFINE here == {k \in i .. Len(s) : s[k] = c}
<1>1. Len(s) \in Nat
  OBVIOUS
<1>2. CASE here = {}
  <2>1. Find(c, s, i) = 0
    BY <1>2 DEF Find
  <2> QED
    BY <1>2, <2>1
<1>3. CASE here # {}
  <2>1. here \subseteq Nat
    BY <1>1
  <2>2. PICK x \in here : \A y \in here : ~(<<y, x>> \in OpToRel(<, Nat))
    BY <1>3, <2>1, NatLessThanWellFounded, WFMin
  <2>3. \A y \in here : x <= y
    <3>1. \A y \in here : ~(y < x)
      BY <2>1, <2>2 DEF OpToRel
    <3>2. \A y \in here : y \in Int /\ x \in Int
      BY <1>1
    <3> HIDE DEF here
    <3> QED
      BY <3>1, <3>2
  <2>4. Find(c, s, i) = CHOOSE k \in here : \A j \in here : k <= j
    BY <1>3 DEF Find
  <2>5. Find(c, s, i) \in here /\ \A j \in here : Find(c, s, i) <= j
    <3> HIDE DEF here
    <3> QED
      BY <2>3, <2>4
  <2>6. PICK d : d = Find(c, s, i)
    OBVIOUS
  <2>7. d \in i .. Len(s) /\ s[d] = c /\ \A j \in i .. Len(s) : s[j] = c => d <= j
    BY <2>5, <2>6
  <2>8. \A k \in i .. d - 1 : s[k] # c
    <3>1. \A k \in i .. d - 1 : k \in i .. Len(s) /\ ~(d <= k)
      BY <1>1, <2>7
    <3> QED
      BY <2>7, <3>1
  <2> QED
    BY <2>6, <2>7, <2>8 DEF FirstPlace
<1> QED
  BY <1>2, <1>3

\* There is only one first place.
LEMMA FindIs ==
    ASSUME NEW s \in Seq(STRING), NEW c, NEW i \in Nat \ {0}, NEW d \in Nat,
           FirstPlace(c, s, i, d)
    PROVE  Find(c, s, i) = d
<1>1. PICK e : e = Find(c, s, i)
  OBVIOUS
<1>2. \/ e = 0 /\ \A k \in i .. Len(s) : s[k] # c
      \/ e \in Nat \ {0} /\ FirstPlace(c, s, i, e)
  BY <1>1, FindProperties
<1>3. ~(e < d) /\ ~(d < e)
  <2>1. e \in Nat /\ e # 0 /\ FirstPlace(c, s, i, e)
    BY <1>2 DEF FirstPlace
  <2> QED
    BY <2>1 DEF FirstPlace
<1> QED
  BY <1>1, <1>2, <1>3

LEMMA FindNone ==
    ASSUME NEW s \in Seq(STRING), NEW c, NEW i \in Nat \ {0},
           \A k \in i .. Len(s) : s[k] # c
    PROVE  Find(c, s, i) = 0
<1>1. PICK e : e = Find(c, s, i)
  OBVIOUS
<1>2. \/ e = 0
      \/ e \in Nat \ {0} /\ FirstPlace(c, s, i, e)
  BY <1>1, FindProperties
<1> QED
  BY <1>1, <1>2 DEF FirstPlace

\* t is the text of s behind the place n.
Rest(s, n, t) == n \in 0 .. Len(s) /\ t = SubSeq(s, n + 1, Len(s))

LEMMA RestProperties ==
    ASSUME NEW s \in Seq(STRING), NEW n, NEW t, Rest(s, n, t)
    PROVE  /\ n \in Nat /\ Len(s) \in Nat /\ n <= Len(s)
           /\ t \in Seq(STRING) /\ Len(t) = Len(s) - n
           /\ \A k \in 1 .. Len(s) - n : t[k] = s[n + k] /\ t[k] \in STRING
           /\ t = <<>> <=> n = Len(s)
<1>1. n \in Nat /\ Len(s) \in Nat /\ n <= Len(s)
  BY DEF Rest
<1>2. /\ SubSeq(s, n + 1, Len(s)) \in Seq(STRING)
      /\ Len(SubSeq(s, n + 1, Len(s))) = IF n + 1 <= Len(s) THEN Len(s) - (n + 1) + 1 ELSE 0
      /\ \A k \in 1 .. Len(s) - (n + 1) + 1 :
            SubSeq(s, n + 1, Len(s))[k] = s[(n + 1) + k - 1]
  <2>1. \A k \in n + 1 .. Len(s) : k \in 1 .. Len(s)
    BY <1>1
  <2> QED
    BY <1>1, <2>1, SubSeqProperties
<1>3. t \in Seq(STRING) /\ Len(t) = Len(s) - n
  BY <1>1, <1>2 DEF Rest
<1>4. ASSUME NEW k \in 1 .. Len(s) - n PROVE t[k] = s[n + k] /\ t[k] \in STRING
  <2>1. (n + 1) + k - 1 = n + k /\ k \in 1 .. Len(s) - (n + 1) + 1
    BY <1>1
  <2>2. t[k] = s[n + k]
    BY <1>2, <2>1 DEF Rest
  <2>3. k \in 1 .. Len(t)
    BY <1>3
  <2>4. t[k] \in STRING
    BY <1>3, <2>3
  <2> QED
    BY <2>2, <2>4
<1> QED
  BY <1>1, <1>3, <1>4

\* What is found in the text is what is found behind the place.
LEMMA FindShift ==
    ASSUME NEW s \in Seq(STRING), NEW n, NEW t, Rest(s, n, t), NEW c, NEW i \in Nat \ {0}
    PROVE  Find(c, s, n + i) = IF Find(c, t, i) = 0 THEN 0 ELSE n + Find(c, t, i)
<1>1. /\ n \in Nat /\ Len(s) \in Nat /\ n <= Len(s)
      /\ t \in Seq(STRING) /\ Len(t) = Len(s) - n
      /\ \A k \in 1 .. Len(s) - n : t[k] = s[n + k]
  BY RestProperties
<1>2. n + i \in Nat \ {0}
  BY <1>1
<1>3. PICK d : d = Find(c, t, i)
  OBVIOUS
<1>4. \/ d = 0 /\ \A k \in i .. Len(t) : t[k] # c
      \/ d \in Nat \ {0} /\ FirstPlace(c, t, i, d)
  BY <1>1, <1>3, FindProperties
<1>5. CASE d = 0
  <2>1. \A k \in i .. Len(t) : t[k] # c
    BY <1>4, <1>5
  <2>2. ASSUME NEW k \in n + i .. Len(s) PROVE s[k] # c
    <3>1. PICK j : j = k - n
      OBVIOUS
    <3>2. j \in i .. Len(t) /\ j \in 1 .. Len(s) - n /\ k = n + j
      BY <1>1, <3>1
    <3> QED
      BY <1>1, <2>1, <3>2
  <2>3. Find(c, s, n + i) = 0
    BY <1>2, <2>2, FindNone
  <2> QED
    BY <1>3, <1>5, <2>3
<1>6. CASE d # 0
  <2>1. d \in Nat /\ d \in i .. Len(t) /\ t[d] = c /\ \A k \in i .. d - 1 : t[k] # c
    BY <1>4, <1>6 DEF FirstPlace
  <2>2. n + d \in n + i .. Len(s) /\ s[n + d] = c
    <3>1. d \in 1 .. Len(s) - n
      BY <1>1, <2>1
    <3> QED
      BY <1>1, <2>1, <3>1
  <2>3. ASSUME NEW k \in n + i .. (n + d) - 1 PROVE s[k] # c
    <3>1. PICK j : j = k - n
      OBVIOUS
    <3>2. j \in i .. d - 1 /\ j \in 1 .. Len(s) - n /\ k = n + j
      BY <1>1, <2>1, <3>1
    <3> QED
      BY <1>1, <2>1, <3>2
  <2>4. FirstPlace(c, s, n + i, n + d) /\ n + d \in Nat
    BY <1>1, <2>1, <2>2, <2>3 DEF FirstPlace
  <2>5. Find(c, s, n + i) = n + d
    BY <1>2, <2>4, FindIs
  <2> QED
    BY <1>3, <1>6, <2>5
<1> QED
  BY <1>5, <1>6

\* Where the component that begins behind n ends, with its delimiter.
EndOf(s, n) == IF Find(":", s, n + 1) = 0 THEN Len(s) ELSE Find(":", s, n + 1)

\* n is where a component may begin behind.
Cut(s, n) == n \in 0 .. Len(s) /\ (n = 0 \/ s[n] = ":")

\* Splitting the text behind a cut.
LEMMA FirstIs ==
    ASSUME NEW s \in Seq(STRING), NEW n, NEW t, Rest(s, n, t)
    PROVE  First(t) = ComponentAt(s, n + 1)
<1>1. /\ n \in Nat /\ Len(s) \in Nat /\ n <= Len(s)
      /\ t \in Seq(STRING) /\ Len(t) = Len(s) - n
      /\ \A k \in 1 .. Len(s) - n : t[k] = s[n + k]
  BY RestProperties
<1>2. PICK d : d = Find(":", t, 1)
  OBVIOUS
<1>3. \/ d = 0
      \/ d \in Nat \ {0} /\ FirstPlace(":", t, 1, d)
  BY <1>1, <1>2, FindProperties
<1>4. Find(":", s, n + 1) = IF d = 0 THEN 0 ELSE n + d
  BY <1>2, FindShift
<1>5. CASE d = 0
  <2>1. First(t) = t /\ ComponentAt(s, n + 1) = SubSeq(s, n + 1, Len(s))
    BY <1>2, <1>4, <1>5 DEF First, ComponentAt
  <2> QED
    BY <2>1 DEF Rest
<1>6. CASE d # 0
  <2>1. d \in Nat /\ 1 <= d /\ d <= Len(t)
    BY <1>3, <1>6 DEF FirstPlace
  <2>2. First(t) = SubSeq(t, 1, d - 1) /\ ComponentAt(s, n + 1) = SubSeq(s, n + 1, (n + d) - 1)
    <3>1. First(t) = SubSeq(t, 1, d - 1)
      BY <1>2, <1>6 DEF First
    <3>2. PICK e : e = n + d
      OBVIOUS
    <3>3. e # 0
      BY <1>1, <2>1, <3>2
    <3>4. Find(":", s, n + 1) = e
      BY <1>4, <1>6, <3>2
    <3>5. ComponentAt(s, n + 1) = SubSeq(s, n + 1, e - 1)
      BY <3>3, <3>4 DEF ComponentAt
    <3> QED
      BY <3>1, <3>2, <3>5
  <2>3. /\ SubSeq(t, 1, d - 1) \in Seq(STRING) /\ Len(SubSeq(t, 1, d - 1)) = d - 1
        /\ \A k \in 1 .. d - 1 : SubSeq(t, 1, d - 1)[k] = t[k]
    <3>1. PICK u : u = d - 1
      OBVIOUS
    <3>2. u \in Nat /\ u <= Len(t) /\ \A k \in 1 .. u : k \in 1 .. Len(t)
      BY <1>1, <2>1, <3>1
    <3>3. /\ SubSeq(t, 1, u) \in Seq(STRING)
          /\ Len(SubSeq(t, 1, u)) = IF 1 <= u THEN u - 1 + 1 ELSE 0
          /\ \A k \in 1 .. u - 1 + 1 : SubSeq(t, 1, u)[k] = t[1 + k - 1]
      BY <1>1, <3>2, SubSeqProperties
    <3>4. \A k \in 1 .. u : k \in 1 .. u - 1 + 1 /\ 1 + k - 1 = k
      BY <3>2
    <3> QED
      BY <3>1, <3>2, <3>3, <3>4
  <2>4. /\ SubSeq(s, n + 1, (n + d) - 1) \in Seq(STRING) /\ Len(SubSeq(s, n + 1, (n + d) - 1)) = d - 1
        /\ \A k \in 1 .. d - 1 : SubSeq(s, n + 1, (n + d) - 1)[k] = s[n + k]
    <3>1. PICK u : u = (n + d) - 1
      OBVIOUS
    <3>2. PICK m : m = n + 1
      OBVIOUS
    <3>3. u \in Nat /\ m \in Nat /\ m <= u + 1 /\ \A k \in m .. u : k \in 1 .. Len(s)
      BY <1>1, <2>1, <3>1, <3>2
    <3>4. /\ SubSeq(s, m, u) \in Seq(STRING)
          /\ Len(SubSeq(s, m, u)) = IF m <= u THEN u - m + 1 ELSE 0
          /\ \A k \in 1 .. u - m + 1 : SubSeq(s, m, u)[k] = s[m + k - 1]
      BY <3>3, SubSeqProperties
    <3>5. \A k \in 1 .. d - 1 : k \in 1 .. u - m + 1 /\ m + k - 1 = n + k
      BY <1>1, <2>1, <3>1, <3>2
    <3>6. Len(SubSeq(s, m, u)) = d - 1
      BY <1>1, <2>1, <3>1, <3>2, <3>3, <3>4
    <3> QED
      BY <3>1, <3>2, <3>4, <3>5, <3>6
  <2>5. \A k \in 1 .. d - 1 : t[k] = s[n + k]
    <3>1. \A k \in 1 .. d - 1 : k \in 1 .. Len(s) - n
      BY <1>1, <2>1
    <3> QED
      BY <1>1, <3>1
  <2>6. PICK a, b : a = SubSeq(t, 1, d - 1) /\ b = SubSeq(s, n + 1, (n + d) - 1)
    OBVIOUS
  <2>7. a \in Seq(STRING) /\ b \in Seq(STRING) /\ Len(a) = Len(b)
    BY <2>3, <2>4, <2>6
  <2>8. \A k \in 1 .. Len(a) : a[k] = b[k]
    BY <2>3, <2>4, <2>5, <2>6
  <2>9. a = b
    BY <2>7, <2>8, SeqEqual
  <2> QED
    BY <2>2, <2>6, <2>9
<1> QED
  BY <1>5, <1>6

\* The text behind a place of the text.
LEMMA RestOfRest ==
    ASSUME NEW s \in Seq(STRING), NEW n, NEW t, Rest(s, n, t), NEW d \in 0 .. Len(t)
    PROVE  Rest(s, n + d, SubSeq(t, d + 1, Len(t)))
<1>1. /\ n \in Nat /\ Len(s) \in Nat /\ n <= Len(s)
      /\ t \in Seq(STRING) /\ Len(t) = Len(s) - n
      /\ \A k \in 1 .. Len(s) - n : t[k] = s[n + k]
  BY RestProperties
<1>2. PICK q : q = SubSeq(t, d + 1, Len(t))
  OBVIOUS
<1>3. PICK m : m = n + d
  OBVIOUS
<1>4. PICK r : r = SubSeq(s, m + 1, Len(s))
  OBVIOUS
<1>5. d \in Nat /\ m \in 0 .. Len(s) /\ Len(t) - d = Len(s) - m
  BY <1>1, <1>3
<1>6. Rest(t, d, q) /\ Rest(s, m, r)
  BY <1>2, <1>4, <1>5 DEF Rest
<1>7. /\ q \in Seq(STRING) /\ Len(q) = Len(t) - d
      /\ \A k \in 1 .. Len(t) - d : q[k] = t[d + k]
  <2>1. t \in Seq(STRING) /\ Rest(t, d, q)
    BY <1>1, <1>6
  <2>2. \A k \in 1 .. Len(t) - d : q[k] = t[d + k] /\ q[k] \in STRING
    BY <2>1, RestProperties
  <2>3. q \in Seq(STRING) /\ Len(q) = Len(t) - d
    BY <2>1, RestProperties
  <2> QED
    BY <2>2, <2>3
<1>8. /\ r \in Seq(STRING) /\ Len(r) = Len(s) - m
      /\ \A k \in 1 .. Len(s) - m : r[k] = s[m + k]
  BY <1>6, RestProperties
<1>9. ASSUME NEW k \in 1 .. Len(q) PROVE q[k] = r[k]
  <2>1. k \in 1 .. Len(t) - d /\ k \in 1 .. Len(s) - m /\ k \in Nat
    BY <1>5, <1>7
  <2>2. d + k \in 1 .. Len(s) - n /\ n + (d + k) = m + k
    BY <1>1, <1>3, <1>5, <2>1
  <2> QED
    BY <1>1, <1>7, <1>8, <2>1, <2>2
<1>10. q = r
  BY <1>5, <1>7, <1>8, <1>9, SeqEqual
<1> QED
  BY <1>2, <1>3, <1>6, <1>10

\* A part of a text is empty if its ends are crossed, and only then.
LEMMA PartEmpty ==
    ASSUME NEW s \in Seq(STRING), NEW a \in Nat \ {0}, NEW b \in Nat, b <= Len(s)
    PROVE  /\ SubSeq(s, a, b) \in Seq(STRING)
           /\ SubSeq(s, a, b) = <<>> <=> b < a
<1>1. \A k \in a .. b : s[k] \in STRING
  <2>1. \A k \in a .. b : k \in 1 .. Len(s)
    OBVIOUS
  <2> QED
    BY <2>1
<1>2. /\ SubSeq(s, a, b) \in Seq(STRING)
      /\ Len(SubSeq(s, a, b)) = IF a <= b THEN b - a + 1 ELSE 0
  BY <1>1, SubSeqProperties
<1> QED
  BY <1>2

LEMMA SecondIs ==
    ASSUME NEW s \in Seq(STRING), NEW n, NEW t, Rest(s, n, t)
    PROVE  \/ Second(t) = <<>> /\ EndOf(s, n) = Len(s)
           \/ /\ EndOf(s, n) \in n + 1 .. Len(s) - 1 /\ Cut(s, EndOf(s, n))
              /\ Second(t) # <<>> /\ Rest(s, EndOf(s, n), Second(t))
<1>1. /\ n \in Nat /\ Len(s) \in Nat /\ n <= Len(s)
      /\ t \in Seq(STRING) /\ Len(t) = Len(s) - n
      /\ \A k \in 1 .. Len(s) - n : t[k] = s[n + k]
  BY RestProperties
<1>2. PICK d : d = Find(":", t, 1)
  OBVIOUS
<1>3. \/ d = 0
      \/ d \in Nat \ {0} /\ FirstPlace(":", t, 1, d)
  BY <1>1, <1>2, FindProperties
<1>4. Find(":", s, n + 1) = IF d = 0 THEN 0 ELSE n + d
  BY <1>2, FindShift
<1>5. CASE d = 0
  BY <1>2, <1>4, <1>5 DEF Second, EndOf
<1>6. CASE d # 0
  <2>1. d \in Nat /\ 1 <= d /\ d <= Len(t) /\ t[d] = ":"
    BY <1>3, <1>6 DEF FirstPlace
  <2>2. PICK e : e = n + d
    OBVIOUS
  <2>3. e \in n + 1 .. Len(s) /\ e \in Nat /\ e # 0 /\ s[e] = ":"
    <3>1. d \in 1 .. Len(s) - n
      BY <1>1, <2>1
    <3> QED
      BY <1>1, <2>1, <2>2, <3>1
  <2>4. EndOf(s, n) = e
    BY <1>4, <1>6, <2>2, <2>3 DEF EndOf
  <2>5. Second(t) = SubSeq(t, d + 1, Len(t))
    BY <1>2, <1>6 DEF Second
  <2>6. Rest(s, e, Second(t))
    <3>1. d \in 0 .. Len(t)
      BY <1>1, <2>1
    <3> QED
      BY <2>2, <2>5, <3>1, RestOfRest
  <2>7. Second(t) = <<>> <=> e = Len(s)
    <3>1. PICK u : u = Second(t)
      OBVIOUS
    <3>2. Rest(s, e, u)
      BY <2>6, <3>1
    <3>3. u = <<>> <=> e = Len(s)
      BY <3>2, RestProperties
    <3> QED
      BY <3>1, <3>3
  <2>8. e # Len(s) => e \in n + 1 .. Len(s) - 1
    <3>1. PICK l : l = Len(s)
      OBVIOUS
    <3>2. n \in Nat /\ l \in Nat /\ e \in Nat /\ e \in n + 1 .. l
      BY <1>1, <2>3, <3>1
    <3>3. e # l => e \in n + 1 .. l - 1
      BY <3>2
    <3> QED
      BY <3>1, <3>3
  <2>9. Cut(s, e)
    BY <1>1, <2>3 DEF Cut
  <2> QED
    BY <2>4, <2>6, <2>7, <2>8, <2>9
<1> QED
  BY <1>5, <1>6

\* The last component, when there is nothing behind it.
LEMMA TrimmedIs ==
    ASSUME NEW s \in Seq(STRING), NEW n, NEW t, Rest(s, n, t), Second(t) = <<>>
    PROVE  Trimmed(t) = ComponentAt(s, n + 1)
<1>1. n \in Nat /\ Len(s) \in Nat /\ n <= Len(s) /\ t \in Seq(STRING) /\ Len(t) = Len(s) - n
  BY RestProperties
<1>2. PICK d : d = Find(":", t, 1)
  OBVIOUS
<1>3. \/ d = 0 /\ \A k \in 1 .. Len(t) : t[k] # ":"
      \/ d \in Nat \ {0} /\ FirstPlace(":", t, 1, d)
  BY <1>1, <1>2, FindProperties
<1>4. First(t) = ComponentAt(s, n + 1)
  BY FirstIs
<1>5. PICK l : l = Len(t)
  OBVIOUS
<1>6. l \in Nat /\ (t = <<>> <=> l = 0) /\ Last(t) = t[l] /\ Front(t) = SubSeq(t, 1, l - 1)
  BY <1>1, <1>5 DEF Last, Front
<1>7. CASE d = 0
  <2>1. t # <<>> => t[l] # ":"
    BY <1>3, <1>5, <1>6, <1>7
  <2>2. Trimmed(t) = t
    BY <1>6, <2>1 DEF Trimmed
  <2>3. First(t) = t
    BY <1>2, <1>7 DEF First
  <2> QED
    BY <1>4, <2>2, <2>3
<1>8. CASE d # 0
  <2>1. d \in Nat /\ 1 <= d /\ d <= l /\ t[d] = ":"
    BY <1>3, <1>5, <1>8 DEF FirstPlace
  <2>2. SubSeq(t, d + 1, l) = <<>>
    BY <1>2, <1>5, <1>8 DEF Second
  <2>3. l < d + 1
    <3>1. PICK a : a = d + 1
      OBVIOUS
    <3>2. a \in Nat \ {0} /\ l \in Nat /\ l <= Len(t) /\ SubSeq(t, a, l) = <<>>
      BY <1>1, <1>5, <1>6, <2>1, <2>2, <3>1
    <3>3. l < a
      BY <1>1, <3>2, PartEmpty
    <3> QED
      BY <3>1, <3>3
  <2>4. d = l
    BY <1>6, <2>1, <2>3
  <2>5. First(t) = SubSeq(t, 1, l - 1)
    BY <1>2, <1>8, <2>4 DEF First
  <2>6. Trimmed(t) = Front(t)
    BY <1>6, <2>1, <2>4 DEF Trimmed
  <2> QED
    BY <1>4, <1>6, <2>5, <2>6
<1> QED
  BY <1>7, <1>8

\* The one place between a cut and the next at which a component may start.
LEMMA StartsBetween ==
    ASSUME NEW s \in Seq(STRING), NEW n, Cut(s, n)
    PROVE  /\ n \in Nat /\ EndOf(s, n) \in Nat /\ n <= EndOf(s, n) /\ EndOf(s, n) <= Len(s)
           /\ ComponentAt(s, n + 1) \in Seq(STRING)
           /\ ComponentAt(s, n + 1) # <<>> <=> n + 1 \in Starts(s)
           /\ n + 1 \in Starts(s) => n + 1 <= EndOf(s, n)
           /\ \A i \in Starts(s) : i <= EndOf(s, n) => i <= n \/ i = n + 1
<1>1. n \in Nat /\ Len(s) \in Nat /\ n <= Len(s) /\ DOMAIN s = 1 .. Len(s)
  BY DEF Cut
<1>2. PICK m : m = n + 1
  OBVIOUS
<1>3. m \in Nat \ {0}
  BY <1>1, <1>2
<1>4. PICK e : e = Find(":", s, m)
  OBVIOUS
<1>5. \/ e = 0 /\ \A k \in m .. Len(s) : s[k] # ":"
      \/ e \in Nat \ {0} /\ e \in m .. Len(s) /\ s[e] = ":" /\ \A k \in m .. e - 1 : s[k] # ":"
  BY <1>3, <1>4, FindProperties DEF FirstPlace
<1>6. PICK h : h = EndOf(s, n)
  OBVIOUS
<1>7. h = IF e = 0 THEN Len(s) ELSE e
  BY <1>2, <1>4, <1>6 DEF EndOf
<1>8. h \in Nat /\ n <= h /\ h <= Len(s)
  BY <1>1, <1>2, <1>5, <1>7
<1>9. PICK u : u = IF e = 0 THEN Len(s) ELSE e - 1
  OBVIOUS
<1>10. u \in Nat /\ u <= Len(s) /\ ComponentAt(s, m) = SubSeq(s, m, u)
  <2>1. u \in Nat /\ u <= Len(s)
    BY <1>1, <1>5, <1>9
  <2>2. ComponentAt(s, m) = SubSeq(s, m, u)
    BY <1>4, <1>9 DEF ComponentAt
  <2> QED
    BY <2>1, <2>2
<1>11. ComponentAt(s, m) \in Seq(STRING) /\ (ComponentAt(s, m) = <<>> <=> u < m)
  BY <1>3, <1>10, PartEmpty
<1>12. m \in Starts(s) <=> m <= u
  <2>1. m \in Starts(s) <=> m \in 1 .. Len(s) /\ s[m] # ":" /\ (m = 1 \/ s[m - 1] = ":")
    BY <1>1 DEF Starts
  <2>2. m - 1 = n /\ (n = 0 <=> m = 1)
    BY <1>1, <1>2
  <2>3. m = 1 \/ s[m - 1] = ":"
    BY <2>2 DEF Cut
  <2>4. m \in 1 .. Len(s) /\ s[m] # ":" <=> m <= u
    <3>1. CASE e = 0
      BY <1>1, <1>3, <1>5, <1>9, <3>1
    <3>2. CASE e # 0
      BY <1>1, <1>3, <1>5, <1>9, <3>2
    <3> QED
      BY <3>1, <3>2
  <2> QED
    BY <2>1, <2>3, <2>4
<1>13. m <= u => m <= h
  BY <1>1, <1>3, <1>5, <1>7, <1>9
<1>14. ASSUME NEW i \in Starts(s), i <= h PROVE i <= n \/ i = m
  <2>1. i \in 1 .. Len(s) /\ (i = 1 \/ s[i - 1] = ":")
    BY <1>1 DEF Starts
  <2>2. SUFFICES ASSUME i > m PROVE FALSE
    BY <1>1, <1>2, <2>1
  <2>3. i - 1 \in m .. Len(s) /\ (e # 0 => i - 1 \in m .. e - 1) /\ i # 1
    BY <1>1, <1>3, <1>5, <1>7, <1>14, <2>1, <2>2
  <2> QED
    BY <1>5, <2>1, <2>3
<1> QED
  BY <1>1, <1>2, <1>3, <1>6, <1>8, <1>10, <1>11, <1>12, <1>13, <1>14

-----------------------------------------------------------------------------
(* One turn of SplitPaths, on the list split.                              *)

\* The places up to n.
Upto(P, n) == {i \in P : i <= n}

\* The places of the components that a mode asks for.
Wanted(md, s) ==
    CASE md = "allow" -> Starts(s)
      [] md = "prune" -> ExistingIn(s)
      [] OTHER -> UnbrokenIn(s)

AllThere(s, n) == \A i \in Starts(s) : i <= n => Exists(ComponentAt(s, i))

LEMMA StartsArePlaces ==
    ASSUME NEW s \in Seq(STRING)
    PROVE  /\ \A i \in Starts(s) : i \in Nat /\ 1 <= i /\ i <= Len(s)
           /\ \A md : \A i \in Wanted(md, s) : i \in Starts(s)
<1>1. \A i \in Starts(s) : i \in Nat /\ 1 <= i /\ i <= Len(s)
  BY DEF Starts
<1>2. ASSUME NEW md, NEW i \in Wanted(md, s) PROVE i \in Starts(s)
  BY DEF Wanted, ExistingIn, UnbrokenIn
<1> QED
  BY <1>1, <1>2

LEMMA CollectsNone ==
    ASSUME NEW s \in Seq(STRING), NEW md
    PROVE  Collects(<<>>, s, Upto(Wanted(md, s), 0))
<1>1. Upto(Wanted(md, s), 0) = {}
  <2>1. \A i \in Wanted(md, s) : ~(i <= 0)
    BY StartsArePlaces
  <2> QED
    BY <2>1 DEF Upto
<1> DEFINE f == [i \in {} |-> 0]
<1>2. f \in [{} -> {}] /\ DOMAIN f = {} /\ DOMAIN <<>> = {}
  OBVIOUS
<1>3. Ascends(f, {})
  BY DEF Ascends
<1> QED
  BY <1>1, <1>2, <1>3 DEF Collects

LEMMA CollectsOneMore ==
    ASSUME NEW s \in Seq(STRING), NEW list \in Seq(Seq(STRING)), NEW P,
           \A q \in P : q \in Starts(s), Collects(list, s, P),
           NEW p \in Starts(s), \A q \in P : q < p, ComponentAt(s, p) \in Seq(STRING)
    PROVE  Collects(Append(list, ComponentAt(s, p)), s, P \cup {p})
<1> DEFINE c == [i \in Starts(s) |-> ComponentAt(s, i)]
<1>1. \A i \in Starts(s) : c[i] = ComponentAt(s, i)
  OBVIOUS
<1> HIDE DEF c
<1>2. \A i \in Starts(s) : i \in Nat
  BY StartsArePlaces
<1>3. P \in SUBSET Nat /\ p \in Nat
  BY <1>2
<1>4. Picks(list, c, P)
  <2>1. PICK f \in [DOMAIN list -> P] :
          Ascends(f, P) /\ \A i \in DOMAIN list : list[i] = ComponentAt(s, f[i])
    BY DEF Collects
  <2>2. \A i \in DOMAIN list : list[i] = c[f[i]]
    <3>1. \A i \in DOMAIN list : f[i] \in Starts(s)
      OBVIOUS
    <3> QED
      BY <1>1, <2>1, <3>1
  <2> QED
    BY <2>1, <2>2 DEF Picks
<1>5. c[p] = ComponentAt(s, p)
  BY <1>1
<1>6. PICK X : X = Seq(STRING)
  OBVIOUS
<1>7. Picks(Append(list, c[p]), c, P \cup {p})
  <2>1. list \in Seq(X) /\ c[p] \in X
    BY <1>5, <1>6
  <2> QED
    BY <1>3, <1>4, <2>1, PicksOneMore
<1>8. PICK new : new = Append(list, c[p])
  OBVIOUS
<1>9. PICK Q : Q = P \cup {p}
  OBVIOUS
<1>10. PICK f \in [DOMAIN new -> Q] : Ascends(f, Q) /\ \A i \in DOMAIN new : new[i] = c[f[i]]
  BY <1>7, <1>8, <1>9 DEF Picks
<1>11. \A i \in DOMAIN new : new[i] = ComponentAt(s, f[i])
  <2>1. \A i \in DOMAIN new : f[i] \in Starts(s)
    BY <1>9
  <2> QED
    BY <1>1, <1>10, <2>1
<1> QED
  BY <1>5, <1>8, <1>9, <1>10, <1>11 DEF Collects

\* What a turn makes of the component behind the cut n.
TakenBy(md, list, p) ==
    IF p # <<>> /\ (Exists(p) \/ md = "allow") THEN Append(list, p) ELSE list

\* A turn brings the list, and what is known of what exists, to the next cut.
LEMMA TurnTakes ==
    ASSUME NEW s \in Seq(STRING), NEW n, Cut(s, n), NEW md,
           NEW list \in Seq(Seq(STRING)), Collects(list, s, Upto(Wanted(md, s), n)),
           md \in {"allow", "prune"} \/ AllThere(s, n),
           NEW p, p = ComponentAt(s, n + 1), NEW m, m = EndOf(s, n)
    PROVE  /\ TakenBy(md, list, p) \in Seq(Seq(STRING))
           /\ Collects(TakenBy(md, list, p), s, Upto(Wanted(md, s), m))
           /\ AllThere(s, m) <=> AllThere(s, n) /\ (p = <<>> \/ Exists(p))
<1>1. /\ n \in Nat /\ m \in Nat /\ n <= m /\ m <= Len(s) /\ p \in Seq(STRING)
      /\ p # <<>> <=> n + 1 \in Starts(s)
      /\ n + 1 \in Starts(s) => n + 1 <= m
      /\ \A i \in Starts(s) : i <= m => i <= n \/ i = n + 1
  BY StartsBetween
<1>2. /\ \A i \in Starts(s) : i \in Nat /\ 1 <= i
      /\ \A i \in Wanted(md, s) : i \in Starts(s)
  BY StartsArePlaces
<1>3. TakenBy(md, list, p) \in Seq(Seq(STRING))
  <2>1. Append(list, p) \in Seq(Seq(STRING))
    BY <1>1
  <2> QED
    BY <2>1 DEF TakenBy
<1>4. AllThere(s, m) <=> AllThere(s, n) /\ (p = <<>> \/ Exists(p))
  <2>1. ASSUME AllThere(s, m) PROVE AllThere(s, n) /\ (p = <<>> \/ Exists(p))
    <3>1. \A i \in Starts(s) : i <= n => i <= m
      BY <1>1, <1>2
    <3> QED
      BY <1>1, <2>1, <3>1 DEF AllThere
  <2>2. ASSUME AllThere(s, n), p = <<>> \/ Exists(p) PROVE AllThere(s, m)
    <3>1. ASSUME NEW i \in Starts(s), i <= m PROVE Exists(ComponentAt(s, i))
      <4>1. i <= n \/ i = n + 1
        BY <1>1, <3>1
      <4> QED
        BY <1>1, <2>2, <4>1 DEF AllThere
    <3> QED
      BY <3>1 DEF AllThere
  <2> QED
    BY <2>1, <2>2
<1>5. Upto(Wanted(md, s), m) = IF n + 1 \in Wanted(md, s) THEN Upto(Wanted(md, s), n) \cup {n + 1}
                               ELSE Upto(Wanted(md, s), n)
  <2>1. ASSUME NEW i \in Wanted(md, s) PROVE i <= m <=> i <= n \/ i = n + 1
    <3>1. i \in Starts(s) /\ i \in Nat
      BY <1>2
    <3>2. i <= n => i <= m
      BY <1>1, <3>1
    <3> QED
      BY <1>1, <3>1, <3>2
  <2> QED
    BY <2>1 DEF Upto
<1>6. n + 1 \in Wanted(md, s) <=> p # <<>> /\ (Exists(p) \/ md = "allow")
  <2>1. CASE md = "allow"
    BY <1>1, <2>1 DEF Wanted
  <2>2. CASE md = "prune"
    BY <1>1, <2>2 DEF Wanted, ExistingIn
  <2>3. CASE md \notin {"allow", "prune"}
    <3>1. Wanted(md, s) = UnbrokenIn(s) /\ AllThere(s, n)
      BY <2>3 DEF Wanted
    <3>2. ASSUME n + 1 \in UnbrokenIn(s) PROVE p # <<>> /\ Exists(p)
      <4>1. n + 1 \in Starts(s) /\ n + 1 <= n + 1
        BY <1>1, <3>2 DEF UnbrokenIn
      <4>2. n + 1 \in ExistingIn(s)
        BY <3>2, <4>1 DEF UnbrokenIn
      <4> QED
        BY <1>1, <4>1, <4>2 DEF ExistingIn
    <3>3. ASSUME p # <<>>, Exists(p) PROVE n + 1 \in UnbrokenIn(s)
      <4>1. ASSUME NEW j \in Starts(s), j <= n + 1 PROVE j \in ExistingIn(s)
        <5>1. j <= n \/ j = n + 1
          <6>1. j \in Nat /\ n \in Nat
            BY <1>1, <1>2
          <6> QED
            BY <4>1, <6>1
        <5> QED
          BY <3>1, <3>3, <5>1 DEF ExistingIn, AllThere
      <4> QED
        BY <1>1, <3>3, <4>1 DEF UnbrokenIn
    <3> QED
      BY <2>3, <3>1, <3>2, <3>3
  <2> QED
    BY <2>1, <2>2, <2>3
<1>7. CASE p # <<>> /\ (Exists(p) \/ md = "allow")
  <2>1. PICK P : P = Upto(Wanted(md, s), n)
    OBVIOUS
  <2>2. PICK q : q = n + 1
    OBVIOUS
  <2>3. \A i \in P : i \in Starts(s) /\ i < q
    BY <1>1, <1>2, <2>1, <2>2 DEF Upto
  <2>4. q \in Starts(s) /\ p = ComponentAt(s, q)
    BY <1>1, <1>7, <2>2
  <2>5. Collects(Append(list, ComponentAt(s, q)), s, P \cup {q})
    <3>1. ComponentAt(s, q) \in Seq(STRING) /\ Collects(list, s, P)
      BY <1>1, <2>1, <2>4
    <3> QED
      BY <2>3, <2>4, <3>1, CollectsOneMore
  <2> QED
    BY <1>3, <1>4, <1>5, <1>6, <1>7, <2>1, <2>2, <2>4, <2>5 DEF TakenBy
<1>8. CASE ~(p # <<>> /\ (Exists(p) \/ md = "allow"))
  BY <1>3, <1>4, <1>5, <1>6, <1>8 DEF TakenBy
<1> QED
  BY <1>7, <1>8

\* Nothing behind a missing component is wanted in the failing modes.
LEMMA BrokenOff ==
    ASSUME NEW s \in Seq(STRING), NEW n, Cut(s, n), NEW md, md \notin {"allow", "prune"},
           NEW p, p = ComponentAt(s, n + 1), p # <<>>, ~Exists(p)
    PROVE  Upto(Wanted(md, s), n) = Wanted(md, s) /\ ExistingIn(s) # Starts(s)
<1>1. n \in Nat /\ n + 1 \in Starts(s)
  BY StartsBetween
<1>2. n + 1 \notin ExistingIn(s)
  BY DEF ExistingIn
<1>3. ASSUME NEW i \in Wanted(md, s) PROVE i <= n
  <2>1. i \in UnbrokenIn(s)
    BY DEF Wanted
  <2>2. i \in Nat
    BY <2>1, StartsArePlaces DEF UnbrokenIn
  <2>3. ~(n + 1 <= i)
    BY <1>1, <1>2, <2>1 DEF UnbrokenIn
  <2> QED
    BY <1>1, <2>2, <2>3
<1> QED
  BY <1>1, <1>2, <1>3 DEF Upto

\* At the end of the list all is collected.
LEMMA AllWanted ==
    ASSUME NEW s \in Seq(STRING), NEW md
    PROVE  /\ Upto(Wanted(md, s), Len(s)) = Wanted(md, s)
           /\ AllThere(s, Len(s)) <=> ExistingIn(s) = Starts(s)
<1>1. /\ \A i \in Starts(s) : i <= Len(s)
      /\ \A i \in Wanted(md, s) : i \in Starts(s)
  BY StartsArePlaces
<1>2. Upto(Wanted(md, s), Len(s)) = Wanted(md, s)
  BY <1>1 DEF Upto
<1>3. AllThere(s, Len(s)) <=> ExistingIn(s) = Starts(s)
  BY <1>1 DEF AllThere, ExistingIn
<1> QED
  BY <1>2, <1>3

-----------------------------------------------------------------------------
(* What the dynamic loader prints.                                         *)

LEMMA UnspacedType ==
    ASSUME NEW s \in Seq(STRING)
    PROVE  Unspaced(s) \in Seq(STRING)
<1>1. PICK P : P = {i \in DOMAIN s : s[i] # " "}
  OBVIOUS
<1>2. \A p \in P : p \in 1 .. Len(s)
  <2>1. DOMAIN s = 1 .. Len(s)
    OBVIOUS
  <2>2. \A p \in P : p \in DOMAIN s
    BY <1>1
  <2> QED
    BY <2>1, <2>2
<1>3. Kept(s, P) \in Seq(STRING)
  <2>1. PICK X : X = STRING
    OBVIOUS
  <2>2. s \in Seq(X)
    BY <2>1
  <2>3. Kept(s, P) \in Seq(X)
    BY <1>2, <2>2, KeptProperties
  <2> QED
    BY <2>1, <2>3
<1> QED
  BY <1>1, <1>3 DEF Unspaced

LEMMA SearchStartIs ==
    ASSUME NEW out \in Seq(STRING)
    PROVE  SearchStart(out) \in Nat \ {0}
<1>1. PICK l : l = Find("L", out, 1)
  OBVIOUS
<1>2. l = 0 \/ l \in Nat \ {0}
  BY <1>1, FindProperties
<1>3. SearchStart(out) = IF l = 0 THEN 1 ELSE l
  BY <1>1 DEF SearchStart
<1> QED
  BY <1>2, <1>3

LEMMA SystemPathType ==
    ASSUME NEW out \in Seq(STRING)
    PROVE  SystemPath(out) \in Seq(STRING)
<1>1. PICK i : i = SearchStart(out)
  OBVIOUS
<1>2. i \in Nat \ {0}
  BY <1>1, SearchStartIs
<1>3. PICK from : from = Find("=", out, i)
  OBVIOUS
<1>4. from = 0 \/ from \in Nat \ {0}
  BY <1>2, <1>3, FindProperties
<1>5. PICK to : to = IF from = 0 THEN 0 ELSE Find("S", out, from)
  OBVIOUS
<1>6. to = 0 \/ (to \in Nat \ {0} /\ to <= Len(out))
  <2>1. CASE from = 0
    BY <1>5, <2>1
  <2>2. CASE from # 0
    BY <1>4, <1>5, <2>2, FindProperties DEF FirstPlace
  <2> QED
    BY <2>1, <2>2
<1>7. SystemPath(out) = IF to = 0 THEN <<>> ELSE Unspaced(SubSeq(out, from + 1, to - 1))
  BY <1>1, <1>3, <1>5 DEF SystemPath
<1>8. CASE to = 0
  BY <1>7, <1>8
<1>9. CASE to # 0
  <2>1. from # 0 /\ from \in Nat
    BY <1>4, <1>5, <1>9
  <2>2. PICK a, b : a = from + 1 /\ b = to - 1
    OBVIOUS
  <2>3. a \in Nat \ {0} /\ b \in Nat /\ b <= Len(out)
    BY <1>6, <1>9, <2>1, <2>2
  <2>4. SubSeq(out, a, b) \in Seq(STRING)
    BY <2>3, PartEmpty
  <2> QED
    BY <1>7, <1>9, <2>2, <2>4, UnspacedType
<1> QED
  BY <1>8, <1>9

\* With one search path to choose from, the one that comes last is taken.
LEMMA SystemPathIs ==
    ASSUME NEW out \in Seq(STRING), OneSearchPath(out),
           NEW to, to = Find("S", out, 1),
           NEW starts, starts = {i \in 1 .. to : out[i] = "="}
    PROVE  SystemPath(out) =
             IF to = 0 THEN <<>>
             ELSE Unspaced(SubSeq(out, (CHOOSE i \in starts : \A j \in starts : j <= i) + 1, to - 1))
<1>1. PICK i : i = SearchStart(out)
  OBVIOUS
<1>2. i \in Nat \ {0}
  BY <1>1, SearchStartIs
<1>3. PICK from : from = Find("=", out, i)
  OBVIOUS
<1>4. \/ from = 0
      \/ from \in Nat \ {0} /\ FirstPlace("=", out, i, from)
  BY <1>2, <1>3, FindProperties
<1>5. \/ to = 0 /\ \A k \in 1 .. Len(out) : out[k] # "S"
      \/ to \in Nat \ {0} /\ FirstPlace("S", out, 1, to)
  BY FindProperties
<1>6. SystemPath(out) =
        LET end == IF from = 0 THEN 0 ELSE Find("S", out, from)
        IN  IF end = 0 THEN <<>> ELSE Unspaced(SubSeq(out, from + 1, end - 1))
  BY <1>1, <1>3 DEF SystemPath
<1>7. CASE to = 0
  <2>1. from # 0 => Find("S", out, from) = 0
    <3>1. SUFFICES ASSUME from # 0 PROVE Find("S", out, from) = 0
      OBVIOUS
    <3>2. from \in Nat \ {0}
      BY <1>4, <3>1
    <3>3. \A k \in from .. Len(out) : out[k] # "S"
      <4>1. \A k \in from .. Len(out) : k \in 1 .. Len(out)
        BY <3>2
      <4> QED
        BY <1>5, <1>7, <4>1
    <3> QED
      BY <3>2, <3>3, FindNone
  <2> QED
    BY <1>6, <1>7, <2>1
<1>8. CASE to # 0
  <2>1. /\ to \in Nat \ {0} /\ to <= Len(out) /\ out[to] = "S"
        /\ \A k \in 1 .. to - 1 : out[k] # "S"
    BY <1>5, <1>8 DEF FirstPlace
  <2>2. PICK only \in {k \in i .. to : out[k] = "="} : \A j \in {k \in i .. to : out[k] = "="} : j = only
    <3>1. PICK l : l = Find("L", out, 1)
      OBVIOUS
    <3>2. PICK begins : begins = {k \in 1 .. to : l <= k /\ out[k] = "="}
      OBVIOUS
    <3>3. \E k \in begins : \A j \in begins : j = k
      BY <1>8, <3>1, <3>2 DEF OneSearchPath
    <3>4. l = 0 \/ l \in Nat \ {0}
      BY <3>1, FindProperties
    <3>5. i = IF l = 0 THEN 1 ELSE l
      BY <1>1, <3>1 DEF SearchStart
    <3>6. \A k : k \in i .. to <=> k \in 1 .. to /\ l <= k
      BY <2>1, <3>4, <3>5
    <3>7. begins = {k \in i .. to : out[k] = "="}
      BY <3>2, <3>6
    <3> QED
      BY <3>3, <3>7
  <2>3. only \in i .. to /\ out[only] = "=" /\ only \in Nat \ {0} /\ only <= to
    BY <1>2, <2>1, <2>2
  <2>4. \A j \in i .. to : out[j] = "=" => j = only
    BY <2>2
  <2>5. from = only
    <3>1. FirstPlace("=", out, i, only)
      <4>1. only \in i .. Len(out)
        BY <1>2, <2>1, <2>3
      <4>2. ASSUME NEW k \in i .. only - 1 PROVE out[k] # "="
        <5>1. k \in i .. to /\ k # only
          BY <1>2, <2>1, <2>3
        <5> QED
          BY <2>4, <5>1
      <4> QED
        BY <2>3, <4>1, <4>2 DEF FirstPlace
    <3> QED
      BY <1>2, <1>3, <2>3, <3>1, FindIs
  <2>6. Find("S", out, only) = to
    <3>1. FirstPlace("S", out, only, to)
      <4>1. to \in only .. Len(out)
        BY <2>1, <2>3
      <4>2. \A k \in only .. to - 1 : k \in 1 .. to - 1
        BY <2>1, <2>3
      <4> QED
        BY <2>1, <4>1, <4>2 DEF FirstPlace
    <3> QED
      BY <2>1, <2>3, <3>1, FindIs
  <2>7. (CHOOSE k \in starts : \A j \in starts : j <= k) = only
    <3>1. only \in starts
      BY <2>1, <2>3
    <3>2. \A j \in starts : j <= only
      <4>1. ASSUME NEW j \in starts PROVE j <= only
        <5>1. j \in 1 .. to /\ out[j] = "="
          OBVIOUS
        <5>2. j \in i .. to \/ j < i
          BY <1>2, <2>1, <5>1
        <5> QED
          BY <1>2, <2>1, <2>3, <2>4, <5>1, <5>2
      <4> QED
        BY <4>1
    <3>3. \A k \in starts : k \in Int
      BY <2>1
    <3>4. \A k \in starts : (\A j \in starts : j <= k) => k = only
      BY <3>1, <3>2, <3>3
    <3> QED
      BY <3>1, <3>2, <3>4
  <2>8. SystemPath(out) = Unspaced(SubSeq(out, only + 1, to - 1))
    BY <1>6, <1>8, <2>3, <2>5, <2>6
  <2> QED
    BY <1>8, <2>7, <2>8
<1> QED
  BY <1>7, <1>8

-----------------------------------------------------------------------------
(* The invariant of the loop of SplitPaths and of what comes behind it.    *)

EntryType == [path : Seq(STRING), group : Group, framework : BOOLEAN]

Types ==
    /\ call \in {"idle", "expand", "split", "include", "libraries", "log", "add"}
    /\ mode \in Mode
    /\ existed \in BOOLEAN
    /\ input \in Seq(STRING)
    /\ paths \in Seq(Seq(STRING))
    /\ entries \in Seq(EntryType)

\* What a call asks SplitPaths for.
Calls ==
    /\ call = "include" => mode = "allow"
    /\ call \in {"include", "add"} => Listable(input) /\ input \in IncludeLists
    /\ call = "libraries" => mode = "prune" /\ input \in Outputs
    /\ call = "log" => mode = "failVerbose"

\* The list that is split.
Full == IF call = "libraries" THEN SystemPath(input) ELSE input

Looping == call \in {"split", "include", "libraries", "log"}

\* The loop has come to the cut n: the text behind it is left, what is wanted
\* of the components before it is collected, and existed tells whether they all
\* exist.
LoopAt(n) ==
    /\ Cut(Full, n) /\ Rest(Full, n, str)
    /\ Collects(paths, Full, Upto(Wanted(mode, Full), n))
    /\ existed = TRUE <=> AllThere(Full, n)
    /\ mode \in {"fail", "failVerbose"} => AllThere(Full, n)
    /\ call = "log" => First(str) # <<>> /\ ~Exists(First(str))

LoopOK == Looping => \E n : LoopAt(n)

\* AddIncludePaths has got all components of its list.
AddOK == call = "add" => Collects(paths, input, Starts(input))

\* What GetSystemLibraryPaths has answered.
LibrariesOK ==
    result.call = "libraries" =>
      /\ result.input \in Outputs /\ result.value \in Seq(Seq(STRING))
      /\ Collects(result.value, SystemPath(result.input), ExistingIn(SystemPath(result.input)))

IInv == Types /\ Calls /\ LoopOK /\ AddOK /\ SplitIsRight /\ LibrariesOK

LEMMA ConstantTypes ==
    /\ \A s \in Strings \cup Lists \cup IncludeLists \cup Outputs : s \in Seq(STRING)
    /\ \A e \in Preset : e \in EntryType
  BY PathsAssumption DEF EntryType

LEMMA FullType ==
    ASSUME Types, Calls
    PROVE  Full \in Seq(STRING)
<1>1. CASE call = "libraries"
  BY <1>1, SystemPathType DEF Full, Types
<1>2. CASE call # "libraries"
  BY <1>2 DEF Full, Types
<1> QED
  BY <1>1, <1>2

LEMMA InitOK ==
    ASSUME Init
    PROVE  IInv
<1>1. call = "idle" /\ result = [call |-> "none"]
  BY DEF Init, NoResult
<1>2. entries \in Seq(EntryType)
  <2>1. CASE entries = <<>>
    BY <2>1
  <2>2. CASE \E e \in Preset : entries = <<e>>
    <3>1. PICK e \in Preset : entries = <<e>>
      BY <2>2
    <3>2. e \in EntryType
      BY ConstantTypes
    <3>3. PICK X : X = EntryType
      OBVIOUS
    <3>4. <<e>> \in Seq(X)
      BY <3>2, <3>3
    <3> QED
      BY <3>1, <3>3, <3>4
  <2> QED
    BY <2>1, <2>2 DEF Init
<1>3. <<>> \in Seq(STRING) /\ <<>> \in Seq(Seq(STRING))
  OBVIOUS
<1>4. Types
  BY <1>1, <1>2, <1>3 DEF Types, Init, Mode
<1>5. Calls /\ LoopOK /\ AddOK
  BY <1>1 DEF Calls, LoopOK, Looping, AddOK
<1>6. SplitIsRight /\ LibrariesOK
  BY <1>1 DEF SplitIsRight, LibrariesOK
<1> QED
  BY <1>4, <1>5, <1>6 DEF IInv

\* The answers that have been given stay right.
LEMMA ResultStays ==
    ASSUME SplitIsRight, LibrariesOK, result' = result
    PROVE  SplitIsRight' /\ LibrariesOK'
<1>1. SplitIsRight'
  BY DEF SplitIsRight
<1>2. LibrariesOK'
  BY DEF LibrariesOK
<1> QED
  BY <1>1, <1>2

\* The loop begins at the beginning.
LEMMA SplitStartOK ==
    ASSUME IInv, NEW c \in {"split", "include", "libraries"}, NEW in \in Seq(STRING),
           NEW s, NEW md \in Mode, SplitStart(c, in, s, md),
           s = IF c = "libraries" THEN SystemPath(in) ELSE in,
           c = "include" => md = "allow" /\ Listable(in) /\ in \in IncludeLists,
           c = "libraries" => md = "prune" /\ in \in Outputs
    PROVE  IInv'
<1>1. /\ call' = c /\ input' = in /\ str' = s /\ mode' = md /\ paths' = <<>> /\ existed' = TRUE
      /\ entries' = entries /\ result' = result
  BY DEF SplitStart
<1>2. Types'
  <2>1. <<>> \in Seq(Seq(STRING))
    OBVIOUS
  <2> QED
    BY <1>1, <2>1 DEF IInv, Types
<1>3. Calls' /\ AddOK'
  BY <1>1 DEF Calls, AddOK, Listable
<1>4. SplitIsRight' /\ LibrariesOK'
  BY <1>1, ResultStays DEF IInv
<1>5. Full' = s
  BY <1>1 DEF Full
<1>6. s \in Seq(STRING)
  BY SystemPathType
<1>7. Cut(s, 0) /\ Rest(s, 0, s)
  <2>1. Len(s) \in Nat
    BY <1>6
  <2>2. PICK t : t = SubSeq(s, 1, Len(s))
    OBVIOUS
  <2>3. Rest(s, 0, t)
    BY <2>1, <2>2 DEF Rest
  <2>4. /\ t \in Seq(STRING) /\ Len(t) = Len(s) - 0
        /\ \A k \in 1 .. Len(s) - 0 : t[k] = s[0 + k] /\ t[k] \in STRING
    BY <1>6, <2>3, RestProperties
  <2>5. \A k \in 1 .. Len(t) : t[k] = s[k]
    BY <2>1, <2>4
  <2>6. t = s
    BY <1>6, <2>1, <2>4, <2>5, SeqEqual
  <2> QED
    BY <2>1, <2>3, <2>6 DEF Cut
<1>8. Collects(<<>>, s, Upto(Wanted(md, s), 0))
  BY <1>6, CollectsNone
<1>9. AllThere(s, 0)
  <2>1. \A i \in Starts(s) : ~(i <= 0)
    BY <1>6, StartsArePlaces
  <2> QED
    BY <2>1 DEF AllThere
<1>10. LoopAt(0)'
  BY <1>1, <1>5, <1>7, <1>8, <1>9 DEF LoopAt
<1>11. LoopOK'
  BY <1>10 DEF LoopOK
<1> QED
  BY <1>2, <1>3, <1>4, <1>11 DEF IInv

\* SplitPaths returns what was asked for.
LEMMA ReturnOK ==
    ASSUME IInv, Looping, NEW found \in Seq(Seq(STRING)), NEW all \in BOOLEAN,
           Collects(found, Full, Wanted(mode, Full)),
           all = TRUE <=> ExistingIn(Full) = Starts(Full),
           Return(found, all), entries' = entries
    PROVE  IInv'
<1>1. Types /\ Calls
  BY DEF IInv
<1>2. CASE call = "include"
  <2>1. /\ call' = "add" /\ paths' = found /\ input' = input /\ mode' = mode
        /\ existed' = existed /\ result' = result
    BY <1>2 DEF Return
  <2>2. Types'
    BY <1>1, <2>1 DEF Types
  <2>3. Calls' /\ LoopOK'
    BY <1>1, <1>2, <2>1 DEF Calls, LoopOK, Looping, Listable
  <2>4. AddOK'
    <3>1. Full = input /\ Wanted(mode, Full) = Starts(input)
      BY <1>1, <1>2 DEF Full, Calls, Wanted
    <3> QED
      BY <2>1, <3>1 DEF AddOK
  <2>5. SplitIsRight' /\ LibrariesOK'
    BY <2>1, ResultStays DEF IInv
  <2> QED
    BY <2>2, <2>3, <2>4, <2>5 DEF IInv
<1>3. CASE call # "include"
  <2>1. /\ call' = "idle" /\ input' = <<>> /\ mode' = "allow" /\ paths' = <<>> /\ existed' = TRUE
        /\ result' = [call |-> IF call = "log" THEN "split" ELSE call, input |-> input,
                      mode |-> mode, value |-> found, all |-> all]
    BY <1>3 DEF Return
  <2>2. Types'
    <3>1. <<>> \in Seq(STRING) /\ <<>> \in Seq(Seq(STRING))
      OBVIOUS
    <3> QED
      BY <1>1, <2>1, <3>1 DEF Types, Mode
  <2>3. Calls' /\ LoopOK' /\ AddOK'
    BY <2>1 DEF Calls, LoopOK, Looping, AddOK
  <2>4. /\ result'.input = input /\ result'.mode = mode /\ result'.value = found /\ result'.all = all
        /\ result'.call = IF call = "log" THEN "split" ELSE call
    BY <2>1
  <2>5. SplitIsRight'
    <3>1. SUFFICES ASSUME result'.call = "split"
                   PROVE  /\ all = (ExistingIn(input) = Starts(input))
                          /\ Collects(found, input,
                               CASE mode = "allow" -> Starts(input)
                                 [] mode = "prune" -> ExistingIn(input)
                                 [] OTHER -> UnbrokenIn(input))
      BY <2>4 DEF SplitIsRight
    <3>2. Full = input
      BY <2>4, <3>1 DEF Full
    <3>3. Collects(found, input, Wanted(mode, input))
      BY <3>2
    <3>4. all = (ExistingIn(input) = Starts(input))
      BY <3>2
    <3> QED
      BY <3>3, <3>4 DEF Wanted
  <2>6. LibrariesOK'
    <3>1. SUFFICES ASSUME result'.call = "libraries"
                   PROVE  /\ input \in Outputs /\ found \in Seq(Seq(STRING))
                          /\ Collects(found, SystemPath(input), ExistingIn(SystemPath(input)))
      BY <2>4 DEF LibrariesOK
    <3>2. call = "libraries"
      BY <2>4, <3>1
    <3>3. Full = SystemPath(input) /\ mode = "prune" /\ input \in Outputs
      BY <1>1, <3>2 DEF Full, Calls
    <3>4. Wanted(mode, Full) = ExistingIn(Full)
      BY <3>3 DEF Wanted
    <3> QED
      BY <3>3, <3>4
  <2> QED
    BY <2>2, <2>3, <2>5, <2>6 DEF IInv
<1> QED
  BY <1>2, <1>3

\* A turn of the loop.
LEMMA SplitStepOK ==
    ASSUME IInv, SplitStep
    PROVE  IInv'
<1>1. Types /\ Calls /\ Looping /\ entries' = entries
  BY DEF IInv, SplitStep, Splitting, Looping
<1>2. PICK n : LoopAt(n)
  BY <1>1 DEF IInv, LoopOK
<1>3. PICK s : s = Full
  OBVIOUS
<1>4. s \in Seq(STRING)
  BY <1>1, <1>3, FullType
<1>5. Cut(s, n) /\ Rest(s, n, str)
  BY <1>2, <1>3 DEF LoopAt
<1>6. PICK p : p = First(str)
  OBVIOUS
<1>7. p = ComponentAt(s, n + 1)
  BY <1>4, <1>5, <1>6, FirstIs
<1>8. PICK m : m = EndOf(s, n)
  OBVIOUS
<1>9. Cut(s, m) /\ Rest(s, m, Second(str))
  BY <1>4, <1>5, <1>8, SecondIs DEF SplitStep
<1>10. p \in Seq(STRING)
  BY <1>4, <1>5, <1>7, StartsBetween
<1>11. PICK missing \in BOOLEAN : missing = (p # <<>> /\ ~Exists(p))
  OBVIOUS
<1>12. CASE missing /\ mode = "fail"
  <2>1. Return(paths, FALSE)
    BY <1>6, <1>11, <1>12 DEF SplitStep
  <2>2. Upto(Wanted(mode, s), n) = Wanted(mode, s) /\ ExistingIn(s) # Starts(s)
    <3>1. PICK md : md = mode
      OBVIOUS
    <3>2. md \notin {"allow", "prune"} /\ p # <<>> /\ ~Exists(p)
      BY <1>11, <1>12, <3>1
    <3>3. Upto(Wanted(md, s), n) = Wanted(md, s) /\ ExistingIn(s) # Starts(s)
      BY <1>4, <1>5, <1>7, <3>2, BrokenOff
    <3> QED
      BY <3>1, <3>3
  <2>3. Collects(paths, Full, Wanted(mode, Full))
    BY <1>2, <1>3, <2>2 DEF LoopAt
  <2>4. PICK found : found = paths
    OBVIOUS
  <2>5. found \in Seq(Seq(STRING)) /\ Collects(found, Full, Wanted(mode, Full)) /\ Return(found, FALSE)
    BY <1>1, <2>1, <2>3, <2>4 DEF Types
  <2>6. FALSE \in BOOLEAN /\ (FALSE = TRUE <=> ExistingIn(Full) = Starts(Full))
    BY <1>3, <2>2
  <2> QED
    BY <1>1, <2>5, <2>6, ReturnOK
<1>13. CASE missing /\ mode = "failVerbose"
  <2>1. /\ call' = "log" /\ input' = input /\ str' = str /\ mode' = mode /\ paths' = paths
        /\ existed' = existed /\ result' = result
    BY <1>6, <1>11, <1>13 DEF SplitStep
  <2>2. Types'
    BY <1>1, <2>1 DEF Types
  <2>3. Calls' /\ AddOK'
    BY <1>13, <2>1 DEF Calls, AddOK
  <2>4. SplitIsRight' /\ LibrariesOK'
    BY <2>1, ResultStays DEF IInv
  <2>5. Full' = Full
    BY <1>1, <1>13, <2>1 DEF Full, Calls
  <2>6. LoopAt(n)'
    BY <1>2, <1>6, <1>11, <1>13, <2>1, <2>5 DEF LoopAt
  <2> QED
    BY <2>2, <2>3, <2>4, <2>6 DEF IInv, LoopOK
<1>14. CASE ~(missing /\ mode = "fail") /\ ~(missing /\ mode = "failVerbose")
  <2>1. /\ existed' = (existed /\ ~missing) /\ paths' = Taken(p) /\ str' = Second(str)
        /\ call' = call /\ input' = input /\ mode' = mode /\ result' = result
    BY <1>6, <1>11, <1>14 DEF SplitStep
  <2>2. PICK md, list, new : md = mode /\ list = paths /\ new = TakenBy(md, list, p)
    OBVIOUS
  <2>3. paths' = new
    BY <2>1, <2>2 DEF Taken, TakenBy
  <2>4. /\ new \in Seq(Seq(STRING))
        /\ Collects(new, s, Upto(Wanted(md, s), m))
        /\ AllThere(s, m) <=> AllThere(s, n) /\ (p = <<>> \/ Exists(p))
    <3>1. list \in Seq(Seq(STRING)) /\ Collects(list, s, Upto(Wanted(md, s), n))
      BY <1>1, <1>2, <1>3, <2>2 DEF LoopAt, Types
    <3>2. md \in {"allow", "prune"} \/ AllThere(s, n)
      BY <1>1, <1>2, <1>3, <2>2 DEF LoopAt, Types, Mode
    <3> QED
      BY <1>4, <1>5, <1>7, <1>8, <2>2, <3>1, <3>2, TurnTakes
  <2>5. existed' \in BOOLEAN /\ (existed' = TRUE <=> AllThere(s, m))
    <3>1. existed \in BOOLEAN /\ (existed = TRUE <=> AllThere(s, n))
      BY <1>1, <1>2, <1>3 DEF Types, LoopAt
    <3> QED
      BY <1>11, <2>1, <2>4, <3>1
  <2>6. Types'
    BY <1>1, <2>1, <2>3, <2>4, <2>5 DEF Types
  <2>7. Calls' /\ AddOK'
    BY <1>1, <2>1 DEF Calls, AddOK, Listable, Looping
  <2>8. SplitIsRight' /\ LibrariesOK'
    BY <2>1, ResultStays DEF IInv
  <2>9. Full' = s
    BY <1>3, <2>1 DEF Full
  <2>10. mode \in {"fail", "failVerbose"} => AllThere(s, m)
    BY <1>2, <1>3, <1>11, <1>14, <2>4 DEF LoopAt
  <2>11. LoopAt(m)'
    <3>1. call # "log"
      BY DEF SplitStep, Splitting
    <3> QED
      BY <1>9, <2>1, <2>2, <2>3, <2>4, <2>5, <2>9, <2>10, <3>1 DEF LoopAt
  <2> QED
    BY <2>6, <2>7, <2>8, <2>11 DEF IInv, LoopOK
<1> QED
  BY <1>12, <1>13, <1>14

\* The end of the loop that logs.
LEMMA LogStepOK ==
    ASSUME IInv, LogStep
    PROVE  IInv'
<1>1. Types /\ Calls /\ Looping /\ entries' = entries /\ call = "log" /\ mode = "failVerbose"
  BY DEF IInv, LogStep, Looping, Calls
<1>2. PICK n : LoopAt(n)
  BY <1>1 DEF IInv, LoopOK
<1>3. PICK s : s = Full
  OBVIOUS
<1>4. s \in Seq(STRING)
  BY <1>1, <1>3, FullType
<1>5. Cut(s, n) /\ Rest(s, n, str)
  BY <1>2, <1>3 DEF LoopAt
<1>6. PICK p : p = First(str)
  OBVIOUS
<1>7. p = ComponentAt(s, n + 1) /\ p # <<>> /\ ~Exists(p)
  BY <1>1, <1>2, <1>4, <1>5, <1>6, FirstIs DEF LoopAt
<1>8. CASE Second(Second(str)) = <<>>
  <2>1. Return(paths, FALSE)
    BY <1>8 DEF LogStep
  <2>2. Upto(Wanted(mode, s), n) = Wanted(mode, s) /\ ExistingIn(s) # Starts(s)
    BY <1>1, <1>4, <1>5, <1>7, BrokenOff
  <2>3. Collects(paths, Full, Wanted(mode, Full))
    BY <1>2, <1>3, <2>2 DEF LoopAt
  <2>4. PICK found : found = paths
    OBVIOUS
  <2>5. found \in Seq(Seq(STRING)) /\ Collects(found, Full, Wanted(mode, Full)) /\ Return(found, FALSE)
    BY <1>1, <2>1, <2>3, <2>4 DEF Types
  <2>6. FALSE \in BOOLEAN /\ (FALSE = TRUE <=> ExistingIn(Full) = Starts(Full))
    BY <1>3, <2>2
  <2> QED
    BY <1>1, <2>5, <2>6, ReturnOK
<1>9. CASE Second(Second(str)) # <<>>
  <2>1. /\ call' = call /\ input' = input /\ str' = str /\ mode' = mode /\ paths' = paths
        /\ existed' = existed /\ result' = result
    BY <1>9 DEF LogStep
  <2>2. Types' /\ Calls' /\ AddOK'
    BY <1>1, <2>1 DEF Types, Calls, AddOK, Listable
  <2>3. SplitIsRight' /\ LibrariesOK'
    BY <2>1, ResultStays DEF IInv
  <2>4. Full' = Full
    BY <2>1 DEF Full
  <2>5. LoopAt(n)'
    BY <1>2, <2>1, <2>4 DEF LoopAt
  <2> QED
    BY <2>2, <2>3, <2>5 DEF IInv, LoopOK
<1> QED
  BY <1>8, <1>9

\* The last component.
LEMMA SplitLastOK ==
    ASSUME IInv, SplitLast
    PROVE  IInv'
<1>1. Types /\ Calls /\ Looping /\ entries' = entries /\ call # "log"
  BY DEF IInv, SplitLast, Splitting, Looping
<1>2. PICK n : LoopAt(n)
  BY <1>1 DEF IInv, LoopOK
<1>3. PICK s : s = Full
  OBVIOUS
<1>4. s \in Seq(STRING)
  BY <1>1, <1>3, FullType
<1>5. Cut(s, n) /\ Rest(s, n, str) /\ Second(str) = <<>>
  BY <1>2, <1>3 DEF LoopAt, SplitLast
<1>6. PICK p : p = Trimmed(str)
  OBVIOUS
<1>7. p = ComponentAt(s, n + 1)
  BY <1>4, <1>5, <1>6, TrimmedIs
<1>8. PICK m : m = EndOf(s, n)
  OBVIOUS
<1>9. m = Len(s)
  BY <1>4, <1>5, <1>8, SecondIs
<1>10. PICK md, list, new : md = mode /\ list = paths /\ new = TakenBy(md, list, p)
  OBVIOUS
<1>11. /\ new \in Seq(Seq(STRING))
       /\ Collects(new, s, Upto(Wanted(md, s), m))
       /\ AllThere(s, m) <=> AllThere(s, n) /\ (p = <<>> \/ Exists(p))
  <2>1. list \in Seq(Seq(STRING)) /\ Collects(list, s, Upto(Wanted(md, s), n))
    BY <1>1, <1>2, <1>3, <1>10 DEF LoopAt, Types
  <2>2. md \in {"allow", "prune"} \/ AllThere(s, n)
    BY <1>1, <1>2, <1>3, <1>10 DEF LoopAt, Types, Mode
  <2> QED
    BY <1>4, <1>5, <1>7, <1>8, <1>10, <2>1, <2>2, TurnTakes
<1>12. PICK all \in BOOLEAN : all = (existed /\ (p = <<>> \/ Exists(p)))
  OBVIOUS
<1>13. Return(new, all)
  BY <1>6, <1>10, <1>12 DEF SplitLast, Taken, TakenBy
<1>14. Collects(new, Full, Wanted(mode, Full)) /\ (all = TRUE <=> ExistingIn(Full) = Starts(Full))
  <2>1. Upto(Wanted(md, s), m) = Wanted(md, s) /\ (AllThere(s, m) <=> ExistingIn(s) = Starts(s))
    BY <1>4, <1>9, AllWanted
  <2>2. existed \in BOOLEAN /\ (existed = TRUE <=> AllThere(s, n))
    BY <1>1, <1>2, <1>3 DEF Types, LoopAt
  <2>3. all = TRUE <=> ExistingIn(s) = Starts(s)
    BY <1>11, <1>12, <2>1, <2>2
  <2> QED
    BY <1>3, <1>10, <1>11, <2>1, <2>3
<1> QED
  BY <1>1, <1>11, <1>13, <1>14, ReturnOK

\* The entries that AddIncludePaths adds.
LEMMA AddedEntries ==
    ASSUME Types, AddIncludePaths
    PROVE  /\ entries' \in Seq(EntryType)
           /\ \E new : /\ new \in Seq(Seq(STRING))
                       /\ Picks(new, paths, {i \in DOMAIN paths : Unknown(paths[i])})
                       /\ Len(entries') = Len(entries) + Len(new)
                       /\ \A i \in 1 .. Len(entries) : entries'[i] = entries[i]
                       /\ \A i \in 1 .. Len(new) :
                            entries'[Len(entries) + i] = Entry(new[i], "Angled", FALSE)
<1>1. PICK P : P = {i \in DOMAIN paths : Unknown(paths[i])}
  OBVIOUS
<1>2. PICK X, list : X = Seq(STRING) /\ list = paths
  OBVIOUS
<1>3. list \in Seq(X) /\ \A p \in P : p \in 1 .. Len(list)
  <2>1. list \in Seq(X)
    BY <1>2 DEF Types
  <2>2. DOMAIN list = 1 .. Len(list)
    BY <2>1
  <2>3. \A p \in P : p \in DOMAIN list
    BY <1>1, <1>2
  <2> QED
    BY <2>1, <2>2, <2>3
<1>4. PICK new : new = Kept(list, P)
  OBVIOUS
<1>5. new \in Seq(X) /\ Picks(new, list, P)
  BY <1>3, <1>4, KeptProperties
<1>6. PICK added : added = [i \in DOMAIN new |-> Entry(new[i], "Angled", FALSE)]
  OBVIOUS
<1>7. PICK l : l = Len(new)
  OBVIOUS
<1>8. l \in Nat /\ DOMAIN new = 1 .. l /\ \A i \in 1 .. l : new[i] \in X
  BY <1>5, <1>7
<1>9. \A i \in 1 .. l : added[i] = Entry(new[i], "Angled", FALSE) /\ added[i] \in EntryType
  BY <1>2, <1>6, <1>8 DEF Entry, EntryType, Group
<1>10. PICK E : E = EntryType
  OBVIOUS
<1>11. added \in Seq(E) /\ Len(added) = l
  <2>1. added = [i \in 1 .. l |-> added[i]]
    BY <1>6, <1>8
  <2>2. added \in [1 .. l -> E]
    BY <1>9, <1>10, <2>1
  <2> QED
    BY <1>8, <2>2
<1>12. PICK es : es = entries
  OBVIOUS
<1>13. es \in Seq(E)
  BY <1>10, <1>12 DEF Types
<1>14. entries' = es \o added
  BY <1>1, <1>2, <1>4, <1>6, <1>12 DEF AddIncludePaths
<1>15. /\ es \o added \in Seq(E) /\ Len(es \o added) = Len(es) + Len(added)
       /\ \A i \in 1 .. Len(es) : (es \o added)[i] = es[i]
       /\ \A i \in 1 .. Len(added) : (es \o added)[Len(es) + i] = added[i]
  <2>1. PICK both : both = es \o added
    OBVIOUS
  <2>2. /\ both \in Seq(E) /\ Len(both) = Len(es) + Len(added)
        /\ \A i \in 1 .. Len(es) + Len(added) :
             both[i] = IF i <= Len(es) THEN es[i] ELSE added[i - Len(es)]
    BY <1>11, <1>13, <2>1, ConcatProperties
  <2>3. Len(es) \in Nat /\ Len(added) \in Nat
    BY <1>11, <1>13
  <2>4. \A i \in 1 .. Len(es) : i \in 1 .. Len(es) + Len(added) /\ i <= Len(es)
    BY <2>3
  <2>5. \A i \in 1 .. Len(added) :
          /\ Len(es) + i \in 1 .. Len(es) + Len(added)
          /\ ~(Len(es) + i <= Len(es)) /\ (Len(es) + i) - Len(es) = i
    BY <2>3
  <2> QED
    BY <2>1, <2>2, <2>4, <2>5
<1>16. /\ new \in Seq(Seq(STRING)) /\ Picks(new, paths, {i \in DOMAIN paths : Unknown(paths[i])})
       /\ Len(entries') = Len(entries) + Len(new)
       /\ \A i \in 1 .. Len(entries) : entries'[i] = entries[i]
       /\ \A i \in 1 .. Len(new) : entries'[Len(entries) + i] = Entry(new[i], "Angled", FALSE)
  BY <1>1, <1>2, <1>5, <1>7, <1>9, <1>11, <1>12, <1>14, <1>15
<1> QED
  BY <1>10, <1>14, <1>15, <1>16

LEMMA AddIncludePathsOK ==
    ASSUME IInv, AddIncludePaths
    PROVE  IInv'
<1>1. /\ call' = "idle" /\ input' = <<>> /\ paths' = <<>> /\ existed' = TRUE
      /\ mode' = mode /\ result' = result
  BY DEF AddIncludePaths
<1>2. entries' \in Seq(EntryType)
  BY AddedEntries DEF IInv
<1>3. Types'
  <2>1. <<>> \in Seq(STRING) /\ <<>> \in Seq(Seq(STRING))
    OBVIOUS
  <2> QED
    BY <1>1, <1>2, <2>1 DEF IInv, Types
<1>4. Calls' /\ LoopOK' /\ AddOK'
  BY <1>1 DEF Calls, LoopOK, Looping, AddOK
<1>5. SplitIsRight' /\ LibrariesOK'
  BY <1>1, ResultStays DEF IInv
<1> QED
  BY <1>3, <1>4, <1>5 DEF IInv

\* The other calls, and steps that change nothing.
LEMMA CallsOK ==
    ASSUME IInv, Plain \/ Include
    PROVE  IInv'
<1>1. CASE \E s \in Strings : CallExpand(s)
  <2>1. PICK s \in Strings : CallExpand(s)
    BY <1>1
  <2>2. /\ call' = "expand" /\ input' = s /\ mode' = mode /\ paths' = paths /\ existed' = existed
        /\ entries' = entries /\ result' = result
    BY <2>1 DEF CallExpand
  <2>3. s \in Seq(STRING)
    BY ConstantTypes
  <2>4. Types'
    BY <2>2, <2>3 DEF IInv, Types
  <2>5. Calls' /\ LoopOK' /\ AddOK'
    BY <2>2 DEF Calls, LoopOK, Looping, AddOK
  <2>6. SplitIsRight' /\ LibrariesOK'
    BY <2>2, ResultStays DEF IInv
  <2> QED
    BY <2>4, <2>5, <2>6 DEF IInv
<1>2. CASE \E s \in Lists, md \in Mode : CallSplit(s, md)
  <2>1. PICK s \in Lists, md \in Mode : CallSplit(s, md)
    BY <1>2
  <2>2. s \in Seq(STRING) /\ SplitStart("split", s, s, md)
    BY <2>1, ConstantTypes DEF CallSplit
  <2>3. PICK c : c = "split"
    OBVIOUS
  <2>4. SplitStart(c, s, s, md) /\ c \in {"split", "include", "libraries"} /\ c # "include" /\ c # "libraries"
    BY <2>2, <2>3
  <2> QED
    BY <2>2, <2>4, SplitStartOK
<1>3. CASE \E out \in Outputs : CallGetSystemLibraryPaths(out)
  <2>1. PICK out \in Outputs : CallGetSystemLibraryPaths(out)
    BY <1>3
  <2>2. PICK c, s, md : c = "libraries" /\ s = SystemPath(out) /\ md = "prune"
    OBVIOUS
  <2>3. out \in Seq(STRING) /\ SplitStart(c, out, s, md) /\ md \in Mode
    BY <2>1, <2>2, ConstantTypes DEF CallGetSystemLibraryPaths, Mode
  <2> QED
    BY <2>2, <2>3, SplitStartOK
<1>4. CASE \E args \in ArgLists, p \in Names, fm \in BOOLEAN, files \in FileSets :
             LookForFile(args, p, fm, files)
  <2>1. /\ call' = call /\ input' = input /\ str' = str /\ mode' = mode /\ paths' = paths
        /\ existed' = existed /\ entries' = entries /\ result'.call = "look"
    BY <1>4 DEF LookForFile
  <2>2. Types' /\ Calls' /\ AddOK'
    BY <2>1 DEF IInv, Types, Calls, AddOK, Listable
  <2>3. LoopOK'
    <3>1. Full' = Full
      BY <2>1 DEF Full
    <3>2. Looping' = Looping
      BY <2>1 DEF Looping
    <3>3. \A n : LoopAt(n) => LoopAt(n)'
      BY <2>1, <3>1 DEF LoopAt
    <3> QED
      BY <3>2, <3>3 DEF IInv, LoopOK
  <2>4. SplitIsRight' /\ LibrariesOK'
    BY <2>1 DEF SplitIsRight, LibrariesOK
  <2> QED
    BY <2>2, <2>3, <2>4 DEF IInv
<1>5. CASE Include
  <2>1. PICK s \in IncludeLists : Listable(s) /\ CallAddIncludePaths(s)
    BY <1>5 DEF Include
  <2>2. PICK c, md : c = "include" /\ md = "allow"
    OBVIOUS
  <2>3. s \in Seq(STRING) /\ SplitStart(c, s, s, md) /\ md \in Mode
    BY <2>1, <2>2, ConstantTypes DEF CallAddIncludePaths, Mode
  <2> QED
    BY <2>1, <2>2, <2>3, SplitStartOK
<1> QED
  BY <1>1, <1>2, <1>3, <1>4, <1>5 DEF Plain

LEMMA OthersOK ==
    ASSUME IInv, Forget \/ ExpandStep \/ ExpandReturn \/ UNCHANGED vars
    PROVE  IInv'
<1>1. CASE Forget
  <2>1. /\ call' = call /\ call = "idle" /\ input' = input /\ mode' = mode /\ paths' = paths
        /\ existed' = existed /\ entries' = entries /\ result' = [call |-> "none"]
    BY <1>1 DEF Forget, NoResult
  <2>2. Types' /\ Calls' /\ LoopOK' /\ AddOK'
    BY <2>1 DEF IInv, Types, Calls, LoopOK, Looping, AddOK
  <2>3. SplitIsRight' /\ LibrariesOK'
    BY <2>1 DEF SplitIsRight, LibrariesOK
  <2> QED
    BY <2>2, <2>3 DEF IInv
<1>2. CASE ExpandStep
  <2>1. /\ call' = call /\ call = "expand" /\ input' = input /\ mode' = mode /\ paths' = paths
        /\ existed' = existed /\ entries' = entries /\ result' = result
    BY <1>2 DEF ExpandStep
  <2>2. Types' /\ Calls' /\ LoopOK' /\ AddOK'
    BY <2>1 DEF IInv, Types, Calls, LoopOK, Looping, AddOK
  <2>3. SplitIsRight' /\ LibrariesOK'
    BY <2>1, ResultStays DEF IInv
  <2> QED
    BY <2>2, <2>3 DEF IInv
<1>3. CASE ExpandReturn
  <2>1. /\ call' = "idle" /\ input' = <<>> /\ mode' = mode /\ paths' = paths
        /\ existed' = existed /\ entries' = entries /\ result'.call = "expand"
    BY <1>3 DEF ExpandReturn
  <2>2. Types' /\ Calls' /\ LoopOK' /\ AddOK'
    <3>1. <<>> \in Seq(STRING)
      OBVIOUS
    <3> QED
      BY <2>1, <3>1 DEF IInv, Types, Calls, LoopOK, Looping, AddOK
  <2>3. SplitIsRight' /\ LibrariesOK'
    BY <2>1 DEF SplitIsRight, LibrariesOK
  <2> QED
    BY <2>2, <2>3 DEF IInv
<1>4. CASE UNCHANGED vars
  <2>1. /\ call' = call /\ input' = input /\ str' = str /\ mode' = mode /\ paths' = paths
        /\ existed' = existed /\ entries' = entries /\ result' = result
    BY <1>4 DEF vars
  <2>2. Types' /\ Calls' /\ AddOK'
    BY <2>1 DEF IInv, Types, Calls, AddOK, Listable
  <2>3. LoopOK'
    <3>1. Full' = Full
      BY <2>1 DEF Full
    <3>2. Looping' = Looping
      BY <2>1 DEF Looping
    <3>3. \A n : LoopAt(n) => LoopAt(n)'
      BY <2>1, <3>1 DEF LoopAt
    <3> QED
      BY <3>2, <3>3 DEF IInv, LoopOK
  <2>4. SplitIsRight' /\ LibrariesOK'
    BY <2>1, ResultStays DEF IInv
  <2> QED
    BY <2>2, <2>3, <2>4 DEF IInv
<1> QED
  BY <1>1, <1>2, <1>3, <1>4

\* Whatever is called, the loop of SplitPaths and its answers are in order.
THEOREM Inductive == Spec => []IInv
<1>1. Init => IInv
  BY InitOK
<1>2. IInv /\ [Next]_vars => IInv'
  BY CallsOK, OthersOK, SplitStepOK, LogStepOK, SplitLastOK, AddIncludePathsOK DEF Next, Step
<1> QED
  BY <1>1, <1>2, PTL DEF Spec

\* SplitPaths collects the components that its mode asks for, in their order,
\* and tells whether all of them exist.
THEOREM SplitsAreRight == Spec => []SplitIsRight
<1>1. IInv => SplitIsRight
  BY DEF IInv
<1> QED
  BY <1>1, Inductive, PTL

\* GetSystemLibraryPaths answers with the last search path if the loader names
\* none between its own and that of the system.
THEOREM LibrariesAreThoseOfTheSystem ==
    "runpath" \notin Misuse => (Spec => []LibrariesAreRight)
<1> SUFFICES ASSUME "runpath" \notin Misuse PROVE Spec => []LibrariesAreRight
  OBVIOUS
<1>1. IInv => LibrariesAreRight
  <2> SUFFICES ASSUME IInv, result.call = "libraries" PROVE LibrariesAreRight
    BY DEF LibrariesAreRight
  <2>1. PICK out : out = result.input
    OBVIOUS
  <2>2. /\ out \in Outputs /\ result.value \in Seq(Seq(STRING))
        /\ Collects(result.value, SystemPath(out), ExistingIn(SystemPath(out)))
    BY <2>1 DEF IInv, LibrariesOK
  <2>3. out \in Seq(STRING) /\ OneSearchPath(out)
    BY <2>2, ConstantTypes, LoaderAssumption
  <2>4. PICK to : to = Find("S", out, 1)
    OBVIOUS
  <2>5. PICK starts : starts = {i \in 1 .. to : out[i] = "="}
    OBVIOUS
  <2>6. PICK text : text = Unspaced(SubSeq(out, (CHOOSE i \in starts : \A j \in starts : j <= i) + 1, to - 1))
    OBVIOUS
  <2>7. SystemPath(out) = IF to = 0 THEN <<>> ELSE text
    BY <2>3, <2>4, <2>5, <2>6, SystemPathIs
  <2>8. IF to = 0 THEN result.value = <<>> ELSE Collects(result.value, text, ExistingIn(text))
    <3>1. CASE to = 0
      <4>1. ExistingIn(<<>>) = {}
        BY DEF ExistingIn, Starts
      <4>2. Collects(result.value, <<>>, {})
        BY <2>2, <2>7, <3>1, <4>1
      <4>3. DOMAIN result.value = {}
        BY <4>2 DEF Collects
      <4>4. PICK value : value = result.value
        OBVIOUS
      <4>5. value \in Seq(Seq(STRING)) /\ DOMAIN value = {}
        BY <2>2, <4>3, <4>4
      <4>6. Len(value) = 0
        <5>1. DOMAIN value = 1 .. Len(value) /\ Len(value) \in Nat
          BY <4>5
        <5>2. 1 \notin 1 .. Len(value)
          BY <4>5, <5>1
        <5> QED
          BY <5>1, <5>2
      <4>7. value = <<>>
        BY <4>5, <4>6
      <4> QED
        BY <3>1, <4>4, <4>7
    <3>2. CASE to # 0
      BY <2>2, <2>7, <3>2
    <3> QED
      BY <3>1, <3>2
  <2> QED
    BY <2>1, <2>4, <2>5, <2>6, <2>8 DEF LibrariesAreRight
<1> QED
  BY <1>1, Inductive, PTL

-----------------------------------------------------------------------------
(* Include paths.                                                          *)

\* A component begins with the character at its place.
LEMMA ComponentHead ==
    ASSUME NEW s \in Seq(STRING), NEW i \in Starts(s)
    PROVE  /\ ComponentAt(s, i) \in Seq(STRING) /\ ComponentAt(s, i) # <<>>
           /\ ComponentAt(s, i)[1] = s[i]
<1>1. i \in Nat \ {0} /\ i <= Len(s) /\ Len(s) \in Nat /\ s[i] # ":"
  BY DEF Starts
<1>2. PICK e : e = Find(":", s, i)
  OBVIOUS
<1>3. \/ e = 0
      \/ e \in Nat \ {0} /\ e \in i .. Len(s) /\ s[e] = ":"
  BY <1>1, <1>2, FindProperties DEF FirstPlace
<1>4. PICK u : u = IF e = 0 THEN Len(s) ELSE e - 1
  OBVIOUS
<1>5. u \in Nat /\ i <= u /\ u <= Len(s)
  BY <1>1, <1>3, <1>4
<1>6. ComponentAt(s, i) = SubSeq(s, i, u)
  BY <1>2, <1>4 DEF ComponentAt
<1>7. SubSeq(s, i, u) \in Seq(STRING) /\ SubSeq(s, i, u) # <<>>
  BY <1>1, <1>5, PartEmpty
<1>8. SubSeq(s, i, u)[1] = s[i]
  <2>1. \A k \in i .. u : s[k] \in STRING
    <3>1. \A k \in i .. u : k \in 1 .. Len(s)
      BY <1>1, <1>5
    <3> QED
      BY <3>1
  <2>2. \A k \in 1 .. u - i + 1 : SubSeq(s, i, u)[k] = s[i + k - 1]
    BY <1>1, <1>5, <2>1, SubSeqProperties
  <2>3. 1 \in 1 .. u - i + 1 /\ i + 1 - 1 = i
    BY <1>1, <1>5
  <2> QED
    BY <2>2, <2>3
<1> QED
  BY <1>6, <1>7, <1>8

\* An increasing function takes no value twice.
LEMMA AscendsInjective ==
    ASSUME NEW n \in Nat, NEW P, NEW f \in [1 .. n -> P], Ascends(f, P), \A p \in P : p \in Nat,
           NEW i \in 1 .. n, NEW j \in 1 .. n, f[i] = f[j]
    PROVE  i = j
<1>1. DOMAIN f = 1 .. n
  OBVIOUS
<1>2. \A a, b \in 1 .. n : a < b => f[a] < f[b]
  BY <1>1 DEF Ascends
<1>3. f[i] \in Nat
  BY <1>1
<1>4. ~(i < j) /\ ~(j < i)
  BY <1>2, <1>3
<1> QED
  BY <1>4

\* What SplitPaths has found for AddIncludePaths.
LEMMA PathsFound ==
    ASSUME IInv, call = "add"
    PROVE  /\ input \in Seq(STRING) /\ input \in IncludeLists
           /\ \A k \in DOMAIN paths : \E i \in Starts(input) : paths[k] = ComponentAt(input, i)
           /\ "twice" \notin Misuse =>
                \A k, l \in DOMAIN paths : paths[k] = paths[l] => k = l
<1>1. input \in Seq(STRING) /\ input \in IncludeLists /\ Listable(input) /\ paths \in Seq(Seq(STRING))
  BY DEF IInv, Types, Calls
<1>2. PICK f \in [DOMAIN paths -> Starts(input)] :
        /\ Ascends(f, Starts(input))
        /\ \A k \in DOMAIN paths : paths[k] = ComponentAt(input, f[k])
  BY DEF IInv, AddOK, Collects
<1>3. PICK n \in Nat : DOMAIN paths = 1 .. n
  BY <1>1
<1>4. \A k \in DOMAIN paths : f[k] \in Starts(input)
  OBVIOUS
<1>5. ASSUME "twice" \notin Misuse, NEW k \in DOMAIN paths, NEW l \in DOMAIN paths, paths[k] = paths[l]
      PROVE  k = l
  <2>1. f[k] = f[l]
    BY <1>1, <1>2, <1>4, <1>5 DEF Listable
  <2>2. f \in [1 .. n -> Starts(input)] /\ \A i \in Starts(input) : i \in Nat
    BY <1>1, <1>3, StartsArePlaces
  <2> QED
    BY <1>2, <1>3, <2>1, <2>2, AscendsInjective
<1>6. \A k \in DOMAIN paths : \E i \in Starts(input) : paths[k] = ComponentAt(input, i)
  BY <1>2, <1>4
<1> QED
  BY <1>1, <1>5, <1>6

\* Whatever the compiler had to start with and whatever lists are added, no
\* path is among the entries twice, if no list names one twice.
THEOREM NoPathTwice ==
    "twice" \notin Misuse => (Spec => []NoDuplicates)
<1> SUFFICES ASSUME "twice" \notin Misuse PROVE Spec => []NoDuplicates
  OBVIOUS
<1> DEFINE Different == \A i, j \in 1 .. Len(entries) : entries[i].path = entries[j].path => i = j
<1>1. ASSUME IInv PROVE NoDuplicates <=> Different
  <2>1. DOMAIN entries = 1 .. Len(entries)
    BY <1>1 DEF IInv, Types
  <2> QED
    BY <2>1 DEF NoDuplicates, IsInjective
<1>2. ASSUME Init PROVE Different
  <2>1. CASE entries = <<>>
    <3>1. Len(entries) = 0
      BY <2>1
    <3>2. \A i \in 1 .. Len(entries) : FALSE
      BY <3>1
    <3> QED
      BY <3>2
  <2>2. CASE \E e \in Preset : entries = <<e>>
    <3>1. Len(entries) = 1
      BY <2>2
    <3> QED
      BY <3>1
  <2> QED
    BY <1>2, <2>1, <2>2 DEF Init
<1>3. ASSUME IInv, Different, AddIncludePaths PROVE Different'
  <2>1. call = "add"
    BY <1>3 DEF AddIncludePaths
  <2>2. PICK new : /\ new \in Seq(Seq(STRING))
                   /\ Picks(new, paths, {i \in DOMAIN paths : Unknown(paths[i])})
                   /\ Len(entries') = Len(entries) + Len(new)
                   /\ \A i \in 1 .. Len(entries) : entries'[i] = entries[i]
                   /\ \A i \in 1 .. Len(new) :
                        entries'[Len(entries) + i] = Entry(new[i], "Angled", FALSE)
    BY <1>3, AddedEntries DEF IInv
  <2>3. PICK P : P = {i \in DOMAIN paths : Unknown(paths[i])}
    OBVIOUS
  <2>4. PICK l, n : l = Len(entries) /\ n = Len(new)
    OBVIOUS
  <2>5. l \in Nat /\ n \in Nat /\ DOMAIN new = 1 .. n /\ DOMAIN entries = 1 .. l
    BY <1>3, <2>2, <2>4 DEF IInv, Types
  <2>6. PICK f \in [1 .. n -> P] : Ascends(f, P) /\ \A i \in 1 .. n : new[i] = paths[f[i]]
    BY <2>2, <2>3, <2>5 DEF Picks
  <2>7. \A p \in P : p \in DOMAIN paths /\ p \in Nat /\ Unknown(paths[p])
    BY <1>3, <2>3 DEF IInv, Types
  <2>8. \A i \in 1 .. n : new[i] = paths[f[i]] /\ f[i] \in P
    BY <2>6
  <2>9. ASSUME NEW i \in 1 .. n, NEW k \in 1 .. l PROVE new[i] # entries[k].path
    <3>1. Unknown(paths[f[i]]) /\ new[i] = paths[f[i]]
      BY <2>7, <2>8
    <3>2. k \in DOMAIN entries
      BY <2>5
    <3> QED
      BY <3>1, <3>2 DEF Unknown
  <2>10. ASSUME NEW i \in 1 .. n, NEW j \in 1 .. n, new[i] = new[j] PROVE i = j
    <3>1. f[i] = f[j]
      <4>1. paths[f[i]] = paths[f[j]] /\ f[i] \in DOMAIN paths /\ f[j] \in DOMAIN paths
        BY <2>7, <2>8, <2>10
      <4>2. \A k, m \in DOMAIN paths : paths[k] = paths[m] => k = m
        BY <1>3, <2>1, PathsFound
      <4> QED
        BY <4>1, <4>2
    <3>2. \A p \in P : p \in Nat
      BY <2>7
    <3> QED
      BY <2>5, <2>6, <3>1, <3>2, AscendsInjective
  <2>11. ASSUME NEW i \in 1 .. l + n
         PROVE  \/ i \in 1 .. l /\ entries'[i].path = entries[i].path
                \/ \E k \in 1 .. n : i = l + k /\ entries'[i].path = new[k]
    <3>1. CASE i <= l
      <4>1. i \in 1 .. l
        BY <2>5, <3>1
      <4> QED
        BY <2>2, <2>4, <4>1
    <3>2. CASE ~(i <= l)
      <4>1. PICK k : k = i - l
        OBVIOUS
      <4>2. k \in 1 .. n /\ i = l + k
        BY <2>5, <3>2, <4>1
      <4>3. entries'[i] = Entry(new[k], "Angled", FALSE)
        BY <2>2, <2>4, <4>2
      <4> QED
        BY <4>2, <4>3 DEF Entry
    <3> QED
      BY <3>1, <3>2
  <2>12. ASSUME NEW i \in 1 .. l + n, NEW j \in 1 .. l + n, entries'[i].path = entries'[j].path
         PROVE  i = j
    <3>1. CASE i \in 1 .. l /\ entries'[i].path = entries[i].path
      <4>1. CASE j \in 1 .. l /\ entries'[j].path = entries[j].path
        BY <1>3, <2>4, <2>12, <3>1, <4>1
      <4>2. CASE \E k \in 1 .. n : j = l + k /\ entries'[j].path = new[k]
        BY <2>9, <2>12, <3>1, <4>2
      <4> QED
        BY <2>11, <4>1, <4>2
    <3>2. CASE \E k \in 1 .. n : i = l + k /\ entries'[i].path = new[k]
      <4>1. CASE j \in 1 .. l /\ entries'[j].path = entries[j].path
        BY <2>9, <2>12, <3>2, <4>1
      <4>2. CASE \E k \in 1 .. n : j = l + k /\ entries'[j].path = new[k]
        BY <2>10, <2>12, <3>2, <4>2
      <4> QED
        BY <2>11, <4>1, <4>2
    <3> QED
      BY <2>11, <3>1, <3>2
  <2> QED
    BY <2>2, <2>4, <2>12
<1>4. ASSUME IInv, Different, [Next]_vars PROVE Different'
  <2>1. CASE AddIncludePaths
    BY <1>3, <1>4, <2>1
  <2>2. CASE ~AddIncludePaths
    <3>1. entries' = entries
      BY <1>4, <2>2 DEF Next, Step, Plain, Include, Forget, ExpandStep, ExpandReturn, SplitStep,
         LogStep, SplitLast, CallExpand, CallSplit, CallGetSystemLibraryPaths, LookForFile,
         CallAddIncludePaths, SplitStart, vars
    <3> QED
      BY <1>4, <3>1
  <2> QED
    BY <2>1, <2>2
<1> HIDE DEF Different
<1>5. Spec => []Different
  <2>1. Init => Different
    BY <1>2
  <2>2. IInv /\ Different /\ [Next]_vars => Different'
    BY <1>4
  <2> QED
    BY <2>1, <2>2, Inductive, PTL DEF Spec
<1>6. IInv /\ Different => NoDuplicates
  BY <1>1
<1> QED
  BY <1>5, <1>6, Inductive, PTL

-----------------------------------------------------------------------------
(* CopyIncludePaths.                                                       *)

\* What a sequence joined of two holds.
LEMMA JoinedAt ==
    ASSUME NEW S, NEW a \in Seq(S), NEW b \in Seq(S), NEW both, both = a \o b
    PROVE  /\ both \in Seq(S) /\ Len(both) = Len(a) + Len(b)
           /\ \A i \in 1 .. Len(a) : both[i] = a[i]
           /\ \A i \in 1 .. Len(b) : both[Len(a) + i] = b[i]
<1>1. /\ both \in Seq(S) /\ Len(both) = Len(a) + Len(b)
      /\ \A i \in 1 .. Len(a) + Len(b) :
           both[i] = IF i <= Len(a) THEN a[i] ELSE b[i - Len(a)]
  BY ConcatProperties
<1>2. Len(a) \in Nat /\ Len(b) \in Nat
  OBVIOUS
<1>3. \A i \in 1 .. Len(a) : i \in 1 .. Len(a) + Len(b) /\ i <= Len(a)
  BY <1>2
<1>4. \A i \in 1 .. Len(b) : /\ Len(a) + i \in 1 .. Len(a) + Len(b)
                             /\ ~(Len(a) + i <= Len(a)) /\ (Len(a) + i) - Len(a) = i
  BY <1>2
<1> QED
  BY <1>1, <1>3, <1>4

LEMMA PairJoined ==
    ASSUME NEW X, NEW u \in X, NEW p \in X
    PROVE  <<u>> \o <<p>> = <<u, p>>
<1>1. PICK a, b, c, both : a = <<u>> /\ b = <<p>> /\ c = <<u, p>> /\ both = a \o b
  OBVIOUS
<1>2. /\ a \in Seq(X) /\ b \in Seq(X) /\ c \in Seq(X) /\ Len(a) = 1 /\ Len(b) = 1 /\ Len(c) = 2
      /\ a[1] = u /\ b[1] = p /\ c[1] = u /\ c[2] = p
  BY <1>1
<1>3. /\ both \in Seq(X) /\ Len(both) = Len(a) + Len(b)
      /\ \A i \in 1 .. Len(a) : both[i] = a[i]
      /\ \A i \in 1 .. Len(b) : both[Len(a) + i] = b[i]
  BY <1>1, <1>2, JoinedAt
<1>4. Len(both) = 2 /\ both[1] = u /\ both[2] = p
  <2>1. 1 \in 1 .. Len(a) /\ 1 \in 1 .. Len(b) /\ Len(a) + 1 = 2 /\ Len(a) + Len(b) = 2
    BY <1>2
  <2> QED
    BY <1>2, <1>3, <2>1
<1>5. \A i \in 1 .. Len(both) : both[i] = c[i]
  BY <1>2, <1>4
<1>6. both = c
  BY <1>2, <1>3, <1>4, <1>5, SeqEqual
<1> QED
  BY <1>1, <1>6

LEMMA TripleJoined ==
    ASSUME NEW X, NEW u \in X, NEW v \in X, NEW p \in X
    PROVE  <<u, v>> \o <<p>> = <<u, v, p>>
<1>1. PICK a, b, c, both : a = <<u, v>> /\ b = <<p>> /\ c = <<u, v, p>> /\ both = a \o b
  OBVIOUS
<1>2. /\ a \in Seq(X) /\ b \in Seq(X) /\ c \in Seq(X) /\ Len(a) = 2 /\ Len(b) = 1 /\ Len(c) = 3
      /\ a[1] = u /\ a[2] = v /\ b[1] = p /\ c[1] = u /\ c[2] = v /\ c[3] = p
  BY <1>1
<1>3. /\ both \in Seq(X) /\ Len(both) = Len(a) + Len(b)
      /\ \A i \in 1 .. Len(a) : both[i] = a[i]
      /\ \A i \in 1 .. Len(b) : both[Len(a) + i] = b[i]
  BY <1>1, <1>2, JoinedAt
<1>4. Len(both) = 3 /\ both[1] = u /\ both[2] = v /\ both[3] = p
  <2>1. /\ 1 \in 1 .. Len(a) /\ 2 \in 1 .. Len(a) /\ 1 \in 1 .. Len(b)
        /\ Len(a) + 1 = 3 /\ Len(a) + Len(b) = 3
    BY <1>2
  <2> QED
    BY <1>2, <1>3, <2>1
<1>5. \A i \in 1 .. Len(both) : both[i] = c[i]
  BY <1>2, <1>4
<1>6. both = c
  BY <1>2, <1>3, <1>4, <1>5, SeqEqual
<1> QED
  BY <1>1, <1>6

\* What arguments are made of.
Words == Seq(STRING \cup FlagWords)

\* The entries that CopyIncludePaths takes, and its arguments for one of them.
Taking(withSystem) == {i \in DOMAIN entries : withSystem \/ ~IsSystem(entries[i])}

FlagsOf(e) == [i \in DOMAIN Flag(e) |-> <<Flag(e)[i]>>]

ArgsOf(e, withSystem) ==
    IF IsSystem(e) /\ ~withSystem THEN <<>> ELSE FlagsOf(e) \o <<e.path>>

\* The entry that is read when the words b and c stand before the path.
GroupAfter(b, c) ==
    CASE b = "-idirafter" -> "After"
      [] b = "-iquote" -> "Quoted"
      [] b = "-isystem" -> "System"
      [] b = "-c-isystem" -> "CSystem"
      [] c = "-index-header-map" -> "IndexHeaderMap"
      [] OTHER -> "Angled"

ReadAfter(p, b, c) == Entry(p, GroupAfter(b, c), b = "-F")

Before(args, k) == IF k >= 1 THEN args[k][1] ELSE "none"

LEMMA ReadEntryIs ==
    ASSUME NEW args, NEW i
    PROVE  ReadEntry(args, i) = ReadAfter(args[i], Before(args, i - 1), Before(args, i - 2))
  BY DEF ReadEntry, ReadAfter, GroupAfter, Before

\* One or two flags stand before the path of an entry and say what it is.
LEMMA ArgsShape ==
    ASSUME NEW e \in EntryType, e.framework => e.group = "Angled",
           NEW withSystem \in BOOLEAN, withSystem \/ ~IsSystem(e)
    PROVE  /\ ArgsOf(e, withSystem) \in Seq(Words)
           /\ \/ \E a : /\ ArgsOf(e, withSystem) = <<<<a>>, e.path>> /\ a \in FlagWords
                        /\ \A c : c \notin FlagWords => ReadAfter(e.path, a, c) = e
              \/ \E a, b : /\ ArgsOf(e, withSystem) = <<<<a>>, <<b>>, e.path>>
                           /\ a \in FlagWords /\ b \in FlagWords
                           /\ ReadAfter(e.path, b, a) = e
<1>1. PICK p, g, w : p = e.path /\ g = e.group /\ w = e.framework
  OBVIOUS
<1>2. p \in Seq(STRING) /\ g \in Group /\ w \in BOOLEAN /\ e = Entry(p, g, w) /\ (w => g = "Angled")
  BY <1>1 DEF EntryType, Entry
<1>3. ArgsOf(e, withSystem) = FlagsOf(e) \o <<p>>
  BY <1>1 DEF ArgsOf
<1>0. p \in Words
  BY <1>2 DEF Words
<1>4. ASSUME NEW a \in FlagWords, Flag(e) = <<a>> PROVE ArgsOf(e, withSystem) = <<<<a>>, p>>
  <2>1. FlagsOf(e) = <<<<a>>>>
    BY <1>4 DEF FlagsOf
  <2>2. PICK X, u : X = Words /\ u = <<a>>
    OBVIOUS
  <2>3. u \in X /\ p \in X
    BY <1>0, <2>2 DEF Words
  <2>4. <<u>> \o <<p>> = <<u, p>>
    BY <2>3, PairJoined
  <2> QED
    BY <1>3, <2>1, <2>2, <2>4
<1>5. ASSUME NEW a \in FlagWords, NEW b \in FlagWords, Flag(e) = <<a, b>>
      PROVE  ArgsOf(e, withSystem) = <<<<a>>, <<b>>, p>>
  <2>1. FlagsOf(e) = <<<<a>>, <<b>>>>
    BY <1>5 DEF FlagsOf
  <2>2. PICK X, u, v : X = Words /\ u = <<a>> /\ v = <<b>>
    OBVIOUS
  <2>3. u \in X /\ v \in X /\ p \in X
    BY <1>0, <2>2 DEF Words
  <2>4. <<u, v>> \o <<p>> = <<u, v, p>>
    BY <2>3, TripleJoined
  <2> QED
    BY <1>3, <2>1, <2>2, <2>4
<1>6. ASSUME NEW a \in FlagWords PROVE <<<<a>>, p>> \in Seq(Words)
  <2>1. <<a>> \in Words
    BY DEF Words
  <2>2. PICK X : X = Words
    OBVIOUS
  <2>3. <<<<a>>, p>> \in Seq(X)
    BY <1>0, <2>1, <2>2
  <2> QED
    BY <2>2, <2>3
<1>7. ASSUME NEW a \in FlagWords, NEW b \in FlagWords PROVE <<<<a>>, <<b>>, p>> \in Seq(Words)
  <2>1. <<a>> \in Words /\ <<b>> \in Words
    BY DEF Words
  <2>2. PICK X : X = Words
    OBVIOUS
  <2>3. <<<<a>>, <<b>>, p>> \in Seq(X)
    BY <1>0, <2>1, <2>2
  <2> QED
    BY <2>2, <2>3
<1>8. CASE g = "IndexHeaderMap"
  <2>1. PICK a, b : a = "-index-header-map" /\ b = "-I"
    OBVIOUS
  <2>2. a \in FlagWords /\ b \in FlagWords
    BY <2>1 DEF FlagWords
  <2>3. Flag(e) = <<a, b>>
    BY <1>1, <1>2, <1>8, <2>1 DEF Flag
  <2>4. ReadAfter(p, b, a) = e
    <3>1. GroupAfter(b, a) = g
      BY <1>8, <2>1 DEF GroupAfter
    <3>2. w = FALSE /\ (b = "-F") = FALSE
      BY <1>2, <1>8, <2>1
    <3> QED
      BY <1>2, <3>1, <3>2 DEF ReadAfter
  <2> QED
    BY <1>1, <1>5, <1>7, <2>2, <2>3, <2>4
<1>9. ASSUME NEW a \in FlagWords, Flag(e) = <<a>>,
             \A c : c \notin FlagWords => ReadAfter(p, a, c) = Entry(p, g, w)
      PROVE  /\ ArgsOf(e, withSystem) \in Seq(Words)
             /\ \E x : /\ ArgsOf(e, withSystem) = <<<<x>>, e.path>> /\ x \in FlagWords
                       /\ \A c : c \notin FlagWords => ReadAfter(e.path, x, c) = e
  <2>1. ArgsOf(e, withSystem) = <<<<a>>, p>> /\ <<<<a>>, p>> \in Seq(Words)
    BY <1>4, <1>6, <1>9
  <2> QED
    BY <1>1, <1>2, <1>9, <2>1
<1>10. CASE g = "After"
  <2>1. PICK a : a = "-idirafter"
    OBVIOUS
  <2>2. a \in FlagWords /\ Flag(e) = <<a>>
    BY <1>1, <1>10, <2>1 DEF Flag, FlagWords
  <2>3. \A c : c \notin FlagWords => ReadAfter(p, a, c) = Entry(p, g, w)
    <3>1. ASSUME NEW c, c # "-index-header-map" PROVE GroupAfter(a, c) = g
      BY <3>1, <1>10, <2>1 DEF GroupAfter
    <3>2. w = FALSE /\ (a = "-F") = FALSE
      BY <1>2, <1>10, <2>1
    <3>3. ASSUME NEW c, c # "-index-header-map" PROVE ReadAfter(p, a, c) = Entry(p, g, w)
      BY <3>1, <3>2, <3>3 DEF ReadAfter
    <3> QED
      BY <3>3 DEF FlagWords
  <2> QED
    BY <1>9, <2>2, <2>3
<1>11. CASE g = "Quoted"
  <2>1. PICK a : a = "-iquote"
    OBVIOUS
  <2>2. a \in FlagWords /\ Flag(e) = <<a>>
    BY <1>1, <1>11, <2>1 DEF Flag, FlagWords
  <2>3. \A c : c \notin FlagWords => ReadAfter(p, a, c) = Entry(p, g, w)
    <3>1. ASSUME NEW c, c # "-index-header-map" PROVE GroupAfter(a, c) = g
      BY <3>1, <1>11, <2>1 DEF GroupAfter
    <3>2. w = FALSE /\ (a = "-F") = FALSE
      BY <1>2, <1>11, <2>1
    <3>3. ASSUME NEW c, c # "-index-header-map" PROVE ReadAfter(p, a, c) = Entry(p, g, w)
      BY <3>1, <3>2, <3>3 DEF ReadAfter
    <3> QED
      BY <3>3 DEF FlagWords
  <2> QED
    BY <1>9, <2>2, <2>3
<1>12. CASE g = "System"
  <2>1. PICK a : a = "-isystem"
    OBVIOUS
  <2>2. a \in FlagWords /\ Flag(e) = <<a>>
    BY <1>1, <1>12, <2>1 DEF Flag, FlagWords
  <2>3. \A c : c \notin FlagWords => ReadAfter(p, a, c) = Entry(p, g, w)
    <3>1. ASSUME NEW c, c # "-index-header-map" PROVE GroupAfter(a, c) = g
      BY <3>1, <1>12, <2>1 DEF GroupAfter
    <3>2. w = FALSE /\ (a = "-F") = FALSE
      BY <1>2, <1>12, <2>1
    <3>3. ASSUME NEW c, c # "-index-header-map" PROVE ReadAfter(p, a, c) = Entry(p, g, w)
      BY <3>1, <3>2, <3>3 DEF ReadAfter
    <3> QED
      BY <3>3 DEF FlagWords
  <2> QED
    BY <1>9, <2>2, <2>3
<1>13. CASE g = "CSystem"
  <2>1. PICK a : a = "-c-isystem"
    OBVIOUS
  <2>2. a \in FlagWords /\ Flag(e) = <<a>>
    BY <1>1, <1>13, <2>1 DEF Flag, FlagWords
  <2>3. \A c : c \notin FlagWords => ReadAfter(p, a, c) = Entry(p, g, w)
    <3>1. ASSUME NEW c, c # "-index-header-map" PROVE GroupAfter(a, c) = g
      BY <3>1, <1>13, <2>1 DEF GroupAfter
    <3>2. w = FALSE /\ (a = "-F") = FALSE
      BY <1>2, <1>13, <2>1
    <3>3. ASSUME NEW c, c # "-index-header-map" PROVE ReadAfter(p, a, c) = Entry(p, g, w)
      BY <3>1, <3>2, <3>3 DEF ReadAfter
    <3> QED
      BY <3>3 DEF FlagWords
  <2> QED
    BY <1>9, <2>2, <2>3
<1>14. CASE g = "Angled"
  <2>1. PICK a : a = IF w THEN "-F" ELSE "-I"
    OBVIOUS
  <2>2. a \in FlagWords /\ Flag(e) = <<a>>
    BY <1>1, <1>14, <2>1 DEF Flag, FlagWords
  <2>3. ASSUME NEW c, c \notin FlagWords PROVE ReadAfter(p, a, c) = Entry(p, g, w)
    <3>1. c # "-index-header-map"
      BY <2>3 DEF FlagWords
    <3>2. (a = "-F") = w /\ a \in {"-F", "-I"}
      BY <1>2, <2>1
    <3>3. GroupAfter(a, c) = g
      BY <1>14, <3>1, <3>2 DEF GroupAfter
    <3> QED
      BY <3>2, <3>3 DEF ReadAfter
  <2> QED
    BY <1>9, <2>2, <2>3
<1> QED
  BY <1>2, <1>8, <1>10, <1>11, <1>12, <1>13, <1>14 DEF Group

\* The same, by their number.
LEMMA ArgsAre ==
    ASSUME NEW e \in EntryType, e.framework => e.group = "Angled",
           NEW withSystem \in BOOLEAN, withSystem \/ ~IsSystem(e)
    PROVE  \E b \in Seq(Words) :
             /\ ArgsOf(e, withSystem) = b
             /\ \/ /\ Len(b) = 2 /\ b[1][1] \in FlagWords /\ b[2] = e.path
                   /\ \A c : c \notin FlagWords => ReadAfter(e.path, b[1][1], c) = e
                \/ /\ Len(b) = 3 /\ b[1][1] \in FlagWords /\ b[2][1] \in FlagWords
                   /\ b[3] = e.path /\ ReadAfter(e.path, b[2][1], b[1][1]) = e
<1>1. PICK b : b = ArgsOf(e, withSystem)
  OBVIOUS
<1>2. b \in Seq(Words)
  BY <1>1, ArgsShape
<1>3. CASE \E a : /\ ArgsOf(e, withSystem) = <<<<a>>, e.path>> /\ a \in FlagWords
                  /\ \A c : c \notin FlagWords => ReadAfter(e.path, a, c) = e
  <2>1. PICK a : /\ b = <<<<a>>, e.path>> /\ a \in FlagWords
                 /\ \A c : c \notin FlagWords => ReadAfter(e.path, a, c) = e
    BY <1>1, <1>3
  <2>2. Len(b) = 2 /\ b[1][1] = a /\ b[2] = e.path
    BY <2>1
  <2> QED
    BY <1>1, <1>2, <2>1, <2>2
<1>4. CASE \E a, c : /\ ArgsOf(e, withSystem) = <<<<a>>, <<c>>, e.path>>
                     /\ a \in FlagWords /\ c \in FlagWords /\ ReadAfter(e.path, c, a) = e
  <2>1. PICK a, c : /\ b = <<<<a>>, <<c>>, e.path>>
                    /\ a \in FlagWords /\ c \in FlagWords /\ ReadAfter(e.path, c, a) = e
    BY <1>1, <1>4
  <2>2. Len(b) = 3 /\ b[1][1] = a /\ b[2][1] = c /\ b[3] = e.path
    BY <2>1
  <2> QED
    BY <1>1, <1>2, <2>1, <2>2
<1> QED
  BY <1>3, <1>4, ArgsShape

PathPlaces(args) == {i \in 1 .. Len(args) : args[i][1] \notin FlagWords}

\* The arguments mean the entries at Q, and do not end with a flag.
Mean(args, Q) ==
    /\ \E f \in [Q -> PathPlaces(args)] :
         /\ Ascends(f, PathPlaces(args))
         /\ \A k \in Q : ReadEntry(args, f[k]) = entries[k]
    /\ args = <<>> \/ args[Len(args)][1] \notin FlagWords

LEMMA MeanNone == Mean(<<>>, {})
<1> DEFINE f == [i \in {} |-> 0]
<1>1. PathPlaces(<<>>) = {}
  <2>1. Len(<<>>) = 0 /\ \A i \in 1 .. 0 : FALSE
    OBVIOUS
  <2> QED
    BY <2>1 DEF PathPlaces
<1>2. f \in [{} -> {}] /\ DOMAIN f = {}
  OBVIOUS
<1>3. Ascends(f, {})
  BY DEF Ascends
<1> QED
  BY <1>1, <1>2, <1>3 DEF Mean

\* g is f, an increasing function onto P, with p behind it.
Grows(Q, P, f, i, p, g) ==
    /\ DOMAIN f = Q /\ Ascends(f, P) /\ \A q \in P : q \in Nat /\ q < p
    /\ \A q \in Q : q \in Nat /\ q < i /\ g[q] = f[q] /\ f[q] \in P
    /\ i \in Nat /\ p \in Nat /\ DOMAIN g = Q \cup {i} /\ g[i] = p

LEMMA AscendGrows ==
    ASSUME NEW Q, NEW P, NEW f, NEW i, NEW p, NEW g, Grows(Q, P, f, i, p, g)
    PROVE  Ascends(g, P \cup {p})
<1>1. /\ \A k \in Q : k # i /\ g[k] = f[k] /\ f[k] \in P
      /\ g[i] = p /\ DOMAIN g = Q \cup {i} /\ DOMAIN f = Q /\ Ascends(f, P)
      /\ \A q \in P : q \in Nat /\ q < p
      /\ \A q \in Q : q \in Nat /\ q < i
      /\ i \in Nat /\ p \in Nat
  BY DEF Grows
<1>3. ASSUME NEW k \in Q \cup {i}, NEW l \in Q \cup {i}, k < l PROVE g[k] < g[l]
  <2>1. k \in Q /\ g[k] = f[k] /\ f[k] \in P
    BY <1>1, <1>3
  <2>2. CASE l = i
    BY <1>1, <2>1, <2>2
  <2>3. CASE l # i
    <3>1. l \in Q /\ g[l] = f[l]
      BY <1>1, <2>3
    <3>2. \A a, b \in Q : a < b => f[a] < f[b]
      BY <1>1 DEF Ascends
    <3> QED
      BY <1>3, <2>1, <3>1, <3>2
  <2> QED
    BY <2>2, <2>3
<1>4. ASSUME NEW q PROVE q \in P \cup {p} <=> \E k \in Q \cup {i} : q = g[k]
  <2>1. q \in P <=> \E k \in Q : q = f[k]
    BY <1>1 DEF Ascends
  <2> QED
    BY <1>1, <2>1
<1>5. P \cup {p} = {g[k] : k \in Q \cup {i}}
  BY <1>4
<1> QED
  BY <1>1, <1>3, <1>5 DEF Ascends

\* What is read at a place depends on the arguments up to there.
LEMMA ReadStays ==
    ASSUME NEW a \in Seq(Words), NEW b \in Seq(Words), NEW j \in 1 .. Len(a)
    PROVE  ReadEntry(a \o b, j) = ReadEntry(a, j)
<1> SUFFICES ASSUME NEW both, both = a \o b PROVE ReadEntry(both, j) = ReadEntry(a, j)
  OBVIOUS
<1>1. \A i \in 1 .. Len(a) : both[i] = a[i]
  <2>1. PICK X : X = Words
    OBVIOUS
  <2>2. a \in Seq(X) /\ b \in Seq(X)
    BY <2>1
  <2> QED
    BY <2>2, JoinedAt
<1>2. ASSUME NEW k \in {j - 1, j - 2} PROVE Before(both, k) = Before(a, k)
  <2>1. CASE k >= 1
    <3>1. k \in 1 .. Len(a)
      BY <2>1
    <3> QED
      BY <1>1, <3>1 DEF Before
  <2>2. CASE ~(k >= 1)
    BY <2>2 DEF Before
  <2> QED
    BY <2>1, <2>2
<1> QED
  BY <1>1, <1>2, ReadEntryIs

\* The entries as CopyIncludePaths can write them down.
EntriesReadable ==
    \A i \in DOMAIN entries :
      /\ entries[i].path # <<>> /\ entries[i].path[1] \notin FlagWords
      /\ entries[i].framework => entries[i].group = "Angled"

LEMMA MeanOneMore ==
    ASSUME NEW e \in EntryType, e.framework => e.group = "Angled",
           e.path # <<>>, e.path[1] \notin FlagWords,
           NEW withSystem \in BOOLEAN, withSystem \/ ~IsSystem(e),
           NEW a \in Seq(Words), NEW Q, Mean(a, Q),
           NEW i \in Nat, \A q \in Q : q \in Nat /\ q < i, entries[i] = e
    PROVE  /\ a \o ArgsOf(e, withSystem) \in Seq(Words)
           /\ Mean(a \o ArgsOf(e, withSystem), Q \cup {i})
<1>1. PICK b \in Seq(Words) :
        /\ ArgsOf(e, withSystem) = b
        /\ \/ /\ Len(b) = 2 /\ b[1][1] \in FlagWords /\ b[2] = e.path
              /\ \A c : c \notin FlagWords => ReadAfter(e.path, b[1][1], c) = e
           \/ /\ Len(b) = 3 /\ b[1][1] \in FlagWords /\ b[2][1] \in FlagWords
              /\ b[3] = e.path /\ ReadAfter(e.path, b[2][1], b[1][1]) = e
  BY ArgsAre
<1>2. PICK X, both : X = Words /\ both = a \o b
  OBVIOUS
<1>3. PICK l, m : l = Len(a) /\ m = Len(b)
  OBVIOUS
<1>4. l \in Nat /\ (m = 2 \/ m = 3)
  BY <1>1, <1>3
<1>5. /\ both \in Seq(X) /\ Len(both) = l + m
      /\ \A k \in 1 .. l : both[k] = a[k]
      /\ \A k \in 1 .. m : both[l + k] = b[k]
  <2>1. a \in Seq(X) /\ b \in Seq(X)
    BY <1>1, <1>2
  <2> QED
    BY <1>2, <1>3, <2>1, JoinedAt
<1>6. b[m] = e.path /\ \A k \in 1 .. m - 1 : b[k][1] \in FlagWords
  <2>1. \A k \in 1 .. m - 1 : k = 1 \/ (m = 3 /\ k = 2)
    BY <1>4
  <2> QED
    BY <1>1, <1>3, <2>1
<1>7. PathPlaces(both) = PathPlaces(a) \cup {l + m}
  <2>1. ASSUME NEW j PROVE j \in PathPlaces(both) <=> j \in PathPlaces(a) \/ j = l + m
    <3>1. CASE j \in 1 .. l
      <4>1. j \in 1 .. l + m /\ j # l + m
        BY <1>4, <3>1
      <4> QED
        BY <1>3, <1>5, <3>1, <4>1 DEF PathPlaces
    <3>2. CASE j \in l + 1 .. l + m
      <4>1. PICK k : k = j - l
        OBVIOUS
      <4>2. k \in 1 .. m /\ j = l + k /\ j \in 1 .. l + m /\ j \notin 1 .. l
        BY <1>4, <3>2, <4>1
      <4>3. both[j] = b[k]
        BY <1>5, <4>2
      <4>4. CASE k = m
        BY <1>5, <1>6, <4>2, <4>3, <4>4 DEF PathPlaces
      <4>5. CASE k # m
        <5>1. k \in 1 .. m - 1 /\ j # l + m
          BY <1>4, <4>2, <4>5
        <5> QED
          BY <1>3, <1>5, <1>6, <4>2, <4>3, <5>1 DEF PathPlaces
      <4> QED
        BY <4>4, <4>5
    <3>3. CASE j \notin 1 .. l /\ j \notin l + 1 .. l + m
      <4>1. j \notin 1 .. l + m /\ j # l + m
        BY <1>4, <3>3
      <4> QED
        BY <1>3, <1>5, <3>3, <4>1 DEF PathPlaces
    <3> QED
      BY <3>1, <3>2, <3>3
  <2> QED
    BY <2>1
<1>8. PICK f \in [Q -> PathPlaces(a)] :
        /\ Ascends(f, PathPlaces(a))
        /\ \A k \in Q : ReadEntry(a, f[k]) = entries[k]
  BY DEF Mean
<1>9. PICK P : P = PathPlaces(a)
  OBVIOUS
<1>10. \A q \in P : q \in Nat /\ q \in 1 .. l /\ q < l + m
  BY <1>3, <1>4, <1>9 DEF PathPlaces
<1>11. PICK g : g = [k \in Q \cup {i} |-> IF k = i THEN l + m ELSE f[k]]
  OBVIOUS
<1>12. g \in [Q \cup {i} -> P \cup {l + m}] /\ Ascends(g, P \cup {l + m})
  <2>1. l + m \in Nat /\ f \in [Q -> P] /\ Ascends(f, P)
    BY <1>4, <1>8, <1>9
  <2>2. PICK p : p = l + m
    OBVIOUS
  <2>3. p \in Nat /\ \A q \in P : q < p
    BY <1>10, <2>1, <2>2
  <2>4. \A k \in Q : k # i
    OBVIOUS
  <2>5. DOMAIN g = Q \cup {i} /\ g[i] = p /\ \A k \in Q : g[k] = f[k] /\ f[k] \in P
    BY <1>11, <2>1, <2>2, <2>4
  <2>6. \A q \in P : q \in Nat
    BY <1>10
  <2>7. \A q \in Q : q \in Nat /\ q < i
    OBVIOUS
  <2>8. Ascends(g, P \cup {p})
    <3>1. DOMAIN f = Q
      BY <1>8
    <3>2. Grows(Q, P, f, i, p, g)
      BY <2>1, <2>3, <2>5, <2>6, <2>7, <3>1 DEF Grows
    <3> QED
      BY <3>2, AscendGrows
  <2>9. g \in [Q \cup {i} -> P \cup {p}]
    <3>1. \A k \in Q \cup {i} : g[k] \in P \cup {p}
      BY <2>5
    <3>2. g = [k \in Q \cup {i} |-> g[k]]
      BY <1>11
    <3> QED
      BY <3>1, <3>2
  <2> QED
    BY <2>2, <2>8, <2>9
<1>13. ReadEntry(both, l + m) = e
  <2>1. both[l + m] = e.path
    <3>1. m \in 1 .. m
      BY <1>4
    <3> QED
      BY <1>5, <1>6, <3>1
  <2>2. PICK x, y : x = Before(both, (l + m) - 1) /\ y = Before(both, (l + m) - 2)
    OBVIOUS
  <2>3. ReadEntry(both, l + m) = ReadAfter(e.path, x, y)
    BY <2>1, <2>2, ReadEntryIs
  <2>4. CASE m = 2
    <3>1. (l + m) - 1 = l + 1 /\ (l + m) - 2 = l /\ l + 1 >= 1 /\ 1 \in 1 .. m
      BY <1>4, <2>4
    <3>2. x = b[1][1]
      BY <1>5, <2>2, <3>1 DEF Before
    <3>3. y \notin FlagWords
      <4>1. CASE l = 0
        <5>1. y = "none"
          BY <2>2, <3>1, <4>1 DEF Before
        <5> QED
          BY <5>1 DEF FlagWords
      <4>2. CASE l # 0
        <5>1. l >= 1 /\ l \in 1 .. l /\ a # <<>>
          BY <1>3, <1>4, <4>2
        <5>2. y = a[l][1]
          BY <1>5, <2>2, <3>1, <5>1 DEF Before
        <5> QED
          BY <1>3, <5>1, <5>2 DEF Mean
      <4> QED
        BY <4>1, <4>2
    <3> QED
      BY <1>1, <1>3, <2>3, <2>4, <3>2, <3>3
  <2>5. CASE m = 3
    <3>1. /\ (l + m) - 1 = l + 2 /\ (l + m) - 2 = l + 1 /\ l + 1 >= 1 /\ l + 2 >= 1
          /\ 1 \in 1 .. m /\ 2 \in 1 .. m
      BY <1>4, <2>5
    <3>2. x = b[2][1] /\ y = b[1][1]
      BY <1>5, <2>2, <3>1 DEF Before
    <3> QED
      BY <1>1, <1>3, <2>3, <2>5, <3>2
  <2> QED
    BY <1>4, <2>4, <2>5
<1>14. ASSUME NEW k \in Q \cup {i} PROVE ReadEntry(both, g[k]) = entries[k]
  <2>1. CASE k = i
    <3>1. g[k] = l + m
      BY <1>11, <2>1
    <3> QED
      BY <1>13, <2>1, <3>1
  <2>2. CASE k # i
    <3>1. k \in Q /\ g[k] = f[k] /\ f[k] \in P
      BY <1>8, <1>9, <1>11, <2>2
    <3>2. f[k] \in 1 .. Len(a)
      BY <1>3, <1>10, <3>1
    <3>3. ReadEntry(both, f[k]) = ReadEntry(a, f[k])
      <4>1. PICK j : j = f[k]
        OBVIOUS
      <4>2. j \in 1 .. Len(a)
        BY <3>2, <4>1
      <4>3. ReadEntry(a \o b, j) = ReadEntry(a, j)
        BY <4>2, ReadStays
      <4> QED
        BY <1>2, <4>1, <4>3
    <3> QED
      BY <1>8, <3>1, <3>3
  <2> QED
    BY <2>1, <2>2
<1>15. both[Len(both)][1] \notin FlagWords
  <2>1. m \in 1 .. m
    BY <1>4
  <2>2. both[l + m] = e.path
    BY <1>5, <1>6, <2>1
  <2> QED
    BY <1>5, <2>2
<1>16. Mean(both, Q \cup {i})
  BY <1>7, <1>9, <1>12, <1>14, <1>15 DEF Mean
<1> QED
  BY <1>1, <1>2, <1>5, <1>16

\* A sequence that is joined of pieces, one after the other.
Joins(f, n, p) ==
    \A i \in 0 .. n : f[i] = IF i = 0 THEN <<>> ELSE f[i - 1] \o p[i]

LEMMA JoinExists ==
    ASSUME NEW n \in Nat, NEW S, NEW p \in [1 .. n -> Seq(S)]
    PROVE  \E f \in [0 .. n -> Seq(S)] : Joins(f, n, p)
<1> DEFINE g == [i \in 1 .. n |-> [t \in Seq(S) |-> t \o p[i]]]
<1>1. g \in [1 .. n -> [Seq(S) -> Seq(S)]]
  <2>1. \A i \in 1 .. n, t \in Seq(S) : t \o p[i] \in Seq(S)
    OBVIOUS
  <2> QED
    BY <2>1
<1>2. PICK f \in [0 .. n -> Seq(S)] : Folds(f, n, <<>>, g)
  <2>1. <<>> \in Seq(S)
    OBVIOUS
  <2> HIDE DEF g
  <2> QED
    BY <1>1, <2>1, FoldExists
<1>3. \A i \in 0 .. n : f[i] = IF i = 0 THEN <<>> ELSE g[i][f[i - 1]]
  BY <1>2 DEF Folds
<1>4. ASSUME NEW i \in 1 .. n PROVE g[i][f[i - 1]] = f[i - 1] \o p[i]
  <2>1. f[i - 1] \in Seq(S)
    <3>1. i - 1 \in 0 .. n
      OBVIOUS
    <3> QED
      BY <3>1
  <2> QED
    BY <2>1
<1>5. \A i \in 0 .. n : f[i] = IF i = 0 THEN <<>> ELSE f[i - 1] \o p[i]
  <2>1. \A i \in 0 .. n : i = 0 \/ i \in 1 .. n
    OBVIOUS
  <2> HIDE DEF g
  <2> QED
    BY <1>3, <1>4, <2>1
<1> QED
  BY <1>5 DEF Joins

\* CopyIncludePaths joins the arguments for the entries it takes.
LEMMA Copied ==
    ASSUME entries \in Seq(EntryType), EntriesReadable, NEW withSystem \in BOOLEAN
    PROVE  \E c \in [0 .. Len(entries) -> Seq(Words)] :
             /\ \A i \in 0 .. Len(entries) :
                  c[i] = IF i = 0 THEN <<>> ELSE c[i - 1] \o ArgsOf(entries[i], withSystem)
             /\ CopyIncludePaths(withSystem, TRUE) = c[Len(entries)]
<1> DEFINE n == Len(entries)
           Args(e) == IF IsSystem(e) /\ ~withSystem THEN <<>>
                      ELSE (IF TRUE THEN [i \in DOMAIN Flag(e) |-> <<Flag(e)[i]>>] ELSE <<>>)
                             \o <<e.path>>
           p == [i \in 1 .. n |-> Args(entries[i])]
           Solves(c) == c = [i \in 0 .. n |->
                               IF i = 0 THEN <<>> ELSE c[i - 1] \o Args(entries[i])]
           copied == CHOOSE c : Solves(c)
<1>1. CopyIncludePaths(withSystem, TRUE) = copied[n]
  BY DEF CopyIncludePaths
<1>2. \A e : Args(e) = ArgsOf(e, withSystem)
  BY DEF ArgsOf, FlagsOf
<1> HIDE DEF Args
<1>3. n \in Nat /\ \A i \in 1 .. n : entries[i] \in EntryType
  OBVIOUS
<1>4. ASSUME NEW i \in 1 .. n PROVE Args(entries[i]) \in Seq(Words)
  <2>1. PICK e : e = entries[i]
    OBVIOUS
  <2>2. e \in EntryType /\ (e.framework => e.group = "Angled")
    <3>1. i \in DOMAIN entries
      OBVIOUS
    <3> QED
      BY <1>3, <2>1, <3>1 DEF EntriesReadable
  <2>3. CASE withSystem \/ ~IsSystem(e)
    <3>1. ArgsOf(e, withSystem) \in Seq(Words)
      BY <2>2, <2>3, ArgsShape
    <3> QED
      BY <1>2, <2>1, <3>1
  <2>4. CASE ~(withSystem \/ ~IsSystem(e))
    <3>1. ArgsOf(e, withSystem) = <<>>
      BY <2>4 DEF ArgsOf
    <3>2. <<>> \in Seq(Words)
      OBVIOUS
    <3>3. Args(entries[i]) = <<>>
      BY <1>2, <2>1, <3>1
    <3> QED
      BY <3>2, <3>3
  <2> QED
    BY <2>3, <2>4
<1>5. p \in [1 .. n -> Seq(Words)]
  <2> HIDE DEF n
  <2> QED
    BY <1>4
<1>6. PICK f \in [0 .. n -> Seq(Words)] :
        \A i \in 0 .. n : f[i] = IF i = 0 THEN <<>> ELSE f[i - 1] \o p[i]
  <2>1. PICK X, pieces : X = Words /\ pieces = p
    OBVIOUS
  <2> HIDE DEF n, p
  <2>2. pieces \in [1 .. n -> Seq(X)]
    BY <1>5, <2>1
  <2>3. \E f \in [0 .. n -> Seq(X)] : Joins(f, n, pieces)
    BY <1>3, <2>2, JoinExists
  <2> QED
    BY <2>1, <2>3 DEF Joins
<1>7. \A i \in 0 .. n : i = 0 \/ i \in 1 .. n
  BY <1>3
<1> HIDE DEF n
<1>8. Solves(f)
  <2>1. \A i \in 0 .. n : f[i] = IF i = 0 THEN <<>> ELSE f[i - 1] \o Args(entries[i])
    BY <1>6, <1>7
  <2>2. f = [i \in 0 .. n |-> f[i]]
    OBVIOUS
  <2> QED
    BY <2>1, <2>2
<1>9. Solves(copied)
  <2> HIDE DEF Solves
  <2> QED
    BY <1>8
<1> HIDE DEF copied
<1>10. \A i \in 0 .. n : copied[i] = IF i = 0 THEN <<>> ELSE copied[i - 1] \o ArgsOf(entries[i], withSystem)
  BY <1>2, <1>9
<1>11. copied \in [0 .. n -> Seq(Words)]
  <2>1. copied = [i \in 0 .. n |-> copied[i]]
    BY <1>9
  <2> DEFINE T == {i \in 0 .. n : copied[i] \in Seq(Words)}
  <2>2. 0 \in T
    <3>1. 0 \in 0 .. n /\ <<>> \in Seq(Words)
      BY <1>3
    <3>2. copied[0] = <<>>
      BY <1>10, <3>1
    <3> QED
      BY <3>1, <3>2
  <2>3. ASSUME NEW i \in 1 .. n, i - 1 \in T PROVE i \in T
    <3>1. i \in 0 .. n /\ i # 0
      BY <1>3
    <3>2. copied[i - 1] \in Seq(Words) /\ ArgsOf(entries[i], withSystem) \in Seq(Words)
      BY <1>2, <1>4, <2>3
    <3>3. copied[i] \in Seq(Words)
      <4>1. PICK a, b, X : a = copied[i - 1] /\ b = ArgsOf(entries[i], withSystem) /\ X = Words
        OBVIOUS
      <4>2. a \o b \in Seq(X)
        BY <3>2, <4>1
      <4> QED
        BY <1>10, <3>1, <4>1, <4>2
    <3> QED
      BY <3>1, <3>3
  <2> HIDE DEF T
  <2>4. \A i \in 0 .. n : i \in T
    BY <1>3, <2>2, <2>3, UpInduction
  <2>5. \A i \in 0 .. n : copied[i] \in Seq(Words)
    BY <2>4 DEF T
  <2> QED
    BY <2>1, <2>5
<1> QED
  BY <1>1, <1>10, <1>11 DEF n

LEMMA CopyMeans ==
    ASSUME entries \in Seq(EntryType), EntriesReadable, NEW withSystem \in BOOLEAN
    PROVE  MeansEntries(CopyIncludePaths(withSystem, TRUE), Taking(withSystem))
<1>1. PICK n : n = Len(entries)
  OBVIOUS
<1>2. PICK c \in [0 .. n -> Seq(Words)] :
        /\ \A i \in 0 .. n : c[i] = IF i = 0 THEN <<>> ELSE c[i - 1] \o ArgsOf(entries[i], withSystem)
        /\ CopyIncludePaths(withSystem, TRUE) = c[n]
  BY <1>1, Copied
<1>3. n \in Nat /\ DOMAIN entries = 1 .. n /\ \A i \in 1 .. n : entries[i] \in EntryType
  BY <1>1
<1> DEFINE Q(i) == {k \in Taking(withSystem) : k <= i}
           T == {i \in 0 .. n : Mean(c[i], Q(i))}
<1>4. \A k \in Taking(withSystem) : k \in 1 .. n /\ k \in Nat /\ 1 <= k
  BY <1>3 DEF Taking
<1>5. 0 \in T
  <2>1. Q(0) = {} /\ 0 \in 0 .. n
    BY <1>3, <1>4
  <2>2. c[0] = <<>>
    BY <1>2, <2>1
  <2> HIDE DEF Q
  <2>3. Mean(c[0], Q(0))
    BY <2>1, <2>2, MeanNone
  <2> QED
    BY <2>1, <2>3
<1>6. ASSUME NEW i \in 1 .. n, i - 1 \in T PROVE i \in T
  <2>1. i \in 0 .. n /\ i # 0 /\ i \in Nat /\ i - 1 \in 0 .. n /\ i \in DOMAIN entries
    BY <1>3
  <2>2. PICK a, e, R : a = c[i - 1] /\ e = entries[i] /\ R = Q(i - 1)
    OBVIOUS
  <2>3. /\ a \in Seq(Words) /\ Mean(a, R) /\ c[i] = a \o ArgsOf(e, withSystem)
        /\ \A q \in R : q \in Nat /\ q < i
    <3>1. \A q \in R : q \in Nat /\ q <= i - 1
      BY <1>4, <2>2
    <3>2. Mean(a, R)
      BY <1>6, <2>2
    <3>3. a \in Seq(Words)
      BY <2>1, <2>2
    <3>4. c[i] = a \o ArgsOf(e, withSystem)
      BY <1>2, <2>1, <2>2
    <3>5. \A q \in R : q \in Nat /\ q < i
      BY <2>1, <3>1
    <3> HIDE DEF Q
    <3> QED
      BY <3>2, <3>3, <3>4, <3>5
  <2>4. /\ e \in EntryType /\ (e.framework => e.group = "Angled")
        /\ e.path # <<>> /\ e.path[1] \notin FlagWords
    BY <1>3, <2>1, <2>2 DEF EntriesReadable
  <2>5. CASE withSystem \/ ~IsSystem(e)
    <3>1. Mean(a \o ArgsOf(e, withSystem), R \cup {i})
      BY <2>1, <2>2, <2>3, <2>4, <2>5, MeanOneMore
    <3>2. i \in Taking(withSystem)
      BY <2>1, <2>2, <2>5 DEF Taking
    <3>3. Q(i) = R \cup {i}
      <4>1. ASSUME NEW q \in Taking(withSystem) PROVE q <= i <=> q <= i - 1 \/ q = i
        BY <1>4, <2>1
      <4> QED
        BY <2>1, <2>2, <3>2, <4>1
    <3> HIDE DEF Q
    <3> QED
      BY <2>1, <2>3, <3>1, <3>3
  <2>6. CASE ~(withSystem \/ ~IsSystem(e))
    <3>1. c[i] = a
      <4>1. ArgsOf(e, withSystem) = <<>>
        BY <2>6 DEF ArgsOf
      <4>2. PICK X : X = Words
        OBVIOUS
      <4>3. a \in Seq(X)
        BY <2>3, <4>2
      <4>4. a \o <<>> = a
        BY <4>3
      <4> QED
        BY <2>3, <4>1, <4>4
    <3>2. i \notin Taking(withSystem)
      BY <2>2, <2>6 DEF Taking
    <3>3. Q(i) = R
      <4>1. ASSUME NEW q \in Taking(withSystem) PROVE q <= i <=> q <= i - 1
        <5>1. q # i
          BY <3>2
        <5> QED
          BY <1>4, <2>1, <5>1
      <4> QED
        BY <2>2, <4>1
    <3> HIDE DEF Q
    <3> QED
      BY <2>1, <2>3, <3>1, <3>3
  <2> QED
    BY <2>5, <2>6
<1> HIDE DEF T
<1>7. n \in T
  <2>1. \A i \in 0 .. n : i \in T
    BY <1>3, <1>5, <1>6, UpInduction
  <2>2. n \in 0 .. n
    BY <1>3
  <2> QED
    BY <2>1, <2>2
<1>8. Mean(c[n], Q(n)) /\ Q(n) = Taking(withSystem)
  <2>1. Mean(c[n], Q(n))
    BY <1>7 DEF T
  <2>2. Q(n) = Taking(withSystem)
    BY <1>3, <1>4
  <2> HIDE DEF Q
  <2> QED
    BY <2>1, <2>2
<1>9. c[n] \in Seq(Words)
  BY <1>2, <1>3
<1>10. PICK args : args = c[n]
  OBVIOUS
<1>11. DOMAIN args = 1 .. Len(args)
  <2>1. PICK X : X = Words
    OBVIOUS
  <2>2. args \in Seq(X)
    BY <1>9, <1>10, <2>1
  <2> QED
    BY <2>2
<1>12. PathPlaces(args) = {i \in DOMAIN args : args[i][1] \notin FlagWords}
  BY <1>11 DEF PathPlaces
<1>13. Mean(args, Taking(withSystem))
  <2> HIDE DEF Q
  <2> QED
    BY <1>8, <1>10
<1>14. MeansEntries(args, Taking(withSystem))
  <2>1. PICK f \in [Taking(withSystem) -> PathPlaces(args)] :
          /\ Ascends(f, PathPlaces(args))
          /\ \A k \in Taking(withSystem) : ReadEntry(args, f[k]) = entries[k]
    BY <1>13 DEF Mean
  <2> QED
    BY <1>12, <2>1 DEF MeansEntries
<1> QED
  BY <1>2, <1>10, <1>14

\* AddIncludePaths adds paths that can be read.
LEMMA AddedReadable ==
    ASSUME IInv, PathsAreNoFlags, EntriesReadable, AddIncludePaths
    PROVE  EntriesReadable'
<1>1. call = "add"
  BY DEF AddIncludePaths
<1>2. PICK new : /\ new \in Seq(Seq(STRING))
                 /\ Picks(new, paths, {i \in DOMAIN paths : Unknown(paths[i])})
                 /\ Len(entries') = Len(entries) + Len(new)
                 /\ \A i \in 1 .. Len(entries) : entries'[i] = entries[i]
                 /\ \A i \in 1 .. Len(new) :
                      entries'[Len(entries) + i] = Entry(new[i], "Angled", FALSE)
  BY AddedEntries DEF IInv
<1>3. PICK l, n : l = Len(entries) /\ n = Len(new)
  OBVIOUS
<1>4. /\ l \in Nat /\ n \in Nat /\ DOMAIN new = 1 .. n /\ DOMAIN entries = 1 .. l
      /\ DOMAIN entries' = 1 .. l + n
  <2>1. entries' \in Seq(EntryType)
    BY AddedEntries DEF IInv
  <2>2. DOMAIN entries' = 1 .. Len(entries')
    BY <2>1
  <2> QED
    BY <1>2, <1>3, <2>2 DEF IInv, Types
<1>5. ASSUME NEW k \in DOMAIN paths PROVE paths[k] # <<>> /\ paths[k][1] \notin FlagWords
  <2>1. /\ input \in Seq(STRING) /\ input \in IncludeLists
        /\ \E i \in Starts(input) : paths[k] = ComponentAt(input, i)
    BY <1>1, PathsFound
  <2>2. PICK i \in Starts(input) : paths[k] = ComponentAt(input, i)
    BY <2>1
  <2>3. paths[k] # <<>> /\ paths[k][1] = input[i]
    BY <2>1, <2>2, ComponentHead
  <2>4. i \in DOMAIN input
    BY <2>1 DEF Starts
  <2> QED
    BY <2>1, <2>3, <2>4 DEF PathsAreNoFlags
<1>6. ASSUME NEW k \in 1 .. n PROVE new[k] # <<>> /\ new[k][1] \notin FlagWords
  <2>1. PICK P : P = {i \in DOMAIN paths : Unknown(paths[i])}
    OBVIOUS
  <2>2. PICK f \in [1 .. n -> P] : \A i \in 1 .. n : new[i] = paths[f[i]]
    BY <1>2, <1>4, <2>1 DEF Picks
  <2>3. f[k] \in P
    BY <2>2
  <2>4. f[k] \in DOMAIN paths
    BY <2>1, <2>3
  <2> QED
    BY <1>5, <2>2, <2>4
<1>7. ASSUME NEW i \in 1 .. l + n
      PROVE  /\ entries'[i].path # <<>> /\ entries'[i].path[1] \notin FlagWords
             /\ entries'[i].framework => entries'[i].group = "Angled"
  <2>1. CASE i <= l
    <3>1. i \in 1 .. l
      BY <1>4, <2>1
    <3>2. entries'[i] = entries[i]
      BY <1>2, <1>3, <3>1
    <3> QED
      BY <1>4, <3>1, <3>2 DEF EntriesReadable
  <2>2. CASE ~(i <= l)
    <3>1. PICK k : k = i - l
      OBVIOUS
    <3>2. k \in 1 .. n /\ i = l + k
      BY <1>4, <2>2, <3>1
    <3>3. entries'[i] = Entry(new[k], "Angled", FALSE)
      BY <1>2, <1>3, <3>2
    <3>4. entries'[i].path = new[k] /\ entries'[i].framework = FALSE
      BY <3>3 DEF Entry
    <3> QED
      BY <1>6, <3>2, <3>4
  <2> QED
    BY <2>1, <2>2
<1> QED
  BY <1>4, <1>7 DEF EntriesReadable

\* The arguments that CopyIncludePaths makes mean the entries to the compiler
\* that reads them, whatever entries have come together, unless a path begins
\* like a flag.
THEOREM CopiesMeanTheSame ==
    PathsAreNoFlags => (Spec => []CopyMeansTheSame)
<1> SUFFICES ASSUME PathsAreNoFlags PROVE Spec => []CopyMeansTheSame
  OBVIOUS
<1>1. ASSUME Init PROVE EntriesReadable
  <2>1. CASE entries = <<>>
    <3>1. DOMAIN entries = {}
      BY <2>1
    <3> QED
      BY <3>1 DEF EntriesReadable
  <2>2. CASE \E e \in Preset : entries = <<e>>
    <3>1. PICK e \in Preset : entries = <<e>>
      BY <2>2
    <3>2. /\ e.path # <<>> /\ e.path[1] \notin FlagWords
          /\ e.framework => e.group = "Angled"
      BY PathsAssumption DEF PathsAreNoFlags
    <3>3. \A i \in DOMAIN entries : entries[i] = e
      BY <3>1
    <3> QED
      BY <3>2, <3>3 DEF EntriesReadable
  <2> QED
    BY <1>1, <2>1, <2>2 DEF Init
<1>2. ASSUME IInv, EntriesReadable, [Next]_vars PROVE EntriesReadable'
  <2>1. CASE AddIncludePaths
    BY <1>2, <2>1, AddedReadable
  <2>2. CASE ~AddIncludePaths
    <3>1. entries' = entries
      BY <1>2, <2>2 DEF Next, Step, Plain, Include, Forget, ExpandStep, ExpandReturn, SplitStep,
         LogStep, SplitLast, CallExpand, CallSplit, CallGetSystemLibraryPaths, LookForFile,
         CallAddIncludePaths, SplitStart, vars
    <3> QED
      BY <1>2, <3>1 DEF EntriesReadable
  <2> QED
    BY <2>1, <2>2
<1>3. ASSUME IInv, EntriesReadable PROVE CopyMeansTheSame
  <2>1. entries \in Seq(EntryType)
    BY <1>3 DEF IInv, Types
  <2>2. Taking(TRUE) = DOMAIN entries
    BY DEF Taking
  <2>3. Taking(FALSE) = {i \in DOMAIN entries : ~IsSystem(entries[i])}
    BY DEF Taking
  <2>4. /\ MeansEntries(CopyIncludePaths(TRUE, TRUE), Taking(TRUE))
        /\ MeansEntries(CopyIncludePaths(FALSE, TRUE), Taking(FALSE))
    BY <1>3, <2>1, CopyMeans
  <2> QED
    BY <2>2, <2>3, <2>4 DEF CopyMeansTheSame
<1>4. Spec => []EntriesReadable
  <2>1. Init => EntriesReadable
    BY <1>1
  <2>2. IInv /\ EntriesReadable /\ [Next]_vars => EntriesReadable'
    BY <1>2
  <2> QED
    BY <2>1, <2>2, Inductive, PTL DEF Spec
<1>5. IInv /\ EntriesReadable => CopyMeansTheSame
  BY <1>3
<1> QED
  BY <1>4, <1>5, Inductive, PTL

-----------------------------------------------------------------------------
(* LookForFile.                                                            *)

LEMMA JoinNotEmpty ==
    ASSUME NEW dir \in Seq(STRING), NEW p \in Seq(STRING), p # <<>>
    PROVE  Join(dir, p) # <<>>
<1>1. PICK sl, X : sl = "/" /\ X = STRING \cup {sl}
  OBVIOUS
<1>2. ASSUME NEW a \in Seq(X), NEW b \in Seq(X), a # <<>> PROVE a \o b # <<>>
  <2>1. PICK both : both = a \o b
    OBVIOUS
  <2>2. Len(both) = Len(a) + Len(b)
    BY <2>1, JoinedAt
  <2>3. Len(a) \in Nat /\ Len(b) \in Nat /\ Len(a) # 0
    BY <1>2
  <2>4. Len(both) # 0
    BY <2>2, <2>3
  <2>5. both # <<>>
    BY <2>4
  <2> QED
    BY <2>1, <2>5
<1>3. dir \in Seq(X) /\ p \in Seq(X) /\ Tail(p) \in Seq(X) /\ <<sl>> \in Seq(X)
  <2>1. Tail(p) \in Seq(STRING) /\ sl \in X
    BY <1>1
  <2>2. \A s \in Seq(STRING) : s \in Seq(X)
    BY <1>1
  <2>3. <<sl>> \in Seq(X)
    BY <2>1
  <2> QED
    BY <2>1, <2>2, <2>3
<1>4. CASE dir # <<>>
  <2>1. dir \o Tail(p) # <<>> /\ dir \o p # <<>> /\ dir \o <<sl>> # <<>>
    BY <1>2, <1>3, <1>4
  <2>2. dir \o <<sl>> \in Seq(X)
    BY <1>3
  <2>3. (dir \o <<sl>>) \o p # <<>>
    BY <1>2, <1>3, <2>1, <2>2
  <2> QED
    BY <1>1, <1>4, <2>1, <2>3 DEF Join
<1> QED
  BY <1>4 DEF Join

IsBare(arg) == arg = <<"-I">>

LEMMA BareIs ==
    ASSUME NEW arg \in Seq(STRING)
    PROVE  /\ IsBare(arg) <=> IsInclude(arg) /\ Len(arg) = 1
           /\ IsInclude(arg) /\ ~IsBare(arg) <=> IsInclude(arg) /\ Len(arg) > 1
<1>1. PICK d : d = "-I"
  OBVIOUS
<1>2. Len(arg) \in Nat /\ (arg # <<>> => Len(arg) # 0)
  OBVIOUS
<1>3. ASSUME arg = <<d>> PROVE arg # <<>> /\ Len(arg) = 1 /\ arg[1] = d
  BY <1>3
<1>4. ASSUME Len(arg) = 1, arg[1] = d PROVE arg = <<d>>
  <2>1. PICK u : u = <<d>>
    OBVIOUS
  <2>2. d \in STRING
    <3>1. 1 \in 1 .. Len(arg)
      BY <1>4
    <3> QED
      BY <1>4, <3>1
  <2>3. u \in Seq(STRING) /\ Len(u) = 1 /\ u[1] = d
    <3>1. PICK X : X = STRING
      OBVIOUS
    <3>2. d \in X
      BY <2>2, <3>1
    <3>3. u \in Seq(X)
      BY <2>1, <3>2
    <3> QED
      BY <2>1, <3>1, <3>3
  <2>4. \A i \in 1 .. Len(arg) : arg[i] = u[i]
    BY <1>4, <2>3
  <2>5. arg = u
    BY <1>4, <2>3, <2>4, SeqEqual
  <2> QED
    BY <2>1, <2>5
<1>5. IsInclude(arg) <=> arg # <<>> /\ arg[1] = d
  BY <1>1 DEF IsInclude
<1>6. IsBare(arg) <=> arg = <<d>>
  BY <1>1 DEF IsBare
<1>7. IsBare(arg) <=> IsInclude(arg) /\ Len(arg) = 1
  BY <1>3, <1>4, <1>5, <1>6
<1>8. IsInclude(arg) => Len(arg) = 1 \/ Len(arg) > 1
  <2>1. PICK l : l = Len(arg)
    OBVIOUS
  <2>2. IsInclude(arg) => l \in Nat /\ l # 0
    BY <1>2, <1>5, <2>1
  <2>3. l \in Nat /\ l # 0 => l = 1 \/ l > 1
    OBVIOUS
  <2> QED
    BY <2>1, <2>2, <2>3
<1>9. Len(arg) = 1 => ~(Len(arg) > 1)
  OBVIOUS
<1> QED
  BY <1>7, <1>8, <1>9

\* op tells which of the arguments are the directories of a bare -I.
Operands(op, args) ==
    \A i \in 0 .. Len(args) :
      op[i] = IF i <= 1 THEN FALSE ELSE IsBare(args[i - 1]) /\ ~op[i - 1]

\* The directory that the i-th argument names, and that it does so.
DirOf(op, args, i) == IF op[i] THEN args[i] ELSE Tail(args[i])

NamesDir(op, args, i) == op[i] \/ (IsInclude(args[i]) /\ ~IsBare(args[i]))

Hits(op, args, p, files) ==
    {i \in DOMAIN args : NamesDir(op, args, i) /\ Join(DirOf(op, args, i), p) \in files}

LEMMA OperandsExist ==
    ASSUME NEW args \in Seq(Seq(STRING))
    PROVE  \E op \in [0 .. Len(args) -> BOOLEAN] : Operands(op, args)
<1>1. PICK n, bare : /\ n = Len(args)
                     /\ bare = [i \in 0 .. n |-> IF IsBare(args[i]) THEN TRUE ELSE FALSE]
  OBVIOUS
<1>2. n \in Nat
  BY <1>1
<1> DEFINE g == [i \in 1 .. n |-> [t \in BOOLEAN |->
                   IF i > 1 /\ bare[i - 1] = TRUE /\ t = FALSE THEN TRUE ELSE FALSE]]
<1>3. g \in [1 .. n -> [BOOLEAN -> BOOLEAN]]
  OBVIOUS
<1>4. PICK f \in [0 .. n -> BOOLEAN] : Folds(f, n, FALSE, g)
  <2>1. PICK B, no : B = BOOLEAN /\ no = FALSE
    OBVIOUS
  <2> HIDE DEF g
  <2>2. g \in [1 .. n -> [B -> B]] /\ no \in B
    BY <1>3, <2>1
  <2>3. \E f \in [0 .. n -> B] : Folds(f, n, no, g)
    BY <1>2, <2>2, FoldExists
  <2> QED
    BY <2>1, <2>3
<1>5. \A i \in 0 .. n : f[i] = IF i = 0 THEN FALSE ELSE g[i][f[i - 1]]
  BY <1>4 DEF Folds
<1>6. ASSUME NEW i \in 0 .. n
      PROVE  f[i] = TRUE <=> i > 1 /\ IsBare(args[i - 1]) /\ f[i - 1] = FALSE
  <2>1. CASE i = 0
    <3>0. i \in 0 .. n
      OBVIOUS
    <3>1. ~(i > 1) /\ f[i] = FALSE
      <4>1. ~(i > 1)
        BY <2>1
      <4>2. f[i] = FALSE
        <5> HIDE DEF g
        <5> QED
          BY <1>5, <2>1, <3>0
      <4> QED
        BY <4>1, <4>2
    <3>2. f[i] # TRUE
      BY <3>1
    <3> QED
      BY <3>1, <3>2
  <2>2. CASE i # 0
    <3>1. i \in 1 .. n /\ i - 1 \in 0 .. n
      BY <1>2, <2>2
    <3>2. f[i - 1] \in BOOLEAN
      BY <3>1
    <3>3. f[i] = IF i > 1 /\ bare[i - 1] = TRUE /\ f[i - 1] = FALSE THEN TRUE ELSE FALSE
      BY <1>5, <2>2, <3>1, <3>2
    <3>4. bare[i - 1] = TRUE <=> IsBare(args[i - 1])
      BY <1>1, <3>1
    <3> QED
      BY <3>3, <3>4
  <2> QED
    BY <2>1, <2>2
<1>7. ASSUME NEW i \in 0 .. n
      PROVE  f[i] = IF i <= 1 THEN FALSE ELSE IsBare(args[i - 1]) /\ ~f[i - 1]
  <2>1. f[i] \in BOOLEAN /\ (i > 1 <=> ~(i <= 1)) /\ (i > 1 => f[i - 1] \in BOOLEAN)
    <3>1. i > 1 => i - 1 \in 0 .. n
      BY <1>2
    <3> QED
      BY <1>2, <3>1
  <2>2. CASE i <= 1
    BY <1>6, <2>1, <2>2
  <2>3. CASE ~(i <= 1)
    <3>1. PICK a, b, c : /\ a = f[i] /\ b = f[i - 1]
                         /\ c = IF IsBare(args[i - 1]) THEN TRUE ELSE FALSE
      OBVIOUS
    <3>2. a \in BOOLEAN /\ b \in BOOLEAN /\ c \in BOOLEAN
      BY <2>1, <2>3, <3>1
    <3>3. a = TRUE <=> c = TRUE /\ b = FALSE
      BY <1>6, <2>1, <2>3, <3>1
    <3>4. IsBare(args[i - 1]) <=> c
      BY <3>1
    <3>5. f[i] <=> (IsBare(args[i - 1]) /\ ~f[i - 1])
      BY <3>1, <3>2, <3>3, <3>4
    <3>6. f[i] = (IsBare(args[i - 1]) /\ ~f[i - 1])
      BY <2>1, <3>5, Zenon
    <3> QED
      BY <2>3, <3>6
  <2> QED
    BY <2>2, <2>3
<1> QED
  BY <1>1, <1>4, <1>7 DEF Operands

LEMMA OperandIs ==
    ASSUME NEW args \in Seq(Seq(STRING)), NEW op, Operands(op, args), NEW i \in 1 .. Len(args)
    PROVE  op[i] <=> i # 1 /\ IsBare(args[i - 1]) /\ ~op[i - 1]
<1>1. i \in 0 .. Len(args) /\ (i <= 1 <=> i = 1)
  OBVIOUS
<1>2. op[i] = IF i <= 1 THEN FALSE ELSE IsBare(args[i - 1]) /\ ~op[i - 1]
  BY <1>1 DEF Operands
<1>3. CASE i = 1
  BY <1>1, <1>2, <1>3
<1>4. CASE i # 1
  <2>1. op[i] = (IsBare(args[i - 1]) /\ ~op[i - 1])
    BY <1>1, <1>2, <1>4
  <2> QED
    BY <1>4, <2>1, Zenon
<1> QED
  BY <1>3, <1>4

\* What the turn at an argument finds that is no operand: the first hit from
\* there on, or nothing before the next turn.
LEMMA TurnLooks ==
    ASSUME NEW args \in Seq(Seq(STRING)), NEW p, NEW files, NEW op, Operands(op, args),
           NEW q \in 1 .. Len(args), ~op[q],
           NEW H, H = Hits(op, args, p, files)
    PROVE  /\ Finds(args, p, files, q) =>
                \E i \in H : /\ q <= i /\ (\A j \in H : q <= j => i <= j)
                             /\ SearchDir(args, q) = DirOf(op, args, i)
           /\ ~Finds(args, p, files, q) => \A j \in H : q <= j => NextArg(args, q) <= j
           /\ NextArg(args, q) \in q + 1 .. Len(args) + 2
           /\ NextArg(args, q) <= Len(args) => ~op[NextArg(args, q)]
<1>1. PICK n : n = Len(args)
  OBVIOUS
<1>2. n \in Nat /\ DOMAIN args = 1 .. n /\ q \in 1 .. n /\ \A i \in 1 .. n : args[i] \in Seq(STRING)
  BY <1>1
<1>3. \A j \in H : j \in 1 .. n
  BY <1>2 DEF Hits
<1>4. args[q] \in Seq(STRING)
  BY <1>2
<1>5. /\ IsBare(args[q]) <=> IsInclude(args[q]) /\ Len(args[q]) = 1
      /\ IsInclude(args[q]) /\ ~IsBare(args[q]) <=> IsInclude(args[q]) /\ Len(args[q]) > 1
  BY <1>4, BareIs
<1>6. \A i \in 1 .. n : op[i] <=> i # 1 /\ IsBare(args[i - 1]) /\ ~op[i - 1]
  BY <1>1, OperandIs
<1>7. NextArg(args, q) = IF IsBare(args[q]) THEN q + 2 ELSE q + 1
  BY <1>5 DEF NextArg
<1>8. q + 1 <= n => (op[q + 1] <=> IsBare(args[q]))
  <2>1. SUFFICES ASSUME q + 1 <= n PROVE op[q + 1] <=> IsBare(args[q])
    OBVIOUS
  <2>2. PICK r : r = q + 1
    OBVIOUS
  <2>3. r \in 1 .. n /\ r # 1 /\ r - 1 = q
    BY <1>2, <2>1, <2>2
  <2>4. op[r] <=> IsBare(args[q]) /\ ~op[q]
    BY <1>6, <2>3
  <2> QED
    BY <2>2, <2>4
<1>9. IsBare(args[q]) /\ q + 2 <= n => ~op[q + 2]
  <2>1. SUFFICES ASSUME IsBare(args[q]), q + 2 <= n PROVE ~op[q + 2]
    OBVIOUS
  <2>2. PICK r : r = q + 2
    OBVIOUS
  <2>3. r \in 1 .. n /\ r - 1 = q + 1 /\ q + 1 <= n
    BY <1>2, <2>1, <2>2
  <2>4. op[r] => ~op[q + 1]
    BY <1>6, <2>3
  <2> QED
    BY <1>8, <2>1, <2>2, <2>3, <2>4
<1>10. CASE IsBare(args[q])
  <2>1. PICK h : h = q + 1
    OBVIOUS
  <2>2. IsInclude(args[q]) /\ ~(Len(args[q]) > 1)
    BY <1>5, <1>10
  <2>3. SearchDir(args, q) = args[h]
    BY <2>1, <2>2 DEF SearchDir
  <2>4. Finds(args, p, files, q) <=> q < n /\ Join(args[h], p) \in files
    BY <1>1, <2>2, <2>3 DEF Finds
  <2>5. q \notin H
    BY <1>10 DEF Hits, NamesDir
  <2>6. h <= n => op[h]
    BY <1>8, <1>10, <2>1
  <2>7. h <= n => DirOf(op, args, h) = args[h]
    BY <2>6 DEF DirOf
  <2>8. h \in H <=> h <= n /\ Join(args[h], p) \in files
    <3>1. h <= n <=> h \in DOMAIN args
      BY <1>2, <2>1
    <3> QED
      BY <2>6, <2>7, <3>1 DEF Hits, NamesDir
  <2>9. \A j \in H : q <= j => h <= j
    <3>1. ASSUME NEW j \in H, q <= j PROVE h <= j
      <4>1. j \in 1 .. n /\ j # q
        BY <1>3, <2>5
      <4> QED
        BY <1>2, <2>1, <3>1, <4>1
    <3> QED
      BY <3>1
  <2>10. q < n <=> h <= n
    BY <1>2, <2>1
  <2>11. ASSUME Finds(args, p, files, q)
         PROVE  \E i \in H : /\ q <= i /\ (\A j \in H : q <= j => i <= j)
                             /\ SearchDir(args, q) = DirOf(op, args, i)
    <3>1. h \in H /\ h <= n /\ q <= h
      BY <1>2, <2>1, <2>4, <2>8, <2>10, <2>11
    <3> QED
      BY <2>3, <2>7, <2>9, <3>1
  <2>12. ASSUME ~Finds(args, p, files, q), NEW j \in H, q <= j PROVE q + 2 <= j
    <3>1. h \notin H
      BY <2>4, <2>8, <2>10, <2>12
    <3>2. h <= j /\ j # h /\ j \in 1 .. n
      BY <1>3, <2>9, <2>12, <3>1
    <3> QED
      BY <1>2, <2>1, <3>2
  <2>13. NextArg(args, q) = q + 2 /\ q + 2 \in q + 1 .. Len(args) + 2
    BY <1>1, <1>2, <1>7, <1>10
  <2>14. q + 2 <= Len(args) => ~op[q + 2]
    BY <1>1, <1>9, <1>10
  <2> QED
    BY <2>11, <2>12, <2>13, <2>14
<1>11. CASE ~IsBare(args[q])
  <2>1. DirOf(op, args, q) = Tail(args[q])
    BY DEF DirOf
  <2>2. NamesDir(op, args, q) <=> IsInclude(args[q])
    BY <1>11 DEF NamesDir
  <2>3. IsInclude(args[q]) => Len(args[q]) > 1 /\ SearchDir(args, q) = Tail(args[q])
    BY <1>5, <1>11 DEF SearchDir
  <2>4. Finds(args, p, files, q) <=> q \in H
    BY <1>2, <2>1, <2>2, <2>3 DEF Finds, Hits
  <2>5. ASSUME Finds(args, p, files, q)
        PROVE  \E i \in H : /\ q <= i /\ (\A j \in H : q <= j => i <= j)
                            /\ SearchDir(args, q) = DirOf(op, args, i)
    <3>1. q \in H /\ q <= q
      BY <1>2, <2>4, <2>5
    <3>2. SearchDir(args, q) = DirOf(op, args, q)
      BY <2>1, <2>3, <2>5 DEF Finds
    <3> QED
      BY <3>1, <3>2
  <2>6. ASSUME ~Finds(args, p, files, q), NEW j \in H, q <= j PROVE q + 1 <= j
    <3>1. j # q /\ j \in 1 .. n
      BY <1>3, <2>4, <2>6
    <3> QED
      BY <1>2, <2>6, <3>1
  <2>7. NextArg(args, q) = q + 1 /\ q + 1 \in q + 1 .. Len(args) + 2
    BY <1>1, <1>2, <1>7, <1>11
  <2>8. q + 1 <= Len(args) => ~op[q + 1]
    BY <1>1, <1>8, <1>11
  <2> QED
    BY <2>5, <2>6, <2>7, <2>8
<1> QED
  BY <1>10, <1>11

\* From a turn at an argument that is no operand, the loop leads to the first
\* hit from there on.
LEMMA LoopFindsFirst ==
    ASSUME NEW args \in Seq(Seq(STRING)), NEW p, NEW files, NEW op, Operands(op, args),
           NEW H, H = Hits(op, args, p, files)
    PROVE  \/ LastTurn(args, p, files) > Len(args) /\ H = {}
           \/ /\ LastTurn(args, p, files) \in 1 .. Len(args)
              /\ \E i \in H : /\ \A j \in H : i <= j
                              /\ SearchDir(args, LastTurn(args, p, files)) = DirOf(op, args, i)
<1> DEFINE n == Len(args)
           Solves(f) == f = [i \in 1 .. Len(args) + 2 |->
                               IF i > Len(args) \/ Finds(args, p, files, i) THEN i
                               ELSE f[NextArg(args, i)]]
           last == CHOOSE f : Solves(f)
           Stop == {q \in 1 .. n + 2 : q > n \/ Finds(args, p, files, q)}
           next == [q \in 1 .. n + 2 |-> NextArg(args, q)]
<1>1. LastTurn(args, p, files) = last[1]
  BY DEF LastTurn
<1>2. n \in Nat /\ n + 2 \in Nat /\ \A j \in H : j \in 1 .. n
  BY DEF Hits
<1>3. ASSUME NEW q \in 1 .. n PROVE NextArg(args, q) \in q + 1 .. n + 2
  <2>1. NextArg(args, q) = q + 2 \/ NextArg(args, q) = q + 1
    BY DEF NextArg
  <2> HIDE DEF n
  <2> QED
    BY <1>2, <2>1
<1>4. \E f : Solves(f)
  <2>1. \A q \in 1 .. n + 2 : q \in Stop \/ next[q] \in q + 1 .. n + 2
    <3>1. \A q \in 1 .. n + 2 : q > n \/ q \in 1 .. n
      BY <1>2
    <3> HIDE DEF n
    <3> QED
      BY <1>3, <3>1
  <2>2. PICK f : Loop(f, n + 2, Stop, next)
    <3> HIDE DEF n, Stop, next
    <3> QED
      BY <1>2, <2>1, LoopExists
  <2>3. f = [q \in 1 .. n + 2 |-> IF q \in Stop THEN q ELSE f[next[q]]]
    BY <2>2 DEF Loop
  <2>4. \A q \in 1 .. n + 2 : f[q] = IF q > n \/ Finds(args, p, files, q) THEN q
                                     ELSE f[NextArg(args, q)]
    <3>1. \A q \in 1 .. n + 2 : q \in Stop <=> q > n \/ Finds(args, p, files, q)
      OBVIOUS
    <3>2. \A q \in 1 .. n + 2 : next[q] = NextArg(args, q)
      OBVIOUS
    <3> HIDE DEF n, Stop, next
    <3> QED
      BY <2>3, <3>1, <3>2
  <2>5. f = [q \in 1 .. n + 2 |-> f[q]]
    <3> HIDE DEF n, Stop, next
    <3> QED
      BY <2>3
  <2> QED
    BY <2>4, <2>5
<1>5. Solves(last)
  <2> HIDE DEF Solves
  <2> QED
    BY <1>4
<1>6. \A q \in 1 .. n + 2 : last[q] = IF q > n \/ Finds(args, p, files, q) THEN q
                                      ELSE last[NextArg(args, q)]
  <2> HIDE DEF last
  <2> QED
    BY <1>5
<1> DEFINE Leads(r, q) ==
             \/ r > n /\ \A j \in H : j < q
             \/ r \in 1 .. n /\ \E i \in H : /\ q <= i /\ (\A j \in H : q <= j => i <= j)
                                             /\ SearchDir(args, r) = DirOf(op, args, i)
           T == {q \in 1 .. n + 2 : (q <= n => ~op[q]) => Leads(last[q], q)}
<1>7. ASSUME NEW q \in 1 .. n + 2, \A r \in q + 1 .. n + 2 : r \in T PROVE q \in T
  <2>1. CASE q > n
    <3>1. last[q] = q
      BY <1>6, <2>1
    <3>2. \A j \in H : j < q
      <4> HIDE DEF n
      <4> QED
        BY <1>2, <2>1
    <3>3. Leads(last[q], q)
      <4> HIDE DEF last, n
      <4> QED
        BY <2>1, <3>1, <3>2
    <3> HIDE DEF Leads
    <3> QED
      BY <3>3
  <2>2. CASE ~(q > n) /\ op[q]
    <3>1. q <= n
      <4> HIDE DEF n
      <4> QED
        BY <1>2, <2>2
    <3> HIDE DEF n, last, Leads
    <3> QED
      BY <2>2, <3>1
  <2>3. CASE ~(q > n) /\ ~op[q]
    <3>1. q \in 1 .. n
      <4> HIDE DEF n
      <4> QED
        BY <1>2, <2>3
    <3>2. PICK x : x = NextArg(args, q)
      OBVIOUS
    <3>3. /\ Finds(args, p, files, q) =>
                \E i \in H : /\ q <= i /\ (\A j \in H : q <= j => i <= j)
                             /\ SearchDir(args, q) = DirOf(op, args, i)
          /\ ~Finds(args, p, files, q) => \A j \in H : q <= j => x <= j
          /\ x \in q + 1 .. n + 2
          /\ x <= n => ~op[x]
      BY <2>3, <3>1, <3>2, TurnLooks
    <3>4. CASE Finds(args, p, files, q)
      <4>1. last[q] = q
        BY <1>6, <3>4
      <4> HIDE DEF last, n
      <4> QED
        BY <3>1, <3>3, <3>4, <4>1
    <3>5. CASE ~Finds(args, p, files, q)
      <4>1. last[q] = last[x]
        BY <1>6, <2>3, <3>2, <3>5
      <4>2. PICK r : r = last[x]
        OBVIOUS
      <4> HIDE DEF last
      <4>3. Leads(r, x)
        <5>1. x \in T
          BY <1>7, <3>3
        <5> HIDE DEF Leads, n
        <5> QED
          BY <3>3, <4>2, <5>1
      <4>4. \A j \in H : (q <= j <=> x <= j) /\ (j < x => j < q)
        <5>1. ASSUME NEW j \in H PROVE (q <= j <=> x <= j) /\ (j < x => j < q)
          <6>1. j \in Nat /\ q \in Nat /\ x \in Nat /\ q < x
            <7> HIDE DEF n
            <7> QED
              BY <1>2, <3>1, <3>3
          <6>2. q <= j => x <= j
            BY <3>3, <3>5
          <6> QED
            BY <6>1, <6>2
        <5> QED
          BY <5>1
      <4> HIDE DEF n
      <4>5. Leads(r, q)
        <5>1. CASE r > n /\ \A j \in H : j < x
          BY <4>4, <5>1
        <5>2. CASE r \in 1 .. n /\ \E i \in H : /\ x <= i /\ (\A j \in H : x <= j => i <= j)
                                             /\ SearchDir(args, r) = DirOf(op, args, i)
          BY <4>4, <5>2
        <5> QED
          BY <4>3, <5>1, <5>2
      <4> HIDE DEF Leads
      <4> QED
        BY <4>1, <4>2, <4>5
    <3> QED
      BY <3>4, <3>5
  <2> QED
    BY <2>1, <2>2, <2>3
<1> HIDE DEF T
<1>8. \A q \in 1 .. n + 2 : q \in T
  <2> HIDE DEF n
  <2> QED
    BY <1>2, <1>7, DownInduction
<1>9. Leads(last[1], 1)
  <2>1. 1 \in 1 .. n + 2
    <3> HIDE DEF n
    <3> QED
      BY <1>2
  <2>2. 1 \in T
    BY <1>8, <2>1
  <2>3. 1 <= n => ~op[1]
    <3>1. 1 <= n => 1 \in 1 .. n
      <4> HIDE DEF n
      <4> QED
        BY <1>2
    <3> QED
      BY <3>1, OperandIs
  <2> HIDE DEF Leads, last, n
  <2> QED
    BY <2>2, <2>3 DEF T
<1>10. PICK r : r = last[1]
  OBVIOUS
<1> HIDE DEF last
<1>11. \A j \in H : 1 <= j /\ ~(j < 1)
  <2> HIDE DEF n
  <2> QED
    BY <1>2
<1>12. Leads(r, 1)
  <2> HIDE DEF Leads
  <2> QED
    BY <1>9, <1>10
<1>13. CASE r > n /\ \A j \in H : j < 1
  <2>1. H = {}
    BY <1>11, <1>13
  <2> QED
    BY <1>1, <1>10, <1>13, <2>1
<1>14. CASE r \in 1 .. n /\ \E i \in H : /\ 1 <= i /\ (\A j \in H : 1 <= j => i <= j)
                                         /\ SearchDir(args, r) = DirOf(op, args, i)
  BY <1>1, <1>10, <1>11, <1>14
<1> QED
  BY <1>12, <1>13, <1>14

\* What LookForFile has answered.
LookOK ==
    result.call = "look" =>
      /\ result.args \in ArgLists /\ result.path \in Names
      /\ LET found == FoundAt(result.args, result.path, result.fm, result.files)
         IN  /\ result.all = (found # <<>>)
             /\ result.value = IF found = <<>> THEN result.path ELSE found

LEMMA LookAnswer ==
    ASSUME NEW args \in ArgLists, NEW p \in Names, NEW fm \in BOOLEAN, NEW files,
           LookForFile(args, p, fm, files)
    PROVE  LookOK'
<1>1. PICK found : found = FoundAt(args, p, fm, files)
  OBVIOUS
<1>2. result' = [call |-> "look", args |-> args, path |-> p, fm |-> fm, files |-> files,
                 all |-> found # <<>>, value |-> IF found = <<>> THEN p ELSE found]
  BY <1>1 DEF LookForFile
<1>3. /\ result'.args = args /\ result'.path = p /\ result'.fm = fm /\ result'.files = files
      /\ result'.value = IF found = <<>> THEN p ELSE found
  BY <1>2
<1>4. result'.all = (found # <<>>)
  BY <1>2
<1> QED
  BY <1>1, <1>3, <1>4 DEF LookOK

\* The answer is the one that is promised.
LEMMA LookupFollows ==
    ASSUME LookOK
    PROVE  LookupIsRight
<1> SUFFICES ASSUME result.call = "look" PROVE LookupIsRight
  BY DEF LookupIsRight
<1> DEFINE Solves(f) == f = [i \in 0 .. Len(result.args) |->
                    IF i <= 1 THEN FALSE ELSE result.args[i - 1] = <<"-I">> /\ ~f[i - 1]]
           op == CHOOSE f : Solves(f)
           p == result.path
           H == Hits(op, result.args, p, result.files)
           In(i) == Join(DirOf(op, result.args, i), p)
           There(c) == result.all /\ result.value = c
           Right ==
             IF p \in result.files THEN There(p)
             ELSE IF ~result.fm /\ IsAbsolute(p) THEN ~result.all /\ result.value = p
             ELSE IF result.fm /\ Fixes(p) /\ Join(WorkingDir, p) \in result.files
               THEN There(Join(WorkingDir, p))
             ELSE IF H = {} THEN ~result.all /\ result.value = p
             ELSE \E i \in H : (\A j \in H : i <= j) /\ There(In(i))
<1>1. LookupIsRight <=> Right
  BY DEF LookupIsRight, Hits, NamesDir, DirOf, IsBare
<1>2. result.args \in Seq(Seq(STRING)) /\ p \in Seq(STRING) /\ p # <<>> /\ WorkingDir \in Seq(STRING)
  BY PathsAssumption DEF LookOK
<1>3. Operands(op, result.args)
  <2>1. \E f : Solves(f)
    <3>1. PICK f \in [0 .. Len(result.args) -> BOOLEAN] : Operands(f, result.args)
      BY <1>2, OperandsExist
    <3>2. f = [i \in 0 .. Len(result.args) |-> f[i]]
      OBVIOUS
    <3>3. \A i \in 0 .. Len(result.args) :
            f[i] = IF i <= 1 THEN FALSE ELSE result.args[i - 1] = <<"-I">> /\ ~f[i - 1]
      BY <3>1 DEF Operands, IsBare
    <3> QED
      BY <3>2, <3>3
  <2>2. Solves(op)
    <3> HIDE DEF Solves
    <3> QED
      BY <2>1
  <2> HIDE DEF op
  <2> QED
    BY <2>2 DEF Operands, IsBare
<1> HIDE DEF op
<1>4. PICK found : found = FoundAt(result.args, p, result.fm, result.files)
  OBVIOUS
<1>5. /\ found # <<>> => There(found)
      /\ found = <<>> => ~result.all /\ result.value = p
  <2>1. result.all = (found # <<>>) /\ result.value = IF found = <<>> THEN p ELSE found
    BY <1>4 DEF LookOK
  <2>2. result.value = IF found = <<>> THEN p ELSE found
    BY <2>1
  <2>3. result.all <=> found # <<>>
    BY <2>1
  <2> QED
    BY <2>2, <2>3
<1>6. PICK turn : turn = LastTurn(result.args, p, result.files)
  OBVIOUS
<1>7. found = IF p \in result.files THEN p
              ELSE IF result.fm /\ Fixes(p) /\ Join(WorkingDir, p) \in result.files
                THEN Join(WorkingDir, p)
              ELSE IF (~result.fm /\ IsAbsolute(p)) \/ turn > Len(result.args) THEN <<>>
              ELSE Join(SearchDir(result.args, turn), p)
  BY <1>4, <1>6 DEF FoundAt
<1>8. \/ turn > Len(result.args) /\ H = {}
      \/ /\ ~(turn > Len(result.args))
         /\ \E i \in H : /\ \A j \in H : i <= j
                         /\ SearchDir(result.args, turn) = DirOf(op, result.args, i)
  <2>1. PICK hits : hits = H
    OBVIOUS
  <2>2. \/ turn > Len(result.args) /\ hits = {}
        \/ /\ turn \in 1 .. Len(result.args)
           /\ \E i \in hits : /\ \A j \in hits : i <= j
                              /\ SearchDir(result.args, turn) = DirOf(op, result.args, i)
    BY <1>2, <1>3, <1>6, <2>1, LoopFindsFirst
  <2>3. turn \in 1 .. Len(result.args) => ~(turn > Len(result.args))
    BY <1>2
  <2> HIDE DEF H
  <2> QED
    BY <2>1, <2>2, <2>3
<1>9. Join(WorkingDir, p) # <<>>
  BY <1>2, JoinNotEmpty
<1>10. \A i \in H : In(i) # <<>>
  <2>1. ASSUME NEW i \in H PROVE In(i) # <<>>
    <3>1. i \in DOMAIN result.args /\ result.args[i] \in Seq(STRING)
      BY <1>2 DEF Hits
    <3>2. DirOf(op, result.args, i) \in Seq(STRING)
      <4>1. CASE op[i]
        BY <3>1, <4>1 DEF DirOf
      <4>2. CASE ~op[i]
        <5>1. result.args[i] # <<>>
          BY <4>2 DEF Hits, NamesDir, IsInclude
        <5>2. Tail(result.args[i]) \in Seq(STRING)
          <6>1. PICK s, X : s = result.args[i] /\ X = STRING
            OBVIOUS
          <6>2. s \in Seq(X) /\ s # <<>>
            BY <3>1, <5>1, <6>1
          <6>3. Tail(s) \in Seq(X)
            BY <6>2
          <6> QED
            BY <6>1, <6>3
        <5> QED
          BY <4>2, <5>2 DEF DirOf
      <4> QED
        BY <4>1, <4>2
    <3> QED
      BY <1>2, <3>2, JoinNotEmpty
  <2> QED
    BY <2>1
<1> HIDE DEF There
<1>11. Right
  <2>1. CASE p \in result.files
    BY <1>2, <1>5, <1>7, <2>1
  <2>2. CASE p \notin result.files /\ ~result.fm /\ IsAbsolute(p)
    <3>1. found = <<>>
      BY <1>7, <2>2
    <3> QED
      BY <1>5, <2>2, <3>1
  <2>3. CASE /\ p \notin result.files /\ ~(~result.fm /\ IsAbsolute(p))
             /\ result.fm /\ Fixes(p) /\ Join(WorkingDir, p) \in result.files
    <3>1. found = Join(WorkingDir, p)
      BY <1>7, <2>3
    <3> QED
      BY <1>5, <1>9, <2>3, <3>1
  <2>4. CASE /\ p \notin result.files /\ ~(~result.fm /\ IsAbsolute(p))
             /\ ~(result.fm /\ Fixes(p) /\ Join(WorkingDir, p) \in result.files)
    <3>1. CASE turn > Len(result.args) /\ H = {}
      <4>1. found = <<>>
        BY <1>7, <2>4, <3>1
      <4> QED
        BY <1>5, <2>4, <3>1, <4>1
    <3>2. CASE /\ ~(turn > Len(result.args))
               /\ \E i \in H : /\ \A j \in H : i <= j
                               /\ SearchDir(result.args, turn) = DirOf(op, result.args, i)
      <4>1. PICK i \in H : /\ \A j \in H : i <= j
                           /\ SearchDir(result.args, turn) = DirOf(op, result.args, i)
        BY <3>2
      <4>2. found = In(i)
        BY <1>7, <2>4, <3>2, <4>1
      <4>3. There(In(i)) /\ H # {}
        <5> HIDE DEF H, In
        <5> QED
          BY <1>5, <1>10, <4>1, <4>2
      <4> HIDE DEF H, In
      <4> QED
        BY <2>4, <4>1, <4>3
    <3> QED
      BY <1>8, <3>1, <3>2
  <2> HIDE DEF Right
  <2> QED
    BY <2>1, <2>2, <2>3, <2>4
<1> QED
  BY <1>1, <1>11

\* LookForFile finds what it promises, whatever arguments and files there are.
THEOREM LookupsAreRight == Spec => []LookupIsRight
<1>1. ASSUME Init PROVE LookOK
  <2>1. result.call = "none"
    BY <1>1 DEF Init, NoResult
  <2> QED
    BY <2>1 DEF LookOK
<1>2. ASSUME IInv, LookOK, [Next]_vars PROVE LookOK'
  <2>1. ASSUME result'.call # "look" PROVE LookOK'
    BY <2>1 DEF LookOK
  <2>2. ASSUME result' = result PROVE LookOK'
    BY <1>2, <2>2 DEF LookOK
  <2>3. CASE \E args \in ArgLists, p \in Names, fm \in BOOLEAN, files \in FileSets :
               LookForFile(args, p, fm, files)
    BY <2>3, LookAnswer
  <2>4. CASE \/ \E s \in Strings : CallExpand(s)
             \/ \E s \in Lists, md \in Mode : CallSplit(s, md)
             \/ \E out \in Outputs : CallGetSystemLibraryPaths(out)
             \/ Include
    <3>1. result' = result
      BY <2>4 DEF CallExpand, CallSplit, CallGetSystemLibraryPaths, Include,
         CallAddIncludePaths, SplitStart
    <3> QED
      BY <2>2, <3>1
  <2>5. CASE Forget
    <3>1. result'.call = "none"
      BY <2>5 DEF Forget, NoResult
    <3> QED
      BY <2>1, <3>1
  <2>6. CASE ExpandStep \/ AddIncludePaths \/ UNCHANGED vars
    <3>1. result' = result
      BY <2>6 DEF ExpandStep, AddIncludePaths, vars
    <3> QED
      BY <2>2, <3>1
  <2>7. CASE ExpandReturn
    <3>1. result'.call = "expand"
      BY <2>7 DEF ExpandReturn
    <3> QED
      BY <2>1, <3>1
  <2>8. ASSUME NEW found, NEW all, Return(found, all) PROVE LookOK'
    <3>1. CASE result' = result
      BY <2>2, <3>1
    <3>2. CASE result' # result
      <4>1. result'.call = IF call = "log" THEN "split" ELSE call
        BY <2>8, <3>2 DEF Return
      <4>2. call # "look"
        BY <1>2 DEF IInv, Types
      <4> QED
        BY <2>1, <4>1, <4>2
    <3> QED
      BY <3>1, <3>2
  <2>9. CASE SplitStep \/ LogStep \/ SplitLast
    <3>1. result' = result \/ \E found, all : Return(found, all)
      BY <2>9 DEF SplitStep, LogStep, SplitLast
    <3> QED
      BY <2>2, <2>8, <3>1
  <2> QED
    BY <1>2, <2>3, <2>4, <2>5, <2>6, <2>7, <2>9 DEF Next, Plain, Step
<1>3. Spec => []LookOK
  <2>1. Init => LookOK
    BY <1>1
  <2>2. IInv /\ LookOK /\ [Next]_vars => LookOK'
    BY <1>2
  <2> QED
    BY <2>1, <2>2, Inductive, PTL DEF Spec
<1>4. LookOK => LookupIsRight
  BY LookupFollows
<1> QED
  BY <1>3, <1>4, PTL

-----------------------------------------------------------------------------
(* ExpandEnvVars.                                                          *)

\* Nothing is found where c is not.
LEMMA FindSkip ==
    ASSUME NEW s \in Seq(STRING), NEW c, NEW i \in Nat \ {0}, NEW j \in Nat, i <= j,
           \A k \in i .. j - 1 : k <= Len(s) => s[k] # c
    PROVE  Find(c, s, i) = Find(c, s, j)
<1>1. PICK d : d = Find(c, s, j)
  OBVIOUS
<1>2. \/ d = 0 /\ \A k \in j .. Len(s) : s[k] # c
      \/ d \in Nat \ {0} /\ FirstPlace(c, s, j, d)
  BY <1>1, FindProperties
<1>3. Len(s) \in Nat
  OBVIOUS
<1>4. CASE d = 0
  <2>1. ASSUME NEW k \in i .. Len(s) PROVE s[k] # c
    <3>1. k \in i .. j - 1 \/ k \in j .. Len(s)
      BY <1>3
    <3> QED
      BY <1>2, <1>3, <1>4, <3>1 DEF FirstPlace
  <2>2. Find(c, s, i) = 0
    BY <2>1, FindNone
  <2> QED
    BY <1>1, <1>4, <2>2
<1>5. CASE d # 0
  <2>1. d \in j .. Len(s) /\ s[d] = c /\ \A k \in j .. d - 1 : s[k] # c
    BY <1>2, <1>5 DEF FirstPlace
  <2>2. ASSUME NEW k \in i .. d - 1 PROVE s[k] # c
    <3>1. (k \in i .. j - 1 /\ k <= Len(s)) \/ k \in j .. d - 1
      BY <1>3, <2>1
    <3> QED
      BY <2>1, <3>1
  <2>3. FirstPlace(c, s, i, d) /\ d \in Nat
    BY <1>3, <2>1, <2>2 DEF FirstPlace
  <2>4. Find(c, s, i) = d
    BY <2>3, FindIs
  <2> QED
    BY <1>1, <2>4
<1> QED
  BY <1>4, <1>5

\* A part of the rest is a part of the text.
LEMMA PartOfRest ==
    ASSUME NEW s \in Seq(STRING), NEW n \in Nat, NEW t, Rest(s, n, t),
           NEW i \in Nat \ {0}, NEW j \in Nat, j <= Len(t)
    PROVE  SubSeq(s, n + i, n + j) = SubSeq(t, i, j) /\ SubSeq(t, i, j) \in Seq(STRING)
<1>1. /\ n \in Nat /\ Len(s) \in Nat /\ n <= Len(s)
      /\ t \in Seq(STRING) /\ Len(t) = Len(s) - n
      /\ \A k \in 1 .. Len(s) - n : t[k] = s[n + k] /\ t[k] \in STRING
  BY RestProperties
<1>2. PICK a, b, x, y : a = SubSeq(s, x, y) /\ b = SubSeq(t, i, j) /\ x = n + i /\ y = n + j
  OBVIOUS
<1>3. x \in Int /\ y \in Int /\ (x <= y <=> i <= j) /\ y - x + 1 = j - i + 1
  BY <1>1, <1>2
<1>4. \A k \in i .. j : t[k] \in STRING
  <2>1. \A k \in i .. j : k \in 1 .. Len(s) - n
    BY <1>1
  <2> QED
    BY <1>1, <2>1
<1>5. \A k \in x .. y : s[k] \in STRING
  <2>1. \A k \in x .. y : k \in 1 .. Len(s)
    BY <1>1, <1>2
  <2> QED
    BY <2>1
<1>6. /\ a \in Seq(STRING) /\ Len(a) = IF x <= y THEN y - x + 1 ELSE 0
      /\ \A k \in 1 .. y - x + 1 : a[k] = s[x + k - 1]
  BY <1>2, <1>3, <1>5, SubSeqProperties
<1>7. /\ b \in Seq(STRING) /\ Len(b) = IF i <= j THEN j - i + 1 ELSE 0
      /\ \A k \in 1 .. j - i + 1 : b[k] = t[i + k - 1]
  BY <1>2, <1>4, SubSeqProperties
<1>8. ASSUME NEW k \in 1 .. Len(a) PROVE a[k] = b[k]
  <2>1. k \in 1 .. y - x + 1 /\ k \in 1 .. j - i + 1
    BY <1>3, <1>6
  <2>2. PICK m : m = i + k - 1
    OBVIOUS
  <2>3. m \in 1 .. Len(s) - n /\ n + m = x + k - 1
    BY <1>1, <1>2, <2>1, <2>2
  <2> QED
    BY <1>1, <1>6, <1>7, <2>1, <2>2, <2>3
<1>9. a = b
  BY <1>3, <1>6, <1>7, <1>8, SeqEqual
<1> QED
  BY <1>2, <1>7, <1>9

LEMMA PartIs ==
    ASSUME NEW s \in Seq(STRING), NEW x \in Nat \ {0}, NEW y \in Nat, y <= Len(s)
    PROVE  /\ SubSeq(s, x, y) \in Seq(STRING)
           /\ Len(SubSeq(s, x, y)) = IF x <= y THEN y - x + 1 ELSE 0
           /\ \A k \in 1 .. y - x + 1 : SubSeq(s, x, y)[k] = s[x + k - 1]
<1>1. \A k \in x .. y : s[k] \in STRING
  <2>1. \A k \in x .. y : k \in 1 .. Len(s)
    OBVIOUS
  <2> QED
    BY <2>1
<1> QED
  BY <1>1, SubSeqProperties

\* Two texts that are joined.
LEMMA RestOfJoined ==
    ASSUME NEW a \in Seq(STRING), NEW b \in Seq(STRING), NEW both, both = a \o b
    PROVE  /\ both \in Seq(STRING) /\ Len(both) = Len(a) + Len(b)
           /\ Rest(both, Len(a), b)
           /\ \A k \in 0 .. Len(b) : SubSeq(both, 1, Len(a) + k) = a \o SubSeq(b, 1, k)
<1>1. PICK l, m : l = Len(a) /\ m = Len(b)
  OBVIOUS
<1>2. /\ both \in Seq(STRING) /\ Len(both) = l + m
      /\ \A i \in 1 .. l : both[i] = a[i]
      /\ \A i \in 1 .. m : both[l + i] = b[i]
  BY <1>1, JoinedAt
<1>3. l \in Nat /\ m \in Nat
  BY <1>1
<1>4. ASSUME NEW x \in Nat \ {0}, NEW y \in Nat, y <= l + m
      PROVE  /\ SubSeq(both, x, y) \in Seq(STRING)
             /\ Len(SubSeq(both, x, y)) = IF x <= y THEN y - x + 1 ELSE 0
             /\ \A k \in 1 .. y - x + 1 : SubSeq(both, x, y)[k] = both[x + k - 1]
  <2>1. both \in Seq(STRING) /\ y <= Len(both)
    BY <1>2, <1>4
  <2> QED
    BY <2>1, PartIs
<1>5. b = SubSeq(both, l + 1, l + m)
  <2>1. PICK r : r = SubSeq(both, l + 1, l + m)
    OBVIOUS
  <2>2. l + 1 \in Nat \ {0} /\ l + m \in Nat /\ l + m <= l + m
    BY <1>3
  <2>3. /\ r \in Seq(STRING) /\ Len(r) = IF l + 1 <= l + m THEN (l + m) - (l + 1) + 1 ELSE 0
        /\ \A k \in 1 .. (l + m) - (l + 1) + 1 : r[k] = both[(l + 1) + k - 1]
    BY <1>4, <2>1, <2>2
  <2>4. Len(r) = m
    BY <1>3, <2>3
  <2>5. ASSUME NEW k \in 1 .. Len(r) PROVE r[k] = b[k]
    <3>1. k \in 1 .. m /\ k \in 1 .. (l + m) - (l + 1) + 1 /\ (l + 1) + k - 1 = l + k
      BY <1>3, <2>4
    <3> QED
      BY <1>2, <2>3, <3>1
  <2>6. r = b
    BY <1>1, <2>3, <2>4, <2>5, SeqEqual
  <2> QED
    BY <2>1, <2>6
<1>6. Rest(both, l, b)
  <2>1. l \in 0 .. Len(both)
    BY <1>2, <1>3
  <2>2. b = SubSeq(both, l + 1, Len(both))
    BY <1>2, <1>5
  <2> QED
    BY <2>1, <2>2 DEF Rest
<1>7. a = SubSeq(both, 1, l)
  <2>1. PICK r : r = SubSeq(both, 1, l)
    OBVIOUS
  <2>2. l <= l + m
    BY <1>3
  <2>3. /\ r \in Seq(STRING) /\ Len(r) = IF 1 <= l THEN l - 1 + 1 ELSE 0
        /\ \A k \in 1 .. l - 1 + 1 : r[k] = both[1 + k - 1]
    <3>1. PICK x : x = 1
      OBVIOUS
    <3>2. x \in Nat \ {0} /\ r = SubSeq(both, x, l)
      BY <2>1, <3>1
    <3>3. /\ r \in Seq(STRING) /\ Len(r) = IF x <= l THEN l - x + 1 ELSE 0
          /\ \A k \in 1 .. l - x + 1 : r[k] = both[x + k - 1]
      BY <1>3, <1>4, <2>2, <3>2
    <3> QED
      BY <3>1, <3>3
  <2>4. Len(r) = l
    BY <1>3, <2>3
  <2>5. ASSUME NEW k \in 1 .. Len(r) PROVE r[k] = a[k]
    <3>1. k \in 1 .. l /\ k \in 1 .. l - 1 + 1 /\ 1 + k - 1 = k
      BY <1>3, <2>4
    <3> QED
      BY <1>2, <2>3, <3>1
  <2>6. r = a
    BY <1>1, <2>3, <2>4, <2>5, SeqEqual
  <2> QED
    BY <2>1, <2>6
<1>8. ASSUME NEW k \in 0 .. m PROVE SubSeq(both, 1, l + k) = a \o SubSeq(b, 1, k)
  <2>1. SubSeq(both, l + 1, l + k) = SubSeq(b, 1, k)
    BY <1>1, <1>2, <1>3, <1>6, PartOfRest
  <2>2. l \in 0 .. l + m /\ l + k \in l .. l + m
    BY <1>3
  <2>3. SubSeq(both, 1, l) \o SubSeq(both, l + 1, l + k) = SubSeq(both, 1, l + k)
    <3>1. PICK x, y : x = 1 /\ y = l + k
      OBVIOUS
    <3>2. x \in 1 .. Len(both) + 1 /\ l \in x - 1 .. Len(both) /\ y \in l .. Len(both)
      BY <1>2, <1>3, <2>2, <3>1
    <3>3. SubSeq(both, x, l) \o SubSeq(both, l + 1, y) = SubSeq(both, x, y)
      BY <1>2, <3>2, ConcatAdjacentSubSeq
    <3> QED
      BY <3>1, <3>3
  <2> QED
    BY <1>7, <2>1, <2>3
<1> QED
  BY <1>1, <1>2, <1>6, <1>8

\* The i-th place stands in the text that a dollar sign names a variable by.
InName(in, i) == \E j \in 1..i : in[j] = "$" /\ \A k \in j..i : in[k] # "/"

NameFrom(in, i) ==
    LET slash == Find("/", in, i)
    IN  SubSeq(in, i + 1, IF slash = 0 THEN Len(in) ELSE slash - 1)

\* What comes for the i-th place, and for those up to it.
Piece(in, i) ==
    IF ~InName(in, i) THEN <<in[i]>>
    ELSE IF ~InName(in, i - 1) THEN Value(NameFrom(in, i))
    ELSE <<>>

Expansion(in) ==
    CHOOSE f : f = [i \in 0..Len(in) |->
                      IF i = 0 THEN <<>> ELSE f[i - 1] \o Piece(in, i)]

LEMMA ValueIs ==
    ASSUME NEW name
    PROVE  /\ Value(name) \in Seq(STRING)
           /\ ValuesAreFinal =>
                \A i \in 1 .. Len(Value(name)) : i > 1 => Value(name)[i] # "$"
<1>1. CASE name \in DOMAIN Env
  <2>1. PICK v : v = Env[name]
    OBVIOUS
  <2>2. Value(name) = v /\ v \in Seq(STRING)
    BY <1>1, <2>1, PathsAssumption DEF Value
  <2>3. ASSUME ValuesAreFinal PROVE \A i \in DOMAIN v : i > 1 => v[i] # "$"
    BY <1>1, <2>1, <2>3 DEF ValuesAreFinal
  <2>4. DOMAIN v = 1 .. Len(v)
    BY <2>2
  <2> QED
    BY <2>2, <2>3, <2>4
<1>2. CASE name \notin DOMAIN Env
  <2>1. Value(name) = <<>>
    BY <1>2 DEF Value
  <2>2. Len(<<>>) = 0 /\ <<>> \in Seq(STRING)
    OBVIOUS
  <2> QED
    BY <2>1, <2>2
<1> QED
  BY <1>1, <1>2

LEMMA ExpansionIs ==
    ASSUME NEW in \in Seq(STRING)
    PROVE  /\ Expansion(in) \in [0 .. Len(in) -> Seq(STRING)]
           /\ \A i \in 0 .. Len(in) :
                Expansion(in)[i] = IF i = 0 THEN <<>> ELSE Expansion(in)[i - 1] \o Piece(in, i)
<1> DEFINE n == Len(in)
           Solves(f) == f = [i \in 0 .. Len(in) |->
                               IF i = 0 THEN <<>> ELSE f[i - 1] \o Piece(in, i)]
           p == [i \in 1 .. n |-> Piece(in, i)]
<1>1. n \in Nat
  OBVIOUS
<1>2. ASSUME NEW i \in 1 .. n PROVE Piece(in, i) \in Seq(STRING)
  <2>1. PICK c, X : c = in[i] /\ X = STRING
    OBVIOUS
  <2>2. c \in X
    BY <2>1
  <2>3. <<c>> \in Seq(X)
    BY <2>2
  <2>4. Value(NameFrom(in, i)) \in Seq(STRING) /\ <<>> \in Seq(STRING)
    BY ValueIs
  <2> QED
    BY <2>1, <2>3, <2>4 DEF Piece
<1>3. p \in [1 .. n -> Seq(STRING)]
  <2> HIDE DEF n
  <2> QED
    BY <1>2
<1>4. PICK h \in [0 .. n -> Seq(STRING)] : Joins(h, n, p)
  <2>1. PICK X : X = STRING
    OBVIOUS
  <2> HIDE DEF n, p
  <2>2. p \in [1 .. n -> Seq(X)]
    BY <1>3, <2>1
  <2>3. \E f \in [0 .. n -> Seq(X)] : Joins(f, n, p)
    BY <1>1, <2>2, JoinExists
  <2> QED
    BY <2>1, <2>3
<1>5. Solves(h)
  <2>1. \A i \in 0 .. n : h[i] = IF i = 0 THEN <<>> ELSE h[i - 1] \o p[i]
    BY <1>4 DEF Joins
  <2>2. \A i \in 1 .. n : p[i] = Piece(in, i)
    OBVIOUS
  <2>3. \A i \in 0 .. n : i = 0 \/ i \in 1 .. n
    OBVIOUS
  <2>4. h = [i \in 0 .. n |-> h[i]]
    OBVIOUS
  <2>5. \A i \in 0 .. n : h[i] = IF i = 0 THEN <<>> ELSE h[i - 1] \o Piece(in, i)
    <3> HIDE DEF n, p
    <3> QED
      BY <2>1, <2>2, <2>3
  <2> QED
    BY <2>4, <2>5
<1>6. PICK x : x = Expansion(in)
  OBVIOUS
<1>7. Solves(x)
  <2>1. x = CHOOSE f : Solves(f)
    BY <1>6 DEF Expansion
  <2> HIDE DEF Solves
  <2> QED
    BY <1>5, <2>1
<1>8. \A i \in 0 .. n : x[i] = IF i = 0 THEN <<>> ELSE x[i - 1] \o Piece(in, i)
  BY <1>7
<1>9. x = [i \in 0 .. n |-> x[i]]
  BY <1>7
<1> DEFINE T == {i \in 0 .. n : x[i] \in Seq(STRING)}
<1>10. 0 \in T
  <2>1. 0 \in 0 .. n /\ <<>> \in Seq(STRING)
    BY <1>1
  <2>2. x[0] = <<>>
    BY <1>8, <2>1
  <2> HIDE DEF n
  <2> QED
    BY <2>1, <2>2
<1>11. ASSUME NEW i \in 1 .. n, i - 1 \in T PROVE i \in T
  <2>1. i \in 0 .. n /\ i # 0
    BY <1>1
  <2>2. x[i - 1] \in Seq(STRING) /\ Piece(in, i) \in Seq(STRING)
    BY <1>2, <1>11
  <2>3. x[i] \in Seq(STRING)
    <3>1. PICK a, b, X : a = x[i - 1] /\ b = Piece(in, i) /\ X = STRING
      OBVIOUS
    <3>2. a \o b \in Seq(X)
      BY <2>2, <3>1
    <3> HIDE DEF n
    <3> QED
      BY <1>8, <2>1, <3>1, <3>2
  <2> HIDE DEF n
  <2> QED
    BY <2>1, <2>3
<1> HIDE DEF T
<1>12. \A i \in 0 .. n : i \in T
  <2> HIDE DEF n
  <2> QED
    BY <1>1, <1>10, <1>11, UpInduction
<1>13. x \in [0 .. n -> Seq(STRING)]
  <2>1. \A i \in 0 .. n : x[i] \in Seq(STRING)
    BY <1>12 DEF T
  <2> HIDE DEF n
  <2> QED
    BY <1>9, <2>1
<1> QED
  BY <1>6, <1>8, <1>13

\* Names end where a part does.
PartBegins(in, a) == a = 0 \/ a = Len(in) \/ in[a + 1] = "/"

LEMMA JoinedTwice ==
    ASSUME NEW S, NEW u \in Seq(S), NEW v \in Seq(S), NEW w \in Seq(S)
    PROVE  (u \o v) \o w = u \o (v \o w)
BY ConcatAssociative, SMTT(30)

\* The k-th element of a text comes behind the part before it.
Extends(u, t, k) == (u \o SubSeq(t, 1, k - 1)) \o <<t[k]>> = u \o SubSeq(t, 1, k)

LEMMA JoinedFurther ==
    ASSUME NEW S, NEW u \in Seq(S), NEW t, NEW k
    PROVE  t \in Seq(S) /\ k \in 1 .. Len(t) => Extends(u, t, k)
<1>1. PICK v, c, w : v = SubSeq(t, 1, k - 1) /\ c = t[k] /\ w = <<c>>
  OBVIOUS
<1>2. ASSUME t \in Seq(S), k \in 1 .. Len(t)
      PROVE  v \in Seq(S) /\ w \in Seq(S) /\ SubSeq(t, 1, k) = v \o w
  <2>1. v \in Seq(S)
    <3>1. \A i \in 1 .. k - 1 : t[i] \in S
      BY <1>2
    <3>2. SubSeq(t, 1, k - 1) \in Seq(S)
      BY <1>2, <3>1, SubSeqProperties
    <3> QED
      BY <1>1, <3>2
  <2>2. w \in Seq(S)
    <3>1. c \in S
      BY <1>1, <1>2
    <3> QED
      BY <1>1, <3>1
  <2>3. PICK one : one = 1
    OBVIOUS
  <2>4. one \in 1 .. Len(t) /\ k \in one .. Len(t)
    BY <1>2, <2>3
  <2>5. SubSeq(t, one, k) = SubSeq(t, one, k - 1) \o <<t[k]>>
    BY <1>2, <2>4, SubSeqRecursiveSecond
  <2> QED
    BY <1>1, <2>1, <2>2, <2>3, <2>5
<1>3. ASSUME v \in Seq(S), w \in Seq(S) PROVE (u \o v) \o w = u \o (v \o w)
  BY <1>3, JoinedTwice, SMTT(30)
<1>4. ASSUME t \in Seq(S), k \in 1 .. Len(t) PROVE Extends(u, t, k)
  <2>1. v \in Seq(S) /\ w \in Seq(S) /\ SubSeq(t, 1, k) = v \o w
    BY <1>2, <1>4
  <2>2. (u \o v) \o w = u \o (v \o w)
    BY <1>3, <2>1
  <2> QED
    BY <1>1, <2>1, <2>2 DEF Extends
<1> QED
  BY <1>4

\* Up to the first dollar sign of a part all is taken over.
LEMMA TakenOver ==
    ASSUME NEW in \in Seq(STRING), NEW a \in Nat, NEW t, Rest(in, a, t), PartBegins(in, a),
           NEW m \in 0 .. Len(t), \A k \in 1 .. m : t[k] # "$"
    PROVE  /\ \A k \in 1 .. m : ~InName(in, a + k)
           /\ Expansion(in)[a + m] = Expansion(in)[a] \o SubSeq(t, 1, m)
<1>0. PICK x : x = Expansion(in)
  OBVIOUS
<1>1. /\ a \in Nat /\ Len(in) \in Nat /\ a <= Len(in)
      /\ t \in Seq(STRING) /\ Len(t) = Len(in) - a
      /\ \A k \in 1 .. Len(in) - a : t[k] = in[a + k]
  <2>1. PICK b : b = a
    OBVIOUS
  <2>2. Rest(in, b, t)
    BY <2>1
  <2>3. /\ b \in Nat /\ Len(in) \in Nat /\ b <= Len(in)
        /\ t \in Seq(STRING) /\ Len(t) = Len(in) - b
        /\ \A k \in 1 .. Len(in) - b : t[k] = in[b + k]
    BY <2>2, RestProperties
  <2> QED
    BY <2>1, <2>3
<1>2. m \in Nat /\ \A k \in 1 .. m : a + k \in 1 .. Len(in) /\ k \in 1 .. Len(in) - a
  BY <1>1
<1>3. ASSUME NEW k \in 1 .. m PROVE ~InName(in, a + k)
  <2> SUFFICES ASSUME NEW j \in 1 .. a + k, in[j] = "$", \A l \in j .. a + k : in[l] # "/"
               PROVE  FALSE
    BY DEF InName
  <2>1. CASE j <= a
    <3>1. a + 1 \in j .. a + k /\ a # 0 /\ a # Len(in)
      BY <1>1, <1>2, <2>1
    <3> QED
      BY <3>1 DEF PartBegins
  <2>2. CASE ~(j <= a)
    <3>1. PICK l : l = j - a
      OBVIOUS
    <3>2. l \in 1 .. m /\ j = a + l
      BY <1>1, <1>2, <2>2, <3>1
    <3> QED
      BY <1>1, <1>2, <3>2
  <2> QED
    BY <2>1, <2>2
<1>4. /\ x \in [0 .. Len(in) -> Seq(STRING)]
      /\ \A i \in 0 .. Len(in) : x[i] = IF i = 0 THEN <<>> ELSE x[i - 1] \o Piece(in, i)
  BY <1>0, ExpansionIs
<1> DEFINE T == {k \in 0 .. m : x[a + k] = x[a] \o SubSeq(t, 1, k)}
<1>5. x[a] \in Seq(STRING)
  <2>1. PICK n, S : n = Len(in) /\ S = Seq(STRING)
    OBVIOUS
  <2>2. x \in [0 .. n -> S] /\ a \in 0 .. n
    BY <1>1, <1>4, <2>1
  <2>3. x[a] \in S
    BY <2>2
  <2> QED
    BY <2>1, <2>3
<1>6. 0 \in T
  <2>1. 0 \in 0 .. m /\ a + 0 = a
    BY <1>1, <1>2
  <2>2. SubSeq(t, 1, 0) = <<>>
    BY <1>1, PartEmpty
  <2>3. x[a] \o <<>> = x[a]
    BY <1>5
  <2> QED
    BY <2>1, <2>2, <2>3
<1>7. ASSUME NEW k \in 1 .. m, k - 1 \in T PROVE k \in T
  <2>1. PICK i, h : i = a + k /\ h = a + (k - 1)
    OBVIOUS
  <2>2. i \in 0 .. Len(in) /\ i # 0 /\ i - 1 = h /\ k \in 1 .. Len(t) /\ k \in k .. Len(t)
    BY <1>1, <1>2, <2>1
  <2>3. x[i] = x[h] \o Piece(in, i)
    BY <1>4, <2>2
  <2>4. Piece(in, i) = <<t[k]>>
    <3>1. ~InName(in, i)
      BY <1>3, <2>1
    <3>2. in[i] = t[k]
      BY <1>1, <1>2, <2>1
    <3> QED
      BY <3>1, <3>2 DEF Piece
  <2>5. x[h] = x[a] \o SubSeq(t, 1, k - 1)
    BY <1>7, <2>1
  <2>6. (x[a] \o SubSeq(t, 1, k - 1)) \o <<t[k]>> = x[a] \o SubSeq(t, 1, k)
    <3>1. PICK X, u : X = STRING /\ u = x[a]
      OBVIOUS
    <3>2. u \in Seq(X) /\ t \in Seq(X) /\ k \in 1 .. Len(t)
      BY <1>1, <1>5, <2>2, <3>1
    <3>3. Extends(u, t, k)
      BY <3>2, JoinedFurther
    <3> QED
      BY <3>1, <3>3 DEF Extends
  <2>8. x[a + k] = x[a] \o SubSeq(t, 1, k)
    BY <2>1, <2>3, <2>4, <2>5, <2>6
  <2>9. k \in 0 .. m
    BY <1>2
  <2> QED
    BY <2>8, <2>9
<1> HIDE DEF T
<1>8. \A k \in 0 .. m : k \in T
  BY <1>2, <1>6, <1>7, UpInduction
<1>9. m \in T
  BY <1>2, <1>8
<1>10. x[a + m] = x[a] \o SubSeq(t, 1, m)
  BY <1>9 DEF T
<1> QED
  BY <1>0, <1>3, <1>10

\* A name is taken over as its value.  d is where its dollar sign is in the
\* rest t of the text, and u where it ends.
Named(t, d, u) ==
    /\ d \in 1 .. Len(t) /\ t[d] = "$" /\ \A k \in 1 .. d - 1 : t[k] # "$"
    /\ u \in d + 1 .. Len(t) + 1 /\ \A k \in d + 1 .. u - 1 : t[k] # "/"
    /\ u = Len(t) + 1 \/ t[u] = "/"

LEMMA NameTaken ==
    ASSUME NEW in \in Seq(STRING), NEW a \in Nat, NEW t, Rest(in, a, t), PartBegins(in, a),
           NEW d, NEW u, Named(t, d, u)
    PROVE  /\ Expansion(in)[a + (u - 1)] =
                (Expansion(in)[a] \o SubSeq(t, 1, d - 1)) \o Value(SubSeq(t, d + 1, u - 1))
           /\ Rest(in, a + (u - 1), SubSeq(t, u, Len(t)))
           /\ PartBegins(in, a + (u - 1))
<1>20. PICK x : x = Expansion(in)
  OBVIOUS
<1>1. /\ a \in Nat /\ Len(in) \in Nat /\ a <= Len(in)
      /\ t \in Seq(STRING) /\ Len(t) = Len(in) - a
      /\ \A k \in 1 .. Len(in) - a : t[k] = in[a + k]
  <2>1. PICK b : b = a
    OBVIOUS
  <2>2. Rest(in, b, t)
    BY <2>1
  <2>3. /\ b \in Nat /\ Len(in) \in Nat /\ b <= Len(in)
        /\ t \in Seq(STRING) /\ Len(t) = Len(in) - b
        /\ \A k \in 1 .. Len(in) - b : t[k] = in[b + k]
    BY <2>2, RestProperties
  <2> QED
    BY <2>1, <2>3
<1>2. /\ d \in 1 .. Len(t) /\ t[d] = "$" /\ \A k \in 1 .. d - 1 : t[k] # "$"
      /\ u \in d + 1 .. Len(t) + 1 /\ \A k \in d + 1 .. u - 1 : t[k] # "/"
      /\ u = Len(t) + 1 \/ t[u] = "/"
  BY DEF Named
<1>3. d \in Nat \ {0} /\ u \in Nat /\ d - 1 \in 0 .. Len(t) /\ a + d \in 1 .. Len(in)
  BY <1>1, <1>2
<1>4. /\ x \in [0 .. Len(in) -> Seq(STRING)]
      /\ \A i \in 0 .. Len(in) : x[i] = IF i = 0 THEN <<>> ELSE x[i - 1] \o Piece(in, i)
  BY <1>20, ExpansionIs
<1>5. /\ \A k \in 1 .. d - 1 : ~InName(in, a + k)
      /\ x[a + (d - 1)] = x[a] \o SubSeq(t, 1, d - 1)
  <2>1. PICK m : m = d - 1
    OBVIOUS
  <2>2. m \in 0 .. Len(t) /\ \A k \in 1 .. m : t[k] # "$"
    BY <1>2, <1>3, <2>1
  <2>3. /\ \A k \in 1 .. m : ~InName(in, a + k)
        /\ x[a + m] = x[a] \o SubSeq(t, 1, m)
    BY <1>20, <2>2, TakenOver
  <2> QED
    BY <2>1, <2>3
<1>0. u # Len(t) + 1 => u \in d + 1 .. Len(t) /\ u \in d .. Len(t) /\ u \in 1 .. Len(t)
  <2>1. PICK l : l = Len(t)
    OBVIOUS
  <2>2. l \in Nat /\ u \in d + 1 .. l + 1
    BY <1>1, <1>2, <2>1
  <2>3. u # l + 1 => u \in d + 1 .. l /\ u \in d .. l /\ u \in 1 .. l
    BY <1>3, <2>2
  <2> QED
    BY <2>1, <2>3
<1>6. InName(in, a + d)
  <2>1. in[a + d] = "$"
    <3>1. d \in 1 .. Len(in) - a
      BY <1>1, <1>2
    <3> QED
      BY <1>1, <1>2, <3>1
  <2>2. \A k \in a + d .. a + d : in[k] # "/"
    <3>1. \A k \in a + d .. a + d : k = a + d
      BY <1>1, <1>3
    <3> QED
      BY <2>1, <3>1
  <2>3. a + d \in 1 .. a + d
    BY <1>1, <1>3
  <2> QED
    BY <2>1, <2>2, <2>3 DEF InName
<1>7. ~InName(in, (a + d) - 1)
  <2>1. CASE d = 1
    <3>1. a = 0
      <4>1. 1 \in 1 .. Len(in) - a /\ a # Len(in) /\ t[1] = "$"
        BY <1>1, <1>2, <2>1
      <4>2. in[a + 1] = "$"
        BY <1>1, <4>1
      <4> QED
        BY <4>1, <4>2 DEF PartBegins
    <3>2. (a + d) - 1 = 0 /\ \A j \in 1 .. 0 : FALSE
      BY <2>1, <3>1
    <3> QED
      BY <3>2 DEF InName
  <2>2. CASE d # 1
    <3>1. d - 1 \in 1 .. d - 1 /\ (a + d) - 1 = a + (d - 1)
      BY <1>1, <1>3, <2>2
    <3> QED
      BY <1>5, <3>1
  <2> QED
    BY <2>1, <2>2
<1>8. NameFrom(in, a + d) = SubSeq(t, d + 1, u - 1)
  <2>1. PICK s : s = Find("/", t, d)
    OBVIOUS
  <2>2. Find("/", in, a + d) = IF s = 0 THEN 0 ELSE a + s
    BY <1>3, <2>1, FindShift
  <2>3. s = IF u = Len(t) + 1 THEN 0 ELSE u
    <3>1. \A k \in d .. u - 1 : t[k] # "/"
      <4>1. \A k \in d .. u - 1 : k = d \/ k \in d + 1 .. u - 1
        BY <1>3
      <4> QED
        BY <1>2, <4>1
    <3>2. CASE u = Len(t) + 1
      <4>1. \A k \in d .. Len(t) : t[k] # "/"
        <5>1. u - 1 = Len(t)
          BY <1>1, <3>2
        <5> QED
          BY <3>1, <5>1
      <4>2. Find("/", t, d) = 0
        BY <1>1, <1>3, <4>1, FindNone
      <4> QED
        BY <2>1, <3>2, <4>2
    <3>3. CASE u # Len(t) + 1
      <4>1. u \in d .. Len(t) /\ t[u] = "/"
        BY <1>0, <1>2, <3>3
      <4>2. FirstPlace("/", t, d, u)
        BY <3>1, <4>1 DEF FirstPlace
      <4>3. Find("/", t, d) = u
        BY <1>1, <1>3, <4>2, FindIs
      <4> QED
        BY <2>1, <3>3, <4>3
    <3> QED
      BY <3>2, <3>3
  <2>4. PICK e : e = IF Find("/", in, a + d) = 0 THEN Len(in) ELSE Find("/", in, a + d) - 1
    OBVIOUS
  <2>5. e = a + (u - 1)
    <3>1. CASE u = Len(t) + 1
      BY <1>1, <2>2, <2>3, <2>4, <3>1
    <3>2. CASE u # Len(t) + 1
      <4>1. Find("/", in, a + d) = a + u /\ a + u # 0
        <5>1. s = u
          BY <2>3, <3>2
        <5>2. u # 0 /\ a + u # 0
          BY <1>1, <1>3, <1>2
        <5> QED
          BY <2>2, <5>1, <5>2
      <4>2. e = (a + u) - 1
        BY <2>4, <4>1
      <4> QED
        BY <1>1, <1>3, <4>2
    <3> QED
      BY <3>1, <3>2
  <2>6. NameFrom(in, a + d) = SubSeq(in, (a + d) + 1, e)
    BY <2>4 DEF NameFrom
  <2>7. SubSeq(in, a + (d + 1), a + (u - 1)) = SubSeq(t, d + 1, u - 1)
    <3>1. PICK v, w : v = d + 1 /\ w = u - 1
      OBVIOUS
    <3>2. v \in Nat \ {0} /\ w \in Nat /\ w <= Len(t)
      BY <1>1, <1>2, <1>3, <3>1
    <3>3. SubSeq(in, a + v, a + w) = SubSeq(t, v, w)
      BY <3>2, PartOfRest
    <3> QED
      BY <3>1, <3>3
  <2>8. (a + d) + 1 = a + (d + 1)
    BY <1>1, <1>3
  <2> QED
    BY <2>5, <2>6, <2>7, <2>8
<1>9. x[a + d] = (x[a] \o SubSeq(t, 1, d - 1)) \o Value(SubSeq(t, d + 1, u - 1))
  <2>1. PICK i, h : i = a + d /\ h = (a + d) - 1
    OBVIOUS
  <2>2. i \in 0 .. Len(in) /\ i # 0 /\ i - 1 = h /\ h = a + (d - 1)
    BY <1>1, <1>3, <2>1
  <2>3. x[i] = x[h] \o Piece(in, i)
    BY <1>4, <2>2
  <2>4. Piece(in, i) = Value(SubSeq(t, d + 1, u - 1))
    BY <1>6, <1>7, <1>8, <2>1, <2>2 DEF Piece
  <2> QED
    BY <1>5, <2>1, <2>2, <2>3, <2>4
<1>10. ASSUME NEW k \in d .. u - 1 PROVE InName(in, a + k)
  <2>1. in[a + d] = "$" /\ a + d \in 1 .. a + k
    <3>1. d \in 1 .. Len(in) - a
      BY <1>1, <1>2
    <3> QED
      BY <1>1, <1>2, <1>3, <3>1
  <2>2. ASSUME NEW l \in a + d .. a + k PROVE in[l] # "/"
    <3>1. PICK j : j = l - a
      OBVIOUS
    <3>2. j \in d .. u - 1 /\ l = a + j /\ j \in 1 .. Len(in) - a /\ (j = d \/ j \in d + 1 .. u - 1)
      BY <1>1, <1>2, <1>3, <3>1
    <3>3. t[j] # "/"
      BY <1>2, <3>2
    <3> QED
      BY <1>1, <3>2, <3>3
  <2> QED
    BY <2>1, <2>2 DEF InName
<1> DEFINE m == (u - 1) - d
           T == {k \in 0 .. m : x[(a + d) + k] = x[a + d]}
<1>11. m \in Nat
  BY <1>1, <1>2, <1>3
<1>12. 0 \in T
  <2>1. 0 \in 0 .. m /\ (a + d) + 0 = a + d
    BY <1>1, <1>3, <1>11
  <2> HIDE DEF m
  <2> QED
    BY <2>1
<1>13. ASSUME NEW k \in 1 .. m, k - 1 \in T PROVE k \in T
  <2>1. PICK i, h : i = (a + d) + k /\ h = (a + d) + (k - 1)
    OBVIOUS
  <2>2. /\ i \in 0 .. Len(in) /\ i # 0 /\ i - 1 = h
        /\ d + k \in d .. u - 1 /\ d + (k - 1) \in d .. u - 1
        /\ i = a + (d + k) /\ h = a + (d + (k - 1))
    BY <1>1, <1>2, <1>3, <2>1
  <2>3. InName(in, i) /\ InName(in, h)
    BY <1>10, <2>2
  <2>4. Piece(in, i) = <<>>
    BY <2>2, <2>3 DEF Piece
  <2>5. x[i] = x[h] \o <<>>
    BY <1>4, <2>2, <2>4
  <2>6. x[h] \in Seq(STRING)
    <3>1. PICK n, S : n = Len(in) /\ S = Seq(STRING)
      OBVIOUS
    <3>2. x \in [0 .. n -> S] /\ h \in 0 .. n
      BY <1>1, <1>3, <1>4, <2>1, <2>2, <3>1
    <3>3. x[h] \in S
      BY <3>2
    <3> QED
      BY <3>1, <3>3
  <2>7. x[i] = x[h]
    BY <2>5, <2>6
  <2>8. x[h] = x[a + d]
    <3> HIDE DEF m
    <3> QED
      BY <1>13, <2>1
  <2>9. k \in 0 .. m
    BY <1>11
  <2> HIDE DEF m
  <2> QED
    BY <2>1, <2>7, <2>8, <2>9
<1> HIDE DEF T
<1>14. x[a + (u - 1)] = x[a + d]
  <2>1. \A k \in 0 .. m : k \in T
    <3> HIDE DEF m
    <3> QED
      BY <1>11, <1>12, <1>13, UpInduction
  <2>2. m \in T
    <3> HIDE DEF m
    <3> QED
      BY <1>11, <2>1
  <2>3. (a + d) + m = a + (u - 1)
    BY <1>1, <1>3
  <2> HIDE DEF m
  <2> QED
    BY <2>2, <2>3 DEF T
<1>15. Rest(in, a + (u - 1), SubSeq(t, u, Len(t)))
  <2>1. PICK w : w = u - 1
    OBVIOUS
  <2>2. w \in 0 .. Len(t) /\ w + 1 = u
    BY <1>1, <1>2, <1>3, <2>1
  <2>3. Rest(in, a + w, SubSeq(t, w + 1, Len(t)))
    BY <2>2, RestOfRest
  <2> QED
    BY <2>1, <2>2, <2>3
<1>16. PartBegins(in, a + (u - 1))
  <2>1. CASE u = Len(t) + 1
    <3>1. a + (u - 1) = Len(in)
      BY <1>1, <2>1
    <3> QED
      BY <3>1 DEF PartBegins
  <2>2. CASE u # Len(t) + 1
    <3>1. u \in 1 .. Len(in) - a /\ t[u] = "/" /\ (a + (u - 1)) + 1 = a + u
      BY <1>0, <1>1, <1>2, <1>3, <2>2
    <3>2. in[a + u] = "/"
      BY <1>1, <3>1
    <3> QED
      BY <3>1, <3>2 DEF PartBegins
  <2> QED
    BY <2>1, <2>2
<1> QED
  BY <1>9, <1>14, <1>15, <1>16, <1>20

\* The expansion has come to the place a, with the rest t to go: s is the
\* string, and p the dollar sign that has been found in it.
Progress(in, s, p, a, t) ==
    /\ Rest(in, a, t) /\ PartBegins(in, a)
    /\ s = Expansion(in)[a] \o t
    /\ p = IF Find("$", t, 1) = 0 THEN 0 ELSE Len(Expansion(in)[a]) + Find("$", t, 1)

\* The string after a turn of the loop.
Turned(s, p) ==
    LET slash == Find("/", s, p + 1)
        end == IF slash = 0 THEN Len(s) + 1 ELSE slash
    IN  SubSeq(s, 1, p - 1) \o Value(SubSeq(s, p + 1, end - 1)) \o SubSeq(s, end, Len(s))

LEMMA Progresses ==
    ASSUME ValuesAreFinal, NEW in \in Seq(STRING), NEW s, NEW p, NEW a, NEW t,
           Progress(in, s, p, a, t), p # 0
    PROVE  \E b, r : Progress(in, Turned(s, p), Find("$", Turned(s, p), p + 1), b, r)
<1>32. PICK slash, end, new :
         /\ slash = Find("/", s, p + 1)
         /\ end = IF slash = 0 THEN Len(s) + 1 ELSE slash
         /\ new = SubSeq(s, 1, p - 1) \o Value(SubSeq(s, p + 1, end - 1)) \o SubSeq(s, end, Len(s))
  OBVIOUS
<1>33. Turned(s, p) = new
  BY <1>32 DEF Turned
<1>1. /\ a \in Nat /\ Len(in) \in Nat /\ a <= Len(in)
      /\ t \in Seq(STRING) /\ Len(t) = Len(in) - a
  BY RestProperties DEF Progress
<1>2. PICK x, front, l, d, q : /\ x = Expansion(in) /\ front = x[a] /\ l = Len(front)
                               /\ d = Find("$", t, 1) /\ q = Len(t)
  OBVIOUS
<1>3. front \in Seq(STRING) /\ l \in Nat /\ q \in Nat
  <2>1. x \in [0 .. Len(in) -> Seq(STRING)] /\ a \in 0 .. Len(in)
    BY <1>1, <1>2, ExpansionIs
  <2>2. PICK S, n : S = Seq(STRING) /\ n = Len(in)
    OBVIOUS
  <2>3. front \in S
    BY <1>2, <2>1, <2>2
  <2> QED
    BY <1>1, <1>2, <2>2, <2>3
<1>4. s = front \o t /\ p = l + d /\ d # 0
  BY <1>2 DEF Progress
<1>5. d \in 1 .. q /\ t[d] = "$" /\ \A k \in 1 .. d - 1 : t[k] # "$"
  <2>1. PICK one : one = 1
    OBVIOUS
  <2>2. one \in Nat \ {0} /\ d = Find("$", t, one)
    BY <1>2, <2>1
  <2>3. FirstPlace("$", t, one, d)
    BY <1>1, <1>4, <2>2, FindProperties
  <2> QED
    BY <1>2, <2>1, <2>3 DEF FirstPlace
<1>6. d \in Nat \ {0} /\ p \in Nat \ {0} /\ d - 1 \in 0 .. q
  BY <1>3, <1>4, <1>5
<1>7. /\ s \in Seq(STRING) /\ Len(s) = l + q /\ Rest(s, l, t)
      /\ \A k \in 0 .. q : SubSeq(s, 1, l + k) = front \o SubSeq(t, 1, k)
  <2>1. PICK both : both = s
    OBVIOUS
  <2>2. both = front \o t
    BY <1>4, <2>1
  <2>3. l = Len(front) /\ q = Len(t)
    BY <1>2
  <2>4. /\ both \in Seq(STRING) /\ Len(both) = Len(front) + Len(t)
        /\ Rest(both, Len(front), t)
        /\ \A k \in 0 .. Len(t) : SubSeq(both, 1, Len(front) + k) = front \o SubSeq(t, 1, k)
    BY <1>1, <1>3, <2>2, RestOfJoined
  <2> QED
    BY <2>1, <2>3, <2>4
<1>8. PICK g : g = Find("/", t, d + 1)
  OBVIOUS
<1>9. slash = IF g = 0 THEN 0 ELSE l + g
  <2>1. PICK i : i = d + 1
    OBVIOUS
  <2>2. i \in Nat \ {0} /\ p + 1 = l + i
    BY <1>3, <1>4, <1>6, <2>1
  <2>3. Find("/", s, l + i) = IF Find("/", t, i) = 0 THEN 0 ELSE l + Find("/", t, i)
    BY <1>3, <1>7, <2>2, FindShift
  <2> QED
    BY <1>8, <1>32, <2>1, <2>2, <2>3
<1>10. \/ g = 0 /\ \A k \in d + 1 .. q : t[k] # "/"
       \/ g \in d + 1 .. q /\ t[g] = "/" /\ \A k \in d + 1 .. g - 1 : t[k] # "/"
  <2>1. d + 1 \in Nat \ {0}
    BY <1>6
  <2> QED
    BY <1>1, <1>2, <1>8, <2>1, FindProperties DEF FirstPlace
<1>11. PICK u : u = IF g = 0 THEN q + 1 ELSE g
  OBVIOUS
<1>12. /\ u \in d + 1 .. q + 1 /\ end = l + u
       /\ \A k \in d + 1 .. u - 1 : t[k] # "/"
       /\ u = q + 1 \/ t[u] = "/"
  <2>1. CASE g = 0
    <3>1. u = q + 1 /\ u - 1 = q
      BY <1>3, <1>11, <2>1
    <3>2. slash = 0 /\ end = Len(s) + 1
      BY <1>9, <1>32, <2>1
    <3>3. end = l + u
      BY <1>3, <1>7, <3>1, <3>2
    <3>4. u \in d + 1 .. q + 1
      BY <1>3, <1>5, <1>6, <3>1
    <3>5. \A k \in d + 1 .. q : t[k] # "/"
      BY <1>3, <1>6, <1>10, <2>1
    <3> QED
      BY <3>1, <3>3, <3>4, <3>5
  <2>2. CASE g # 0
    <3>1. u = g /\ g \in d + 1 .. q /\ t[g] = "/" /\ \A k \in d + 1 .. g - 1 : t[k] # "/"
      BY <1>10, <1>11, <2>2
    <3>2. slash = l + g
      BY <1>9, <2>2
    <3>5. l + g # 0
      BY <1>3, <1>6, <3>1
    <3>3. end = l + u
      BY <1>32, <3>1, <3>2, <3>5
    <3>4. u \in d + 1 .. q + 1
      BY <1>3, <1>6, <3>1
    <3> QED
      BY <3>1, <3>3, <3>4
  <2> QED
    BY <2>1, <2>2
<1>31. Named(t, d, u)
  <2>1. q = Len(t)
    BY <1>2
  <2> QED
    BY <1>5, <1>12, <2>1 DEF Named
<1>13. u \in Nat \ {0} /\ u - 1 \in Nat /\ u - 1 <= q /\ d + 1 \in Nat \ {0}
  BY <1>3, <1>6, <1>12
<1>14. PICK pre, v, r : /\ pre = SubSeq(s, 1, p - 1)
                        /\ v = Value(SubSeq(s, p + 1, end - 1))
                        /\ r = SubSeq(s, end, Len(s))
  OBVIOUS
<1>15. pre = front \o SubSeq(t, 1, d - 1)
  <2>1. p - 1 = l + (d - 1)
    BY <1>3, <1>4, <1>6
  <2> QED
    BY <1>6, <1>7, <1>14, <2>1
<1>16. SubSeq(s, p + 1, end - 1) = SubSeq(t, d + 1, u - 1)
  <2>1. PICK i, j : i = d + 1 /\ j = u - 1
    OBVIOUS
  <2>2. i \in Nat \ {0} /\ j \in Nat /\ j <= Len(t)
    BY <1>2, <1>13, <2>1
  <2>5. PICK w : w = s
    OBVIOUS
  <2>6. w \in Seq(STRING) /\ Rest(w, l, t)
    BY <1>7, <2>5
  <2>7. l \in Nat
    BY <1>3
  <2>3. SubSeq(w, l + i, l + j) = SubSeq(t, i, j)
    BY <2>2, <2>6, <2>7, PartOfRest
  <2>4. l + i = p + 1 /\ l + j = end - 1
    <3>1. d \in Nat /\ u \in Nat /\ l \in Nat
      BY <1>3, <1>6, <1>13
    <3>2. p = l + d /\ end = l + u
      BY <1>4, <1>12
    <3> QED
      BY <2>1, <3>1, <3>2
  <2> QED
    BY <2>1, <2>3, <2>4, <2>5
<1>17. r = SubSeq(t, u, q) /\ r \in Seq(STRING)
  <2>1. q <= Len(t)
    BY <1>2, <1>3
  <2>2. SubSeq(s, l + u, l + q) = SubSeq(t, u, q) /\ SubSeq(t, u, q) \in Seq(STRING)
    BY <1>3, <1>7, <1>13, <2>1, PartOfRest
  <2> QED
    BY <1>7, <1>12, <1>14, <2>2
<1>18. new = (pre \o v) \o r
  BY <1>14, <1>32
<1>19. PICK b : b = a + (u - 1)
  OBVIOUS
<1>20. x[b] = pre \o v /\ Rest(in, b, r) /\ PartBegins(in, b)
  <2>1. Rest(in, a, t) /\ PartBegins(in, a)
    BY DEF Progress
  <2>2. /\ Expansion(in)[a + (u - 1)] =
              (Expansion(in)[a] \o SubSeq(t, 1, d - 1)) \o Value(SubSeq(t, d + 1, u - 1))
        /\ Rest(in, a + (u - 1), SubSeq(t, u, Len(t)))
        /\ PartBegins(in, a + (u - 1))
    BY <1>1, <1>31, <2>1, NameTaken
  <2> QED
    BY <1>2, <1>14, <1>15, <1>16, <1>17, <1>19, <2>2
<1>21. PICK back, m : back = x[b] /\ m = Len(back)
  OBVIOUS
<1>22. pre \in Seq(STRING) /\ v \in Seq(STRING)
  <2>1. SubSeq(s, 1, p - 1) \in Seq(STRING)
    <3>1. PICK one, j : one = 1 /\ j = p - 1
      OBVIOUS
    <3>2. one \in Nat \ {0} /\ j \in Nat /\ j <= Len(s)
      BY <1>3, <1>4, <1>5, <1>6, <1>7, <3>1
    <3>3. SubSeq(s, one, j) \in Seq(STRING)
      BY <1>7, <3>2, PartIs
    <3> QED
      BY <3>1, <3>3
  <2> QED
    BY <1>14, <2>1, ValueIs
<1>23. /\ back \in Seq(STRING) /\ m = Len(pre) + Len(v)
       /\ \A i \in 1 .. Len(v) : back[Len(pre) + i] = v[i]
  <2>1. back = pre \o v
    BY <1>20, <1>21
  <2> QED
    BY <1>21, <1>22, <2>1, JoinedAt
<1>24. Len(pre) = p - 1
  <2>1. PICK one, j : one = 1 /\ j = p - 1
    OBVIOUS
  <2>2. one \in Nat \ {0} /\ j \in Nat /\ j <= Len(s)
    BY <1>3, <1>4, <1>5, <1>6, <1>7, <2>1
  <2>3. Len(SubSeq(s, one, j)) = IF one <= j THEN j - one + 1 ELSE 0
    BY <1>7, <2>2, PartIs
  <2>4. (IF one <= j THEN j - one + 1 ELSE 0) = p - 1
    BY <1>6, <2>1, <2>2
  <2> QED
    BY <1>14, <2>1, <2>3, <2>4
<1>25. m \in Nat /\ Len(v) \in Nat /\ m = (p - 1) + Len(v)
  BY <1>21, <1>22, <1>23, <1>24
<1>26. /\ new \in Seq(STRING) /\ Len(new) = m + Len(r) /\ Rest(new, m, r)
       /\ \A i \in 1 .. m : new[i] = back[i]
       /\ \A i \in 1 .. Len(r) : new[m + i] = r[i]
  <2>1. new = back \o r
    BY <1>18, <1>20, <1>21
  <2>2. /\ new \in Seq(STRING) /\ Len(new) = m + Len(r)
        /\ \A i \in 1 .. m : new[i] = back[i]
        /\ \A i \in 1 .. Len(r) : new[m + i] = r[i]
    <3>1. PICK both : both = new
      OBVIOUS
    <3>2. both = back \o r
      BY <2>1, <3>1
    <3>3. back \in Seq(STRING) /\ r \in Seq(STRING) /\ m = Len(back)
      BY <1>17, <1>21, <1>23
    <3>4. /\ both \in Seq(STRING) /\ Len(both) = Len(back) + Len(r)
          /\ \A i \in 1 .. Len(back) : both[i] = back[i]
          /\ \A i \in 1 .. Len(r) : both[Len(back) + i] = r[i]
      BY <3>2, <3>3, JoinedAt
    <3> QED
      BY <3>1, <3>3, <3>4
  <2>3. Rest(new, m, r)
    <3>1. PICK both : both = new
      OBVIOUS
    <3>2. both = back \o r
      BY <2>1, <3>1
    <3>3. back \in Seq(STRING) /\ r \in Seq(STRING) /\ m = Len(back)
      BY <1>17, <1>21, <1>23
    <3>4. Rest(both, Len(back), r)
      BY <3>2, <3>3, RestOfJoined
    <3> QED
      BY <3>1, <3>3, <3>4
  <2> QED
    BY <2>2, <2>3
<1>27. Find("$", new, p + 1) = Find("$", new, m + 1)
  <2>1. PICK w, i, j : w = new /\ i = p + 1 /\ j = m + 1
    OBVIOUS
  <2>2. w \in Seq(STRING) /\ i \in Nat \ {0} /\ j \in Nat \ {0} /\ i \in Nat /\ j \in Nat
    BY <1>6, <1>25, <1>26, <2>1
  <2>3. CASE Len(v) = 0
    <3>1. m = p - 1 /\ j <= i /\ i - 1 = j
      BY <1>6, <1>25, <2>1, <2>3
    <3>2. ASSUME NEW k \in j .. i - 1, k <= Len(w) PROVE w[k] # "$"
      <4>1. k = m + 1 /\ 1 \in 1 .. Len(r) /\ Len(r) # 0
        <5>1. PICK y : y = Len(r)
          OBVIOUS
        <5>2. y \in Nat /\ Len(w) = m + y
          BY <1>17, <1>26, <2>1, <5>1
        <5>4. k = j
          BY <2>2, <3>1, <3>2
        <5>3. k = m + 1 /\ y >= 1
          BY <1>25, <2>1, <3>2, <5>2, <5>4
        <5> QED
          BY <5>1, <5>2, <5>3
      <4>2. w[k] = r[1]
        BY <1>26, <2>1, <4>1
      <4>3. Len(r) = Len(in) - b /\ \A c \in 1 .. Len(in) - b : r[c] = in[b + c]
        BY <1>20, RestProperties
      <4>4. b # 0 /\ b # Len(in)
        <5>1. b # 0
          BY <1>1, <1>6, <1>12, <1>13, <1>19
        <5>2. b \in Nat /\ b # Len(in)
          BY <1>1, <1>13, <1>19, <4>1, <4>3
        <5> QED
          BY <5>1, <5>2
      <4>5. r[1] = "/"
        BY <1>20, <4>1, <4>3, <4>4 DEF PartBegins
      <4> QED
        BY <4>2, <4>5
    <3>3. Find("$", w, j) = Find("$", w, i)
      BY <2>2, <3>1, <3>2, FindSkip
    <3> QED
      BY <2>1, <3>3
  <2>4. CASE Len(v) # 0
    <3>1. i <= j
      BY <1>6, <1>25, <2>1, <2>4
    <3>2. ASSUME NEW k \in i .. j - 1 PROVE w[k] # "$"
      <4>1. PICK c : c = k - (p - 1)
        OBVIOUS
      <4>2. c \in 1 .. Len(v) /\ c > 1 /\ k = (p - 1) + c /\ k \in 1 .. m
        BY <1>6, <1>25, <2>1, <2>2, <4>1
      <4>3. w[k] = back[k] /\ back[k] = v[c]
        BY <1>23, <1>24, <1>26, <2>1, <4>2
      <4>4. v[c] # "$"
        BY <1>14, <4>2, ValueIs
      <4> QED
        BY <4>3, <4>4
    <3>3. Find("$", w, i) = Find("$", w, j)
      BY <2>2, <3>1, <3>2, FindSkip
    <3> QED
      BY <2>1, <3>3
  <2> QED
    BY <2>3, <2>4
<1>28. Find("$", new, m + 1) = IF Find("$", r, 1) = 0 THEN 0 ELSE m + Find("$", r, 1)
  <2>1. PICK one, w : one = 1 /\ w = new
    OBVIOUS
  <2>2. one \in Nat \ {0} /\ w \in Seq(STRING) /\ Rest(w, m, r)
    BY <1>26, <2>1
  <2>3. Find("$", w, m + one) = IF Find("$", r, one) = 0 THEN 0 ELSE m + Find("$", r, one)
    BY <1>25, <2>2, FindShift
  <2> QED
    BY <2>1, <2>3
<1>29. Progress(in, new, Find("$", new, p + 1), b, r)
  <2>1. new = Expansion(in)[b] \o r /\ Len(Expansion(in)[b]) = m
    BY <1>2, <1>18, <1>20, <1>21
  <2> QED
    BY <1>20, <1>27, <1>28, <2>1 DEF Progress
<1> QED
  BY <1>29, <1>33


LEMMA ProgressBegins ==
    ASSUME NEW s \in Seq(STRING)
    PROVE  Progress(s, s, Find("$", s, 1), 0, s)
<1>1. PICK x, n : x = Expansion(s) /\ n = Len(s)
  OBVIOUS
<1>2. n \in Nat /\ 0 \in 0 .. n
  BY <1>1
<1>3. x[0] = <<>>
  <2>1. \A i \in 0 .. n : x[i] = IF i = 0 THEN <<>> ELSE x[i - 1] \o Piece(s, i)
    BY <1>1, ExpansionIs
  <2> QED
    BY <1>2, <2>1
<1>4. s = <<>> \o s
  OBVIOUS
<1>5. Rest(s, 0, s)
  <2>1. SubSeq(s, 1, n) = s
    BY <1>1, SubSeqFull
  <2>2. 0 + 1 = 1
    OBVIOUS
  <2> QED
    BY <1>1, <1>2, <2>1, <2>2 DEF Rest
<1>6. PICK d : d = Find("$", s, 1)
  OBVIOUS
<1>7. d \in Nat
  <2>1. PICK one : one = 1
    OBVIOUS
  <2>2. one \in Nat \ {0} /\ d = Find("$", s, one)
    BY <1>6, <2>1
  <2> QED
    BY <2>2, FindProperties
<1>8. d = IF d = 0 THEN 0 ELSE Len(<<>>) + d
  <2>1. Len(<<>>) = 0
    OBVIOUS
  <2> QED
    BY <1>7, <2>1
<1>9. PartBegins(s, 0)
  BY DEF PartBegins
<1> QED
  BY <1>1, <1>3, <1>4, <1>5, <1>6, <1>8, <1>9 DEF Progress

\* Nothing is left to expand: the string is what it should be.
LEMMA ProgressEnds ==
    ASSUME NEW in \in Seq(STRING), NEW s, NEW a, NEW t, Progress(in, s, 0, a, t)
    PROVE  s = Expansion(in)[Len(in)]
<1>1. /\ a \in Nat /\ Len(in) \in Nat /\ a <= Len(in)
      /\ t \in Seq(STRING) /\ Len(t) = Len(in) - a
  BY RestProperties DEF Progress
<1>2. PICK x, l, d : x = Expansion(in) /\ l = Len(x[a]) /\ d = Find("$", t, 1)
  OBVIOUS
<1>3. x \in [0 .. Len(in) -> Seq(STRING)]
  BY <1>2, ExpansionIs
<1>4. l \in Nat
  <2>1. PICK S, n, y : S = Seq(STRING) /\ n = Len(in) /\ y = x[a]
    OBVIOUS
  <2>2. y \in S
    BY <1>1, <1>3, <2>1
  <2>3. Len(y) \in Nat
    BY <2>1, <2>2
  <2> QED
    BY <1>2, <2>1, <2>3
<1>5. (0 = IF d = 0 THEN 0 ELSE l + d) /\ s = x[a] \o t /\ Rest(in, a, t) /\ PartBegins(in, a)
  BY <1>2 DEF Progress
<1>6. PICK m : m = Len(t)
  OBVIOUS
<1>7. m \in Nat /\ m \in 0 .. Len(t) /\ a + m = Len(in)
  BY <1>1, <1>6
<1>8. \A k \in 1 .. m : t[k] # "$"
  <2>1. PICK one : one = 1
    OBVIOUS
  <2>2. one \in Nat \ {0} /\ d = Find("$", t, one)
    BY <1>2, <2>1
  <2>3. \/ d = 0 /\ \A k \in one .. Len(t) : t[k] # "$"
        \/ d \in Nat \ {0}
    BY <1>1, <2>2, FindProperties
  <2>4. d = 0
    BY <1>4, <1>5, <2>3
  <2> QED
    BY <1>6, <2>1, <2>3, <2>4
<1>9. Expansion(in)[a + m] = Expansion(in)[a] \o SubSeq(t, 1, m)
  <2>1. a \in Nat /\ Rest(in, a, t) /\ PartBegins(in, a)
    BY <1>1, <1>5
  <2>2. m \in 0 .. Len(t) /\ \A k \in 1 .. m : t[k] # "$"
    BY <1>7, <1>8
  <2> QED
    BY <2>1, <2>2, TakenOver
<1>10. SubSeq(t, 1, m) = t
  BY <1>1, <1>6, SubSeqFull
<1> QED
  BY <1>2, <1>5, <1>7, <1>9, <1>10

\* What is true of expansions besides the property: where a loop has come to.
ExpandOK ==
    /\ call = "expand" =>
         /\ input \in Seq(STRING)
         /\ \E a, t : Progress(input, str, at, a, t)
    /\ result.call = "expand" =>
         /\ result.input \in Seq(STRING)
         /\ result.value = Expansion(result.input)[Len(result.input)]
         /\ result.path => result.all = (result.value \in Directory)

LEMMA ExpandCall ==
    ASSUME NEW s \in Strings, ExpandOK, CallExpand(s)
    PROVE  ExpandOK'
<1>1. s \in Seq(STRING)
  BY PathsAssumption
<1>2. input' = s /\ str' = s /\ at' = Find("$", s, 1) /\ result' = result
  BY DEF CallExpand
<1>3. \E a, t : Progress(s, s, Find("$", s, 1), a, t)
  BY <1>1, ProgressBegins
<1> QED
  BY <1>1, <1>2, <1>3 DEF ExpandOK

LEMMA ExpandTurn ==
    ASSUME ValuesAreFinal, ExpandOK, ExpandStep
    PROVE  ExpandOK'
<1>1. call = "expand" /\ at # 0 /\ call' = call /\ input' = input /\ result' = result
  BY DEF ExpandStep
<1>2. str' = Turned(str, at) /\ at' = Find("$", Turned(str, at), at + 1)
  BY DEF ExpandStep, Turned, SearchFrom
<1>3. input \in Seq(STRING)
  BY <1>1 DEF ExpandOK
<1>4. PICK a, t : Progress(input, str, at, a, t)
  BY <1>1 DEF ExpandOK
<1>5. \E b, r : Progress(input, Turned(str, at), Find("$", Turned(str, at), at + 1), b, r)
  BY <1>1, <1>3, <1>4, Progresses
<1> QED
  BY <1>1, <1>2, <1>3, <1>5 DEF ExpandOK

LEMMA ExpandAnswer ==
    ASSUME ExpandOK, ExpandReturn
    PROVE  ExpandOK'
<1>1. call = "expand" /\ at = 0 /\ call' = "idle"
  BY DEF ExpandReturn
<1>2. result'.input = input /\ result'.value = str
  BY DEF ExpandReturn
<1>3. input \in Seq(STRING)
  BY <1>1 DEF ExpandOK
<1>4. PICK a, t : Progress(input, str, 0, a, t)
  BY <1>1 DEF ExpandOK
<1>5. str = Expansion(input)[Len(input)]
  BY <1>3, <1>4, ProgressEnds
<1>6. result'.path => result'.all = (str \in Directory)
  BY DEF ExpandReturn, Exists
<1> QED
  BY <1>1, <1>2, <1>3, <1>5, <1>6 DEF ExpandOK

\* ExpandEnvVars replaces what it should and nothing else, in strings of any
\* length, if no value brings new names with it.
THEOREM ExpansionsAreRight == ValuesAreFinal => (Spec => []ExpandIsRight)
<1> SUFFICES ASSUME ValuesAreFinal PROVE Spec => []ExpandIsRight
  OBVIOUS
<1>1. ASSUME Init PROVE ExpandOK
  <2>1. result.call = "none" /\ call = "idle"
    BY <1>1 DEF Init, NoResult
  <2> QED
    BY <2>1 DEF ExpandOK
<1>2. ASSUME IInv, ExpandOK, [Next]_vars PROVE ExpandOK'
  <2>1. ASSUME call' # "expand", result'.call # "expand" \/ result' = result
        PROVE  ExpandOK'
    BY <1>2, <2>1 DEF ExpandOK
  <2>2. CASE ExpandStep \/ ExpandReturn \/ \E s \in Strings : CallExpand(s)
    BY <1>2, <2>2, ExpandCall, ExpandTurn, ExpandAnswer
  <2>3. CASE \E args \in ArgLists, p \in Names, fm \in BOOLEAN, files \in FileSets :
               LookForFile(args, p, fm, files)
    <3>1. result'.call = "look" /\ call' = call /\ input' = input /\ str' = str /\ at' = at
      BY <2>3 DEF LookForFile
    <3> QED
      BY <1>2, <3>1 DEF ExpandOK
  <2>4. CASE \/ \E s \in Lists, md \in Mode : CallSplit(s, md)
             \/ \E out \in Outputs : CallGetSystemLibraryPaths(out)
             \/ Include
    <3>1. result' = result /\ call' # "expand"
      BY <2>4 DEF CallSplit, CallGetSystemLibraryPaths, Include,
         CallAddIncludePaths, SplitStart
    <3> QED
      BY <2>1, <3>1
  <2>5. CASE Forget
    <3>1. result'.call = "none" /\ call' # "expand"
      BY <2>5 DEF Forget, NoResult
    <3> QED
      BY <2>1, <3>1
  <2>6. CASE AddIncludePaths
    <3>1. result' = result /\ call' # "expand"
      BY <2>6 DEF AddIncludePaths
    <3> QED
      BY <2>1, <3>1
  <2>7. CASE UNCHANGED vars
    BY <1>2, <2>7 DEF ExpandOK, vars
  <2>8. CASE SplitStep \/ LogStep \/ SplitLast
    <3>1. call \in {"split", "include", "libraries", "log"}
      BY <2>8 DEF SplitStep, LogStep, SplitLast, Splitting
    <3>2. CASE \E found, all : Return(found, all)
      <4>1. PICK found, all : Return(found, all)
        BY <3>2
      <4>2. \/ call' = "add" /\ result' = result
            \/ call' = "idle" /\ result'.call = IF call = "log" THEN "split" ELSE call
        BY <4>1 DEF Return
      <4> QED
        BY <2>1, <3>1, <4>2
    <3>3. CASE ~ \E found, all : Return(found, all)
      <4>1. result' = result /\ (call' = call \/ call' = "log")
        BY <2>8, <3>3 DEF SplitStep, LogStep, SplitLast
      <4> QED
        BY <2>1, <3>1, <4>1
    <3> QED
      BY <3>2, <3>3
  <2> QED
    BY <1>2, <2>2, <2>3, <2>4, <2>5, <2>6, <2>7, <2>8 DEF Next, Plain, Step
<1>3. Spec => []ExpandOK
  <2>1. Init => ExpandOK
    BY <1>1
  <2>2. IInv /\ ExpandOK /\ [Next]_vars => ExpandOK'
    BY <1>2
  <2> QED
    BY <2>1, <2>2, Inductive, PTL DEF Spec
<1>4. ExpandOK => ExpandIsRight
  <2>1. ExpandIsRight <=>
          (result.call = "expand" =>
             LET full == Expansion(result.input)[Len(result.input)]
             IN  /\ result.value = full
                 /\ result.path => result.all = (full \in Directory))
    BY DEF ExpandIsRight, Expansion, Piece, InName, NameFrom
  <2> QED
    BY <2>1 DEF ExpandOK
<1> QED
  BY <1>3, <1>4, PTL
=============================================================================
