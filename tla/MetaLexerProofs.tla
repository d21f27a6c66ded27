-------------------------- MODULE MetaLexerProofs --------------------------
(***************************************************************************)
(* The lexer reads every legal line right, whatever its length and the     *)
(* calls made: no call reads behind the NUL, tokens tile the line and are  *)
(* what their kinds promise, and look-ahead leaves no trace.               *)
(***************************************************************************)
EXTENDS MetaLexer, SequenceTheorems, WellFoundedInduction, TLAPS

-----------------------------------------------------------------------------
(* Induction, with a set for the predicate.                                *)

\* A set that holds 0, and i when it holds i - 1, holds everything up to n.
LEMMA UpInduction ==
    ASSUME NEW n \in Nat, NEW T, 0 \in T,
           \A i \in 1 .. n : i - 1 \in T => i \in T
    PROVE  \A i \in 0 .. n : i \in T
<1>1. SUFFICES ASSUME NEW k \in 0 .. n, k \notin T PROVE FALSE
  OBVIOUS
<1> DEFINE C == {i \in 0 .. n : i \notin T}
<1>2. C \subseteq Nat /\ C # {}
  BY <1>1
<1>3. PICK x \in C : \A y \in C : ~(<<y, x>> \in OpToRel(<, Nat))
  BY <1>2, NatLessThanWellFounded, WFMin
<1>4. \A y \in C : ~(y < x)
  BY <1>2, <1>3 DEF OpToRel
<1>5. x \in 1 .. n /\ x - 1 \in 0 .. n /\ x - 1 < x /\ x \notin T
  OBVIOUS
<1>6. x - 1 \notin C
  BY <1>4, <1>5
<1>7. x - 1 \in T
  BY <1>5, <1>6
<1> QED
  BY <1>5, <1>7

\* A set that holds q when it holds all greater ones holds everything to n.
LEMMA DownInduction ==
    ASSUME NEW n \in Nat, NEW T,
           \A q \in 1 .. n : (\A r \in q + 1 .. n : r \in T) => q \in T
    PROVE  \A q \in 1 .. n : q \in T
<1>1. SUFFICES ASSUME NEW k \in 1 .. n, k \notin T PROVE FALSE
  OBVIOUS
<1> DEFINE C == {n - i : i \in {j \in 1 .. n : j \notin T}}
<1>2. C \subseteq Nat /\ n - k \in C
  BY <1>1
<1>3. PICK x \in C : \A y \in C : ~(<<y, x>> \in OpToRel(<, Nat))
  BY <1>2, NatLessThanWellFounded, WFMin
<1>4. \A y \in C : ~(y < x)
  BY <1>2, <1>3 DEF OpToRel
<1>5. PICK q \in 1 .. n : q \notin T /\ x = n - q
  OBVIOUS
<1>6. ASSUME NEW r \in q + 1 .. n PROVE r \in T
  <2>1. r \in 1 .. n /\ n - r < x
    BY <1>5
  <2>2. n - r \notin C
    BY <1>4, <2>1
  <2> QED
    BY <2>1, <2>2
<1> QED
  BY <1>5, <1>6

-----------------------------------------------------------------------------
(* Recursive functions of the two shapes that the lexer uses exist.        *)

\* f is where a loop over 1 .. n ends that stops at the positions in Stop and
\* goes on at next otherwise.
Loop(f, n, Stop, next) ==
    f = [q \in 1 .. n |-> IF q \in Stop THEN q ELSE f[next[q]]]

\* A loop that stops somewhere and else goes on further to the right.
LEMMA LoopExists ==
    ASSUME NEW n \in Nat, NEW Stop, NEW next,
           \A q \in 1 .. n : q \in Stop \/ next[q] \in q + 1 .. n
    PROVE  \E f : Loop(f, n, Stop, next)
<1> DEFINE Solves(f, m) ==
        f = [q \in m .. n |-> IF q \in Stop THEN q ELSE f[next[q]]]
      T == {m \in 1 .. n : \E f : Solves(f, m)}
<1>1. ASSUME NEW m \in 1 .. n, \A r \in m + 1 .. n : r \in T
      PROVE  m \in T
  <2>1. CASE m = n
    <3> DEFINE f == [q \in m .. n |-> q]
    <3>1. n \in Stop
      <4>1. n \in 1 .. n /\ ~(\E x : x \in n + 1 .. n)
        OBVIOUS
      <4> QED
        BY <4>1
    <3>2. \A q \in m .. n : q = n
      BY <2>1
    <3>3. Solves(f, m)
      BY <3>1, <3>2
    <3> QED
      BY <3>3
  <2>2. CASE m # n
    <3>1. m + 1 \in m + 1 .. n
      BY <2>2
    <3>2. m + 1 \in T
      BY <1>1, <3>1
    <3>3. PICK g : Solves(g, m + 1)
      BY <3>2
    <3> DEFINE f == [q \in m .. n |->
          IF q = m THEN (IF m \in Stop THEN m ELSE g[next[m]]) ELSE g[q]]
    <3>4. ASSUME NEW q \in m .. n
          PROVE  f[q] = IF q \in Stop THEN q ELSE f[next[q]]
      <4>1. q \in Stop \/ (next[q] \in m + 1 .. n /\ next[q] # m /\ next[q] \in m .. n)
        <5>1. q \in 1 .. n
          OBVIOUS
        <5>2. q \in Stop \/ next[q] \in q + 1 .. n
          BY <5>1
        <5> QED
          BY <5>2
      <4>2. q \notin Stop => f[next[q]] = g[next[q]]
        BY <4>1
      <4>3. CASE q = m
        <5>1. f[q] = IF q \in Stop THEN q ELSE g[next[q]]
          BY <4>3
        <5> HIDE DEF f
        <5> QED
          BY <5>1, <4>2
      <4>4. CASE q # m
        <5>1. f[q] = g[q] /\ q \in m + 1 .. n
          BY <4>4
        <5>2. g[q] = IF q \in Stop THEN q ELSE g[next[q]]
          BY <3>3, <5>1
        <5> HIDE DEF f
        <5> QED
          BY <5>1, <5>2, <4>2
      <4> QED
        BY <4>3, <4>4
    <3>5. f = [q \in m .. n |-> f[q]]
      OBVIOUS
    <3>6. Solves(f, m)
      <4> HIDE DEF f
      <4> QED
        BY <3>4, <3>5
    <3> QED
      BY <3>6
  <2> QED
    BY <2>1, <2>2
<1> HIDE DEF T
<1>2. \A q \in 1 .. n : q \in T
  BY <1>1, DownInduction
<1>3. CASE n = 0
  <2> DEFINE f == [q \in 1 .. n |-> q]
  <2>1. \A q : q \notin 1 .. n
    BY <1>3
  <2>2. Solves(f, 1)
    BY <2>1
  <2> QED
    BY <2>2 DEF Loop
<1>4. CASE n # 0
  <2>1. 1 \in T
    BY <1>2, <1>4
  <2> QED
    BY <2>1 DEF T, Loop
<1> QED
  BY <1>3, <1>4

\* g is the linear recurrence from 0 with the factors a and the terms b.
Recurrence(g, n, a, b) ==
    g = [i \in 0 .. n |-> IF i = 0 THEN 0 ELSE a[i] * g[i - 1] + b[i]]

\* It has a solution.
LEMMA RecurrenceExists ==
    ASSUME NEW n \in Nat, NEW a \in [1 .. n -> Int], NEW b \in [1 .. n -> Int]
    PROVE  \E g : Recurrence(g, n, a, b)
<1> DEFINE Solves(g, m) ==
        g = [i \in 0 .. m |-> IF i = 0 THEN 0 ELSE a[i] * g[i - 1] + b[i]]
      T == {m \in 0 .. n : \E g : Solves(g, m)}
<1>1. 0 \in T
  <2> DEFINE g == [i \in 0 .. 0 |-> 0]
  <2>1. \A i \in 0 .. 0 : i = 0
    OBVIOUS
  <2>2. Solves(g, 0)
    BY <2>1
  <2>3. 0 \in 0 .. n
    OBVIOUS
  <2> QED
    BY <2>2, <2>3
<1>2. ASSUME NEW m \in 1 .. n, m - 1 \in T
      PROVE  m \in T
  <2>1. PICK h : Solves(h, m - 1)
    BY <1>2
  <2> DEFINE g == [i \in 0 .. m |-> IF i = m THEN a[m] * h[m - 1] + b[m] ELSE h[i]]
  <2>2. ASSUME NEW i \in 0 .. m
        PROVE  g[i] = IF i = 0 THEN 0 ELSE a[i] * g[i - 1] + b[i]
    <3>1. i # 0 => g[i - 1] = h[i - 1]
      <4>1. i # 0 => i - 1 \in 0 .. m /\ i - 1 # m
        OBVIOUS
      <4> QED
        BY <4>1
    <3>2. CASE i = m
      <4>1. g[i] = a[i] * h[i - 1] + b[i] /\ i # 0
        BY <3>2
      <4> HIDE DEF g
      <4> QED
        BY <3>1, <4>1
    <3>3. CASE i # m
      <4>1. g[i] = h[i] /\ i \in 0 .. m - 1
        BY <3>3
      <4> HIDE DEF g
      <4>2. h[i] = IF i = 0 THEN 0 ELSE a[i] * h[i - 1] + b[i]
        BY <2>1, <4>1
      <4> QED
        BY <3>1, <4>1, <4>2
    <3> QED
      BY <3>2, <3>3
  <2>3. g = [i \in 0 .. m |-> g[i]]
    OBVIOUS
  <2>4. Solves(g, m)
    <3> HIDE DEF g
    <3> QED
      BY <2>2, <2>3
  <2>5. m \in 0 .. n
    OBVIOUS
  <2> QED
    BY <2>4, <2>5
<1> HIDE DEF T
<1>3. \A m \in 0 .. n : m \in T
  BY <1>1, <1>2, UpInduction
<1>4. n \in 0 .. n
  OBVIOUS
<1> QED
  BY <1>3, <1>4 DEF T, Recurrence

\* Its values are integers.
LEMMA RecurrenceType ==
    ASSUME NEW n \in Nat, NEW a \in [1 .. n -> Int], NEW b \in [1 .. n -> Int],
           NEW g, Recurrence(g, n, a, b)
    PROVE  \A i \in 0 .. n : g[i] \in Int
<1> DEFINE T == {i \in 0 .. n : g[i] \in Int}
<1>1. 0 \in T
  BY DEF Recurrence
<1>2. ASSUME NEW i \in 1 .. n, i - 1 \in T PROVE i \in T
  <2>1. g[i] = a[i] * g[i - 1] + b[i]
    BY DEF Recurrence
  <2>2. a[i] \in Int /\ b[i] \in Int /\ g[i - 1] \in Int
    BY <1>2
  <2> QED
    BY <2>1, <2>2
<1> HIDE DEF T
<1>3. \A i \in 0 .. n : i \in T
  BY <1>1, <1>2, UpInduction
<1> QED
  BY <1>3 DEF T

-----------------------------------------------------------------------------
(* Lines and the loops over one class.                                     *)

\* What At finds in a line.
LEMMA Characters ==
    ASSUME NEW l \in Seq(Char)
    PROVE  /\ Nul(l) \in Nat /\ Nul(l) >= 1 /\ Len(l) \in Nat /\ Nul(l) = Len(l) + 1
           /\ \A i \in 1 .. Len(l) : At(l, i) = l[i] /\ At(l, i) \in Char
           /\ At(l, Nul(l)) = "nul"
           /\ \A i \in Int : i > Nul(l) => At(l, i) = "outside"
<1>1. DOMAIN l = 1 .. Len(l) /\ Len(l) \in Nat
  OBVIOUS
<1> QED
  BY <1>1 DEF At, Nul

\* The classes: no two of those that lex() tells apart share a character.
LEMMA Classes ==
    /\ Digits = {"0", "1", "2", "3", "4", "5", "6", "7", "8", "9"}
    /\ Char = {"0", "1", "2", "3", "4", "5", "6", "7", "8", "9", "dq", "sq", " ",
               "a", "[", "bs", "/", "*", "nl", "+"}
<1>1. DOMAIN Digit = 1 .. 10
  BY DEF Digit
<1>2. 1 .. 10 = {1, 2, 3, 4, 5, 6, 7, 8, 9, 10}
  OBVIOUS
<1>3. Digits = {"0", "1", "2", "3", "4", "5", "6", "7", "8", "9"}
  BY <1>1, <1>2 DEF Digits, Digit
<1> QED
  BY <1>3 DEF Char, Quotes, Blanks, Letters, Punctuation

\* A loop over a class ends at the first other character.
LEMMA Skips ==
    ASSUME NEW l \in Seq(Char), NEW S, S \subseteq Char, NEW p \in 1 .. Nul(l)
    PROVE  /\ SkipWhile(l, S, p) \in p .. Nul(l)
           /\ Longest(l, S, p, SkipWhile(l, S, p))
<1> DEFINE N == Nul(l)
           Stop == {q \in 1 .. N : At(l, q) \notin S}
           next == [q \in 1 .. N |-> q + 1]
<1>1. N \in Nat /\ p \in 1 .. N
  BY Characters
<1>2. At(l, N) \notin S
  BY Characters, Classes
<1>3. ASSUME NEW q \in 1 .. N PROVE q \in Stop \/ next[q] \in q + 1 .. N
  <2>1. q = N \/ q + 1 \in q + 1 .. N
    BY <1>1
  <2> QED
    BY <1>2, <2>1
<1>4. \E f : Loop(f, N, Stop, next)
  <2>1. \A q \in 1 .. N : q \in Stop \/ next[q] \in q + 1 .. N
    BY <1>3
  <2> HIDE DEF N, Stop, next
  <2> QED
    BY <1>1, <2>1, LoopExists
<1>5. PICK h : h = [q \in 1 .. N |-> IF At(l, q) \in S THEN h[q + 1] ELSE q]
  <2>1. PICK g : g = [q \in 1 .. N |-> IF q \in Stop THEN q ELSE g[next[q]]]
    BY <1>4 DEF Loop
  <2>2. \A q \in 1 .. N : (IF q \in Stop THEN q ELSE g[next[q]])
                           = IF At(l, q) \in S THEN g[q + 1] ELSE q
    OBVIOUS
  <2>3. g = [q \in 1 .. N |-> IF At(l, q) \in S THEN g[q + 1] ELSE q]
    <3> HIDE DEF Stop, next
    <3> QED
      BY <2>1, <2>2
  <2> QED
    BY <2>3
<1> DEFINE skip == CHOOSE f : f = [q \in 1 .. N |-> IF At(l, q) \in S THEN f[q + 1] ELSE q]
<1>6. skip = [q \in 1 .. N |-> IF At(l, q) \in S THEN skip[q + 1] ELSE q]
  <2> HIDE DEF N
  <2> QED
    BY <1>5
<1>7. SkipWhile(l, S, p) = skip[p]
  BY DEF SkipWhile
<1> HIDE DEF skip, N
<1> DEFINE T == {q \in 1 .. N : skip[q] \in q .. N /\ Longest(l, S, q, skip[q])}
<1>8. ASSUME NEW q \in 1 .. N, \A r \in q + 1 .. N : r \in T
      PROVE  q \in T
  <2>1. CASE At(l, q) \in S
    <3>1. q + 1 \in q + 1 .. N
      BY <1>1, <1>2, <2>1
    <3>2. skip[q] = skip[q + 1]
      BY <1>6, <2>1
    <3>3. skip[q + 1] \in q + 1 .. N /\ Longest(l, S, q + 1, skip[q + 1])
      BY <1>8, <3>1
    <3>4. skip[q] \in q .. N /\ \A i \in q .. skip[q] - 1 : i = q \/ i \in q + 1 .. skip[q] - 1
      BY <3>2, <3>3
    <3>5. Longest(l, S, q, skip[q])
      BY <2>1, <3>2, <3>3, <3>4 DEF Longest
    <3> QED
      BY <3>4, <3>5
  <2>2. CASE At(l, q) \notin S
    <3>1. skip[q] = q
      BY <1>6, <2>2
    <3>2. \A i : i \notin q .. q - 1
      OBVIOUS
    <3> QED
      BY <2>2, <3>1, <3>2 DEF Longest
  <2> QED
    BY <2>1, <2>2
<1> HIDE DEF T
<1>9. p \in T
  BY <1>1, <1>8, DownInduction
<1> QED
  BY <1>7, <1>9 DEF T, N

-----------------------------------------------------------------------------
(* Quoted strings.                                                         *)

\* A character behind one that is no backslash is not quoted.
LEMMA UnquotedBehind ==
    ASSUME NEW l, NEW p \in Nat, NEW q \in Nat, q >= p, At(l, q) # "bs"
    PROVE  Unquoted(l, p, q + 1)
<1>1. 0 \in 0 .. (q + 1) - 1 - p /\ 0 % 2 = 0 /\ (q + 1) - 0 - 1 = q
  OBVIOUS
<1>2. \A i : i \notin (q + 1) - 0 .. (q + 1) - 1
  OBVIOUS
<1> QED
  BY <1>1, <1>2 DEF Unquoted

\* A backslash that is not quoted quotes the next character.
LEMMA BackslashQuotes ==
    ASSUME NEW l, NEW p \in Nat, NEW q \in Nat, q > p, At(l, q) = "bs",
           Unquoted(l, p, q)
    PROVE  ~Unquoted(l, p, q + 1)
<1>1. SUFFICES ASSUME Unquoted(l, p, q + 1) PROVE FALSE
  OBVIOUS
<1>2. PICK n \in 0 .. q - 1 - p :
        /\ n % 2 = 0
        /\ \A i \in q - n .. q - 1 : At(l, i) = "bs"
        /\ At(l, q - n - 1) # "bs"
  BY DEF Unquoted
<1>3. PICK m \in 0 .. (q + 1) - 1 - p :
        /\ m % 2 = 0
        /\ \A i \in (q + 1) - m .. (q + 1) - 1 : At(l, i) = "bs"
        /\ At(l, (q + 1) - m - 1) # "bs"
  BY <1>1 DEF Unquoted
<1>4. n \in Nat /\ m \in Nat
  OBVIOUS
<1>5. (q + 1) - m - 1 = q - m /\ m # 0
  BY <1>3, <1>4
<1>6. ~(n + 1 < m)
  <2>1. n + 1 < m => q - n - 1 \in (q + 1) - m .. (q + 1) - 1
    BY <1>4
  <2> QED
    BY <1>2, <1>3, <2>1
<1>7. ~(m < n + 1)
  <2>1. m < n + 1 => q - m \in q - n .. q - 1
    BY <1>4, <1>5
  <2> QED
    BY <1>2, <1>3, <1>5, <2>1
<1>8. m = n + 1
  BY <1>4, <1>6, <1>7
<1> QED
  BY <1>2, <1>3, <1>4, <1>8

\* A backslash that is quoted quotes nothing.
LEMMA BackslashQuoted ==
    ASSUME NEW l, NEW p \in Nat, NEW q \in Nat, q > p, At(l, q) = "bs",
           At(l, q + 1) = "bs", Unquoted(l, p, q)
    PROVE  Unquoted(l, p, q + 2)
<1>1. PICK n \in 0 .. q - 1 - p :
        /\ n % 2 = 0
        /\ \A i \in q - n .. q - 1 : At(l, i) = "bs"
        /\ At(l, q - n - 1) # "bs"
  BY DEF Unquoted
<1>2. n \in Nat
  OBVIOUS
<1>3. n + 2 \in 0 .. (q + 2) - 1 - p /\ (n + 2) % 2 = 0
  BY <1>1, <1>2
<1>4. (q + 2) - (n + 2) - 1 = q - n - 1
  BY <1>2
<1>5. \A i \in (q + 2) - (n + 2) .. (q + 2) - 1 :
        i \in q - n .. q - 1 \/ i = q \/ i = q + 1
  BY <1>2
<1>6. \A i \in (q + 2) - (n + 2) .. (q + 2) - 1 : At(l, i) = "bs"
  BY <1>1, <1>5
<1>7. At(l, (q + 2) - (n + 2) - 1) # "bs"
  BY <1>1, <1>4
<1> QED
  BY <1>3, <1>6, <1>7 DEF Unquoted

\* From q on the loop for the quote at p ends at r.
EndsAt(l, p, q, r) ==
    /\ r \in q .. Nul(l)
    /\ At(l, r) \in {At(l, p), "nul"}
    /\ \A i \in q .. r : At(l, i) = At(l, p) => (Unquoted(l, p, i) <=> i = r)

\* The loop ends at the first quote that is not quoted, or at NUL.
LEMMA QuoteEnds ==
    ASSUME NEW l \in Seq(Char), NEW p \in 1 .. Len(l), At(l, p) \in Quotes,
           l[Len(l)] # "bs"
    PROVE  EndsAt(l, p, p + 1, QuoteEnd(l, p))
<1> DEFINE N == Nul(l) + 1
           Ends == {At(l, p), "nul", "outside"}
           Stop == {q \in 1 .. N : At(l, q) \in Ends}
           next == [q \in 1 .. N |-> IF At(l, q) = "bs" THEN q + 2 ELSE q + 1]
<1>1. /\ N \in Nat /\ Nul(l) \in Nat /\ Len(l) \in Nat
      /\ N = Nul(l) + 1 /\ Nul(l) = Len(l) + 1 /\ p \in 1 .. Len(l)
  BY Characters
<1>2. At(l, N) = "outside" /\ At(l, Nul(l)) = "nul"
  BY <1>1, Characters
<1>3. \A q \in 1 .. Nul(l) : At(l, q) # "outside"
  <2>1. \A q \in 1 .. Nul(l) : q \in 1 .. Len(l) \/ q = Nul(l)
    BY <1>1
  <2>2. \A q \in 1 .. Len(l) : At(l, q) \in Char
    BY Characters
  <2> QED
    BY <1>2, <2>1, <2>2, Classes
<1>4. "bs" \notin Ends /\ At(l, p) # "bs"
  BY DEF Quotes
<1>5. ASSUME NEW q \in 1 .. N, At(l, q) = "bs" PROVE q + 2 \in q + 1 .. Nul(l)
  <2>1. q # N /\ q # Nul(l)
    BY <1>2, <1>5
  <2>2. q # Len(l)
    <3>1. Len(l) \in 1 .. Len(l)
      BY <1>1
    <3>2. At(l, Len(l)) # "bs"
      BY <3>1, Characters
    <3> QED
      BY <1>5, <3>2
  <2> QED
    BY <1>1, <2>1, <2>2
<1>6. ASSUME NEW q \in 1 .. N PROVE q \in Stop \/ next[q] \in q + 1 .. N
  <2>1. CASE At(l, q) = "bs"
    <3>1. next[q] = q + 2
      BY <2>1
    <3> QED
      BY <1>1, <1>5, <2>1, <3>1
  <2>2. CASE At(l, q) # "bs" /\ q # N
    <3>1. next[q] = q + 1 /\ q + 1 \in q + 1 .. N
      BY <1>1, <2>2
    <3> QED
      BY <3>1
  <2>3. CASE q = N
    BY <1>2, <2>3
  <2> QED
    BY <2>1, <2>2, <2>3
<1>7. \E f : Loop(f, N, Stop, next)
  <2>1. \A q \in 1 .. N : q \in Stop \/ next[q] \in q + 1 .. N
    BY <1>6
  <2> HIDE DEF N, Stop, next
  <2> QED
    BY <1>1, <2>1, LoopExists
<1>8. PICK h : h = [q \in 1 .. N |-> IF At(l, q) = "bs" THEN h[q + 2]
                                     ELSE IF At(l, q) \in Ends THEN q
                                     ELSE h[q + 1]]
  <2>1. PICK g : g = [q \in 1 .. N |-> IF q \in Stop THEN q ELSE g[next[q]]]
    BY <1>7 DEF Loop
  <2>2. ASSUME NEW q \in 1 .. N
        PROVE  (IF q \in Stop THEN q ELSE g[next[q]])
                 = IF At(l, q) = "bs" THEN g[q + 2]
                   ELSE IF At(l, q) \in Ends THEN q ELSE g[q + 1]
    <3>1. next[q] = IF At(l, q) = "bs" THEN q + 2 ELSE q + 1
      OBVIOUS
    <3>2. q \in Stop <=> At(l, q) \in Ends
      OBVIOUS
    <3>3. At(l, q) = "bs" => At(l, q) \notin Ends
      BY <1>4
    <3> HIDE DEF Stop, next, Ends
    <3> QED
      BY <3>1, <3>2, <3>3
  <2>3. g = [q \in 1 .. N |-> IF At(l, q) = "bs" THEN g[q + 2]
                              ELSE IF At(l, q) \in Ends THEN q
                              ELSE g[q + 1]]
    <3> HIDE DEF Stop, next, N, Ends
    <3> QED
      BY <2>1, <2>2
  <2> QED
    BY <2>3
<1> DEFINE find == CHOOSE f : f = [q \in 1 .. N |->
                      IF At(l, q) = "bs" THEN f[q + 2]
                      ELSE IF At(l, q) \in Ends THEN q ELSE f[q + 1]]
<1>9. find = [q \in 1 .. N |-> IF At(l, q) = "bs" THEN find[q + 2]
                               ELSE IF At(l, q) \in Ends THEN q ELSE find[q + 1]]
  <2> HIDE DEF N, Ends
  <2> QED
    BY <1>8
<1>10. QuoteEnd(l, p) = find[p + 1]
  BY DEF QuoteEnd
<1> HIDE DEF find, N, Ends
<1> DEFINE R(q) == EndsAt(l, p, q, find[q])
           T == {q \in 1 .. Nul(l) : q > p /\ Unquoted(l, p, q) => R(q)}
<1>11. ASSUME NEW q \in 1 .. Nul(l), \A r \in q + 1 .. Nul(l) : r \in T
       PROVE  q \in T
  <2> SUFFICES ASSUME q > p, Unquoted(l, p, q) PROVE R(q)
    OBVIOUS
  <2> HIDE DEF T
  <2>0. q \in 1 .. N /\ q \in Nat /\ p \in Nat
    BY <1>1
  <2>1. CASE At(l, q) = "bs"
    <3>1. q + 2 \in q + 1 .. Nul(l)
      BY <1>5, <2>0, <2>1
    <3>2. find[q] = find[q + 2]
      BY <1>9, <2>0, <2>1
    <3>3. Unquoted(l, p, q + 2)
      <4>1. CASE At(l, q + 1) = "bs"
        BY <2>0, <2>1, <4>1, BackslashQuoted
      <4>2. CASE At(l, q + 1) # "bs"
        <5>1. PICK s \in Nat : s = q + 1
          BY <2>0
        <5>2. s >= p /\ At(l, s) # "bs" /\ s + 1 = q + 2
          BY <2>0, <4>2, <5>1
        <5>3. Unquoted(l, p, s + 1)
          BY <2>0, <5>2, UnquotedBehind
        <5> QED
          BY <5>2, <5>3
      <4> QED
        BY <4>1, <4>2
    <3>4. R(q + 2)
      BY <1>11, <2>0, <3>1, <3>3 DEF T
    <3>5. ~Unquoted(l, p, q + 1)
      BY <2>0, <2>1, BackslashQuotes
    <3> DEFINE r == find[q]
    <3>6. EndsAt(l, p, q + 2, r)
      BY <3>2, <3>4
    <3> HIDE DEF r
    <3>7. r \in q + 2 .. Nul(l) /\ At(l, r) \in {At(l, p), "nul"}
      BY <3>6 DEF EndsAt
    <3>8. ASSUME NEW i \in q .. r, At(l, i) = At(l, p)
          PROVE  Unquoted(l, p, i) <=> i = r
      <4>1. i # q
        BY <1>4, <2>1, <3>8
      <4>2. i = q + 1 \/ i \in q + 2 .. r
        BY <2>0, <3>7, <4>1
      <4>3. q + 1 # r
        BY <2>0, <3>7
      <4> QED
        BY <3>5, <3>6, <3>8, <4>2, <4>3 DEF EndsAt
    <3>9. r \in q .. Nul(l)
      BY <2>0, <3>7
    <3>10. EndsAt(l, p, q, r)
      BY <3>7, <3>8, <3>9 DEF EndsAt
    <3> QED
      BY <3>10 DEF r
  <2>2. CASE At(l, q) \in Ends
    <3>1. find[q] = q
      BY <1>4, <1>9, <2>0, <2>2
    <3>2. At(l, q) \in {At(l, p), "nul"}
      BY <1>3, <2>2 DEF Ends
    <3>3. \A i \in q .. q : i = q
      BY <2>0
    <3>4. EndsAt(l, p, q, q)
      BY <2>0, <3>2, <3>3 DEF EndsAt
    <3> QED
      BY <3>1, <3>4
  <2>3. CASE At(l, q) # "bs" /\ At(l, q) \notin Ends
    <3>1. find[q] = find[q + 1]
      BY <1>9, <2>0, <2>3
    <3>2. q + 1 \in q + 1 .. Nul(l)
      <4>1. q # Nul(l)
        BY <1>2, <2>3 DEF Ends
      <4> QED
        BY <1>1, <4>1
    <3>3. Unquoted(l, p, q + 1)
      BY <2>0, <2>3, UnquotedBehind
    <3>4. R(q + 1)
      BY <1>11, <2>0, <3>2, <3>3 DEF T
    <3> DEFINE r == find[q]
    <3>5. EndsAt(l, p, q + 1, r)
      BY <3>1, <3>4
    <3> HIDE DEF r
    <3>6. r \in q + 1 .. Nul(l) /\ At(l, r) \in {At(l, p), "nul"}
      BY <3>5 DEF EndsAt
    <3>7. ASSUME NEW i \in q .. r, At(l, i) = At(l, p)
          PROVE  Unquoted(l, p, i) <=> i = r
      <4>1. i # q
        BY <2>3, <3>7 DEF Ends
      <4>2. i \in q + 1 .. r
        BY <2>0, <3>6, <4>1
      <4> QED
        BY <3>5, <3>7, <4>2 DEF EndsAt
    <3>8. r \in q .. Nul(l)
      BY <2>0, <3>6
    <3>9. EndsAt(l, p, q, r)
      BY <3>6, <3>7, <3>8 DEF EndsAt
    <3> QED
      BY <3>9 DEF r
  <2> QED
    BY <2>1, <2>2, <2>3
<1> HIDE DEF T
<1>12. p + 1 \in T
  <2>1. p + 1 \in 1 .. Nul(l)
    BY <1>1
  <2>2. \A q \in 1 .. Nul(l) : q \in T
    BY <1>1, <1>11, DownInduction
  <2> QED
    BY <2>1, <2>2
<1>13. Unquoted(l, p, p + 1)
  <2>1. p \in Nat /\ p >= p
    BY <1>1
  <2> QED
    BY <1>4, <2>1, UnquotedBehind
<1>14. R(p + 1)
  BY <1>1, <1>12, <1>13 DEF T
<1> QED
  BY <1>10, <1>14

-----------------------------------------------------------------------------
(* The value of a constant.                                                *)

\* The weights are powers of ten.
LEMMA Weights ==
    /\ kPow10[1] = 1
    /\ \A k \in 1 .. 8 : kPow10[k] \in Int
    /\ \A k \in 1 .. 7 : kPow10[k + 1] = 10 * kPow10[k]
<1>1. \A k \in 1 .. 8 : k = 1 \/ k = 2 \/ k = 3 \/ k = 4 \/ k = 5 \/ k = 6 \/ k = 7 \/ k = 8
  OBVIOUS
<1>2. \A k \in 1 .. 7 : k = 1 \/ k = 2 \/ k = 3 \/ k = 4 \/ k = 5 \/ k = 6 \/ k = 7
  OBVIOUS
<1>3. /\ kPow10[1] = 1 /\ kPow10[2] = 10 /\ kPow10[3] = 100 /\ kPow10[4] = 1000
      /\ kPow10[5] = 10000 /\ kPow10[6] = 100000 /\ kPow10[7] = 1000000
      /\ kPow10[8] = 10000000
  BY DEF kPow10
<1>4. \A k \in 1 .. 8 : kPow10[k] \in Int
  BY <1>1, <1>3
<1>5. ASSUME NEW k \in 1 .. 7 PROVE kPow10[k + 1] = 10 * kPow10[k]
  <2>1. k + 1 = 2 \/ k + 1 = 3 \/ k + 1 = 4 \/ k + 1 = 5 \/ k + 1 = 6 \/ k + 1 = 7
        \/ k + 1 = 8
    OBVIOUS
  <2> QED
    BY <1>2, <1>3, <2>1
<1> QED
  BY <1>3, <1>4, <1>5

\* A digit has a value.
LEMMA DigitsHaveValues ==
    ASSUME NEW c \in Digits
    PROVE  DigitValue(c) \in Int
<1>1. PICK d \in DOMAIN Digit : Digit[d] = c
  BY DEF Digits
<1>2. DOMAIN Digit = 1 .. 10
  BY DEF Digit
<1> DEFINE e == CHOOSE f \in DOMAIN Digit : Digit[f] = c
<1>3. e \in 1 .. 10
  BY <1>1, <1>2
<1>4. DigitValue(c) = e - 1
  BY DEF DigitValue
<1> HIDE DEF e
<1> QED
  BY <1>3, <1>4

\* Up to eight digits: adding digits times their weights is the same as
\* reading the number from the left.
LEMMA ConstantsAreSpelt ==
    ASSUME NEW l, NEW t, NEW n \in 1 .. 8, t.len = n,
           \A i \in 1 .. n : At(l, t.start + i - 1) \in Digits
    PROVE  getConstant(l, t) = Spelt(l, t)
<1> DEFINE D(i) == DigitValue(At(l, t.start + i - 1))
           W(i) == Weight(n, i)
           d == [i \in 1 .. n |-> D(i)]
           w == [i \in 1 .. n |-> W(i)]
           dw == [i \in 1 .. n |-> d[i] * w[i]]
<1>1. ASSUME NEW i \in 1 .. n PROVE D(i) \in Int /\ W(i) \in Int
  <2>1. n - i + 1 \in 1 .. 8
    OBVIOUS
  <2> QED
    BY <2>1, DigitsHaveValues, Weights DEF Weight
<1>2. d \in [1 .. n -> Int] /\ w \in [1 .. n -> Int]
  BY <1>1
<1>3. dw \in [1 .. n -> Int]
  <2> HIDE DEF d, w
  <2>1. \A i \in 1 .. n : d[i] * w[i] \in Int
    BY <1>2
  <2> QED
    BY <2>1
<1>4. /\ [i \in 1 .. n |-> 1] \in [1 .. n -> Int]
      /\ [i \in 1 .. n |-> 10] \in [1 .. n -> Int]
      /\ n \in Nat
  OBVIOUS
<1> DEFINE Sum(g) == g = [i \in 0 .. n |-> IF i = 0 THEN 0 ELSE g[i - 1] + D(i) * W(i)]
           Upto(g) == g = [i \in 0 .. n |-> IF i = 0 THEN 0 ELSE 10 * g[i - 1] + D(i)]
<1>5. \E g : Sum(g)
  <2>1. PICK a : a = [i \in 1 .. n |-> 1]
    OBVIOUS
  <2>2. PICK b : b = dw
    OBVIOUS
  <2>3. a \in [1 .. n -> Int] /\ b \in [1 .. n -> Int]
    <3> HIDE DEF dw
    <3> QED
      BY <1>3, <1>4, <2>1, <2>2
  <2>4. PICK g : Recurrence(g, n, a, b)
    BY <1>4, <2>3, RecurrenceExists
  <2>5. \A i \in 0 .. n : g[i] \in Int
    <3> HIDE DEF dw
    <3> QED
      BY <1>4, <2>3, <2>4, RecurrenceType
  <2>6. ASSUME NEW i \in 0 .. n
        PROVE  (IF i = 0 THEN 0 ELSE a[i] * g[i - 1] + b[i])
                 = IF i = 0 THEN 0 ELSE g[i - 1] + D(i) * W(i)
    <3>1. CASE i # 0
      <4>1. i \in 1 .. n /\ i - 1 \in 0 .. n
        BY <3>1
      <4>2. a[i] = 1 /\ g[i - 1] \in Int
        BY <2>1, <2>5, <4>1
      <4>3. b[i] = D(i) * W(i)
        BY <2>2, <4>1
      <4> HIDE DEF D, W
      <4> QED
        BY <4>2, <4>3
    <3> QED
      BY <3>1
  <2>7. Sum(g)
    <3> HIDE DEF D, W
    <3> QED
      BY <2>4, <2>6 DEF Recurrence
  <2> QED
    BY <2>7
<1>6. \E g : Upto(g)
  <2>1. PICK a : a = [i \in 1 .. n |-> 10]
    OBVIOUS
  <2>2. a \in [1 .. n -> Int]
    BY <1>4, <2>1
  <2>3. PICK g : Recurrence(g, n, a, d)
    <3> HIDE DEF d
    <3> QED
      BY <1>2, <1>4, <2>2, RecurrenceExists
  <2>4. ASSUME NEW i \in 0 .. n
        PROVE  (IF i = 0 THEN 0 ELSE a[i] * g[i - 1] + d[i])
                 = IF i = 0 THEN 0 ELSE 10 * g[i - 1] + D(i)
    <3>1. CASE i # 0
      <4>1. i \in 1 .. n
        BY <3>1
      <4>2. a[i] = 10 /\ d[i] = D(i)
        BY <2>1, <4>1
      <4> HIDE DEF D, d
      <4> QED
        BY <4>2
    <3> QED
      BY <3>1
  <2>5. Upto(g)
    <3> HIDE DEF D, d
    <3> QED
      BY <2>3, <2>4 DEF Recurrence
  <2> QED
    BY <2>5
<1> DEFINE sum == CHOOSE g : Sum(g)
           upto == CHOOSE g : Upto(g)
<1>7. getConstant(l, t) = sum[n] /\ Spelt(l, t) = upto[n]
  BY DEF getConstant, Spelt
<1>8. Sum(sum) /\ Upto(upto)
  <2> HIDE DEF Sum, Upto
  <2> QED
    BY <1>5, <1>6
<1> HIDE DEF sum, upto, D, W
<1>9. sum[0] = 0 /\ upto[0] = 0
  BY <1>8
<1>10. ASSUME NEW i \in 1 .. n
       PROVE  sum[i] = sum[i - 1] + D(i) * W(i) /\ upto[i] = 10 * upto[i - 1] + D(i)
  BY <1>8
<1> HIDE DEF Sum, Upto
<1> DEFINE T == {i \in 0 .. n : /\ upto[i] \in Int
                                /\ i = 0 \/ sum[i] = upto[i] * W(i)}
<1>11. ASSUME NEW i \in 1 .. n, i - 1 \in T PROVE i \in T
  <2>1. PICK x \in Int : x = upto[i - 1]
    BY <1>11
  <2>2. PICK y \in Int : y = D(i)
    BY <1>1
  <2>3. PICK z \in Int : z = W(i)
    BY <1>1
  <2>4. upto[i] = 10 * x + y
    BY <1>10, <2>1, <2>2
  <2>5. sum[i - 1] = (10 * x) * z
    <3>1. CASE i - 1 = 0
      <4>1. sum[i - 1] = 0 /\ x = 0
        BY <1>9, <2>1, <3>1
      <4> QED
        BY <4>1
    <3>2. CASE i - 1 # 0
      <4>1. sum[i - 1] = x * W(i - 1)
        BY <1>11, <2>1, <3>2
      <4>2. W(i - 1) = 10 * W(i)
        <5>1. n - i + 1 \in 1 .. 7 /\ n - (i - 1) + 1 = (n - i + 1) + 1
          BY <3>2
        <5> QED
          BY <5>1, Weights DEF W, Weight
      <4>3. x * (10 * z) = (10 * x) * z
        OBVIOUS
      <4> QED
        BY <2>3, <4>1, <4>2, <4>3
    <3> QED
      BY <3>1, <3>2
  <2>6. sum[i] = (10 * x) * z + y * z
    BY <1>10, <2>2, <2>3, <2>5
  <2>7. (10 * x) * z + y * z = (10 * x + y) * z
    OBVIOUS
  <2>8. 10 * x + y \in Int /\ i \in 0 .. n
    OBVIOUS
  <2> QED
    BY <2>3, <2>4, <2>6, <2>7, <2>8
<1>12. 0 \in T
  BY <1>4, <1>9
<1> HIDE DEF T
<1>13. \A i \in 0 .. n : i \in T
  BY <1>4, <1>11, <1>12, UpInduction
<1>14. n \in 0 .. n /\ n # 0
  OBVIOUS
<1>15. upto[n] \in Int /\ sum[n] = upto[n] * W(n)
  BY <1>13, <1>14 DEF T
<1>16. W(n) = 1
  <2>1. n - n + 1 = 1
    OBVIOUS
  <2> QED
    BY <2>1, Weights DEF W, Weight
<1>17. sum[n] = upto[n]
  BY <1>15, <1>16
<1> QED
  BY <1>7, <1>17

-----------------------------------------------------------------------------
(* The tokens.                                                             *)

\* A line of the contract.
Fine(l) ==
    /\ l \in Seq(Char)
    /\ l # <<>> => l[Len(l)] # "bs"
    /\ \A i \in 1 .. Len(l) - 8 : \E k \in i .. i + 8 : l[k] \notin Digits

LEMMA LegalIsFine ==
    ASSUME Misuse = {}, NEW l \in Seq(Char), Legal(l)
    PROVE  Fine(l)
<1>1. "backslash" \notin Misuse /\ "digits" \notin Misuse
  OBVIOUS
<1> QED
  BY <1>1 DEF Legal, Fine

\* t is what a call at p should read from l.
Good(l, p, t) ==
    /\ t.start \in 1 .. Nul(l)
    /\ t.len \in 0 .. Nul(l)
    /\ t.next \in 1 .. Nul(l) + 1
    /\ t.next = Nul(l) + 1 => t.kind = "eof"
    /\ t.kind = "eof" => t.next \in {Nul(l), Nul(l) + 1}
    /\ t.kind # "eof" => /\ t.start = p
                         /\ t.next = p + (IF t.len = 0 THEN 1 ELSE t.len)
    /\ Right(l, t)

\* A token that is not empty and ends before the NUL.
LEMMA GoodToken ==
    ASSUME NEW l \in Seq(Char), NEW p \in 1 .. Nul(l), NEW kind, kind # "eof",
           NEW q \in p + 1 .. Nul(l), Right(l, Token(kind, p, q - p, q))
    PROVE  Good(l, p, Token(kind, p, q - p, q))
<1> DEFINE t == Token(kind, p, q - p, q)
<1>1. t.kind = kind /\ t.start = p /\ t.len = q - p /\ t.next = q
  BY DEF Token
<1>2. Right(l, t)
  OBVIOUS
<1>3. Nul(l) \in Nat
  BY Characters
<1>4. /\ q - p \in 0 .. Nul(l) /\ q - p # 0 /\ q \in 1 .. Nul(l) + 1
      /\ q # Nul(l) + 1 /\ p + (q - p) = q
  BY <1>3
<1> HIDE DEF t
<1>5. Good(l, p, t)
  BY <1>1, <1>2, <1>4 DEF Good
<1> QED
  BY <1>5 DEF t

\* The end of a run that is not empty.
LEMMA RunEnds ==
    ASSUME NEW l \in Seq(Char), NEW S, S \subseteq Char, NEW p \in 1 .. Nul(l),
           At(l, p) \in S
    PROVE  /\ SkipWhile(l, S, p) \in p + 1 .. Nul(l)
           /\ Longest(l, S, p, SkipWhile(l, S, p))
<1> DEFINE q == SkipWhile(l, S, p)
<1>1. q \in p .. Nul(l) /\ Longest(l, S, p, q)
  BY Skips
<1>2. Nul(l) \in Nat
  BY Characters
<1> HIDE DEF q
<1>3. q # p
  BY <1>1 DEF Longest
<1>4. q \in p + 1 .. Nul(l)
  BY <1>1, <1>2, <1>3
<1> QED
  BY <1>1, <1>4 DEF q

\* What the kind of a run promises, the value of a constant apart.
LEMMA RunIsGood ==
    ASSUME NEW l \in Seq(Char), NEW p \in 1 .. Nul(l), NEW S, NEW kind,
           At(l, p) \in S,
           \/ kind = "ident" /\ S = Letters \cup Digits /\ At(l, p) \in Letters
           \/ kind = "space" /\ S = Blanks
           \/ kind = "raw_ident" /\ S = Word
    PROVE  Good(l, p, Run(kind, l, S, p))
<1> DEFINE q == SkipWhile(l, S, p)
           t == Token(kind, p, q - p, q)
<1>1. S \subseteq Char
  BY DEF Char, Word
<1>2. q \in p + 1 .. Nul(l) /\ Longest(l, S, p, q)
  BY <1>1, RunEnds
<1>3. t.kind = kind /\ t.start = p /\ t.len = q - p
  BY DEF Token
<1>4. p + (q - p) = q /\ q > p
  BY <1>2, Characters
<1>5. Right(l, t)
  <2> HIDE DEF q, t
  <2>1. t.start + t.len = q
    BY <1>3, <1>4
  <2> QED
    BY <1>2, <1>3, <1>4, <2>1 DEF Right
<1>6. Run(kind, l, S, p) = t
  BY DEF Run
<1>7. kind # "eof"
  OBVIOUS
<1> HIDE DEF q
<1>8. Good(l, p, t)
  BY <1>2, <1>5, <1>7, GoodToken
<1> QED
  BY <1>6, <1>8

\* A constant of a line of the contract has at most eight digits, and the
\* value that they spell.
LEMMA ConstantIsGood ==
    ASSUME NEW l, Fine(l), NEW p \in 1 .. Nul(l), At(l, p) \in Digits
    PROVE  Good(l, p, Run("constant", l, Digits, p))
<1> DEFINE q == SkipWhile(l, Digits, p)
           t == Token("constant", p, q - p, q)
<1>0. l \in Seq(Char)
  BY DEF Fine
<1>1. Digits \subseteq Char
  BY DEF Char
<1>2. q \in p + 1 .. Nul(l) /\ Longest(l, Digits, p, q)
  BY <1>0, <1>1, RunEnds
<1>3. t.kind = "constant" /\ t.start = p /\ t.len = q - p
  BY DEF Token
<1>4. p + (q - p) = q /\ q > p /\ Nul(l) = Len(l) + 1 /\ Len(l) \in Nat
  BY <1>0, <1>2, Characters
<1>5. Run("constant", l, Digits, p) = t
  BY DEF Run
<1> HIDE DEF q
<1>6. q - p \in 1 .. 8
  <2>1. SUFFICES ASSUME q - p > 8 PROVE FALSE
    BY <1>2, <1>4
  <2>2. p \in 1 .. Len(l) - 8
    BY <1>2, <1>4, <2>1
  <2>3. PICK k \in p .. p + 8 : l[k] \notin Digits
    BY <2>2 DEF Fine
  <2>4. k \in p .. q - 1 /\ k \in 1 .. Len(l)
    BY <1>2, <1>4, <2>1
  <2>5. At(l, k) \in Digits
    BY <1>2, <2>4 DEF Longest
  <2>6. At(l, k) = l[k]
    BY <1>0, <2>4, Characters
  <2> QED
    BY <2>3, <2>5, <2>6
<1>7. getConstant(l, t) = Spelt(l, t)
  <2>1. PICK n \in 1 .. 8 : n = q - p
    BY <1>6
  <2>2. ASSUME NEW i \in 1 .. n PROVE At(l, t.start + i - 1) \in Digits
    <3>1. p + i - 1 \in p .. q - 1
      BY <1>2, <2>1
    <3>2. At(l, p + i - 1) \in Digits
      BY <1>2, <3>1 DEF Longest
    <3> QED
      BY <1>3, <3>2
  <2>3. t.len = n
    BY <1>3, <2>1
  <2>4. \A i \in 1 .. n : At(l, t.start + i - 1) \in Digits
    BY <2>2
  <2> HIDE DEF t
  <2> QED
    BY <2>3, <2>4, ConstantsAreSpelt
<1>8. Right(l, t)
  <2> HIDE DEF t
  <2>1. t.start + t.len = q
    BY <1>3, <1>4
  <2> QED
    BY <1>2, <1>3, <1>7, <2>1 DEF Right
<1>9. Good(l, p, t)
  BY <1>0, <1>2, <1>8, GoodToken
<1> QED
  BY <1>5, <1>9

\* A literal ends at the first quote of its sort that is not quoted.
LEMMA LiteralIsGood ==
    ASSUME NEW l, Fine(l), NEW p \in 1 .. Nul(l), At(l, p) \in Quotes
    PROVE  Good(l, p, lexQuotedStringAndAdvance(l, p))
<1> DEFINE r == QuoteEnd(l, p)
           kind == IF At(l, p) = "dq" THEN "stringlit" ELSE "charlit"
<1>1. /\ l \in Seq(Char) /\ Nul(l) = Len(l) + 1 /\ Len(l) \in Nat
      /\ At(l, Nul(l)) = "nul"
  BY Characters DEF Fine
<1>2. At(l, p) # "nul" /\ p \in 1 .. Len(l)
  <2>1. At(l, p) # "nul"
    BY DEF Quotes
  <2> QED
    BY <1>1, <2>1
<1>3. l[Len(l)] # "bs"
  <2>1. l # <<>>
    BY <1>2
  <2> QED
    BY <2>1 DEF Fine
<1>4. EndsAt(l, p, p + 1, r)
  BY <1>1, <1>2, <1>3, QuoteEnds
<1>5. lexQuotedStringAndAdvance(l, p)
        = IF At(l, r) = At(l, p) THEN Token(kind, p, r + 1 - p, r + 1)
          ELSE Token("eof", r, 0, r)
  BY DEF lexQuotedStringAndAdvance
<1> HIDE DEF r
<1>6. r \in p + 1 .. Nul(l) /\ At(l, r) \in {At(l, p), "nul"}
  BY <1>4 DEF EndsAt
<1>7. CASE At(l, r) = At(l, p)
  <2> DEFINE t == Token(kind, p, r + 1 - p, r + 1)
  <2>1. t.kind = kind /\ t.start = p /\ t.len = r + 1 - p
    BY DEF Token
  <2>2. r # Nul(l)
    BY <1>1, <1>2, <1>7
  <2>3. /\ r + 1 \in p + 1 .. Nul(l) /\ p + (r + 1 - p) = r + 1
        /\ (r + 1) - 1 = r /\ r > p
    BY <1>1, <1>6, <2>2
  <2>4. /\ kind \in {"stringlit", "charlit"}
        /\ At(l, p) = IF kind = "stringlit" THEN "dq" ELSE "sq"
    BY DEF Quotes
  <2>5. \A i \in p + 1 .. r : At(l, i) = At(l, p) /\ Unquoted(l, p, i) <=> i = r
    <3>1. \A i \in p + 1 .. r : At(l, i) = At(l, p) => (Unquoted(l, p, i) <=> i = r)
      BY <1>4 DEF EndsAt
    <3> QED
      BY <1>7, <3>1
  <2>6. Right(l, t)
    <3> HIDE DEF t, kind
    <3>1. t.start + t.len = r + 1
      BY <2>1, <2>3
    <3> QED
      BY <1>7, <2>1, <2>3, <2>4, <2>5, <3>1 DEF Right
  <2>7. kind # "eof"
    BY <2>4
  <2>8. Good(l, p, Token(kind, p, r + 1 - p, r + 1))
    <3> HIDE DEF kind
    <3>1. PICK q : q = r + 1 /\ q - p = r + 1 - p
      BY <1>1, <1>6
    <3>2. q \in p + 1 .. Nul(l) /\ Right(l, Token(kind, p, q - p, q))
      BY <2>3, <2>6, <3>1
    <3>3. Good(l, p, Token(kind, p, q - p, q))
      BY <1>1, <2>7, <3>2, GoodToken
    <3> QED
      BY <3>1, <3>3
  <2>9. lexQuotedStringAndAdvance(l, p) = t
    <3> HIDE DEF kind
    <3> QED
      BY <1>5, <1>7
  <2>10. Good(l, p, t)
    BY <2>8
  <2> HIDE DEF t
  <2> QED
    BY <2>9, <2>10
<1>8. CASE At(l, r) # At(l, p)
  <2> DEFINE t == Token("eof", r, 0, r)
  <2>1. t.kind = "eof" /\ t.start = r /\ t.len = 0 /\ t.next = r
    BY DEF Token
  <2>2. At(l, r) = "nul"
    BY <1>6, <1>8
  <2>3. r = Nul(l)
    <3>1. r # Nul(l) => r \in 1 .. Len(l)
      BY <1>1, <1>6
    <3>2. \A i \in 1 .. Len(l) : At(l, i) # "nul"
      BY <1>1, Characters, Classes
    <3> QED
      BY <2>2, <3>1, <3>2
  <2> HIDE DEF t
  <2>4. Right(l, t)
    BY <2>1, <2>2 DEF Right
  <2>5. r \in 1 .. Nul(l) /\ r \in 1 .. Nul(l) + 1 /\ 0 \in 0 .. Nul(l)
    BY <1>1, <1>6
  <2>6. Good(l, p, t)
    BY <2>1, <2>3, <2>4, <2>5 DEF Good
  <2> QED
    BY <1>5, <1>8, <2>6 DEF t
<1> QED
  BY <1>7, <1>8

\* A token of two characters.
LEMMA CommentIsGood ==
    ASSUME NEW l \in Seq(Char), NEW p \in 1 .. Nul(l), NEW kind,
           \/ kind = "comment" /\ At(l, p) = "/" /\ At(l, p + 1) = "/"
           \/ kind = "l_comment" /\ At(l, p) = "/" /\ At(l, p + 1) = "*"
           \/ kind = "r_comment" /\ At(l, p) = "*" /\ At(l, p + 1) = "/"
    PROVE  Good(l, p, Token(kind, p, 2, p + 2))
<1> DEFINE t == Token(kind, p, 2, p + 2)
<1>1. /\ Nul(l) = Len(l) + 1 /\ Len(l) \in Nat /\ At(l, Nul(l)) = "nul"
      /\ \A i \in Int : i > Nul(l) => At(l, i) = "outside"
  BY Characters
<1>2. t.kind = kind /\ t.start = p /\ t.len = 2 /\ t.next = p + 2
  BY DEF Token
<1>3. p # Nul(l) /\ p + 1 # Nul(l)
  BY <1>1
<1>4. p + 2 \in 1 .. Nul(l) + 1 /\ p + 2 # Nul(l) + 1 /\ 2 \in 0 .. Nul(l)
  BY <1>1, <1>3
<1> HIDE DEF t
<1>5. Right(l, t)
  BY <1>2 DEF Right
<1>6. Good(l, p, t)
  BY <1>2, <1>4, <1>5 DEF Good
<1> QED
  BY <1>6 DEF t

\* A token that ends one behind its start: a punctuator, the end of the line,
\* or a character that lex() has no case for.
LEMMA SingleIsGood ==
    ASSUME NEW l \in Seq(Char), NEW p \in 1 .. Nul(l), NEW kind, NEW n \in {0, 1},
           \/ /\ kind = "punctuator" /\ n = 1 /\ At(l, p) \in Punctuation
              /\ At(l, p) = "/" => At(l, p + 1) \notin {"/", "*"}
           \/ kind = "eof" /\ At(l, p) = "nul"
           \/ kind = "unknown" /\ At(l, p) # "nul"
    PROVE  Good(l, p, Token(kind, p, n, p + 1))
<1> DEFINE t == Token(kind, p, n, p + 1)
<1>1. /\ Nul(l) = Len(l) + 1 /\ Len(l) \in Nat /\ At(l, Nul(l)) = "nul"
      /\ \A i \in 1 .. Len(l) : At(l, i) # "nul"
  BY Characters, Classes
<1>2. t.kind = kind /\ t.start = p /\ t.len = n /\ t.next = p + 1
  BY DEF Token
<1>3. p + 1 \in 1 .. Nul(l) + 1 /\ n \in 0 .. Nul(l) /\ (IF n = 0 THEN 1 ELSE n) = 1
  BY <1>1
<1>4. p = Nul(l) <=> kind = "eof"
  <2>1. p = Nul(l) \/ p \in 1 .. Len(l)
    BY <1>1
  <2>2. "nul" \notin Punctuation
    BY DEF Punctuation
  <2> QED
    BY <1>1, <2>1, <2>2
<1> HIDE DEF t
<1>5. Right(l, t)
  BY <1>2 DEF Right
<1>6. p + 1 = Nul(l) + 1 => p = Nul(l)
  BY <1>1
<1>7. Good(l, p, t)
  BY <1>2, <1>3, <1>4, <1>5, <1>6 DEF Good
<1> QED
  BY <1>7 DEF t

\* The rest of a line, of a kind that promises nothing.
LEMMA RestIsGood ==
    ASSUME NEW l \in Seq(Char), NEW p \in 1 .. Nul(l)
    PROVE  LET t == Run("rest", l, RestOfLine, p)
           IN  /\ t.start = p /\ t.kind = "rest"
               /\ t.next \in p .. Nul(l) /\ t.len \in 0 .. Nul(l)
               /\ Right(l, t)
<1> DEFINE q == SkipWhile(l, RestOfLine, p)
           t == Token("rest", p, q - p, q)
<1>1. q \in p .. Nul(l) /\ Nul(l) \in Nat
  <2>1. RestOfLine \subseteq Char
    BY DEF RestOfLine
  <2> QED
    BY <2>1, Skips, Characters
<1>2. t.kind = "rest" /\ t.start = p /\ t.len = q - p /\ t.next = q
  BY DEF Token
<1>3. Run("rest", l, RestOfLine, p) = t
  BY DEF Run
<1> HIDE DEF q, t
<1>4. Right(l, t)
  BY <1>2 DEF Right
<1>5. q - p \in 0 .. Nul(l)
  BY <1>1
<1> QED
  BY <1>1, <1>2, <1>3, <1>4, <1>5

\* What lex() reads is good.
LEMMA LexedIsGood ==
    ASSUME NEW l, Fine(l), NEW p \in 1 .. Nul(l)
    PROVE  Good(l, p, Lexed(l, p))
<1>1. l \in Seq(Char)
  BY DEF Fine
<1>2. /\ Digits = {"0", "1", "2", "3", "4", "5", "6", "7", "8", "9"}
      /\ Quotes = {"dq", "sq"} /\ Blanks = {" "} /\ Letters = {"a"}
      /\ Punctuation = {"[", "bs", "/", "*"}
  BY Classes DEF Quotes, Blanks, Letters, Punctuation
<1>3. At(l, p) \in Char \cup {"nul"}
  <2>1. /\ Nul(l) = Len(l) + 1 /\ Len(l) \in Nat /\ At(l, Nul(l)) = "nul"
        /\ \A i \in 1 .. Len(l) : At(l, i) \in Char
    BY <1>1, Characters
  <2>2. p = Nul(l) \/ p \in 1 .. Len(l)
    BY <2>1
  <2> QED
    BY <2>1, <2>2
<1> DEFINE c == At(l, p)
           d == At(l, p + 1)
<1>4. CASE c \in Quotes
  <2>1. Lexed(l, p) = lexQuotedStringAndAdvance(l, p)
    BY <1>2, <1>4 DEF Lexed
  <2> QED
    BY <1>4, <2>1, LiteralIsGood
<1>5. CASE c = "/" /\ d = "/"
  <2>1. Lexed(l, p) = Token("comment", p, 2, p + 2)
    BY <1>2, <1>5 DEF Lexed
  <2> QED
    BY <1>1, <1>5, <2>1, CommentIsGood
<1>6. CASE c = "/" /\ d = "*"
  <2>1. Lexed(l, p) = Token("l_comment", p, 2, p + 2)
    BY <1>2, <1>6 DEF Lexed
  <2> QED
    BY <1>1, <1>6, <2>1, CommentIsGood
<1>7. CASE c = "*" /\ d = "/"
  <2>1. Lexed(l, p) = Token("r_comment", p, 2, p + 2)
    BY <1>2, <1>7 DEF Lexed
  <2> QED
    BY <1>1, <1>7, <2>1, CommentIsGood
<1>8. CASE c \in Digits
  <2>1. Lexed(l, p) = Run("constant", l, Digits, p)
    BY <1>2, <1>8 DEF Lexed
  <2> QED
    BY <1>8, <2>1, ConstantIsGood
<1>9. CASE c \in Letters
  <2>1. Lexed(l, p) = Run("ident", l, Letters \cup Digits, p)
    BY <1>2, <1>9 DEF Lexed
  <2>2. Good(l, p, Run("ident", l, Letters \cup Digits, p))
    BY <1>1, <1>9, RunIsGood
  <2> QED
    BY <2>1, <2>2
<1>10. CASE c \in Blanks
  <2>1. Lexed(l, p) = Run("space", l, Blanks, p)
    BY <1>2, <1>10 DEF Lexed
  <2>2. Good(l, p, Run("space", l, Blanks, p))
    BY <1>1, <1>10, RunIsGood
  <2> QED
    BY <2>1, <2>2
<1>11. CASE c = "nul"
  <2>1. Lexed(l, p) = Token("eof", p, 1, p + 1)
    BY <1>2, <1>11 DEF Lexed
  <2> QED
    BY <1>1, <1>11, <2>1, SingleIsGood
<1>12. CASE c \in {"nl", "+"}
  <2>1. Lexed(l, p) = Token("unknown", p, 0, p + 1)
    BY <1>2, <1>12 DEF Lexed
  <2> QED
    BY <1>1, <1>12, <2>1, SingleIsGood
<1>13. CASE /\ c \in Punctuation
            /\ ~(c = "/" /\ d = "/") /\ ~(c = "/" /\ d = "*") /\ ~(c = "*" /\ d = "/")
  <2>1. Lexed(l, p) = Token("punctuator", p, 1, p + 1)
    BY <1>2, <1>13 DEF Lexed
  <2> QED
    BY <1>1, <1>13, <2>1, SingleIsGood
<1>14. \/ c \in Quotes \/ c \in Digits \/ c \in Letters \/ c \in Blanks \/ c = "nul"
       \/ c \in {"nl", "+"} \/ c \in Punctuation
  BY <1>3 DEF Char
<1> HIDE DEF c, d
<1> QED
  BY <1>4, <1>5, <1>6, <1>7, <1>8, <1>9, <1>10, <1>11, <1>12, <1>13, <1>14

-----------------------------------------------------------------------------
(* The lexer.                                                              *)

IInv ==
    /\ Fine(line)
    /\ pos \in 1 .. Nul(line) + 1
    /\ token.start \in 1 .. Nul(line) /\ token.len \in 0 .. Nul(line)
    /\ overrun \in BOOLEAN
    /\ saved \in Seq(1 .. Nul(line))
    /\ ReadsInBounds
    /\ TokensAreRight
    /\ LookaheadReturns

\* A line and a cursor in it, before the first token.
LEMMA Fresh ==
    ASSUME NEW l \in Seq(Char)
    PROVE  /\ NoToken.start \in 1 .. Nul(l) /\ NoToken.len \in 0 .. Nul(l)
           /\ NoToken.kind # "eof" /\ Right(l, NoToken)
           /\ 1 \in 1 .. Nul(l)
<1>1. Nul(l) \in Nat /\ Nul(l) >= 1
  BY Characters
<1>2. NoToken.start = 1 /\ NoToken.len = 0 /\ NoToken.kind = "unknown"
  BY DEF NoToken, Token
<1>3. Right(l, NoToken)
  <2> HIDE DEF NoToken
  <2> QED
    BY <1>2 DEF Right
<1> QED
  BY <1>1, <1>2, <1>3

LEMMA InitIInv ==
    ASSUME Misuse = {}, Init
    PROVE  IInv
<1>1. line \in Seq(Char) /\ Fine(line)
  BY MetaLexerAssumption, LegalIsFine DEF Init
<1>2. Nul(line) \in Nat /\ Nul(line) >= 1
  BY <1>1, Characters
<1>3. SkipWhile(line, Blanks, 1) \in 1 .. Nul(line)
  <2>1. Blanks \subseteq Char /\ 1 \in 1 .. Nul(line)
    BY <1>2 DEF Char
  <2> QED
    BY <1>1, <2>1, Skips
<1>4. pos \in 1 .. Nul(line) /\ pos # Nul(line) + 1 /\ pos \in 1 .. Nul(line) + 1
  BY <1>2, <1>3 DEF Init
<1>5. token = NoToken /\ overrun = FALSE /\ saved = <<>> /\ covered = pos
  BY DEF Init
<1>6. TokensAreRight
  BY <1>1, <1>5, Fresh DEF TokensAreRight
<1>7. ReadsInBounds
  BY <1>4, <1>5 DEF ReadsInBounds
<1>8. LookaheadReturns
  BY <1>5 DEF LookaheadReturns
<1>9. token.start \in 1 .. Nul(line) /\ token.len \in 0 .. Nul(line)
  BY <1>1, <1>5, Fresh
<1>10. saved \in Seq(1 .. Nul(line))
  <2>1. PICK S : S = 1 .. Nul(line)
    OBVIOUS
  <2>2. saved \in Seq(S)
    BY <1>5
  <2> QED
    BY <2>1, <2>2
<1> QED
  BY <1>1, <1>4, <1>5, <1>6, <1>7, <1>8, <1>9, <1>10 DEF IInv

\* Saved positions are positions of the line.
LEMMA SavedPositions ==
    ASSUME IInv
    PROVE  /\ Len(saved) \in Nat /\ DOMAIN saved = 1 .. Len(saved)
           /\ \A i \in 1 .. Len(saved) : saved[i] \in 1 .. Nul(line)
           /\ saved # <<>> => Len(saved) >= 1
<1>1. PICK S : S = 1 .. Nul(line)
  OBVIOUS
<1>2. saved \in Seq(S)
  BY <1>1 DEF IInv
<1>3. /\ Len(saved) \in Nat /\ DOMAIN saved = 1 .. Len(saved)
      /\ \A i \in 1 .. Len(saved) : saved[i] \in S
      /\ saved # <<>> => Len(saved) >= 1
  BY <1>2
<1> QED
  BY <1>1, <1>3

\* While the client goes on, the cursor is in the line or at its NUL.
LEMMA InLine ==
    ASSUME IInv, ~AtEnd
    PROVE  /\ line \in Seq(Char) /\ Nul(line) \in Nat /\ pos \in 1 .. Nul(line)
           /\ \A i \in 1 .. Nul(line) : At(line, i) # "outside"
<1>1. line \in Seq(Char)
  BY DEF IInv, Fine
<1>2. Nul(line) \in Nat /\ Nul(line) = Len(line) + 1 /\ At(line, Nul(line)) = "nul"
  BY <1>1, Characters
<1>3. pos # Nul(line) + 1
  BY DEF IInv, ReadsInBounds
<1>4. pos \in 1 .. Nul(line)
  BY <1>2, <1>3 DEF IInv
<1>5. \A i \in 1 .. Nul(line) : i \in 1 .. Len(line) \/ i = Nul(line)
  BY <1>2
<1>6. \A i \in 1 .. Len(line) : At(line, i) # "outside"
  BY <1>1, Characters, Classes
<1> QED
  BY <1>1, <1>2, <1>4, <1>5, <1>6

\* What a call that reads needs of its token.
Readable(l, t) ==
    /\ t.start \in 1 .. Nul(l) /\ t.len \in 0 .. Nul(l)
    /\ t.next \in 1 .. Nul(l) + 1
    /\ t.next = Nul(l) + 1 => t.kind = "eof"
    /\ Right(l, t)

LEMMA ReadsIInv ==
    ASSUME IInv, ~AtEnd, NEW t, Readable(line, t), Reads(t)
    PROVE  IInv'
<1>1. /\ token' = t /\ pos' = t.next /\ line' = line /\ saved' = saved
      /\ overrun' = (overrun \/ t.next > Nul(line) + 1 \/ At(line, t.start) = "outside")
      /\ covered' = IF saved = <<>> THEN t.next ELSE covered
  BY DEF Reads
<1>2. /\ t.start \in 1 .. Nul(line) /\ t.len \in 0 .. Nul(line)
      /\ t.next \in 1 .. Nul(line) + 1
      /\ t.next = Nul(line) + 1 => t.kind = "eof"
      /\ Right(line, t)
  BY DEF Readable
<1>3. Nul(line) \in Nat /\ \A i \in 1 .. Nul(line) : At(line, i) # "outside"
  BY InLine
<1>4. ~overrun' /\ overrun' \in BOOLEAN
  <2>1. ~(t.next > Nul(line) + 1) /\ At(line, t.start) # "outside" /\ ~overrun
    BY <1>2, <1>3 DEF IInv, ReadsInBounds
  <2> QED
    BY <1>1, <2>1
<1>5. Nul(line') = Nul(line)
  BY <1>1
<1>6. ReadsInBounds'
  BY <1>1, <1>2, <1>4, <1>5 DEF ReadsInBounds, AtEnd
<1>7. TokensAreRight'
  BY <1>1, <1>2 DEF TokensAreRight
<1>8. LookaheadReturns'
  BY <1>1 DEF LookaheadReturns, IInv
<1>9. Fine(line') /\ saved' \in Seq(1 .. Nul(line'))
  BY <1>1 DEF IInv
<1>10. /\ pos' \in 1 .. Nul(line') + 1
       /\ token'.start \in 1 .. Nul(line') /\ token'.len \in 0 .. Nul(line')
  BY <1>1, <1>2
<1> QED
  BY <1>4, <1>6, <1>7, <1>8, <1>9, <1>10 DEF IInv

LEMMA lexIInv ==
    ASSUME IInv, lex
    PROVE  IInv' /\ Good(line, pos, Lexed(line, pos))
<1>1. ~AtEnd
  BY DEF lex
<1>2. pos \in 1 .. Nul(line) /\ Fine(line)
  BY <1>1, InLine DEF IInv
<1>3. PICK t : t = Lexed(line, pos)
  OBVIOUS
<1>4. Good(line, pos, t)
  BY <1>2, <1>3, LexedIsGood
<1>5. Readable(line, t)
  BY <1>4 DEF Good, Readable
<1>6. Reads(t)
  BY <1>3 DEF lex
<1> QED
  BY <1>1, <1>3, <1>4, <1>5, <1>6, ReadsIInv

LEMMA lexAnyStringIInv ==
    ASSUME IInv, lexAnyString
    PROVE  IInv'
<1>1. ~AtEnd /\ At(line, pos) \in Word
  BY DEF lexAnyString
<1>2. pos \in 1 .. Nul(line) /\ line \in Seq(Char)
  BY <1>1, InLine
<1>3. PICK t : t = Run("raw_ident", line, Word, pos)
  OBVIOUS
<1>4. Good(line, pos, t)
  BY <1>1, <1>2, <1>3, RunIsGood
<1>5. Readable(line, t)
  BY <1>4 DEF Good, Readable
<1>6. Reads(t)
  BY <1>3 DEF lexAnyString
<1> QED
  BY <1>1, <1>5, <1>6, ReadsIInv

LEMMA readToEndOfLineIInv ==
    ASSUME IInv, readToEndOfLine
    PROVE  IInv'
<1>1. ~AtEnd
  BY DEF readToEndOfLine
<1>2. pos \in 1 .. Nul(line) /\ line \in Seq(Char) /\ Nul(line) \in Nat
  BY <1>1, InLine
<1>3. PICK t : t = Run("rest", line, RestOfLine, pos)
  OBVIOUS
<1>4. /\ t.start = pos /\ t.kind = "rest" /\ t.next \in pos .. Nul(line)
      /\ t.len \in 0 .. Nul(line) /\ Right(line, t)
  BY <1>2, <1>3, RestIsGood
<1>5. t.next \in 1 .. Nul(line) + 1 /\ t.next # Nul(line) + 1
  BY <1>2, <1>4
<1>6. Readable(line, t)
  BY <1>2, <1>4, <1>5 DEF Readable
<1>7. Reads(t)
  BY <1>3 DEF readToEndOfLine
<1> QED
  BY <1>1, <1>6, <1>7, ReadsIInv

LEMMA skipWhiteSpaceIInv ==
    ASSUME IInv, skipWhiteSpace
    PROVE  IInv'
<1>1. ~AtEnd
  BY DEF skipWhiteSpace
<1>2. pos \in 1 .. Nul(line) /\ line \in Seq(Char) /\ Nul(line) \in Nat
  BY <1>1, InLine
<1>3. /\ pos' = SkipWhile(line, Blanks, pos)
      /\ covered' = IF saved = <<>> THEN pos' ELSE covered
      /\ line' = line /\ token' = token /\ overrun' = overrun /\ saved' = saved
  BY DEF skipWhiteSpace
<1>4. pos' \in pos .. Nul(line)
  <2>1. Blanks \subseteq Char
    BY DEF Char
  <2> QED
    BY <1>2, <1>3, <2>1, Skips
<1>5. pos' \in 1 .. Nul(line') + 1 /\ pos' # Nul(line') + 1
  BY <1>2, <1>3, <1>4
<1>6. ReadsInBounds'
  BY <1>3, <1>5 DEF IInv, ReadsInBounds
<1>7. TokensAreRight'
  BY <1>3 DEF IInv, TokensAreRight
<1>8. LookaheadReturns'
  BY <1>3 DEF IInv, LookaheadReturns
<1>9. /\ Fine(line') /\ saved' \in Seq(1 .. Nul(line')) /\ overrun' \in BOOLEAN
      /\ token'.start \in 1 .. Nul(line') /\ token'.len \in 0 .. Nul(line')
  BY <1>3 DEF IInv
<1> QED
  BY <1>5, <1>6, <1>7, <1>8, <1>9 DEF IInv

LEMMA SaveIInv ==
    ASSUME IInv, Save
    PROVE  IInv'
<1>1. pos \in 1 .. Nul(line)
  BY InLine DEF Save
<1>2. /\ saved' = Append(saved, pos) /\ line' = line /\ pos' = pos
      /\ token' = token /\ overrun' = overrun /\ covered' = covered
  BY DEF Save
<1>3. saved \in Seq(1 .. Nul(line))
  BY DEF IInv
<1>4. /\ saved' \in Seq(1 .. Nul(line')) /\ saved' # <<>>
      /\ saved'[1] = IF saved = <<>> THEN pos ELSE saved[1]
  BY <1>1, <1>2, <1>3
<1>5. LookaheadReturns'
  BY <1>2, <1>4 DEF IInv, LookaheadReturns
<1>6. ReadsInBounds'
  BY <1>2 DEF IInv, ReadsInBounds, AtEnd
<1>7. TokensAreRight'
  BY <1>2 DEF IInv, TokensAreRight
<1>8. /\ Fine(line') /\ pos' \in 1 .. Nul(line') + 1 /\ overrun' \in BOOLEAN
      /\ token'.start \in 1 .. Nul(line') /\ token'.len \in 0 .. Nul(line')
  BY <1>2 DEF IInv
<1> QED
  BY <1>4, <1>5, <1>6, <1>7, <1>8 DEF IInv

LEMMA RestoreIInv ==
    ASSUME IInv, Restore
    PROVE  IInv'
<1>1. /\ saved # <<>> /\ pos' = saved[Len(saved)]
      /\ saved' = SubSeq(saved, 1, Len(saved) - 1) /\ token' = NoToken
      /\ line' = line /\ overrun' = overrun /\ covered' = covered
  BY DEF Restore
<1>2. /\ line \in Seq(Char) /\ saved \in Seq(1 .. Nul(line)) /\ Fine(line)
      /\ overrun \in BOOLEAN
  BY DEF IInv, Fine
<1>3. Nul(line) \in Nat
  BY <1>2, Characters
<1>4. pos' \in 1 .. Nul(line') /\ pos' \in 1 .. Nul(line') + 1 /\ pos' # Nul(line') + 1
  BY <1>1, <1>2, <1>3
<1>5. /\ saved' \in Seq(1 .. Nul(line'))
      /\ saved' = <<>> => saved[Len(saved)] = saved[1]
      /\ saved' # <<>> => saved'[1] = saved[1]
  <2>1. Len(saved) \in Nat /\ Len(saved) >= 1 /\ \A i \in 1 .. Len(saved) : saved[i] \in 1 .. Nul(line)
    BY <1>1, SavedPositions
  <2>2. PICK n \in Nat : n = Len(saved) - 1
    BY <2>1
  <2>3. 1 \in Int /\ n \in Int /\ \A i \in 1 .. n : saved[i] \in 1 .. Nul(line)
    BY <2>1, <2>2
  <2>4. /\ saved' \in Seq(1 .. Nul(line)) /\ Len(saved') = n
        /\ \A i \in 1 .. n : saved'[i] = saved[i]
    BY <1>1, <2>2, <2>3, SubSeqProperties
  <2>5. saved' = <<>> => n = 0
    BY <2>4
  <2>6. n = 0 => Len(saved) = 1
    BY <2>1, <2>2
  <2>7. saved' # <<>> => n # 0
    BY <2>4
  <2>8. n # 0 => 1 \in 1 .. n
    BY <2>2
  <2> QED
    BY <1>1, <2>4, <2>5, <2>6, <2>7, <2>8
<1>6. LookaheadReturns'
  BY <1>1, <1>5 DEF IInv, LookaheadReturns
<1>7. ReadsInBounds'
  BY <1>1, <1>4 DEF IInv, ReadsInBounds
<1>8. TokensAreRight'
  BY <1>1, <1>2, Fresh DEF TokensAreRight
<1>9. token'.start \in 1 .. Nul(line') /\ token'.len \in 0 .. Nul(line')
  BY <1>1, <1>2, Fresh
<1> QED
  BY <1>1, <1>2, <1>4, <1>5, <1>6, <1>7, <1>8, <1>9 DEF IInv

LEMMA resetIInv ==
    ASSUME Misuse = {}, IInv, NEW l \in MoreLines, Legal(l), reset(l)
    PROVE  IInv'
<1>1. /\ saved = <<>> /\ line' = l /\ pos' = 1 /\ covered' = 1 /\ token' = NoToken
      /\ overrun' = overrun /\ saved' = saved
  BY DEF reset
<1>2. l \in Seq(Char) /\ Fine(l)
  BY MetaLexerAssumption, LegalIsFine
<1>3. Nul(l) \in Nat /\ Nul(l) >= 1
  BY <1>2, Characters
<1>4. pos' \in 1 .. Nul(line') + 1 /\ pos' # Nul(line') + 1
  BY <1>1, <1>3
<1>5. LookaheadReturns'
  BY <1>1 DEF LookaheadReturns
<1>6. ReadsInBounds'
  BY <1>1, <1>4 DEF IInv, ReadsInBounds
<1>7. TokensAreRight'
  BY <1>1, <1>2, Fresh DEF TokensAreRight
<1>8. token'.start \in 1 .. Nul(line') /\ token'.len \in 0 .. Nul(line')
  BY <1>1, <1>2, Fresh
<1>9. Fine(line') /\ saved' \in Seq(1 .. Nul(line')) /\ overrun' \in BOOLEAN
  BY <1>1, <1>2 DEF IInv
<1> QED
  BY <1>4, <1>5, <1>6, <1>7, <1>8, <1>9 DEF IInv

LEMMA NextIInv ==
    ASSUME Misuse = {}, IInv, [Next]_vars
    PROVE  IInv'
<1>1. CASE lex
  BY <1>1, lexIInv
<1>2. CASE lexAnyString
  BY <1>2, lexAnyStringIInv
<1>3. CASE readToEndOfLine
  BY <1>3, readToEndOfLineIInv
<1>4. CASE skipWhiteSpace
  BY <1>4, skipWhiteSpaceIInv
<1>5. CASE Save
  BY <1>5, SaveIInv
<1>6. CASE Restore
  BY <1>6, RestoreIInv
<1>7. CASE \E l \in MoreLines : Legal(l) /\ reset(l)
  BY <1>7, resetIInv
<1>8. CASE UNCHANGED vars
  BY <1>8 DEF vars, IInv, ReadsInBounds, TokensAreRight, LookaheadReturns, AtEnd
<1> QED
  BY <1>1, <1>2, <1>3, <1>4, <1>5, <1>6, <1>7, <1>8 DEF Next

-----------------------------------------------------------------------------
(* The theorems, for lines of the contract: no backslash at the end, no     *)
(* constant of more than eight digits.                                     *)

\* The invariant holds of every state.
THEOREM Inductive == Misuse = {} => (Spec => []IInv)
<1> SUFFICES ASSUME Misuse = {} PROVE Spec => []IInv
  OBVIOUS
<1>1. Init => IInv
  BY InitIInv
<1>2. IInv /\ [Next]_vars => IInv'
  BY NextIInv
<1> QED
  BY <1>1, <1>2, PTL DEF Spec

\* The variables of the lexer have their types, and the cursor is never more
\* than one place behind the NUL.
THEOREM TypeCorrect == Misuse = {} => (Spec => []TypeOK)
<1> SUFFICES ASSUME Misuse = {} PROVE Spec => []TypeOK
  OBVIOUS
<1>1. IInv => TypeOK
  <2> SUFFICES ASSUME IInv PROVE TypeOK
    OBVIOUS
  <2>1. line \in Seq(Char) /\ saved \in Seq(1 .. Nul(line))
    BY DEF IInv, Fine
  <2>2. Nul(line) \in Nat
    BY <2>1, Characters
  <2>3. \A i \in DOMAIN saved : saved[i] \in 1 .. Nul(line)
    BY SavedPositions
  <2>4. saved # <<>> => 1 \in DOMAIN saved
    BY SavedPositions
  <2>5. covered \in 1 .. Nul(line) + 1
    <3>1. pos \in 1 .. Nul(line) + 1
      BY DEF IInv
    <3>2. saved # <<>> => saved[1] \in 1 .. Nul(line) + 1
      BY <2>2, <2>3, <2>4
    <3> QED
      BY <3>1, <3>2 DEF IInv, LookaheadReturns
  <2> QED
    BY <2>1, <2>3, <2>5 DEF IInv, TypeOK
<1> QED
  BY <1>1, Inductive, PTL

\* No call reads behind the NUL of its line.
THEOREM NothingReadBehind == Misuse = {} => (Spec => []ReadsInBounds)
<1> SUFFICES ASSUME Misuse = {} PROVE Spec => []ReadsInBounds
  OBVIOUS
<1>1. IInv => ReadsInBounds
  BY DEF IInv
<1> QED
  BY <1>1, Inductive, PTL

\* Every token is the text that its kind promises, and getConstant() computes
\* the number a constant spells.
THEOREM TokensAreWhatTheySay == Misuse = {} => (Spec => []TokensAreRight)
<1> SUFFICES ASSUME Misuse = {} PROVE Spec => []TokensAreRight
  OBVIOUS
<1>1. IInv => TokensAreRight
  BY DEF IInv
<1> QED
  BY <1>1, Inductive, PTL

\* When the look-ahead objects are gone, lexing goes on where it was.
THEOREM LookaheadLeavesNoTrace == Misuse = {} => (Spec => []LookaheadReturns)
<1> SUFFICES ASSUME Misuse = {} PROVE Spec => []LookaheadReturns
  OBVIOUS
<1>1. IInv => LookaheadReturns
  BY DEF IInv
<1> QED
  BY <1>1, Inductive, PTL

\* The tokens of successive calls of lex() tile the line.
THEOREM NothingSkipped == Misuse = {} => (Spec => TokensTile)
<1> SUFFICES ASSUME Misuse = {} PROVE Spec => TokensTile
  OBVIOUS
<1> DEFINE Tiled ==
      \/ /\ token'.start = pos
         /\ pos' = pos + (IF token'.len = 0 THEN 1 ELSE token'.len)
      \/ /\ token'.kind = "eof"
         /\ pos' \in {Nul(line), Nul(line) + 1}
<1>1. IInv /\ [Next]_vars => [lex => Tiled]_vars
  <2> SUFFICES ASSUME IInv, lex PROVE Tiled
    OBVIOUS
  <2>1. PICK t : t = Lexed(line, pos)
    OBVIOUS
  <2>2. Good(line, pos, t)
    BY <2>1, lexIInv
  <2>3. token' = t /\ pos' = t.next
    BY <2>1 DEF lex, Reads
  <2>4. /\ t.kind = "eof" => t.next \in {Nul(line), Nul(line) + 1}
        /\ t.kind # "eof" => /\ t.start = pos
                             /\ t.next = pos + (IF t.len = 0 THEN 1 ELSE t.len)
    BY <2>2 DEF Good
  <2> QED
    BY <2>3, <2>4
<1> QED
  BY <1>1, Inductive, PTL DEF Spec, TokensTile

=============================================================================
