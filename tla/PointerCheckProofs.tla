------------------------- MODULE PointerCheckProofs -------------------------
(***************************************************************************)
(* Proofs about PointerCheck, for any number of threads and pointers, any  *)
(* number of lines and any size of a page.                                 *)
(***************************************************************************)
EXTENDS PointerCheck, SequenceTheorems, TLAPS

-----------------------------------------------------------------------------
(* Going round the ring. *)

(* The line written next, without a quotient (push). *)
LEMMA SuccessorIs ==
  ASSUME NEW i \in Index
  PROVE  Successor(i) = IF i = Size - 1 THEN 0 ELSE i + 1
  BY PointerAssumption DEF Successor, Index

(* The line that was written k pushes before line i. *)
LEMMA BackIs ==
  ASSUME NEW i \in Index, NEW k \in Index
  PROVE  (i - k) % Size = IF k <= i THEN i - k ELSE i - k + Size
  BY PointerAssumption DEF Index

(* What a push makes of the history of its thread. *)
LEMMA LatestIs ==
  ASSUME NEW e \in Entries, NEW s \in Seq(Entries), Len(s) <= Size
  PROVE  /\ Latest(e, s) \in Seq(Entries)
         /\ Len(Latest(e, s)) = IF Len(s) = Size THEN Size ELSE Len(s) + 1
         /\ Latest(e, s)[1] = e
         /\ \A k \in 2 .. Len(Latest(e, s)) : Latest(e, s)[k] = s[k - 1]
  <1> DEFINE all == <<e>> \o s
  <1>1. /\ Size \in Nat \ {0}
        /\ <<e>> \in Seq(Entries) /\ Len(<<e>>) = 1 /\ <<e>>[1] = e
        /\ Len(s) \in Nat
    BY PointerAssumption
  <1>2. /\ all \in Seq(Entries)
        /\ Len(all) = 1 + Len(s)
        /\ \A k \in 1 .. 1 + Len(s) : all[k] = IF k <= 1 THEN e ELSE s[k - 1]
    BY <1>1, ConcatProperties
  <1> HIDE DEF all
  <1>3. CASE Len(all) > Size
    <2>1. \A k \in 1 .. Size : all[k] \in Entries
      BY <1>1, <1>2, <1>3, ElementOfSeq
    <2>2. /\ SubSeq(all, 1, Size) \in Seq(Entries)
          /\ Len(SubSeq(all, 1, Size)) = Size
          /\ \A k \in 1 .. Size : SubSeq(all, 1, Size)[k] = all[k]
      BY <1>1, <2>1, SubSeqProperties
    <2>3. Latest(e, s) = SubSeq(all, 1, Size)
      BY <1>3 DEF Latest, all
    <2> QED BY <1>1, <1>2, <1>3, <2>2, <2>3
  <1>4. CASE ~(Len(all) > Size)
    <2>1. Latest(e, s) = all
      BY <1>4 DEF Latest, all
    <2> QED BY <1>1, <1>2, <1>4, <2>1
  <1> QED BY <1>3, <1>4

-----------------------------------------------------------------------------
(* The inductive invariant. *)

(* What a thread knows without a doubt is true: the page was there at its   *)
(* msync and has not gone since.                                            *)
Fresh ==
  \A t \in Thread :
    /\ \A i \in DOMAIN pushed[t] :
         ~pushed[t][i].doubt => Base(pushed[t][i].ptr) \in mapped
    /\ call[t].stage = "push" /\ ~call[t].doubt => Base(call[t].ptr) \in mapped

IInv == TypeOK /\ FirstInFirstOut /\ NoPointerTwice /\ Fresh

(* The invariant holds when the lines are all null (lines, mostRecent). *)
LEMMA InvInit == Init => IInv
  <1> SUFFICES ASSUME Init PROVE IInv
    OBVIOUS
  <1>1. Size \in Nat \ {0} /\ Null \in Pointer
    BY PointerAssumption
  <1>2. TypeOK
    BY <1>1 DEF Init, TypeOK, Index, Calls, Idle
  <1>3. FirstInFirstOut
    <2> SUFFICES ASSUME NEW t \in Thread, NEW k \in Index
                 PROVE  lines[t][(mostRecent[t] - k) % Size] = Null
      BY <1>1 DEF Init, FirstInFirstOut, Index
    <2>1. mostRecent[t] \in Index
      BY <1>1 DEF Init, Index
    <2>2. (mostRecent[t] - k) % Size \in Index
      BY <1>1, <2>1, BackIs DEF Index
    <2> QED BY <2>2 DEF Init
  <1>4. NoPointerTwice
    BY DEF Init, NoPointerTwice, Idle
  <1>5. Fresh
    BY DEF Init, Fresh, Idle
  <1> QED BY <1>2, <1>3, <1>4, <1>5 DEF IInv

(* A step that changes no line, and no pointer in a history or a call in    *)
(* progress, keeps the rings as they are (operator(), mmap, munmap).        *)
LEMMA RingsStay ==
  ASSUME TypeOK, FirstInFirstOut, UNCHANGED <<lines, mostRecent>>,
         \A t \in Thread :
           /\ Len(pushed'[t]) = Len(pushed[t])
           /\ \A i \in 1 .. Len(pushed[t]) : pushed'[t][i].ptr = pushed[t][i].ptr
  PROVE  FirstInFirstOut'
  <1> SUFFICES ASSUME NEW t \in Thread, NEW k \in Index
               PROVE  lines'[t][(mostRecent'[t] - k) % Size] =
                        IF k < Len(pushed'[t]) THEN pushed'[t][k + 1].ptr
                                               ELSE Null
    BY DEF FirstInFirstOut
  <1>1. lines[t][(mostRecent[t] - k) % Size] =
          IF k < Len(pushed[t]) THEN pushed[t][k + 1].ptr ELSE Null
    BY DEF FirstInFirstOut
  <1>2. Len(pushed[t]) \in Nat /\ k \in Nat
    BY DEF TypeOK, Index
  <1> QED BY <1>1, <1>2

(* A step that changes no line keeps pointers apart if each thread whose    *)
(* call goes on asks about a pointer that it has asked about before or does *)
(* not have (operator(), munmap).                                           *)
LEMMA PointersStayApart ==
  ASSUME NoPointerTwice, UNCHANGED lines,
         \A t \in Thread : call'[t].stage \in {"msync", "push"} =>
           \/ call[t].stage \in {"msync", "push"} /\ call'[t].ptr = call[t].ptr
           \/ ~Hit(t, call'[t].ptr)
  PROVE  NoPointerTwice'
  <1>1. \A t \in Thread, i, j \in Index :
          i # j /\ lines'[t][i] # Null => lines'[t][i] # lines'[t][j]
    BY DEF NoPointerTwice
  <1>2. ASSUME NEW t \in Thread, call'[t].stage \in {"msync", "push"}
        PROVE  \A i \in Index : lines'[t][i] # call'[t].ptr
    BY <1>2 DEF NoPointerTwice, Hit
  <1> QED BY <1>1, <1>2 DEF NoPointerTwice, Hit

(* A call that the cache answers, or that is about to ask the kernel.       *)
LEMMA CallOK ==
  ASSUME IInv, NEW t \in Thread, NEW P \in Pointer, Call(t, P)
  PROVE  IInv'
  <1> USE DEF IInv
  <1> DEFINE c == IF Hit(t, P) THEN Answer(P, TRUE) ELSE Asking("msync", P, FALSE)
  <1>1. call' = [call EXCEPT ![t] = c]
    BY DEF Call
  <1>2. c \in Calls /\ c.stage \in {"done", "msync"}
    BY DEF Calls, Answer, Asking
  <1>3. c.stage = "msync" => c.ptr = P /\ ~Hit(t, P)
    BY DEF Answer, Asking
  <1> HIDE DEF c
  <1>4. TypeOK'
    BY <1>1, <1>2 DEF TypeOK, Call
  <1>5. FirstInFirstOut'
    BY RingsStay DEF Call
  <1>6. NoPointerTwice'
    <2>1. \A u \in Thread : call'[u] = IF u = t THEN c ELSE call[u]
      BY <1>1 DEF TypeOK
    <2> QED BY <1>2, <1>3, <2>1, PointersStayApart DEF Call
  <1>7. Fresh'
    BY <1>1, <1>2 DEF Fresh, Call, TypeOK
  <1> QED BY <1>4, <1>5, <1>6, <1>7

(* The kernel's answer. *)
LEMMA MsyncOK ==
  ASSUME IInv, NEW t \in Thread, Msync(t)
  PROVE  IInv'
  <1> USE DEF IInv
  <1> DEFINE P == call[t].ptr
             c == IF Valid(P) THEN Asking("push", P, FALSE) ELSE Answer(P, FALSE)
  <1>1. call' = [call EXCEPT ![t] = c] /\ call[t].stage = "msync"
    BY DEF Msync, TypeOK
  <1>2. P \in Pointer
    BY <1>1 DEF TypeOK, Calls, Idle
  <1>3. c \in Calls /\ c.stage \in {"done", "push"}
    BY <1>2 DEF Calls, Answer, Asking
  <1>4. c.stage = "push" => c.ptr = P /\ Base(P) \in mapped
    BY DEF Answer, Asking, Valid
  <1> HIDE DEF c
  <1>5. TypeOK'
    BY <1>1, <1>3 DEF TypeOK, Msync
  <1>6. FirstInFirstOut'
    BY RingsStay DEF Msync
  <1>7. NoPointerTwice'
    <2>1. \A u \in Thread : call'[u] = IF u = t THEN c ELSE call[u]
      BY <1>1 DEF TypeOK
    <2> QED BY <1>1, <1>3, <1>4, <2>1, PointersStayApart DEF Msync
  <1>8. Fresh'
    BY <1>1, <1>3, <1>4 DEF Fresh, Msync, TypeOK
  <1> QED BY <1>5, <1>6, <1>7, <1>8

(* push writes the line behind the last and moves the history on by one.    *)
LEMMA PushOK ==
  ASSUME IInv, NEW t \in Thread, Push(t)
  PROVE  IInv'
  <1> USE DEF IInv
  <1> DEFINE P == call[t].ptr
             e == Entry(P, call[t].doubt)
             m == Successor(mostRecent[t])
             q == Latest(e, pushed[t])
  <1>1. /\ call[t].stage = "push"
        /\ mostRecent' = [mostRecent EXCEPT ![t] = m]
        /\ lines' = [lines EXCEPT ![t][m] = P]
        /\ call' = [call EXCEPT ![t] = Answer(P, TRUE)]
        /\ pushed' = [pushed EXCEPT ![t] = q]
        /\ mapped' = mapped
    BY DEF Push, TypeOK
  <1>2. P \in Pointer /\ call[t].doubt \in BOOLEAN /\ e \in Entries
    BY <1>1 DEF TypeOK, Calls, Idle, Entry, Entries
  <1>3. /\ Size \in Nat \ {0} /\ mostRecent[t] \in Index
        /\ m = IF mostRecent[t] = Size - 1 THEN 0 ELSE mostRecent[t] + 1
        /\ m \in Index
    <2>1. Size \in Nat \ {0} /\ mostRecent[t] \in Index
      BY PointerAssumption DEF TypeOK
    <2>2. m = IF mostRecent[t] = Size - 1 THEN 0 ELSE mostRecent[t] + 1
      BY <2>1, SuccessorIs
    <2> QED BY <2>1, <2>2 DEF Index
  <1>4. /\ pushed[t] \in Seq(Entries) /\ Len(pushed[t]) \in Nat
        /\ Len(pushed[t]) <= Size
    BY DEF TypeOK
  <1>5. /\ q \in Seq(Entries)
        /\ Len(q) = IF Len(pushed[t]) = Size THEN Size ELSE Len(pushed[t]) + 1
        /\ q[1] = e
        /\ \A k \in 2 .. Len(q) : q[k] = pushed[t][k - 1]
    BY <1>2, <1>4, LatestIs
  <1>6. Answer(P, TRUE) \in Calls /\ Answer(P, TRUE).stage = "done"
    BY <1>2 DEF Answer, Calls
  <1>7. e.ptr = P /\ e.doubt = call[t].doubt
    BY DEF Entry
  <1>8. ~Hit(t, P)
    BY <1>1 DEF NoPointerTwice
  <1> HIDE DEF P, e, m, q
  <1>9. /\ \A i \in Index : lines'[t][i] = IF i = m THEN P ELSE lines[t][i]
        /\ mostRecent'[t] = m /\ pushed'[t] = q
        /\ call'[t] = Answer(P, TRUE)
        /\ \A u \in Thread \ {t} :
             /\ lines'[u] = lines[u] /\ mostRecent'[u] = mostRecent[u]
             /\ pushed'[u] = pushed[u] /\ call'[u] = call[u]
    BY <1>1 DEF TypeOK
  <1>10. TypeOK'
    <2>1. lines' \in [Thread -> [Index -> Pointer]]
      BY <1>1, <1>2, <1>3 DEF TypeOK
    <2>2. mostRecent' \in [Thread -> Index] /\ mapped' \subseteq Page
      BY <1>1, <1>3 DEF TypeOK
    <2>3. call' \in [Thread -> Calls]
      BY <1>1, <1>6 DEF TypeOK
    <2>4. pushed' \in [Thread -> Seq(Entries)]
      BY <1>1, <1>5 DEF TypeOK
    <2>5. \A u \in Thread : Len(pushed'[u]) <= Size
      <3>1. PICK n \in Nat : n = Len(pushed[t])
        BY <1>4
      <3>2. n <= Size /\ Len(q) = IF n = Size THEN Size ELSE n + 1
        BY <1>4, <1>5, <3>1
      <3>3. Len(q) <= Size
        BY <1>3, <3>2
      <3>4. Len(pushed'[t]) <= Size
        BY <1>9, <3>3
      <3>5. \A u \in Thread \ {t} : Len(pushed'[u]) <= Size
        BY <1>9 DEF TypeOK
      <3> QED BY <3>4, <3>5
    <2> QED BY <2>1, <2>2, <2>3, <2>4, <2>5 DEF TypeOK
  <1>11. FirstInFirstOut'
    <2> SUFFICES ASSUME NEW u \in Thread, NEW k \in Index
                 PROVE  lines'[u][(mostRecent'[u] - k) % Size] =
                          IF k < Len(pushed'[u]) THEN pushed'[u][k + 1].ptr
                                                 ELSE Null
      BY DEF FirstInFirstOut
    <2>1. CASE u # t
      BY <1>9, <2>1 DEF FirstInFirstOut
    <2>2. CASE u = t /\ k = 0
      <3>1. (m - 0) % Size = m
        BY <1>3, BackIs DEF Index
      <3>2. lines'[t][m] = P /\ mostRecent'[t] = m /\ pushed'[t] = q
        BY <1>3, <1>9
      <3>3. 0 < Len(q) /\ q[0 + 1].ptr = P
        BY <1>3, <1>4, <1>5, <1>7
      <3> QED BY <2>2, <3>1, <3>2, <3>3
    <2>3. CASE u = t /\ k # 0
      <3>1. k - 1 \in Index /\ k \in Nat \ {0} /\ k < Size
        BY <1>3, <2>3 DEF Index
      <3> DEFINE j == (mostRecent[t] - (k - 1)) % Size
      <3>2. /\ (m - k) % Size = IF k <= m THEN m - k ELSE m - k + Size
            /\ j = IF k - 1 <= mostRecent[t] THEN mostRecent[t] - (k - 1)
                                             ELSE mostRecent[t] - (k - 1) + Size
        BY <1>3, <3>1, BackIs
      <3>3. (m - k) % Size = j /\ j \in Index /\ j # m
        BY <1>3, <3>1, <3>2 DEF Index
      <3>4. lines[t][j] = IF k - 1 < Len(pushed[t])
                          THEN pushed[t][(k - 1) + 1].ptr ELSE Null
        BY <3>1 DEF FirstInFirstOut
      <3> HIDE DEF j
      <3>5. lines'[t][j] = lines[t][j]
        BY <1>9, <3>3
      <3>6. k < Len(q) <=> k - 1 < Len(pushed[t])
        BY <1>3, <1>4, <1>5, <3>1
      <3>7. k < Len(q) => q[k + 1] = pushed[t][(k - 1) + 1]
        BY <1>4, <1>5, <3>1
      <3> QED BY <1>9, <2>3, <3>3, <3>4, <3>5, <3>6, <3>7
    <2> QED BY <2>1, <2>2, <2>3
  <1>12. NoPointerTwice'
    <2>1. ASSUME NEW u \in Thread, NEW i \in Index, NEW j \in Index,
                 i # j, lines'[u][i] # Null
          PROVE  lines'[u][i] # lines'[u][j]
      BY <1>8, <1>9, <2>1 DEF NoPointerTwice, Hit
    <2>2. ASSUME NEW u \in Thread, call'[u].stage \in {"msync", "push"}
          PROVE  \A i \in Index : lines'[u][i] # call'[u].ptr
      <3>1. u # t
        BY <1>6, <1>9, <2>2
      <3>2. lines'[u] = lines[u] /\ call'[u] = call[u]
        BY <1>9, <3>1
      <3> QED BY <2>2, <3>2 DEF NoPointerTwice, Hit
    <2> QED BY <2>1, <2>2 DEF NoPointerTwice, Hit
  <1>13. Fresh'
    <2>1. ASSUME NEW i \in DOMAIN q, ~q[i].doubt
          PROVE  Base(q[i].ptr) \in mapped
      <3>1. CASE i = 1
        BY <1>1, <1>5, <1>7, <2>1, <3>1 DEF Fresh, P
      <3>2. CASE i # 1
        <4>1. i \in 2 .. Len(q) /\ i - 1 \in DOMAIN pushed[t]
          BY <1>3, <1>4, <1>5, <3>2
        <4> QED BY <1>5, <2>1, <4>1 DEF Fresh
      <3> QED BY <3>1, <3>2
    <2>2. ASSUME NEW u \in Thread
          PROVE  /\ \A i \in DOMAIN pushed'[u] : ~pushed'[u][i].doubt =>
                      Base(pushed'[u][i].ptr) \in mapped'
                 /\ call'[u].stage = "push" /\ ~call'[u].doubt =>
                      Base(call'[u].ptr) \in mapped'
      <3>1. CASE u = t
        <4>1. pushed'[u] = q /\ call'[u].stage = "done" /\ mapped' = mapped
          BY <1>1, <1>6, <1>9, <3>1
        <4> QED BY <2>1, <4>1
      <3>2. CASE u # t
        <4>1. pushed'[u] = pushed[u] /\ call'[u] = call[u] /\ mapped' = mapped
          BY <1>1, <1>9, <3>2
        <4> QED BY <4>1 DEF Fresh
      <3> QED BY <3>1, <3>2
    <2> QED BY <2>2 DEF Fresh
  <1> QED BY <1>10, <1>11, <1>12, <1>13

(* The caller goes on. *)
LEMMA LeaveOK ==
  ASSUME IInv, NEW t \in Thread, Leave(t)
  PROVE  IInv'
  <1> USE DEF IInv
  <1>1. /\ call' = [call EXCEPT ![t] = Idle]
        /\ Idle \in Calls /\ Idle.stage = "idle"
    BY DEF Leave, Calls, Idle
  <1>2. \A u \in Thread : call'[u] = IF u = t THEN Idle ELSE call[u]
    BY <1>1 DEF TypeOK
  <1>3. TypeOK'
    BY <1>1 DEF TypeOK, Leave
  <1>4. FirstInFirstOut'
    BY RingsStay DEF Leave
  <1>5. NoPointerTwice'
    BY <1>1, <1>2, PointersStayApart DEF Leave
  <1>6. Fresh'
    BY <1>1, <1>2 DEF Fresh, Leave
  <1> QED BY <1>3, <1>4, <1>5, <1>6

(* Memory that comes makes nothing untrue. *)
LEMMA MapOK ==
  ASSUME IInv, NEW pg \in Page, Map(pg)
  PROVE  IInv'
  <1> USE DEF IInv
  <1>1. TypeOK'
    BY DEF TypeOK, Map
  <1>2. FirstInFirstOut'
    BY RingsStay DEF Map
  <1>3. NoPointerTwice'
    BY PointersStayApart DEF Map
  <1>4. Fresh'
    BY DEF Fresh, Map
  <1> QED BY <1>1, <1>2, <1>3, <1>4

(* Memory that goes puts in doubt what was known of its page.               *)
LEMMA UnmapOK ==
  ASSUME IInv, NEW pg \in Page, Unmap(pg)
  PROVE  IInv'
  <1> USE DEF IInv
  <1>1. mapped' = mapped \ {pg} /\ UNCHANGED <<lines, mostRecent>>
    BY DEF Unmap
  <1>2. ASSUME NEW t \in Thread
        PROVE  /\ call'[t] \in Calls /\ call'[t].stage = call[t].stage
               /\ call[t].stage \in {"msync", "push"} => call'[t].ptr = call[t].ptr
               /\ call'[t].stage = "push" /\ ~call'[t].doubt =>
                    ~call[t].doubt /\ Base(call'[t].ptr) # pg
    <2>1. call[t] \in Calls
      BY DEF TypeOK
    <2>2. CASE call[t].stage = "push" /\ Base(call[t].ptr) = pg
      <3>1. call'[t] = [call[t] EXCEPT !.doubt = TRUE]
        BY <2>2 DEF Unmap
      <3>2. call[t] \in [stage : {"msync", "push"}, ptr : Pointer, doubt : BOOLEAN]
        BY <2>1, <2>2 DEF Calls, Idle
      <3> QED BY <3>1, <3>2 DEF Calls
    <2>3. CASE ~(call[t].stage = "push" /\ Base(call[t].ptr) = pg)
      <3>1. call'[t] = call[t]
        BY <2>3 DEF Unmap
      <3> QED BY <2>1, <2>3, <3>1
    <2> QED BY <2>2, <2>3
  <1>3. ASSUME NEW t \in Thread
        PROVE  /\ pushed'[t] \in Seq(Entries)
               /\ Len(pushed'[t]) = Len(pushed[t])
               /\ Len(pushed[t]) \in Nat
               /\ \A i \in 1 .. Len(pushed[t]) :
                    /\ pushed'[t][i].ptr = pushed[t][i].ptr
                    /\ ~pushed'[t][i].doubt =>
                         ~pushed[t][i].doubt /\ Base(pushed[t][i].ptr) # pg
    <2> DEFINE n == Len(pushed[t])
               f == [i \in 1 .. n |-> IF Base(pushed[t][i].ptr) = pg
                                      THEN Entry(pushed[t][i].ptr, TRUE)
                                      ELSE pushed[t][i]]
    <2>1. /\ pushed[t] \in Seq(Entries) /\ n \in Nat
          /\ DOMAIN pushed[t] = 1 .. n
          /\ \A i \in 1 .. n : pushed[t][i] \in Entries
      BY DEF TypeOK
    <2>2. pushed'[t] = f
      BY <2>1 DEF Unmap
    <2>3. \A i \in 1 .. n : f[i] \in Entries
      BY <2>1 DEF Entry, Entries
    <2>4. f \in Seq(Entries) /\ Len(f) = n
      <3>1. f \in [1 .. n -> Entries]
        BY <2>3
      <3> HIDE DEF f
      <3> QED BY <2>1, <3>1
    <2>5. \A i \in 1 .. n : /\ f[i].ptr = pushed[t][i].ptr
                            /\ ~f[i].doubt => /\ ~pushed[t][i].doubt
                                              /\ Base(pushed[t][i].ptr) # pg
      BY <2>1 DEF Entry, Entries
    <2> HIDE DEF f
    <2> QED BY <2>1, <2>2, <2>4, <2>5
  <1>4. TypeOK'
    <2>1. call' \in [Thread -> Calls]
      <3>1. call' = [t \in Thread |-> call'[t]]
        BY DEF Unmap
      <3> QED BY <1>2, <3>1
    <2>2. pushed' \in [Thread -> Seq(Entries)]
      <3>1. pushed' = [t \in Thread |-> pushed'[t]]
        BY DEF Unmap
      <3> QED BY <1>3, <3>1
    <2> QED BY <1>1, <1>3, <2>1, <2>2 DEF TypeOK
  <1>5. FirstInFirstOut'
    BY <1>1, <1>3, RingsStay
  <1>6. NoPointerTwice'
    BY <1>1, <1>2, PointersStayApart
  <1>7. Fresh'
    <2>1. ASSUME NEW t \in Thread, NEW i \in DOMAIN pushed'[t], ~pushed'[t][i].doubt
          PROVE  Base(pushed'[t][i].ptr) \in mapped'
      <3>1. i \in 1 .. Len(pushed[t]) /\ i \in DOMAIN pushed[t]
        BY <1>3 DEF TypeOK
      <3>2. ~pushed[t][i].doubt /\ Base(pushed[t][i].ptr) # pg
        BY <1>3, <2>1, <3>1
      <3>3. pushed'[t][i].ptr = pushed[t][i].ptr
        BY <1>3, <3>1
      <3> QED BY <1>1, <3>1, <3>2, <3>3 DEF Fresh
    <2>2. ASSUME NEW t \in Thread, call'[t].stage = "push", ~call'[t].doubt
          PROVE  Base(call'[t].ptr) \in mapped'
      <3>1. /\ call[t].stage = "push" /\ ~call[t].doubt
            /\ call'[t].ptr = call[t].ptr /\ Base(call'[t].ptr) # pg
        BY <1>2, <2>2
      <3> QED BY <1>1, <3>1 DEF Fresh
    <2> QED BY <2>1, <2>2 DEF Fresh
  <1> QED BY <1>4, <1>5, <1>6, <1>7

(* Every step keeps the invariant. *)
LEMMA InvNext ==
  ASSUME IInv, [Next]_vars
  PROVE  IInv'
  <1>1. ASSUME NEW t \in Thread, Step(t)
        PROVE  IInv'
    BY <1>1, CallOK, MsyncOK, PushOK, LeaveOK DEF Step
  <1>2. ASSUME NEW pg \in Page, Map(pg) \/ Unmap(pg)
        PROVE  IInv'
    BY <1>2, MapOK, UnmapOK
  <1>3. CASE UNCHANGED vars
    BY <1>3 DEF vars, IInv, TypeOK, FirstInFirstOut, NoPointerTwice, Fresh, Hit
  <1> QED BY <1>1, <1>2, <1>3 DEF Next

(* The strengthening of the properties of the rings is an invariant: the    *)
(* rings, the histories and the pages that are known to be there agree.     *)
THEOREM Inductive == Spec => []IInv
  <1>1. Init => IInv
    BY InvInit
  <1>2. IInv /\ [Next]_vars => IInv'
    BY InvNext
  <1> QED BY <1>1, <1>2, PTL DEF Spec

(* The variables have their types: no index leaves the array (lines).       *)
THEOREM TypeCorrect == Spec => []TypeOK
  <1>1. IInv => TypeOK
    BY DEF IInv
  <1> QED BY <1>1, Inductive, PTL

(* Each cache is first-in first-out ("what enters first, leaves first").    *)
THEOREM RingsAreQueues == Spec => []FirstInFirstOut
  <1>1. IInv => FirstInFirstOut
    BY DEF IInv
  <1> QED BY <1>1, Inductive, PTL

(* No cache spends two lines on one pointer (operator()).                   *)
THEOREM LinesDiffer == Spec => []NoPointerTwice
  <1>1. IInv => NoPointerTwice
    BY DEF IInv
  <1> QED BY <1>1, Inductive, PTL

-----------------------------------------------------------------------------
(* What IsMemoryValid answers. *)

(* A hit is a pointer whose page is there, or one that may be excused: each *)
(* line is that of some push among the last, or has not been written yet.   *)
LEMMA HitsAreKnown ==
  ASSUME IInv, NEW t \in Thread, NEW P \in Pointer, Hit(t, P)
  PROVE  Base(P) \in mapped \/ Excused(t, P)
  <1> USE DEF IInv
  <1>1. PICK i \in Index : lines[t][i] = P
    BY DEF Hit
  <1>2. /\ Size \in Nat \ {0} /\ mostRecent[t] \in Index
        /\ pushed[t] \in Seq(Entries) /\ Len(pushed[t]) \in Nat
        /\ DOMAIN pushed[t] = 1 .. Len(pushed[t])
    BY PointerAssumption DEF TypeOK
  <1> DEFINE k == (mostRecent[t] - i) % Size
  <1>3. k = IF i <= mostRecent[t] THEN mostRecent[t] - i
                                  ELSE mostRecent[t] - i + Size
    BY <1>2, BackIs
  <1>4. k \in Index /\ k \in Nat
    <2> HIDE DEF k
    <2>1. i \in 0 .. Size - 1 /\ mostRecent[t] \in 0 .. Size - 1
      BY <1>2 DEF Index
    <2>2. PICK m : m = mostRecent[t]
      OBVIOUS
    <2>3. k = IF i <= m THEN m - i ELSE m - i + Size
      BY <1>3, <2>2
    <2>4. k \in 0 .. Size - 1 /\ k \in Nat
      BY <1>2, <2>1, <2>2, <2>3
    <2> QED BY <2>4 DEF Index
  <1> HIDE DEF k
  <1>5. (mostRecent[t] - k) % Size = i
    <2>1. (mostRecent[t] - k) % Size =
            IF k <= mostRecent[t] THEN mostRecent[t] - k
                                  ELSE mostRecent[t] - k + Size
      BY <1>2, <1>4, BackIs
    <2> QED BY <1>2, <1>3, <2>1 DEF Index
  <1>6. P = IF k < Len(pushed[t]) THEN pushed[t][k + 1].ptr ELSE Null
    BY <1>1, <1>4, <1>5 DEF FirstInFirstOut
  <1>7. CASE k < Len(pushed[t])
    <2>1. k + 1 \in DOMAIN pushed[t] /\ pushed[t][k + 1] \in Entries
      BY <1>2, <1>4, <1>7
    <2>2. CASE pushed[t][k + 1].doubt
      <3>1. pushed[t][k + 1] = Entry(P, TRUE)
        BY <1>6, <1>7, <2>1, <2>2 DEF Entry, Entries
      <3> QED BY <2>1, <3>1 DEF Excused
    <2>3. CASE ~pushed[t][k + 1].doubt
      BY <1>6, <1>7, <2>1, <2>3 DEF Fresh
    <2> QED BY <2>2, <2>3
  <1>8. CASE ~(k < Len(pushed[t]))
    <2>1. k < Size
      BY <1>2, <1>4 DEF Index
    <2>2. Len(pushed[t]) < Size
      BY <1>2, <1>4, <1>8, <2>1
    <2> QED BY <1>6, <1>8, <2>2 DEF Excused
  <1> QED BY <1>7, <1>8

(* Each step that answers a call does so rightly. *)
LEMMA StepsAnswerRight ==
  ASSUME IInv, [Next]_vars
  PROVE  [AnswersRightNow]_vars
  <1> USE DEF IInv
  <1> SUFFICES ASSUME Next,
                      NEW t \in Thread, NEW P \in Pointer, NEW valid \in BOOLEAN,
                      call[t].stage # "done", call'[t] = Answer(P, valid)
               PROVE  \/ valid <=> Base(P) \in mapped
                      \/ valid /\ Excused(t, P)'
    BY DEF AnswersRightNow
  <1>1. /\ call'[t].stage = "done" /\ call'[t].ptr = P /\ call'[t].value = valid
        /\ call'[t] # call[t]
    BY DEF Answer
  <1>2. ASSUME NEW u \in Thread, NEW Q \in Pointer, Call(u, Q)
        PROVE  valid /\ (Base(P) \in mapped \/ Excused(t, P)')
    <2>1. call'[t] = IF Hit(t, Q) THEN Answer(Q, TRUE)
                                  ELSE Asking("msync", Q, FALSE)
      BY <1>1, <1>2 DEF Call, TypeOK
    <2>2. Hit(t, P) /\ valid
      BY <1>1, <2>1 DEF Answer, Asking
    <2>3. Base(P) \in mapped \/ Excused(t, P)
      BY <2>2, HitsAreKnown
    <2>4. pushed' = pushed
      BY <1>2 DEF Call
    <2> QED BY <2>2, <2>3, <2>4 DEF Excused
  <1>3. ASSUME NEW u \in Thread, Msync(u)
        PROVE  valid <=> Base(P) \in mapped
    <2>1. call'[t] = IF Valid(call[t].ptr) THEN Asking("push", call[t].ptr, FALSE)
                                           ELSE Answer(call[t].ptr, FALSE)
      BY <1>1, <1>3 DEF Msync, TypeOK
    <2>2. ~Valid(P) /\ ~valid
      BY <1>1, <2>1 DEF Answer, Asking
    <2> QED BY <2>2 DEF Valid
  <1>4. ASSUME NEW u \in Thread, Push(u)
        PROVE  valid /\ (Base(P) \in mapped \/ Excused(t, P)')
    <2>1. u = t
      BY <1>1, <1>4 DEF Push, TypeOK
    <2> DEFINE e == Entry(call[t].ptr, call[t].doubt)
    <2>2. /\ call[t].stage = "push"
          /\ call'[t] = Answer(call[t].ptr, TRUE)
          /\ pushed'[t] = Latest(e, pushed[t])
      BY <1>4, <2>1 DEF Push, TypeOK
    <2>3. valid /\ call[t].ptr = P
      BY <1>1, <2>2 DEF Answer
    <2>4. call[t].doubt \in BOOLEAN /\ e \in Entries
      <3>1. call[t] \in Calls
        BY DEF TypeOK
      <3>2. call[t].doubt \in BOOLEAN
        BY <2>2, <3>1 DEF Calls, Idle
      <3> QED BY <2>3, <3>2 DEF Entry, Entries
    <2>5. CASE ~call[t].doubt
      BY <2>2, <2>3, <2>5 DEF Fresh
    <2>6. CASE call[t].doubt
      <3>1. /\ pushed[t] \in Seq(Entries) /\ Len(pushed[t]) \in Nat
            /\ Len(pushed[t]) <= Size
        BY DEF TypeOK
      <3>2. e = Entry(P, TRUE)
        BY <2>3, <2>4, <2>6 DEF Entry
      <3> HIDE DEF e
      <3>3. /\ pushed'[t] \in Seq(Entries)
            /\ Len(pushed'[t]) = IF Len(pushed[t]) = Size THEN Size
                                                          ELSE Len(pushed[t]) + 1
            /\ pushed'[t][1] = e
        BY <2>2, <2>4, <3>1, LatestIs
      <3>4. 1 \in DOMAIN pushed'[t]
        BY <3>1, <3>3, PointerAssumption
      <3> QED BY <2>3, <3>2, <3>3, <3>4 DEF Excused
    <2> QED BY <2>3, <2>4, <2>5, <2>6
  <1>5. ASSUME NEW u \in Thread, Leave(u)
        PROVE  FALSE
    BY <1>1, <1>5 DEF Leave, TypeOK, Idle
  <1>6. ASSUME NEW pg \in Page, Map(pg)
        PROVE  FALSE
    BY <1>1, <1>6 DEF Map
  <1>7. ASSUME NEW pg \in Page, Unmap(pg)
        PROVE  FALSE
    <2>1. call'[t] = IF call[t].stage = "push" /\ Base(call[t].ptr) = pg
                     THEN [call[t] EXCEPT !.doubt = TRUE] ELSE call[t]
      BY <1>7 DEF Unmap
    <2>2. call[t] \in Calls
      BY DEF TypeOK
    <2> QED BY <1>1, <2>1, <2>2 DEF Calls, Idle
  <1> QED BY <1>2, <1>3, <1>4, <1>5, <1>6, <1>7 DEF Next, Step

(* IsMemoryValid errs only in saying TRUE, of memory that went since the    *)
(* thread's own msync, or of null in a thread that has not filled its lines.*)
THEOREM AnswersAreRight == Spec => AnswersRight
  <1>1. IInv /\ [Next]_vars => [AnswersRightNow]_vars
    BY StepsAnswerRight
  <1> QED BY <1>1, Inductive, PTL DEF Spec, AnswersRight
=============================================================================
