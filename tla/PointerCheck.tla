---------------------------- MODULE PointerCheck ----------------------------
(***************************************************************************)
(* IsMemoryValid: is a pointer into a mapped page?  Each thread keeps the  *)
(* pointers it has last found valid in a ring of its own and asks the      *)
(* kernel (msync) about the others.  Threads meet in the pages, which any  *)
(* thread may map and unmap between two steps of another.                  *)
(***************************************************************************)
EXTENDS Integers, Sequences, FiniteSets

CONSTANTS
    Thread,
    Pointer,    \* the addresses asked about, among them the null pointer
    PageSize,
    Size        \* lines of a cache, 8 in the code

Null == 0

ASSUME PointerAssumption ==
    /\ Pointer \subseteq Nat /\ Null \in Pointer
    /\ Size \in Nat \ {0}
    /\ PageSize \in Nat \ {0}

VARIABLES
    mapped,      \* the pages that are mapped
    lines,       \* the ring of each thread
    mostRecent,  \* the line each thread has written last
    call,        \* the call of each thread
    pushed       \* history: the last Size pointers each thread has pushed,
                 \* latest first; doubt: the page was unmapped since msync

vars == <<mapped, lines, mostRecent, call, pushed>>

Index == 0 .. Size - 1

\* The page of P: the address without the bits of the page mask.
Base(P) == P - (P % PageSize)

\* The page of the null pointer is never mapped.
Page == {Base(P) : P \in Pointer} \ {Base(Null)}

Entry(P, doubt) == [ptr |-> P, doubt |-> doubt]

Asking(stage, P, doubt) == [stage |-> stage, ptr |-> P, doubt |-> doubt]
Answer(P, value) == [stage |-> "done", ptr |-> P, value |-> value]
Idle == [stage |-> "idle"]

Init ==
    /\ mapped = {}
    /\ lines = [t \in Thread |-> [i \in Index |-> Null]]
    /\ mostRecent = [t \in Thread |-> 0]
    /\ call = [t \in Thread |-> Idle]
    /\ pushed = [t \in Thread |-> <<>>]

-----------------------------------------------------------------------------
\* A defect: the loop over the lines ends one short.
Hit_OneShort(t, P) == \E i \in Index \ {0} : lines[t][i] = P

Hit(t, P) == \E i \in Index : lines[t][i] = P

\* IsMemoryValid(P): the cache answers, or the kernel is asked.
Call(t, P) ==
    /\ call[t].stage = "idle"
    /\ call' = [call EXCEPT ![t] = IF Hit(t, P) THEN Answer(P, TRUE)
                                   ELSE Asking("msync", P, FALSE)]
    /\ UNCHANGED <<mapped, lines, mostRecent, pushed>>

\* A defect: the whole cache is asked about the page, not this address's.
Valid_AnyPage(P) == mapped # {}

Valid(P) == Base(P) \in mapped

\* msync: it fails, with ENOMEM, for pages that are not mapped.
Msync(t) ==
    /\ call[t].stage = "msync"
    /\ call' = [call EXCEPT ![t] = IF Valid(@.ptr)
                                   THEN Asking("push", @.ptr, FALSE)
                                   ELSE Answer(@.ptr, FALSE)]
    /\ UNCHANGED <<mapped, lines, mostRecent, pushed>>

\* A defect: the ring is one line smaller than the array.
Successor_Short(i) == IF i + 1 >= Size - 1 THEN 0 ELSE i + 1

Successor(i) == (i + 1) % Size

\* The history s of a thread that pushes e.
Latest(e, s) ==
    LET all == <<e>> \o s
    IN  IF Len(all) > Size THEN SubSeq(all, 1, Size) ELSE all

\* push, and the answer.
Push(t) ==
    /\ call[t].stage = "push"
    /\ LET i == Successor(mostRecent[t])
           P == call[t].ptr
       IN  /\ mostRecent' = [mostRecent EXCEPT ![t] = i]
           /\ lines' = [lines EXCEPT ![t][i] = P]
           /\ call' = [call EXCEPT ![t] = Answer(P, TRUE)]
           /\ pushed' = [pushed EXCEPT ![t] = Latest(Entry(P, call[t].doubt), @)]
    /\ UNCHANGED mapped

-----------------------------------------------------------------------------
\* The caller has its answer.
Leave(t) ==
    /\ call[t].stage = "done"
    /\ call' = [call EXCEPT ![t] = Idle]
    /\ UNCHANGED <<mapped, lines, mostRecent, pushed>>

\* The program around: memory comes and goes.
Map(pg) ==
    /\ pg \notin mapped
    /\ mapped' = mapped \cup {pg}
    /\ UNCHANGED <<lines, mostRecent, call, pushed>>

Unmap(pg) ==
    /\ pg \in mapped
    /\ mapped' = mapped \ {pg}
    /\ call' = [t \in Thread |->
                  IF call[t].stage = "push" /\ Base(call[t].ptr) = pg
                  THEN [call[t] EXCEPT !.doubt = TRUE] ELSE call[t]]
    /\ pushed' = [t \in Thread |-> [i \in DOMAIN pushed[t] |->
                  IF Base(pushed[t][i].ptr) = pg
                  THEN Entry(pushed[t][i].ptr, TRUE) ELSE pushed[t][i]]]
    /\ UNCHANGED <<lines, mostRecent>>

Step(t) == (\E P \in Pointer : Call(t, P)) \/ Msync(t) \/ Push(t) \/ Leave(t)

Next ==
    \/ \E t \in Thread : Step(t)
    \/ \E pg \in Page : Map(pg) \/ Unmap(pg)

Spec == Init /\ [][Next]_vars

-----------------------------------------------------------------------------
(* Properties.                                                             *)

Entries == [ptr : Pointer, doubt : BOOLEAN]
Calls == {Idle} \cup [stage : {"msync", "push"}, ptr : Pointer, doubt : BOOLEAN]
           \cup [stage : {"done"}, ptr : Pointer, value : BOOLEAN]

\* The variables have their types; the index stays inside the array.
TypeOK ==
    /\ mapped \subseteq Page
    /\ lines \in [Thread -> [Index -> Pointer]]
    /\ mostRecent \in [Thread -> Index]
    /\ call \in [Thread -> Calls]
    /\ pushed \in [Thread -> Seq(Entries)]
    /\ \A t \in Thread : Len(pushed[t]) <= Size

\* "What enters first, leaves first" (the comment of PointerCheck): read back
\* from the most recent line, the ring is what the thread has pushed last,
\* latest first, and then the nulls it began with.  So a pointer whose memory
\* is gone stays for at most Size - 1 further pushes.
FirstInFirstOut ==
    \A t \in Thread, k \in Index :
      lines[t][(mostRecent[t] - k) % Size] =
        IF k < Len(pushed[t]) THEN pushed[t][k + 1].ptr ELSE Null

\* No pointer takes two lines: the thread that is about to push one does not
\* have it yet, whatever the others push.
NoPointerTwice ==
    \A t \in Thread :
      /\ \A i, j \in Index :
           i # j /\ lines[t][i] # Null => lines[t][i] # lines[t][j]
      /\ call[t].stage \in {"msync", "push"} => ~Hit(t, call[t].ptr)

\* Why a thread may take P for valid without its page being there.
Excused(t, P) ==
    \/ P = Null /\ Len(pushed[t]) < Size
    \/ \E i \in DOMAIN pushed[t] : pushed[t][i] = Entry(P, TRUE)

\* IsMemoryValid says whether the memory is there when it returns.  It is
\* wrong only in saying TRUE, and only for memory that was unmapped since this
\* very thread's msync, or for the null pointer in a thread that has not filled
\* its lines.
AnswersRightNow ==
    \A t \in Thread, P \in Pointer, valid \in BOOLEAN :
      call[t].stage # "done" /\ call'[t] = Answer(P, valid) =>
        \/ valid <=> Base(P) \in mapped
        \/ valid /\ Excused(t, P)'

AnswersRight == [][AnswersRightNow]_vars
=============================================================================
