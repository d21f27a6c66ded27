---------------------- MODULE ClangInternalStateProofs ----------------------
(***************************************************************************)
(* Whenever a signal comes, it leaves at most one temporary file behind;   *)
(* while there is none, each file has an owner that will remove it, and    *)
(* holds what the compiler was like when its owner was taken, so that a    *)
(* comparison reports what has changed.  All for any compilers, any number *)
(* of snapshots, of faults and of changes.                                 *)
(***************************************************************************)
EXTENDS ClangInternalState, FiniteSetTheorems, SequenceTheorems, TLAPS

\* The one file that has been made and is not registered yet.
Unregistered(p) == job.stage = "register" /\ p = Last(job.paths)

\* While the process runs, a signal that came now would leave no more.
Covered == ~gone => \A p \in DOMAIN disk : p \in registered \/ Unregistered(p)

\* The paths of a snapshot in the making are a sequence, of whatever names.
PathsOK ==
    job.stage \in {"create", "register"} => \E S : job.paths \in Seq(S)

IInv == Covered /\ PathsOK /\ SignalCleans

-----------------------------------------------------------------------------
(* Helpers.                                                                *)

\* The last of a sequence that was just appended to is what was appended.
LEMMA LastAppended ==
    ASSUME NEW s, \E S : s \in Seq(S), NEW e
    PROVE  Last(Append(s, e)) = e
<1>1. PICK S : s \in Seq(S)
  OBVIOUS
<1>2. s \in Seq(S \cup {e})
  BY <1>1
<1>3. /\ Len(Append(s, e)) = Len(s) + 1
      /\ Append(s, e)[Len(s) + 1] = e
  BY <1>2
<1> QED
  BY <1>3 DEF Last

\* A path that is named adds to a sequence of paths.
LEMMA PathsGrow ==
    ASSUME NEW s, \E S : s \in Seq(S), NEW e
    PROVE  \E S : Append(s, e) \in Seq(S)
<1>1. PICK S : s \in Seq(S)
  OBVIOUS
<1>2. s \in Seq(S \cup {e}) /\ e \in S \cup {e}
  BY <1>1
<1>3. Append(s, e) \in Seq(S \cup {e})
  BY <1>2
<1> QED
  BY <1>3

\* A step between two calls, or of a call that made no file: nothing is
\* waiting to be registered, and what leaves the list leaves the disk.
LEMMA Settled ==
    ASSUME Covered, ~gone, gone' = gone, job.stage # "register",
           DOMAIN disk' \subseteq DOMAIN disk,
           \A p \in registered : p \in registered' \/ p \notin DOMAIN disk'
    PROVE  Covered' /\ SignalCleans'
BY DEF Covered, Unregistered, SignalCleans

-----------------------------------------------------------------------------
(* The steps.                                                              *)

\* Before the first snapshot there is no file.
LEMMA InvInit == Init => IInv
<1> SUFFICES ASSUME Init PROVE IInv
  OBVIOUS
<1>1. DOMAIN disk = {}
  BY DEF Init
<1>2. job.stage = "idle" /\ gone = FALSE
  BY DEF Init, Idle
<1> QED
  BY <1>1, <1>2 DEF IInv, Covered, PathsOK, SignalCleans

\* The process ends: what remains on the disk was not registered.
LEMMA DieOK ==
    ASSUME IInv, Die, ~gone
    PROVE  IInv'
<1>1. DOMAIN disk' = DOMAIN disk \ registered /\ job' = job /\ gone' = TRUE
  BY DEF Die
<1>2. SignalCleans'
  BY <1>1 DEF IInv, Covered, Unregistered, SignalCleans
<1> QED
  BY <1>1, <1>2 DEF IInv, Covered, PathsOK

\* A file is made: it is the one that is not registered yet.
LEMMA CreateOK ==
    ASSUME IInv, createUniqueFile
    PROVE  IInv'
<1> DEFINE k == Len(job.paths) + 1
           Named(p) == job' = Making("register", job.for, job.module,
                                     Append(job.paths, p))
<1>1. ~gone /\ gone' = gone /\ job.stage = "create" /\ registered' = registered
  BY DEF createUniqueFile, Running
<1>2. \E S : job.paths \in Seq(S)
  BY <1>1 DEF IInv, PathsOK
<1>3. \A p : Named(p) => /\ job'.stage = "register"
                         /\ Last(job'.paths) = p
                         /\ PathsOK'
  <2> SUFFICES ASSUME NEW p, Named(p)
               PROVE  /\ job'.stage = "register"
                      /\ Last(job'.paths) = p
                      /\ PathsOK'
    OBVIOUS
  <2>1. Last(Append(job.paths, p)) = p
    BY <1>2, LastAppended
  <2>2. \E S : Append(job.paths, p) \in Seq(S)
    BY <1>2, PathsGrow
  <2>3. job'.stage = "register" /\ job'.paths = Append(job.paths, p)
    BY DEF Making
  <2> QED
    BY <2>1, <2>2, <2>3 DEF PathsOK
<1>4. \A p \in DOMAIN disk : p \in registered
  BY <1>1 DEF IInv, Covered, Unregistered
<1>5. CASE /\ Named(UniquePath(k))
           /\ disk' = [p \in DOMAIN disk \cup {UniquePath(k)} |->
                         IF p = UniquePath(k) THEN <<>> ELSE disk[p]]
  <2>1. job'.stage = "register" /\ Last(job'.paths) = UniquePath(k) /\ PathsOK'
    BY <1>3, <1>5
  <2>2. DOMAIN disk' = DOMAIN disk \cup {UniquePath(k)}
    BY <1>5
  <2> HIDE DEF k
  <2> QED
    BY <2>1, <2>2, <1>1, <1>4 DEF IInv, Covered, Unregistered, SignalCleans
<1>6. CASE (Named(NoPath) \/ Named(LostPath(k))) /\ UNCHANGED disk
  <2>1. job'.stage = "register" /\ PathsOK'
    BY <1>3, <1>6
  <2> QED
    BY <2>1, <1>1, <1>4, <1>6 DEF IInv, Covered, Unregistered, SignalCleans
<1> QED
  BY <1>5, <1>6 DEF createUniqueFile

\* It is registered.
LEMMA RegisterOK ==
    ASSUME IInv, RemoveFileOnSignal
    PROVE  IInv'
<1>1. /\ ~gone /\ gone' = gone /\ disk' = disk /\ job.stage = "register"
      /\ registered' = registered \cup {Last(job.paths)}
  BY DEF RemoveFileOnSignal, Running, Registered
<1>2. Covered' /\ SignalCleans'
  BY <1>1 DEF IInv, Covered, Unregistered, SignalCleans
<1>3. job'.paths = job.paths
  BY DEF RemoveFileOnSignal, Making
<1>4. PathsOK'
  BY <1>1, <1>3 DEF IInv, PathsOK
<1> QED
  BY <1>2, <1>4 DEF IInv

\* The streams are written, and the pair a comparison replaces leaves the disk
\* and the list together.
LEMMA StoreOK ==
    ASSUME IInv, store
    PROVE  IInv'
<1> DEFINE printed == [p \in DOMAIN disk |->
                         IF \E k \in Written : job.paths[k] = p
                         THEN TextOf(Kinds[p[1]], compiler) ELSE disk[p]]
<1>1. ~gone /\ gone' = gone /\ job.stage = "print"
  BY DEF store, Running
<1>2. DOMAIN printed = DOMAIN disk
  OBVIOUS
<1>3. \/ job' = Idle /\ disk' = printed /\ registered' = registered
      \/ /\ job' = [stage |-> "diff", at |-> 1, report |-> <<>>]
         /\ disk' = WithoutFiles(printed, Pair(Innermost))
         /\ registered' = registered \ Pair(Innermost)
  BY DEF store
<1> HIDE DEF printed
<1>4. CASE job' = Idle /\ disk' = printed /\ registered' = registered
  <2>1. job'.stage = "idle"
    BY <1>4 DEF Idle
  <2> QED
    BY <2>1, <1>1, <1>2, <1>4, Settled DEF IInv, PathsOK
<1>5. CASE /\ job' = [stage |-> "diff", at |-> 1, report |-> <<>>]
           /\ disk' = WithoutFiles(printed, Pair(Innermost))
           /\ registered' = registered \ Pair(Innermost)
  <2>1. job'.stage = "diff"
    BY <1>5
  <2>2. DOMAIN disk' = DOMAIN disk \ Pair(Innermost)
    BY <1>2, <1>5 DEF WithoutFiles
  <2> QED
    BY <2>1, <2>2, <1>1, <1>5, Settled DEF IInv, PathsOK
<1> QED
  BY <1>3, <1>4, <1>5

\* diff is run and its output read: no file comes or goes.
LEMMA DiffOK ==
    ASSUME IInv, Popen \/ ReadChunk \/ Compared
    PROVE  IInv'
<1>1. /\ ~gone /\ gone' = gone /\ disk' = disk /\ registered' = registered
      /\ job.stage \in {"diff", "read"}
  BY DEF Popen, ReadChunk, Compared, Running
<1>2. job'.stage \in {"diff", "read", "idle"}
  BY DEF Popen, ReadChunk, Compared, Reported, Reading, Idle
<1> QED
  BY <1>1, <1>2, Settled DEF IInv, PathsOK

\* A call begins: no path is named yet.
LEMMA BeginOK ==
    ASSUME IInv, Open \/ compare
    PROVE  IInv'
<1>1. /\ ~gone /\ gone' = gone /\ disk' = disk /\ registered' = registered
      /\ job.stage = "idle"
  BY DEF Open, compare, Idle
<1>2. job'.paths = <<>>
  BY DEF Open, compare, Making
<1>3. PathsOK'
  <2>1. <<>> \in Seq({})
    OBVIOUS
  <2> QED
    BY <1>2, <2>1 DEF PathsOK
<1> QED
  BY <1>1, <1>3, Settled DEF IInv

\* A snapshot goes with its files, or the compiler goes on.
LEMMA BetweenOK ==
    ASSUME IInv, Destroy \/ Change
    PROVE  IInv'
<1>1. ~gone /\ gone' = gone /\ job' = job /\ job.stage = "idle"
  BY DEF Destroy, Change, Idle
<1>2. CASE Change
  <2>1. disk' = disk /\ registered' = registered
    BY <1>2 DEF Change
  <2> QED
    BY <1>1, <2>1, Settled DEF IInv, PathsOK
<1>3. CASE Destroy
  <2> DEFINE files == FilesOf(Innermost) \cup Pair(Innermost)
  <2>1. disk' = WithoutFiles(disk, files) /\ registered' = registered \ files
    BY <1>3 DEF Destroy
  <2> HIDE DEF files
  <2>2. DOMAIN disk' = DOMAIN disk \ files
    BY <2>1 DEF WithoutFiles
  <2> QED
    BY <1>1, <2>1, <2>2, Settled DEF IInv, PathsOK
<1> QED
  BY <1>2, <1>3

-----------------------------------------------------------------------------
(* The theorems.                                                           *)

\* Every step of a call, of the compiler and of the environment.
LEMMA InvNext == IInv /\ [Next]_vars => IInv'
<1> SUFFICES ASSUME IInv, [Next]_vars PROVE IInv'
  OBVIOUS
<1>1. CASE Open \/ compare
  BY <1>1, BeginOK
<1>2. CASE Destroy \/ Change
  BY <1>2, BetweenOK
<1>3. CASE Signal \/ storeFails
  <2>1. ~gone /\ Die
    BY <1>3 DEF Signal, storeFails, Running
  <2> QED
    BY <2>1, DieOK
<1>4. CASE createUniqueFile
  BY <1>4, CreateOK
<1>5. CASE RemoveFileOnSignal
  BY <1>5, RegisterOK
<1>6. CASE store
  BY <1>6, StoreOK
<1>7. CASE Popen \/ ReadChunk \/ Compared
  BY <1>7, DiffOK
<1>8. CASE UNCHANGED vars
  BY <1>8 DEF vars, IInv, Covered, Unregistered, PathsOK, SignalCleans
<1> QED
  BY <1>1, <1>2, <1>3, <1>4, <1>5, <1>6, <1>7, <1>8 DEF Next, Step

\* Every temporary file is registered before the next one is made, until the
\* snapshot it belongs to removes it.
THEOREM Inductive == Spec => []IInv
<1> QED
  BY InvInit, InvNext, PTL DEF Spec

\* A process that ends, by a signal or by a stream it could not open, leaves
\* at most the file it was about to register (RemoveFileOnSignal), however many
\* snapshots are alive.
THEOREM SignalsClean == Spec => []SignalCleans
<1>1. IInv => SignalCleans
  BY DEF IInv
<1> QED
  BY <1>1, Inductive, PTL

-----------------------------------------------------------------------------
(* Whose files are on the disk.                                            *)

\* The paths in P that name a file.
Real(P) == {p \in P : p # NoPath /\ p[2] # 0}

\* The files of a snapshot and of its pair.
All(s) == FilesOf(s) \cup Pair(s)

\* The paths of the snapshot in the making.
Named == IF "paths" \in DOMAIN job THEN ToSet(job.paths) ELSE {}

\* Each file on the disk belongs to one of the snapshots ss, to its pair, or to
\* the one in the making, whose paths are the set named; each of their paths that
\* names a file names one of these, and no two of them name the same.
Tidy(ss, named, files) ==
    /\ IsFiniteSet(files)
    /\ files \subseteq named \cup UNION {All(ss[i]) : i \in DOMAIN ss}
    /\ files = Real(files) /\ Real(named) \subseteq files
    /\ \A i \in DOMAIN ss :
         /\ Real(All(ss[i])) \subseteq files
         /\ Real(All(ss[i])) \cap named = {}
         /\ Real(FilesOf(ss[i])) \cap Pair(ss[i]) = {}
    /\ \A i, j \in DOMAIN ss :
         i # j => Real(All(ss[i])) \cap All(ss[j]) = {}

\* A snapshot has a pair or none.
Snapshot(s) ==
    /\ s = [paths |-> s.paths, module |-> s.module, seen |-> s.seen, pair |-> s.pair]
    /\ \/ s.pair = <<>>
       \/ \E q : s.pair = <<q>>

Snapshots(ss) == (\E S : ss \in Seq(S)) /\ \A i \in DOMAIN ss : Snapshot(ss[i])

\* Only a call that makes a snapshot names paths; one that compares has a
\* snapshot to compare with.
JobOK ==
    \/ /\ job.stage \in {"create", "register", "print"} /\ "paths" \in DOMAIN job
       /\ \E S : job.paths \in Seq(S)
       /\ job.for # "new" /\ ~gone => snaps # <<>>
    \/ job.stage \in {"idle", "diff", "read"} /\ "paths" \notin DOMAIN job

TidyInv ==
    /\ Snapshots(snaps) /\ JobOK
    /\ ~gone => Tidy(snaps, Named, DOMAIN disk)

-----------------------------------------------------------------------------
(* Helpers.                                                                *)

\* The paths of fresh files are free.
LEMMA UniquePathIsFree ==
    ASSUME IsFiniteSet(DOMAIN disk), NEW k
    PROVE  \E n \in Nat : /\ n # 0 /\ UniquePath(k) = <<k, n>>
                          /\ <<k, n>> \notin DOMAIN disk
<1> DEFINE c == Cardinality(DOMAIN disk)
           f == [n \in 1 .. c + 1 |-> <<k, n>>]
<1>1. c \in Nat
  BY FS_CardinalityType
<1>2. \E n \in 1 .. c + 1 : <<k, n>> \notin DOMAIN disk
  <2> SUFFICES ASSUME \A n \in 1 .. c + 1 : <<k, n>> \in DOMAIN disk PROVE FALSE
    OBVIOUS
  <2>1. f \in Injection(1 .. c + 1, DOMAIN disk)
    BY DEF Injection, IsInjective
  <2>2. Cardinality(1 .. c + 1) <= c
    BY <2>1, FS_Injection
  <2>3. Cardinality(1 .. c + 1) = c + 1
    BY <1>1, FS_Interval
  <2> QED
    BY <1>1, <2>2, <2>3
<1>3. PICK m : m = CHOOSE n \in 1 .. c + 1 : <<k, n>> \notin DOMAIN disk
  OBVIOUS
<1>4. m \in 1 .. c + 1 /\ <<k, m>> \notin DOMAIN disk
  BY <1>2, <1>3
<1>5. UniquePath(k) = <<k, m>>
  BY <1>3 DEF UniquePath
<1> QED
  BY <1>1, <1>4, <1>5

\* Which of the named paths are files.
LEMMA RealIs ==
    ASSUME NEW k
    PROVE  /\ \A n \in Nat \ {0} : Real({<<k, n>>}) = {<<k, n>>}
           /\ Real({NoPath}) = {} /\ Real({LostPath(k)}) = {} /\ Real({}) = {}
           /\ \A P, Q : /\ Real(P \cup Q) = Real(P) \cup Real(Q)
                        /\ Real(P) \subseteq P
                        /\ Real(P) \cap Q = {} <=> P \cap Real(Q) = {}
                        /\ Real(P \ Q) = Real(P) \ Q
<1>1. \A n : <<k, n>> # NoPath /\ <<k, n>>[2] = n
  <2> SUFFICES ASSUME NEW n PROVE <<k, n>> # NoPath /\ <<k, n>>[2] = n
    OBVIOUS
  <2>1. Len(<<k, n>>) = 2 /\ Len(NoPath) = 0
    BY DEF NoPath
  <2> QED
    BY <2>1
<1>2. /\ \A n \in Nat \ {0} : Real({<<k, n>>}) = {<<k, n>>}
      /\ Real({LostPath(k)}) = {}
  BY <1>1 DEF Real, LostPath
<1> QED
  BY <1>2 DEF Real

\* The elements of a sequence that grew by one.
LEMMA SetAppended ==
    ASSUME NEW s, \E S : s \in Seq(S), NEW e
    PROVE  ToSet(Append(s, e)) = ToSet(s) \cup {e}
<1>1. PICK S : s \in Seq(S)
  OBVIOUS
<1>2. s \in Seq(S \cup {e}) /\ e \in S \cup {e}
  BY <1>1
<1>3. PICK t : t = Append(s, e)
  OBVIOUS
<1>4. /\ DOMAIN t = 1 .. Len(s) + 1 /\ DOMAIN s = 1 .. Len(s) /\ Len(s) \in Nat
      /\ t[Len(s) + 1] = e /\ \A i \in DOMAIN s : t[i] = s[i]
  BY <1>2, <1>3, AppendProperties
<1>5. \A x : (\E i \in DOMAIN t : x = t[i]) <=> (\E i \in DOMAIN s : x = s[i]) \/ x = e
  BY <1>4
<1> QED
  BY <1>3, <1>5 DEF ToSet

\* The files of a snapshot and of the pair it was last compared with.
LEMMA PairIs ==
    ASSUME NEW s
    PROVE  /\ s.pair = <<>> => Pair(s) = {}
           /\ \A q : s.pair = <<q>> => Pair(s) = FilesOf(q)
<1>1. s.pair = <<>> => Pair(s) = {}
  BY DEF Pair
<1>2. ASSUME NEW q, s.pair = <<q>> PROVE Pair(s) = FilesOf(q)
  <2>1. Head(<<q>>) = q /\ <<q>> # <<>>
    OBVIOUS
  <2> QED
    BY <1>2, <2>1 DEF Pair
<1> QED
  BY <1>1, <1>2

\* What the snapshots own, snapshot by snapshot.
LEMMA OwnedIs ==
    ASSUME Snapshots(snaps)
    PROVE  Owned = UNION {All(snaps[i]) : i \in DOMAIN snaps}
<1>1. ASSUME NEW i \in DOMAIN snaps
      PROVE  UNION {ToSet(s.paths) : s \in {snaps[i]} \cup ToSet(snaps[i].pair)}
               = All(snaps[i])
  <2>1. PICK s : s = snaps[i]
    OBVIOUS
  <2>2. CASE s.pair = <<>>
    <3>1. ToSet(s.pair) = {} /\ Pair(s) = {}
      BY <2>2, PairIs DEF ToSet
    <3> QED
      BY <2>1, <3>1 DEF All, FilesOf
  <2>3. CASE \E q : s.pair = <<q>>
    <3>1. PICK q : s.pair = <<q>>
      BY <2>3
    <3>2. ToSet(<<q>>) = {q}
      BY DEF ToSet
    <3>3. Pair(s) = FilesOf(q)
      BY <3>1, PairIs
    <3> QED
      BY <2>1, <3>1, <3>2, <3>3 DEF All, FilesOf
  <2> QED
    BY <2>1, <2>2, <2>3 DEF Snapshots, Snapshot
<1> QED
  BY <1>1 DEF Owned

\* The sequence of snapshots, its innermost, and the others.
LEMMA InnermostIs ==
    ASSUME Snapshots(snaps), snaps # <<>>
    PROVE  \E n \in Nat : /\ DOMAIN snaps = 1 .. n + 1 /\ Innermost = snaps[n + 1]
                          /\ DOMAIN Front(snaps) = 1 .. n
                          /\ \A i \in 1 .. n : Front(snaps)[i] = snaps[i]
                          /\ \E S : Front(snaps) \in Seq(S)
<1>1. PICK S : snaps \in Seq(S)
  BY DEF Snapshots
<1>2. PICK n : n = Len(snaps) - 1
  OBVIOUS
<1>3. n \in Nat /\ Len(snaps) = n + 1 /\ DOMAIN snaps = 1 .. n + 1
  BY <1>1, <1>2
<1>4. Innermost = snaps[n + 1]
  BY <1>3 DEF Innermost, Last
<1>5. /\ Front(snaps) \in Seq(S) /\ Len(Front(snaps)) = n
      /\ \A i \in 1 .. n : Front(snaps)[i] = snaps[i]
  <2>1. Front(snaps) = SubSeq(snaps, 1, n)
    BY <1>2 DEF Front
  <2> QED
    BY <1>1, <1>3, <2>1
<1>6. DOMAIN Front(snaps) = 1 .. n
  BY <1>5
<1> QED
  BY <1>3, <1>4, <1>5, <1>6

-----------------------------------------------------------------------------
(* What a step does to the files.                                          *)

\* A path is named that is no file, or that of a fresh one.
LEMMA NamePath ==
    ASSUME NEW ss, NEW P, NEW D, NEW e, NEW D2, Tidy(ss, P, D),
           \/ Real({e}) = {} /\ D2 = D
           \/ Real({e}) = {e} /\ e \notin D /\ D2 = D \cup {e}
    PROVE  Tidy(ss, P \cup {e}, D2)
<1>1. IsFiniteSet(D2)
  BY FS_AddElement DEF Tidy
<1>2. /\ D2 \subseteq (P \cup {e}) \cup UNION {All(ss[i]) : i \in DOMAIN ss}
      /\ D2 = Real(D2) /\ Real(P \cup {e}) \subseteq D2
  BY DEF Tidy, Real
<1>3. \A i \in DOMAIN ss : Real(All(ss[i])) \cap {e} = {}
  BY DEF Tidy, Real
<1>4. \A i \in DOMAIN ss :
         /\ Real(All(ss[i])) \subseteq D2
         /\ Real(All(ss[i])) \cap (P \cup {e}) = {}
         /\ Real(FilesOf(ss[i])) \cap Pair(ss[i]) = {}
  BY <1>3 DEF Tidy
<1> QED
  BY <1>1, <1>2, <1>4 DEF Tidy

\* The snapshot in the making is the innermost from now on.
LEMMA KeepNew ==
    ASSUME NEW ss, NEW P, NEW D, NEW n \in Nat, DOMAIN ss = 1 .. n,
           NEW tt, DOMAIN tt = 1 .. n + 1, \A i \in 1 .. n : tt[i] = ss[i],
           FilesOf(tt[n + 1]) = P, Pair(tt[n + 1]) = {},
           Tidy(ss, P, D)
    PROVE  Tidy(tt, {}, D)
<1>1. All(tt[n + 1]) = P
  BY DEF All
<1>2. \A i : i \in 1 .. n + 1 <=> i \in 1 .. n \/ i = n + 1
  OBVIOUS
<1>3. D \subseteq UNION {All(tt[i]) : i \in DOMAIN tt}
  <2> SUFFICES ASSUME NEW p \in D PROVE \E i \in DOMAIN tt : p \in All(tt[i])
    OBVIOUS
  <2>1. CASE p \in P
    BY <1>1, <1>2, <2>1
  <2>2. CASE \E i \in DOMAIN ss : p \in All(ss[i])
    BY <1>2, <2>2
  <2> QED
    BY <2>1, <2>2 DEF Tidy
<1>4. \A i \in DOMAIN tt :
         /\ Real(All(tt[i])) \subseteq D
         /\ Real(FilesOf(tt[i])) \cap Pair(tt[i]) = {}
  BY <1>1, <1>2 DEF Tidy
<1>5. \A i, j \in DOMAIN tt : i # j => Real(All(tt[i])) \cap All(tt[j]) = {}
  <2>1. \A i, j \in 1 .. n : i # j => Real(All(tt[i])) \cap All(tt[j]) = {}
    BY DEF Tidy
  <2>2. \A i \in 1 .. n : Real(All(tt[i])) \cap All(tt[n + 1]) = {}
    BY <1>1 DEF Tidy
  <2>3. \A i \in 1 .. n : Real(All(tt[n + 1])) \cap All(tt[i]) = {}
    BY <2>2 DEF Real
  <2> QED
    BY <1>2, <2>1, <2>2, <2>3
<1> QED
  BY <1>3, <1>4, <1>5 DEF Tidy, Real

\* The snapshot in the making is the pair of the innermost, in the place of
\* another, whose files leave.
LEMMA KeepPair ==
    ASSUME NEW ss, NEW P, NEW D, NEW n \in Nat, DOMAIN ss = 1 .. n + 1,
           NEW tt, DOMAIN tt = 1 .. n + 1, \A i \in 1 .. n : tt[i] = ss[i],
           FilesOf(tt[n + 1]) = FilesOf(ss[n + 1]), Pair(tt[n + 1]) = P,
           NEW D2, D2 = D \ Pair(ss[n + 1]),
           Tidy(ss, P, D)
    PROVE  Tidy(tt, {}, D2)
<1> DEFINE A == FilesOf(ss[n + 1])
           B == Pair(ss[n + 1])
<1>1. /\ All(tt[n + 1]) = A \cup P /\ All(ss[n + 1]) = A \cup B
      /\ n + 1 \in DOMAIN ss
  BY DEF All
<1>2. \A i : i \in 1 .. n + 1 <=> i \in 1 .. n \/ i = n + 1
  OBVIOUS
<1>3. /\ Real(A \cup B) \subseteq D /\ Real(A \cup B) \cap P = {} /\ Real(A) \cap B = {}
      /\ D = Real(D) /\ Real(P) \subseteq D
  BY <1>1 DEF Tidy
<1>4. \A i \in 1 .. n : All(tt[i]) = All(ss[i]) /\ i \in DOMAIN ss
  BY <1>2
<1>5. \A i \in 1 .. n :
         /\ Real(All(tt[i])) \subseteq D /\ Real(All(tt[i])) \cap P = {}
         /\ Real(FilesOf(tt[i])) \cap Pair(tt[i]) = {}
         /\ Real(All(tt[i])) \cap (A \cup B) = {}
  <2>1. \A i \in 1 .. n : i # n + 1
    OBVIOUS
  <2> QED
    BY <1>1, <1>4, <2>1 DEF Tidy
<1>6. \A p \in D : p \in P \/ p \in A \/ p \in B \/ \E i \in 1 .. n : p \in All(tt[i])
  <2> SUFFICES ASSUME NEW p \in D, p \notin P
               PROVE  p \in A \/ p \in B \/ \E i \in 1 .. n : p \in All(tt[i])
    OBVIOUS
  <2>1. PICK i \in DOMAIN ss : p \in All(ss[i])
    BY DEF Tidy
  <2> QED
    BY <1>1, <1>2, <1>4, <2>1
<1>7. IsFiniteSet(D2)
  BY FS_Subset DEF Tidy
<1>8. \A i, j \in 1 .. n : i # j => Real(All(tt[i])) \cap All(tt[j]) = {}
  BY <1>4 DEF Tidy
<1> HIDE DEF A, B
<1>9. D2 \subseteq UNION {All(tt[i]) : i \in DOMAIN tt}
  <2> SUFFICES ASSUME NEW p \in D2 PROVE \E i \in DOMAIN tt : p \in All(tt[i])
    OBVIOUS
  <2>1. p \in D /\ p \notin B
    BY DEF B
  <2> QED
    BY <1>1, <1>2, <1>6, <2>1
<1>10. \A i \in DOMAIN tt :
         /\ Real(All(tt[i])) \subseteq D2
         /\ Real(FilesOf(tt[i])) \cap Pair(tt[i]) = {}
  <2>1. \A i \in 1 .. n : Real(All(tt[i])) \subseteq D2
    BY <1>5 DEF B
  <2>2. Real(A \cup P) \subseteq D2
    BY <1>3 DEF B, Real
  <2>3. Real(A) \cap P = {}
    BY <1>3 DEF Real
  <2> QED
    BY <1>1, <1>2, <1>5, <2>1, <2>2, <2>3 DEF A
<1>11. \A i, j \in DOMAIN tt : i # j => Real(All(tt[i])) \cap All(tt[j]) = {}
  <2>1. \A i \in 1 .. n : Real(All(tt[i])) \cap (A \cup P) = {}
    BY <1>5
  <2>2. \A i \in 1 .. n : Real(A \cup P) \cap All(tt[i]) = {}
    BY <2>1 DEF Real
  <2> QED
    BY <1>1, <1>2, <1>8, <2>1, <2>2
<1>12. D2 = Real(D2)
  BY <1>3 DEF Real
<1> QED
  BY <1>7, <1>9, <1>10, <1>11, <1>12 DEF Tidy, Real

\* The innermost snapshot goes, and its files and those of its pair with it.
LEMMA DropLast ==
    ASSUME NEW ss, NEW D, NEW n \in Nat, DOMAIN ss = 1 .. n + 1,
           NEW tt, DOMAIN tt = 1 .. n, \A i \in 1 .. n : tt[i] = ss[i],
           NEW D2, D2 = D \ All(ss[n + 1]),
           Tidy(ss, {}, D)
    PROVE  Tidy(tt, {}, D2)
<1>1. \A i : i \in 1 .. n + 1 <=> i \in 1 .. n \/ i = n + 1
  OBVIOUS
<1>2. \A i \in 1 .. n : i \in DOMAIN ss /\ n + 1 \in DOMAIN ss /\ i # n + 1
  OBVIOUS
<1>3. IsFiniteSet(D2)
  BY FS_Subset DEF Tidy
<1>4. D2 \subseteq UNION {All(tt[i]) : i \in DOMAIN tt}
  <2> SUFFICES ASSUME NEW p \in D2 PROVE \E i \in DOMAIN tt : p \in All(tt[i])
    OBVIOUS
  <2>1. PICK i \in DOMAIN ss : p \in All(ss[i])
    BY DEF Tidy
  <2> QED
    BY <1>1, <2>1
<1>5. \A i \in DOMAIN tt :
         /\ Real(All(tt[i])) \subseteq D2
         /\ Real(FilesOf(tt[i])) \cap Pair(tt[i]) = {}
  BY <1>2 DEF Tidy
<1>6. \A i, j \in DOMAIN tt : i # j => Real(All(tt[i])) \cap All(tt[j]) = {}
  BY <1>2 DEF Tidy
<1>7. D2 = Real(D2)
  BY DEF Tidy, Real
<1> QED
  BY <1>3, <1>4, <1>5, <1>6, <1>7 DEF Tidy, Real

-----------------------------------------------------------------------------
(* The steps, and whose files are on the disk.                             *)

\* A step that leaves files and snapshots alone, and the paths named, if any.
LEMMA SameTidy ==
    ASSUME TidyInv, JobOK', ~gone, snaps' = snaps, DOMAIN disk' = DOMAIN disk,
           Named' = Named
    PROVE  TidyInv'
BY DEF TidyInv

\* No path is named when no snapshot is in the making.
LEMMA NothingNamed ==
    /\ "paths" \notin DOMAIN job => Named = {}
    /\ "paths" \in DOMAIN job => Named = ToSet(job.paths)
BY DEF Named

\* A job of which nothing is named.
LEMMA IdleIs == job = Idle => job.stage = "idle" /\ "paths" \notin DOMAIN job
BY DEF Idle

\* Before the first snapshot nobody has a file.
LEMMA TidyInit == Init => TidyInv
<1> SUFFICES ASSUME Init PROVE TidyInv
  OBVIOUS
<1>1. snaps = <<>> /\ job = Idle /\ disk = <<>> /\ DOMAIN disk = {}
  BY DEF Init
<1>2. Snapshots(snaps) /\ DOMAIN snaps = {}
  <2>1. snaps \in Seq({}) /\ DOMAIN snaps = {}
    BY <1>1
  <2> QED
    BY <2>1 DEF Snapshots
<1>3. JobOK
  BY <1>1, IdleIs DEF JobOK
<1>4. Tidy(snaps, {}, {})
  BY <1>2, FS_EmptySet DEF Tidy, Real
<1>5. Named = {}
  BY <1>1, IdleIs, NothingNamed
<1> QED
  BY <1>1, <1>2, <1>3, <1>4, <1>5 DEF TidyInv

\* A call begins.
LEMMA BeginTidy ==
    ASSUME TidyInv, Open \/ compare
    PROVE  TidyInv'
<1>1. /\ ~gone /\ snaps' = snaps /\ disk' = disk /\ job = Idle
      /\ \E for, module : /\ job' = Making("create", for, module, <<>>)
                          /\ for # "new" => snaps # <<>>
  BY DEF Open, compare
<1>2. /\ job'.stage = "create" /\ "paths" \in DOMAIN job' /\ job'.paths = <<>>
      /\ job'.for # "new" => snaps # <<>>
  BY <1>1 DEF Making
<1>3. JobOK'
  <2>1. <<>> \in Seq({})
    OBVIOUS
  <2> QED
    BY <1>1, <1>2, <2>1 DEF JobOK
<1>4. Named = {} /\ Named' = {}
  <2>1. Named = {}
    BY <1>1, IdleIs, NothingNamed
  <2>2. Named' = ToSet(<<>>)
    BY <1>2 DEF Named
  <2> QED
    BY <2>1, <2>2 DEF ToSet
<1> QED
  BY <1>1, <1>3, <1>4, SameTidy

\* A path is named.
LEMMA CreateTidy ==
    ASSUME TidyInv, createUniqueFile
    PROVE  TidyInv'
<1> DEFINE k == Len(job.paths) + 1
           Goes(p) == job' = Making("register", job.for, job.module,
                                    Append(job.paths, p))
<1>1. /\ ~gone /\ gone' = gone /\ job.stage = "create" /\ snaps' = snaps
  BY DEF createUniqueFile, Running
<1>2. /\ \E S : job.paths \in Seq(S)
      /\ "paths" \in DOMAIN job /\ (job.for # "new" => snaps # <<>>)
      /\ Named = ToSet(job.paths)
      /\ Snapshots(snaps) /\ Tidy(snaps, Named, DOMAIN disk)
  BY <1>1, NothingNamed DEF TidyInv, JobOK
<1>3. PICK p : /\ Goes(p)
               /\ \/ /\ p = UniquePath(k)
                     /\ DOMAIN disk' = DOMAIN disk \cup {p}
                  \/ /\ p \in {NoPath, LostPath(k)}
                     /\ disk' = disk
  <2>1. \/ /\ Goes(UniquePath(k))
           /\ DOMAIN disk' = DOMAIN disk \cup {UniquePath(k)}
        \/ /\ Goes(NoPath) \/ Goes(LostPath(k))
           /\ disk' = disk
    BY DEF createUniqueFile
  <2> HIDE DEF k, Goes
  <2> QED
    BY <2>1
<1> HIDE DEF k
<1>4. /\ job'.stage = "register" /\ "paths" \in DOMAIN job'
      /\ job'.for = job.for /\ job'.paths = Append(job.paths, p)
  BY <1>3 DEF Making
<1>5. Named' = Named \cup {p}
  <2>1. Named' = ToSet(Append(job.paths, p))
    BY <1>4 DEF Named
  <2> QED
    BY <1>2, <2>1, SetAppended
<1>6. JobOK'
  <2>1. \E S : Append(job.paths, p) \in Seq(S)
    BY <1>2, PathsGrow
  <2> QED
    BY <1>1, <1>2, <1>4, <2>1 DEF JobOK
<1>7. \/ Real({p}) = {} /\ DOMAIN disk' = DOMAIN disk
      \/ Real({p}) = {p} /\ p \notin DOMAIN disk /\ DOMAIN disk' = DOMAIN disk \cup {p}
  <2>1. CASE p = UniquePath(k) /\ DOMAIN disk' = DOMAIN disk \cup {p}
    <3>1. PICK n \in Nat : /\ n # 0 /\ p = <<k, n>> /\ <<k, n>> \notin DOMAIN disk
      BY <1>2, <2>1, UniquePathIsFree DEF Tidy
    <3>2. Real({<<k, n>>}) = {<<k, n>>}
      BY <3>1, RealIs
    <3> QED
      BY <2>1, <3>1, <3>2
  <2>2. CASE p \in {NoPath, LostPath(k)} /\ disk' = disk
    BY <2>2, RealIs
  <2> QED
    BY <1>3, <2>1, <2>2
<1>8. Tidy(snaps, Named \cup {p}, DOMAIN disk')
  BY <1>2, <1>7, NamePath
<1> QED
  BY <1>1, <1>2, <1>5, <1>6, <1>8 DEF TidyInv

\* It is registered.
LEMMA RegisterTidy ==
    ASSUME TidyInv, RemoveFileOnSignal
    PROVE  TidyInv'
<1>1. /\ ~gone /\ job.stage = "register" /\ snaps' = snaps /\ disk' = disk
      /\ \E stage \in {"print", "create"} :
           job' = Making(stage, job.for, job.module, job.paths)
  BY DEF RemoveFileOnSignal, Running
<1>2. /\ job'.stage \in {"print", "create"} /\ "paths" \in DOMAIN job'
      /\ job'.for = job.for /\ job'.paths = job.paths
  BY <1>1 DEF Making
<1>3. "paths" \in DOMAIN job /\ JobOK'
  BY <1>1, <1>2 DEF TidyInv, JobOK
<1>4. Named' = Named
  BY <1>2, <1>3 DEF Named
<1> QED
  BY <1>1, <1>3, <1>4, SameTidy

\* The snapshot is the innermost one or its pair.
LEMMA StoreTidy ==
    ASSUME TidyInv, store
    PROVE  TidyInv'
<1> DEFINE new == [paths |-> job.paths, module |-> job.module,
                   seen |-> compiler, pair |-> <<>>]
           printed == [p \in DOMAIN disk |->
                         IF \E k \in Written : job.paths[k] = p
                         THEN TextOf(Kinds[p[1]], compiler) ELSE disk[p]]
<1>1. ~gone /\ gone' = gone /\ job.stage = "print"
  BY DEF store, Running
<1>2. /\ (job.for # "new" => snaps # <<>>) /\ Named = ToSet(job.paths)
      /\ Snapshots(snaps) /\ Tidy(snaps, Named, DOMAIN disk)
  BY <1>1, NothingNamed DEF TidyInv, JobOK
<1>3. DOMAIN printed = DOMAIN disk
  OBVIOUS
<1>4. \/ /\ job' = Idle /\ snaps' = Append(snaps, new) /\ disk' = printed
      \/ /\ job.for # "new"
         /\ job' = [stage |-> "diff", at |-> 1, report |-> <<>>]
         /\ snaps' = Append(Front(snaps), [Innermost EXCEPT !.pair = <<new>>])
         /\ disk' = WithoutFiles(printed, Pair(Innermost))
  BY DEF store
<1>5. /\ Snapshot(new) /\ FilesOf(new) = Named /\ Pair(new) = {}
  <2>1. new.pair = <<>> /\ new.paths = job.paths
    OBVIOUS
  <2>2. Pair(new) = {}
    BY <2>1, PairIs
  <2>3. Snapshot(new)
    BY DEF Snapshot
  <2> QED
    BY <1>2, <2>1, <2>2, <2>3 DEF FilesOf
<1> HIDE DEF new, printed
<1>6. CASE job' = Idle /\ snaps' = Append(snaps, new) /\ disk' = printed
  <2>1. PICK S : snaps \in Seq(S)
    BY <1>2 DEF Snapshots
  <2>2. PICK n : n = Len(snaps)
    OBVIOUS
  <2>3. snaps \in Seq(S \cup {new}) /\ new \in S \cup {new}
    BY <2>1
  <2>4. /\ n \in Nat /\ DOMAIN snaps = 1 .. n
        /\ Append(snaps, new) \in Seq(S \cup {new})
        /\ DOMAIN Append(snaps, new) = 1 .. n + 1
        /\ \A i \in 1 .. n : Append(snaps, new)[i] = snaps[i]
        /\ Append(snaps, new)[n + 1] = new
    BY <2>2, <2>3, AppendProperties
  <2>5. Tidy(Append(snaps, new), {}, DOMAIN disk)
    BY <1>2, <1>5, <2>4, KeepNew
  <2>6. Snapshots(Append(snaps, new))
    <3>1. \A i \in 1 .. n + 1 : i \in 1 .. n \/ i = n + 1
      BY <2>4
    <3> QED
      BY <1>2, <1>5, <2>4, <3>1 DEF Snapshots
  <2>7. JobOK' /\ Named' = {}
    <3>1. job'.stage = "idle" /\ "paths" \notin DOMAIN job'
      BY <1>6 DEF Idle
    <3> QED
      BY <3>1 DEF JobOK, Named
  <2> QED
    BY <1>3, <1>6, <2>5, <2>6, <2>7 DEF TidyInv
<1>7. CASE /\ job.for # "new"
           /\ job' = [stage |-> "diff", at |-> 1, report |-> <<>>]
           /\ snaps' = Append(Front(snaps), [Innermost EXCEPT !.pair = <<new>>])
           /\ disk' = WithoutFiles(printed, Pair(Innermost))
  <2>1. PICK n \in Nat : /\ DOMAIN snaps = 1 .. n + 1 /\ Innermost = snaps[n + 1]
                         /\ DOMAIN Front(snaps) = 1 .. n
                         /\ \A i \in 1 .. n : Front(snaps)[i] = snaps[i]
                         /\ \E S : Front(snaps) \in Seq(S)
    BY <1>2, <1>7, InnermostIs
  <2>2. PICK s : s = [Innermost EXCEPT !.pair = <<new>>]
    OBVIOUS
  <2>3. /\ Snapshot(s) /\ FilesOf(s) = FilesOf(Innermost) /\ Pair(s) = Named
    <3>1. PICK i : i = Innermost
      OBVIOUS
    <3>2. i = [paths |-> i.paths, module |-> i.module, seen |-> i.seen, pair |-> i.pair]
      BY <1>2, <2>1, <3>1 DEF Snapshots, Snapshot
    <3>3. s = [paths |-> i.paths, module |-> i.module, seen |-> i.seen, pair |-> <<new>>]
      BY <2>2, <3>1, <3>2
    <3>4. /\ s.paths = i.paths /\ s.module = i.module /\ s.seen = i.seen
          /\ s.pair = <<new>>
      BY <3>3
    <3>5. Snapshot(s)
      BY <3>3, <3>4 DEF Snapshot
    <3>6. Pair(s) = FilesOf(new)
      BY <3>4, PairIs
    <3> QED
      BY <1>5, <3>1, <3>4, <3>5, <3>6 DEF FilesOf
  <2>4. PICK S : Front(snaps) \in Seq(S)
    BY <2>1
  <2>5. PICK f : f = Front(snaps)
    OBVIOUS
  <2>6. f \in Seq(S \cup {s}) /\ s \in S \cup {s} /\ Len(f) = n
    <3>1. f \in Seq(S) /\ Len(f) \in Nat /\ DOMAIN f = 1 .. n
      BY <2>1, <2>4, <2>5
    <3> QED
      BY <3>1
  <2>7. PICK t : t = Append(f, s)
    OBVIOUS
  <2>8. /\ t \in Seq(S \cup {s}) /\ DOMAIN t = 1 .. n + 1
        /\ \A i \in 1 .. n : t[i] = f[i]
        /\ t[n + 1] = s
    BY <2>6, <2>7, AppendProperties
  <2>9. DOMAIN disk' = DOMAIN disk \ Pair(snaps[n + 1])
    BY <1>3, <1>7, <2>1 DEF WithoutFiles
  <2>10. Tidy(t, {}, DOMAIN disk')
    <3>1. \A i \in 1 .. n : t[i] = snaps[i]
      BY <2>1, <2>5, <2>8
    <3>2. FilesOf(t[n + 1]) = FilesOf(snaps[n + 1]) /\ Pair(t[n + 1]) = Named
      BY <2>1, <2>3, <2>8
    <3> QED
      BY <1>2, <2>1, <2>8, <2>9, <3>1, <3>2, KeepPair
  <2>11. Snapshots(t)
    <3>1. \A i \in 1 .. n + 1 : i \in 1 .. n \/ i = n + 1
      OBVIOUS
    <3> QED
      BY <1>2, <2>1, <2>3, <2>5, <2>8, <3>1 DEF Snapshots
  <2>12. JobOK' /\ Named' = {}
    <3>1. job'.stage = "diff" /\ "paths" \notin DOMAIN job'
      BY <1>7
    <3> QED
      BY <3>1 DEF JobOK, Named
  <2>13. snaps' = t
    BY <1>7, <2>2, <2>5, <2>7
  <2> QED
    BY <2>10, <2>11, <2>12, <2>13 DEF TidyInv
<1> QED
  BY <1>4, <1>6, <1>7

\* diff is run and its output read.
LEMMA DiffTidy ==
    ASSUME TidyInv, Popen \/ ReadChunk \/ Compared
    PROVE  TidyInv'
<1>1. /\ ~gone /\ snaps' = snaps /\ disk' = disk /\ job.stage \in {"diff", "read"}
  BY DEF Popen, ReadChunk, Compared, Running
<1>2. job'.stage \in {"diff", "read", "idle"} /\ "paths" \notin DOMAIN job'
  BY DEF Popen, ReadChunk, Compared, Reported, Reading, Idle
<1>3. JobOK' /\ Named' = {}
  BY <1>2 DEF JobOK, Named
<1>4. Named = {}
  BY <1>1, NothingNamed DEF TidyInv, JobOK
<1> QED
  BY <1>1, <1>3, <1>4, SameTidy

\* A snapshot goes with its files, or the compiler goes on.
LEMMA BetweenTidy ==
    ASSUME TidyInv, Destroy \/ Change
    PROVE  TidyInv'
<1>1. ~gone /\ gone' = gone /\ job' = job /\ job = Idle /\ snaps # <<>>
  BY DEF Destroy, Change
<1>2. JobOK' /\ Named = {} /\ Named' = {}
  BY <1>1, IdleIs DEF JobOK, Named
<1>3. CASE Change
  <2>1. disk' = disk /\ snaps' = snaps
    BY <1>3 DEF Change
  <2> QED
    BY <1>1, <1>2, <2>1, SameTidy
<1>4. CASE Destroy
  <2>1. PICK n \in Nat : /\ DOMAIN snaps = 1 .. n + 1 /\ Innermost = snaps[n + 1]
                         /\ DOMAIN Front(snaps) = 1 .. n
                         /\ \A i \in 1 .. n : Front(snaps)[i] = snaps[i]
                         /\ \E S : Front(snaps) \in Seq(S)
    BY <1>1, InnermostIs DEF TidyInv
  <2>2. snaps' = Front(snaps) /\ disk' = WithoutFiles(disk, All(snaps[n + 1]))
    BY <1>4, <2>1 DEF Destroy, All
  <2>3. DOMAIN disk' = DOMAIN disk \ All(snaps[n + 1])
    BY <2>2 DEF WithoutFiles
  <2>4. PICK f : f = Front(snaps)
    OBVIOUS
  <2>5. Tidy(f, {}, DOMAIN disk')
    BY <1>1, <1>2, <2>1, <2>3, <2>4, DropLast DEF TidyInv
  <2>6. Snapshots(f)
    <3>1. \A i \in 1 .. n : i \in DOMAIN snaps
      BY <2>1
    <3> QED
      BY <2>1, <2>4, <3>1 DEF TidyInv, Snapshots
  <2> QED
    BY <1>2, <2>2, <2>4, <2>5, <2>6 DEF TidyInv
<1> QED
  BY <1>3, <1>4

\* Every step of a call, of the compiler and of the environment.
LEMMA TidyNext == TidyInv /\ [Next]_vars => TidyInv'
<1> SUFFICES ASSUME TidyInv, [Next]_vars PROVE TidyInv'
  OBVIOUS
<1>1. CASE Open \/ compare
  BY <1>1, BeginTidy
<1>2. CASE Destroy \/ Change
  BY <1>2, BetweenTidy
<1>3. CASE Signal \/ storeFails
  <2>1. Die
    BY <1>3 DEF Signal, storeFails
  <2>2. gone' = TRUE /\ job' = job /\ snaps' = <<>>
    BY <2>1 DEF Die
  <2>3. Snapshots(<<>>)
    <3>1. <<>> \in Seq({}) /\ DOMAIN <<>> = {}
      OBVIOUS
    <3> QED
      BY <3>1 DEF Snapshots
  <2>4. JobOK'
    BY <2>2 DEF TidyInv, JobOK
  <2> QED
    BY <2>2, <2>3, <2>4 DEF TidyInv
<1>4. CASE createUniqueFile
  BY <1>4, CreateTidy
<1>5. CASE RemoveFileOnSignal
  BY <1>5, RegisterTidy
<1>6. CASE store
  BY <1>6, StoreTidy
<1>7. CASE Popen \/ ReadChunk \/ Compared
  BY <1>7, DiffTidy
<1>8. CASE UNCHANGED vars
  BY <1>8 DEF vars, TidyInv, JobOK, Named
<1> QED
  BY <1>1, <1>2, <1>3, <1>4, <1>5, <1>6, <1>7, <1>8 DEF Next, Step

\* The files of the snapshots and of the one in the making, and no others.
LEMMA TidyIsNoLitter == TidyInv => NoLitter
<1> SUFFICES ASSUME TidyInv, ~gone
             PROVE  /\ DOMAIN disk \subseteq Owned \cup Named
                    /\ \A p \in Owned : p = NoPath \/ p[2] = 0 \/ p \in DOMAIN disk
  BY DEF NoLitter, Named
<1>1. Owned = UNION {All(snaps[i]) : i \in DOMAIN snaps}
  BY OwnedIs DEF TidyInv
<1>2. Tidy(snaps, Named, DOMAIN disk)
  BY DEF TidyInv
<1>3. \A p \in Owned : p \in Real(Owned) => p \in DOMAIN disk
  BY <1>1, <1>2 DEF Tidy, Real
<1> QED
  BY <1>1, <1>2, <1>3 DEF Tidy, Real

-----------------------------------------------------------------------------
(* The theorems about the files.                                           *)

\* Each file on the disk has one owner: a snapshot, its pair, or the call that
\* makes one (createOutputFile, store, compare, ~ClangInternalState).
THEOREM TidyInductive == Spec => []TidyInv
<1> QED
  BY TidyInit, TidyNext, PTL DEF Spec

\* However many snapshots are taken, compared and destroyed, and whichever files
\* could not be made, no temporary file is left behind and none is removed under
\* a snapshot that still needs it.
THEOREM NothingLittered == Spec => []NoLitter
<1> QED
  BY TidyIsNoLitter, TidyInductive, PTL
-----------------------------------------------------------------------------
(* What a comparison reports.                                              *)

\* The states of the compiler: those it is given, and these with tables built.
Known(c) == \E d \in Compilers : c \in {d, buildLookup(d)}

\* What may stand for the k-th file: no path, the one of a file that could not
\* be made, or that of a file.
PathAt(k, p) == p = NoPath \/ \E n \in Nat : p = <<k, n>>

\* The module has a file only if there is one.
Prints(k, module) == Kinds[k] = "module" => module

\* The files of a snapshot that are on the disk d hold what the compiler was
\* like when it was taken; those that are not could not be made.
Shot(s, d) ==
    /\ DOMAIN s.paths = Kind /\ s.module \in BOOLEAN /\ Known(s.seen)
    /\ \A k \in Kind :
         /\ PathAt(k, s.paths[k])
         /\ Prints(k, s.module) =>
              /\ s.paths[k] # NoPath
              /\ s.paths[k] \in DOMAIN d => d[s.paths[k]] = TextOf(Kinds[k], s.seen)

Shots(ss, d) ==
    \A i \in DOMAIN ss :
      /\ Shot(ss[i], d)
      /\ \A q : ss[i].pair = <<q>> => Shot(q, d) /\ q.module = ss[i].module

\* The paths of the snapshot in the making.
MakingOK ==
    job.stage \in {"create", "register", "print"} =>
      /\ job.module \in BOOLEAN /\ (job.for # "new" => job.module = Innermost.module)
      /\ \A k \in DOMAIN job.paths : PathAt(k, job.paths[k])
      /\ Len(job.paths) <= Len(Kinds)
      /\ job.stage = "create" => Len(job.paths) # Len(Kinds)
      /\ job.stage = "print" => Len(job.paths) = Len(Kinds)

\* What is reported of the k-th files: that diff was not run, or all it wrote,
\* which is something if they differ.
Tells(k, r) ==
    \/ r.logged = 0 /\ r.wrote = -1
    \/ /\ Prints(k, Innermost.module)
       /\ r.wrote \in Nat /\ r.logged = r.wrote /\ (r.wrote # 0 <=> Differ(k))

Report == [logged : Int, wrote : Int]

\* The pair was taken of the compiler as it is; what has been reported so far
\* is right, and so is what is being read.
ComparingOK ==
    job.stage \in {"diff", "read"} =>
      /\ snaps # <<>> /\ \E q : Innermost.pair = <<q>> /\ buildLookup(q.seen) = compiler
      /\ job.report \in Seq(Report) /\ job.at = Len(job.report) + 1
      /\ \A k \in DOMAIN job.report : k \in Kind /\ Tells(k, job.report[k])
      /\ job.stage = "read" =>
           /\ job.at \in Kind /\ Prints(job.at, Innermost.module)
           /\ job.wrote \in Nat /\ job.size \in 0 .. job.wrote
           /\ job.wrote # 0 <=> Differ(job.at)

ReportInv ==
    /\ TidyInv
    /\ ~gone => Known(compiler) /\ Shots(snaps, disk) /\ MakingOK /\ ComparingOK

-----------------------------------------------------------------------------
(* Helpers.                                                                *)

LEMMA KindIs == Kind = 1 .. 5 /\ Len(Kinds) = 5
BY DEF Kind, Kinds

\* Building the tables changes neither what is printed nor what it means.
LEMMA BuiltTells ==
    ASSUME NEW c, c \in Compilers \/ \E d \in Compilers : c = buildLookup(d), NEW kind
    PROVE  /\ buildLookup(buildLookup(c)) = buildLookup(c)
           /\ TextOf(kind, buildLookup(c)) = TextOf(kind, c)
           /\ Meaning(kind, buildLookup(c)) = Meaning(kind, c)
           /\ buildLookup(c).module = c.module
<1> DEFINE Fields == {"tables", "pending", "infos", "ast", "module", "macros"}
<1>1. \A d \in Compilers : DOMAIN d = Fields /\ d = [f \in DOMAIN d |-> d[f]]
  BY StateAssumption DEF Compiler
<1>2. DOMAIN c = Fields /\ c = [f \in DOMAIN c |-> c[f]]
  BY <1>1 DEF buildLookup
<1>3. PICK b : b = buildLookup(c)
  OBVIOUS
<1>4. /\ b.tables = c.tables /\ b.infos = c.infos /\ b.ast = c.ast
      /\ b.module = c.module /\ b.macros = c.macros
      /\ b.pending = FALSE /\ DOMAIN b = Fields /\ b = [f \in DOMAIN b |-> b[f]]
  BY <1>2, <1>3 DEF buildLookup
<1>5. buildLookup(b) = b
  BY <1>4 DEF buildLookup
<1>6. TextOf(kind, b) = TextOf(kind, c)
  BY <1>3, <1>4, <1>5 DEF TextOf, Tables, Dumped, printIncludedFiles, printMacroDefinitions
<1>7. Meaning(kind, b) = Meaning(kind, c)
  BY <1>4 DEF Meaning
<1> QED
  BY <1>3, <1>4, <1>5, <1>6, <1>7

\* A disk on which the files of a snapshot that are there are as they were.
LEMMA ShotKept ==
    ASSUME NEW s, NEW d, NEW d2, Shot(s, d),
           \A p \in FilesOf(s) : p \in DOMAIN d2 => p \in DOMAIN d /\ d2[p] = d[p]
    PROVE  Shot(s, d2)
<1>1. \A k \in Kind : s.paths[k] \in FilesOf(s)
  BY DEF Shot, FilesOf, ToSet
<1> QED
  BY <1>1 DEF Shot

LEMMA ShotsKept ==
    ASSUME NEW ss, NEW d, NEW d2, Shots(ss, d),
           \A i \in DOMAIN ss : \A p \in All(ss[i]) :
             p \in DOMAIN d2 => p \in DOMAIN d /\ d2[p] = d[p]
    PROVE  Shots(ss, d2)
<1> SUFFICES ASSUME NEW i \in DOMAIN ss
             PROVE  /\ Shot(ss[i], d2)
                    /\ \A q : ss[i].pair = <<q>> => Shot(q, d2) /\ q.module = ss[i].module
  BY DEF Shots
<1>1. Shot(ss[i], d2)
  BY ShotKept DEF Shots, All
<1>2. ASSUME NEW q, ss[i].pair = <<q>> PROVE Shot(q, d2) /\ q.module = ss[i].module
  <2>1. Shot(q, d) /\ q.module = ss[i].module
    BY <1>2 DEF Shots
  <2>2. FilesOf(q) \subseteq All(ss[i])
    BY <1>2, PairIs DEF All
  <2> QED
    BY <2>1, <2>2, ShotKept
<1> QED
  BY <1>1, <1>2

\* A path that stands for a file and is on no disk stands for one that could
\* not be made.
LEMMA Missing ==
    ASSUME NEW k, NEW p, PathAt(k, p), p # NoPath, NEW D, Real({p}) \subseteq D, p \notin D
    PROVE  p = LostPath(k)
<1>1. PICK n \in Nat : p = <<k, n>>
  BY DEF PathAt
<1>2. n = 0
  <2> SUFFICES ASSUME n # 0 PROVE FALSE
    OBVIOUS
  <2>1. n \in Nat \ {0}
    OBVIOUS
  <2>2. Real({<<k, n>>}) = {<<k, n>>}
    BY <2>1, RealIs
  <2> QED
    BY <1>1, <2>2
<1> QED
  BY <1>1, <1>2 DEF LostPath

\* The innermost snapshot is one of those that are right.
LEMMA InnermostShot ==
    ASSUME ReportInv, ~gone, snaps # <<>>
    PROVE  /\ Shot(Innermost, disk)
           /\ \A q : Innermost.pair = <<q>> => Shot(q, disk) /\ q.module = Innermost.module
           /\ Real(All(Innermost)) \subseteq DOMAIN disk
<1>1. PICK n \in Nat : DOMAIN snaps = 1 .. n + 1 /\ Innermost = snaps[n + 1]
  BY InnermostIs DEF ReportInv, TidyInv
<1>2. n + 1 \in DOMAIN snaps
  BY <1>1
<1> QED
  BY <1>1, <1>2 DEF ReportInv, Shots, TidyInv, Tidy

-----------------------------------------------------------------------------
(* The steps, and what is reported.                                        *)

\* Before the first snapshot there is nothing to report.
LEMMA ReportInit == Init => ReportInv
<1> SUFFICES ASSUME Init PROVE ReportInv
  OBVIOUS
<1>1. job.stage = "idle" /\ DOMAIN snaps = {} /\ compiler \in Compilers
  BY StateAssumption DEF Init, Idle
<1>2. Known(compiler)
  BY <1>1 DEF Known
<1> QED
  BY <1>1, <1>2, TidyInit DEF ReportInv, Shots, MakingOK, ComparingOK

\* A call begins: no path is named yet.
LEMMA BeginReport ==
    ASSUME ReportInv, Open \/ compare
    PROVE  ReportInv'
<1>1. /\ ~gone /\ snaps' = snaps /\ disk' = disk /\ compiler' = compiler
      /\ \E for, module : /\ job' = Making("create", for, module, <<>>)
                          /\ \/ for = "new" /\ module \in BOOLEAN
                             \/ module = Innermost.module /\ snaps # <<>>
  BY DEF Open, compare
<1>2. /\ job'.stage = "create" /\ job'.paths = <<>>
      /\ \/ job'.for = "new" /\ job'.module \in BOOLEAN
         \/ job'.module = Innermost.module /\ snaps # <<>>
  BY <1>1 DEF Making
<1>3. TidyInv'
  BY BeginTidy DEF ReportInv
<1>4. snaps # <<>> => Innermost.module \in BOOLEAN
  BY <1>1, InnermostShot DEF Shot
<1>5. Innermost' = Innermost
  BY <1>1 DEF Innermost
<1>6. MakingOK'
  <2>1. DOMAIN <<>> = {} /\ Len(<<>>) = 0
    OBVIOUS
  <2> QED
    BY <1>2, <1>4, <1>5, <2>1, KindIs DEF MakingOK
<1>7. Known(compiler)' /\ Shots(snaps, disk)'
  BY <1>1 DEF ReportInv, Known
<1> QED
  BY <1>2, <1>3, <1>6, <1>7 DEF ReportInv, ComparingOK

\* A path is named; a fresh one is in no snapshot.
LEMMA CreateReport ==
    ASSUME ReportInv, createUniqueFile
    PROVE  ReportInv'
<1> DEFINE k == Len(job.paths) + 1
           Goes(p) == job' = Making("register", job.for, job.module,
                                    Append(job.paths, p))
<1>1. /\ ~gone /\ gone' = gone /\ job.stage = "create" /\ snaps' = snaps
      /\ compiler' = compiler
  BY DEF createUniqueFile, Running
<1>2. /\ \E S : job.paths \in Seq(S)
      /\ Tidy(snaps, Named, DOMAIN disk)
  BY <1>1 DEF ReportInv, TidyInv, JobOK
<1>3. PICK p : /\ Goes(p)
               /\ \/ /\ p = UniquePath(k)
                     /\ disk' = [x \in DOMAIN disk \cup {p} |->
                                   IF x = p THEN <<>> ELSE disk[x]]
                  \/ /\ p \in {NoPath, LostPath(k)}
                     /\ disk' = disk
  <2>1. \/ /\ Goes(UniquePath(k))
           /\ disk' = [x \in DOMAIN disk \cup {UniquePath(k)} |->
                         IF x = UniquePath(k) THEN <<>> ELSE disk[x]]
        \/ /\ Goes(NoPath) \/ Goes(LostPath(k))
           /\ disk' = disk
    BY DEF createUniqueFile
  <2> HIDE DEF k, Goes
  <2> QED
    BY <2>1
<1>4. k = Len(job.paths) + 1
  OBVIOUS
<1> HIDE DEF k
<1>5. /\ job'.stage = "register" /\ job'.module = job.module
      /\ job'.for = job.for /\ job'.paths = Append(job.paths, p)
  BY <1>3 DEF Making
<1>6. /\ PathAt(k, p)
      /\ \A x \in DOMAIN disk' : \/ x \in DOMAIN disk /\ disk'[x] = disk[x]
                                 \/ x \notin DOMAIN disk /\ Real({x}) = {x}
  <2>1. CASE /\ p = UniquePath(k)
             /\ disk' = [x \in DOMAIN disk \cup {p} |->
                           IF x = p THEN <<>> ELSE disk[x]]
    <3>1. PICK n \in Nat : /\ n # 0 /\ p = <<k, n>> /\ p \notin DOMAIN disk
      BY <1>2, <2>1, UniquePathIsFree DEF Tidy
    <3>2. Real({p}) = {p}
      BY <3>1, RealIs
    <3> QED
      BY <2>1, <3>1, <3>2 DEF PathAt
  <2>2. CASE p \in {NoPath, LostPath(k)} /\ disk' = disk
    BY <2>2 DEF PathAt, LostPath
  <2> QED
    BY <1>3, <2>1, <2>2
<1>7. Shots(snaps, disk')
  <2>1. \A i \in DOMAIN snaps : \A x \in All(snaps[i]) :
          x \in DOMAIN disk' => x \in DOMAIN disk /\ disk'[x] = disk[x]
    <3> SUFFICES ASSUME NEW i \in DOMAIN snaps, NEW x \in All(snaps[i]),
                        x \in DOMAIN disk', x \notin DOMAIN disk
                 PROVE  FALSE
      BY <1>6
    <3>1. x \in Real(All(snaps[i]))
      BY <1>6 DEF Real
    <3> QED
      BY <1>2, <3>1 DEF Tidy
  <2> QED
    BY <1>1, <2>1, ShotsKept DEF ReportInv
<1>8. MakingOK'
  <2>1. /\ job.module \in BOOLEAN /\ (job.for # "new" => job.module = Innermost.module)
        /\ \A j \in DOMAIN job.paths : PathAt(j, job.paths[j])
        /\ Len(job.paths) <= Len(Kinds) /\ Len(job.paths) # Len(Kinds)
    BY <1>1 DEF ReportInv, MakingOK
  <2>2. PICK S : job.paths \in Seq(S)
    BY <1>2
  <2>3. PICK t : t = Append(job.paths, p)
    OBVIOUS
  <2>4. job.paths \in Seq(S \cup {p}) /\ p \in S \cup {p}
    BY <2>2
  <2>5. /\ Len(job.paths) \in Nat /\ Len(t) = k /\ DOMAIN t = 1 .. k
        /\ DOMAIN job.paths = 1 .. Len(job.paths)
        /\ t[k] = p /\ \A j \in DOMAIN job.paths : t[j] = job.paths[j]
    BY <1>4, <2>3, <2>4, AppendProperties
  <2>6. \A j \in DOMAIN t : PathAt(j, t[j])
    BY <1>4, <1>6, <2>1, <2>5
  <2>7. Len(t) <= Len(Kinds)
    <3>1. PICK m : m = Len(job.paths)
      OBVIOUS
    <3>2. m \in Nat /\ m <= 5 /\ m # 5
      BY <2>1, <2>5, <3>1, KindIs
    <3>3. Len(t) = m + 1
      BY <1>4, <2>5, <3>1
    <3> QED
      BY <3>2, <3>3, KindIs
  <2>8. Innermost' = Innermost
    BY <1>1 DEF Innermost
  <2> QED
    BY <1>5, <2>1, <2>3, <2>6, <2>7, <2>8 DEF MakingOK
<1>9. TidyInv' /\ Known(compiler)'
  BY <1>1, CreateTidy DEF ReportInv, Known
<1> QED
  BY <1>1, <1>5, <1>7, <1>8, <1>9 DEF ReportInv, ComparingOK

\* It is registered.
LEMMA RegisterReport ==
    ASSUME ReportInv, RemoveFileOnSignal
    PROVE  ReportInv'
<1>1. /\ ~gone /\ gone' = gone /\ job.stage = "register"
      /\ snaps' = snaps /\ disk' = disk /\ compiler' = compiler
      /\ job' = Making(IF Len(job.paths) = Len(Kinds) THEN "print" ELSE "create",
                       job.for, job.module, job.paths)
  BY DEF RemoveFileOnSignal, Running
<1>2. /\ job'.stage = (IF Len(job.paths) = Len(Kinds) THEN "print" ELSE "create")
      /\ job'.for = job.for /\ job'.module = job.module /\ job'.paths = job.paths
  BY <1>1 DEF Making
<1>3. Innermost' = Innermost
  BY <1>1 DEF Innermost
<1>4. MakingOK'
  BY <1>1, <1>2, <1>3 DEF ReportInv, MakingOK
<1>5. TidyInv' /\ Known(compiler)' /\ Shots(snaps, disk)'
  BY <1>1, RegisterTidy DEF ReportInv, Known
<1> QED
  BY <1>2, <1>4, <1>5 DEF ReportInv, ComparingOK

\* The snapshot holds what the compiler is like; the files of the others are not
\* written to.
LEMMA StoreReport ==
    ASSUME ReportInv, store
    PROVE  ReportInv'
<1> DEFINE new == [paths |-> job.paths, module |-> job.module,
                   seen |-> compiler, pair |-> <<>>]
           printed == [p \in DOMAIN disk |->
                         IF \E k \in Written : job.paths[k] = p
                         THEN TextOf(Kinds[p[1]], compiler) ELSE disk[p]]
<1>1. /\ ~gone /\ job.stage = "print" /\ compiler' = buildLookup(compiler)
      /\ \A k \in Written : job.paths[k] # NoPath
  BY DEF store, Running
<1>2. \/ /\ job' = Idle /\ snaps' = Append(snaps, new) /\ disk' = printed
      \/ /\ job.for # "new"
         /\ job' = [stage |-> "diff", at |-> 1, report |-> <<>>]
         /\ snaps' = Append(Front(snaps), [Innermost EXCEPT !.pair = <<new>>])
         /\ disk' = WithoutFiles(printed, Pair(Innermost))
  BY DEF store
<1>3. /\ (job.for # "new" => snaps # <<>>) /\ Named = ToSet(job.paths)
      /\ \E S : job.paths \in Seq(S)
      /\ Snapshots(snaps) /\ Tidy(snaps, Named, DOMAIN disk)
  BY <1>1, NothingNamed DEF ReportInv, TidyInv, JobOK
<1>4. /\ job.module \in BOOLEAN /\ (job.for # "new" => job.module = Innermost.module)
      /\ \A k \in DOMAIN job.paths : PathAt(k, job.paths[k])
      /\ Len(job.paths) = Len(Kinds)
  BY <1>1 DEF ReportInv, MakingOK
<1>5. DOMAIN job.paths = Kind
  BY <1>3, <1>4, KindIs
<1>6. Known(compiler) /\ Known(compiler')
  <2>1. PICK d \in Compilers : compiler \in {d, buildLookup(d)}
    BY <1>1 DEF ReportInv, Known
  <2>2. compiler' = buildLookup(d)
    BY <1>1, <2>1, BuiltTells
  <2> QED
    BY <2>1, <2>2 DEF Known
<1>7. /\ DOMAIN printed = DOMAIN disk
      /\ \A p \in DOMAIN disk :
           /\ (\E k \in Written : job.paths[k] = p) =>
                printed[p] = TextOf(Kinds[p[1]], compiler)
           /\ p \notin Named => printed[p] = disk[p]
  <2>1. \A k \in Written : job.paths[k] \in Named
    BY <1>3, <1>5 DEF Written, ToSet
  <2> QED
    BY <2>1
<1>8. /\ new.paths = job.paths /\ new.module = job.module /\ new.seen = compiler
      /\ new.pair = <<>>
  OBVIOUS
<1> HIDE DEF new, printed
<1>9. Shot(new, printed)
  <2>1. ASSUME NEW k \in Kind, Prints(k, job.module), job.paths[k] \in DOMAIN disk
        PROVE  printed[job.paths[k]] = TextOf(Kinds[k], compiler)
    <3>1. k \in Written
      BY <2>1 DEF Written, Prints
    <3>2. PathAt(k, job.paths[k]) /\ job.paths[k] # NoPath
      BY <1>1, <1>4, <1>5, <3>1
    <3>3. job.paths[k][1] = k
      BY <3>2 DEF PathAt
    <3> QED
      BY <1>7, <2>1, <3>1, <3>3
  <2>2. \A k \in Kind : Prints(k, job.module) => job.paths[k] # NoPath
    BY <1>1 DEF Written, Prints
  <2> QED
    BY <1>4, <1>5, <1>6, <1>7, <1>8, <2>1, <2>2 DEF Shot
<1>10. Shots(snaps, printed)
  <2>1. \A i \in DOMAIN snaps : \A p \in All(snaps[i]) :
          p \in DOMAIN printed => p \in DOMAIN disk /\ printed[p] = disk[p]
    <3> SUFFICES ASSUME NEW i \in DOMAIN snaps, NEW p \in All(snaps[i]), p \in DOMAIN disk
                 PROVE  p \notin Named
      BY <1>7
    <3>1. p \in Real(All(snaps[i]))
      BY <1>3 DEF Tidy, Real
    <3> QED
      BY <1>3, <3>1 DEF Tidy
  <2> QED
    BY <1>1, <2>1, ShotsKept DEF ReportInv
<1>11. TidyInv'
  BY StoreTidy DEF ReportInv
<1>12. CASE job' = Idle /\ snaps' = Append(snaps, new) /\ disk' = printed
  <2>1. PICK S : snaps \in Seq(S)
    BY <1>3 DEF Snapshots
  <2>2. PICK n : n = Len(snaps)
    OBVIOUS
  <2>3. snaps \in Seq(S \cup {new}) /\ new \in S \cup {new}
    BY <2>1
  <2>4. PICK t : t = Append(snaps, new)
    OBVIOUS
  <2>5. /\ DOMAIN snaps = 1 .. n /\ DOMAIN t = 1 .. n + 1
        /\ \A i \in 1 .. n : t[i] = snaps[i]
        /\ t[n + 1] = new
        /\ \A i \in 1 .. n + 1 : i \in 1 .. n \/ i = n + 1
    BY <2>2, <2>3, <2>4, AppendProperties
  <2>6. \A q : new.pair # <<q>>
    <3>1. \A q : Len(<<q>>) = 1
      OBVIOUS
    <3>2. Len(<<>>) = 0
      OBVIOUS
    <3> QED
      BY <1>8, <3>1, <3>2
  <2>7. Shots(t, printed)
    BY <1>9, <1>10, <2>5, <2>6 DEF Shots
  <2>8. job'.stage = "idle"
    BY <1>12 DEF Idle
  <2> QED
    BY <1>6, <1>11, <1>12, <2>4, <2>7, <2>8 DEF ReportInv, MakingOK, ComparingOK, Known
<1>13. CASE /\ job.for # "new"
            /\ job' = [stage |-> "diff", at |-> 1, report |-> <<>>]
            /\ snaps' = Append(Front(snaps), [Innermost EXCEPT !.pair = <<new>>])
            /\ disk' = WithoutFiles(printed, Pair(Innermost))
  <2>1. PICK n \in Nat : /\ DOMAIN snaps = 1 .. n + 1 /\ Innermost = snaps[n + 1]
                         /\ DOMAIN Front(snaps) = 1 .. n
                         /\ \A i \in 1 .. n : Front(snaps)[i] = snaps[i]
                         /\ \E S : Front(snaps) \in Seq(S)
    BY <1>3, <1>13, InnermostIs
  <2>2. PICK s : s = [Innermost EXCEPT !.pair = <<new>>]
    OBVIOUS
  <2>3. /\ s.paths = Innermost.paths /\ s.module = Innermost.module
        /\ s.seen = Innermost.seen /\ s.pair = <<new>>
    <3>1. PICK i : i = Innermost
      OBVIOUS
    <3>2. n + 1 \in DOMAIN snaps
      BY <2>1
    <3>3. i = [paths |-> i.paths, module |-> i.module, seen |-> i.seen, pair |-> i.pair]
      BY <1>3, <2>1, <3>1, <3>2 DEF Snapshots, Snapshot
    <3>4. s = [paths |-> i.paths, module |-> i.module, seen |-> i.seen, pair |-> <<new>>]
      BY <2>2, <3>1, <3>3
    <3> QED
      BY <3>1, <3>4
  <2>4. PICK f : f = Front(snaps)
    OBVIOUS
  <2>5. PICK S : f \in Seq(S)
    BY <2>1, <2>4
  <2>6. f \in Seq(S \cup {s}) /\ s \in S \cup {s} /\ Len(f) = n
    <3>1. f \in Seq(S) /\ Len(f) \in Nat /\ DOMAIN f = 1 .. n
      BY <2>1, <2>4, <2>5
    <3> QED
      BY <3>1
  <2>7. PICK t : t = Append(f, s)
    OBVIOUS
  <2>8. /\ t \in Seq(S \cup {s}) /\ Len(t) = n + 1 /\ DOMAIN t = 1 .. n + 1
        /\ \A i \in 1 .. n : t[i] = f[i]
        /\ t[n + 1] = s
        /\ \A i \in 1 .. n + 1 : i \in 1 .. n \/ i = n + 1
    BY <2>6, <2>7, AppendProperties
  <2>9. snaps' = t /\ Last(t) = s
    BY <1>13, <2>2, <2>4, <2>7, <2>8 DEF Last
  <2>10. \A p \in DOMAIN disk' : p \in DOMAIN printed /\ disk'[p] = printed[p]
    BY <1>13 DEF WithoutFiles
  <2>11. Shot(new, disk')
    BY <1>9, <2>10, ShotKept
  <2>12. Shots(snaps, disk')
    BY <1>10, <2>10, ShotsKept
  <2>13. /\ Shot(s, disk')
         /\ \A q : s.pair = <<q>> => Shot(q, disk') /\ q.module = s.module
    <3>1. Shot(Innermost, disk')
      <4>1. n + 1 \in DOMAIN snaps
        BY <2>1
      <4> QED
        BY <2>1, <2>12, <4>1 DEF Shots
    <3>2. Shot(s, disk')
      BY <2>3, <3>1 DEF Shot
    <3>3. \A q : <<new>> = <<q>> => q = new
      OBVIOUS
    <3> QED
      BY <1>4, <1>8, <1>13, <2>3, <2>11, <3>2, <3>3
  <2>14. Shots(t, disk')
    BY <2>1, <2>4, <2>8, <2>12, <2>13 DEF Shots
  <2>15. ComparingOK'
    <3>1. /\ snaps' # <<>> /\ Innermost' = s
      <4>1. t # <<>>
        BY <2>8
      <4> QED
        BY <2>9, <4>1 DEF Innermost
    <3>2. /\ job'.stage = "diff" /\ job'.at = 1 /\ job'.report = <<>>
      BY <1>13
    <3>3. <<>> \in Seq(Report) /\ Len(<<>>) = 0 /\ DOMAIN <<>> = {}
      OBVIOUS
    <3>4. buildLookup(new.seen) = compiler'
      BY <1>1, <1>8
    <3>5. job'.report \in Seq(Report) /\ job'.at = Len(job'.report) + 1
      BY <3>2, <3>3
    <3>6. DOMAIN job'.report = {}
      BY <3>2, <3>3
    <3> QED
      BY <2>3, <3>1, <3>2, <3>4, <3>5, <3>6 DEF ComparingOK
  <2>16. job'.stage = "diff"
    BY <1>13
  <2>17. MakingOK'
    BY <2>16 DEF MakingOK
  <2> QED
    BY <1>6, <1>11, <2>9, <2>14, <2>15, <2>17 DEF ReportInv, Known
<1> QED
  BY <1>2, <1>12, <1>13

\* A step of a comparison sees the same files and the same compiler.
LEMMA SameComparison ==
    ASSUME ReportInv, ~gone, snaps' = snaps, disk' = disk, compiler' = compiler
    PROVE  /\ Innermost' = Innermost
           /\ Known(compiler)' /\ Shots(snaps, disk)'
           /\ \A k, r : Tells(k, r)' <=> Tells(k, r)
           /\ \A k : Differ(k)' <=> Differ(k)
<1>1. Innermost' = Innermost
  BY DEF Innermost
<1>2. Known(compiler)' /\ Shots(snaps, disk)'
  BY DEF ReportInv, Known
<1>3. \A k : Differ(k)' <=> Differ(k)
  BY <1>1 DEF Differ, LinesOf
<1>4. \A k, r : Tells(k, r)' <=> Tells(k, r)
  BY <1>1, <1>3 DEF Tells
<1> QED
  BY <1>1, <1>2, <1>3, <1>4

\* What is reported of the next files.
LEMMA ReportedOK ==
    ASSUME ReportInv, ~gone, job.stage \in {"diff", "read"}, job.at \in Kind,
           snaps' = snaps, disk' = disk, compiler' = compiler,
           NEW l \in Int, NEW w \in Int, Reported(l, w),
           Tells(job.at, [logged |-> l, wrote |-> w])
    PROVE  ComparingOK'
<1>1. /\ snaps # <<>> /\ \E q : Innermost.pair = <<q>> /\ buildLookup(q.seen) = compiler
      /\ job.report \in Seq(Report) /\ job.at = Len(job.report) + 1
      /\ \A k \in DOMAIN job.report : k \in Kind /\ Tells(k, job.report[k])
  BY DEF ReportInv, ComparingOK
<1>2. PICK e : e = [logged |-> l, wrote |-> w]
  OBVIOUS
<1>3. PICK t : t = Append(job.report, e)
  OBVIOUS
<1>4. job'.stage = "diff" /\ job'.at = job.at + 1 /\ job'.report = t
  BY <1>2, <1>3 DEF Reported
<1>5. e \in Report
  BY <1>2 DEF Report
<1>6. /\ t \in Seq(Report) /\ Len(t) = job.at /\ DOMAIN t = 1 .. job.at /\ t[job.at] = e
      /\ \A k \in 1 .. job.at :
           k # job.at => k \in DOMAIN job.report /\ t[k] = job.report[k]
  BY <1>1, <1>3, <1>5, AppendProperties
<1>7. \A k \in DOMAIN t : k \in Kind /\ Tells(k, t[k])
  BY <1>1, <1>2, <1>6
<1>8. \A k \in DOMAIN t : Tells(k, t[k])'
  BY <1>7, SameComparison
<1>9. Innermost' = Innermost
  BY SameComparison
<1>10. job'.at = Len(job'.report) + 1 /\ job'.report \in Seq(Report)
  BY <1>4, <1>6
<1>11. \A k \in DOMAIN job'.report : k \in Kind /\ Tells(k, job.report[k])'
  BY <1>4, <1>7, <1>8 DEF Tells
<1> QED
  BY <1>1, <1>4, <1>9, <1>10, <1>11 DEF ComparingOK

\* A diff that is started writes something just if the files differ.
LEMMA PopenReport ==
    ASSUME ReportInv, Popen
    PROVE  ComparingOK'
<1>1. /\ ~gone /\ job.stage = "diff" /\ job.at \in Kind
      /\ snaps' = snaps /\ disk' = disk /\ compiler' = compiler
  BY DEF Popen, Running
<1>2. \/ Reported(0, -1)
      \/ /\ Prints(job.at, Innermost.module)
         /\ \E n \in IF Differ(job.at) THEN 1 .. MaxOutput ELSE {0} :
              job' = Reading(job.at, job.report, 0, n)
  BY DEF Popen, Prints
<1>3. CASE Reported(0, -1)
  <2>1. Tells(job.at, [logged |-> 0, wrote |-> -1])
    BY DEF Tells
  <2> QED
    BY <1>1, <1>3, <2>1, ReportedOK
<1>4. CASE /\ Prints(job.at, Innermost.module)
           /\ \E n \in IF Differ(job.at) THEN 1 .. MaxOutput ELSE {0} :
                job' = Reading(job.at, job.report, 0, n)
  <2>1. PICK n : /\ n \in IF Differ(job.at) THEN 1 .. MaxOutput ELSE {0}
                 /\ job' = Reading(job.at, job.report, 0, n)
    BY <1>4
  <2>2. n \in Nat /\ (n # 0 <=> Differ(job.at))
    BY <2>1, StateAssumption
  <2>3. /\ job'.stage = "read" /\ job'.at = job.at /\ job'.report = job.report
        /\ job'.size = 0 /\ job'.wrote = n
    BY <2>1 DEF Reading
  <2>4. /\ snaps # <<>> /\ \E q : Innermost.pair = <<q>> /\ buildLookup(q.seen) = compiler
        /\ job.report \in Seq(Report) /\ job.at = Len(job.report) + 1
        /\ \A k \in DOMAIN job.report : k \in Kind /\ Tells(k, job.report[k])
    BY <1>1 DEF ReportInv, ComparingOK
  <2>5. /\ Innermost' = Innermost /\ (Differ(job.at)' <=> Differ(job.at))
        /\ \A k \in DOMAIN job.report : Tells(k, job.report[k])'
    BY <1>1, <2>3, <2>4, SameComparison DEF Differ, LinesOf, Tells
  <2> QED
    BY <1>1, <1>4, <2>2, <2>3, <2>4, <2>5 DEF ComparingOK
<1> QED
  BY <1>2, <1>3, <1>4

\* A chunk that is not full is the last.
LEMMA ReadReport ==
    ASSUME ReportInv, ReadChunk
    PROVE  ComparingOK'
<1>1. /\ ~gone /\ job.stage = "read"
      /\ snaps' = snaps /\ disk' = disk /\ compiler' = compiler
  BY DEF ReadChunk, Running
<1>2. /\ snaps # <<>> /\ \E q : Innermost.pair = <<q>> /\ buildLookup(q.seen) = compiler
      /\ job.report \in Seq(Report) /\ job.at = Len(job.report) + 1
      /\ \A k \in DOMAIN job.report : k \in Kind /\ Tells(k, job.report[k])
      /\ job.at \in Kind /\ Prints(job.at, Innermost.module)
      /\ job.wrote \in Nat /\ job.size \in 0 .. job.wrote
      /\ job.wrote # 0 <=> Differ(job.at)
  BY <1>1 DEF ReportInv, ComparingOK
<1>3. \/ Reported(job.wrote, job.wrote)
      \/ \E n \in 0 .. job.wrote : job' = Reading(job.at, job.report, n, job.wrote)
  <2>1. PICK left : left = job.wrote - job.size
    OBVIOUS
  <2>2. PICK r : r = IF left < Chunk THEN left ELSE Chunk
    OBVIOUS
  <2>3. IF r < Chunk THEN Reported(job.size + r, job.wrote)
        ELSE job' = Reading(job.at, job.report, job.size + r, job.wrote)
    BY <2>1, <2>2 DEF ReadChunk, AtEnd
  <2>4. left \in Nat /\ Chunk \in Nat
    BY <1>2, <2>1, StateAssumption
  <2>5. r < Chunk => job.size + r = job.wrote
    BY <1>2, <2>1, <2>2, <2>4
  <2>6. ~(r < Chunk) => job.size + r \in 0 .. job.wrote
    BY <1>2, <2>1, <2>2, <2>4
  <2> QED
    BY <2>3, <2>5, <2>6
<1>4. CASE Reported(job.wrote, job.wrote)
  <2>1. Tells(job.at, [logged |-> job.wrote, wrote |-> job.wrote])
    BY <1>2 DEF Tells
  <2>2. job.wrote \in Int
    BY <1>2
  <2> QED
    BY <1>1, <1>2, <1>4, <2>1, <2>2, ReportedOK
<1>5. CASE \E n \in 0 .. job.wrote : job' = Reading(job.at, job.report, n, job.wrote)
  <2>1. PICK n \in 0 .. job.wrote : job' = Reading(job.at, job.report, n, job.wrote)
    BY <1>5
  <2>2. /\ job'.stage = "read" /\ job'.at = job.at /\ job'.report = job.report
        /\ job'.size = n /\ job'.wrote = job.wrote
    BY <2>1 DEF Reading
  <2>3. /\ Innermost' = Innermost /\ (Differ(job.at)' <=> Differ(job.at))
        /\ \A k \in DOMAIN job.report : Tells(k, job.report[k])'
    BY <1>1, <1>2, <2>2, SameComparison DEF Differ, LinesOf, Tells
  <2> QED
    BY <1>1, <1>2, <2>1, <2>2, <2>3 DEF ComparingOK
<1> QED
  BY <1>3, <1>4, <1>5

\* diff is run and its output read.
LEMMA DiffReport ==
    ASSUME ReportInv, Popen \/ ReadChunk \/ Compared
    PROVE  ReportInv'
<1>1. /\ ~gone /\ snaps' = snaps /\ disk' = disk /\ compiler' = compiler
      /\ job'.stage \in {"diff", "read", "idle"}
  BY DEF Popen, ReadChunk, Compared, Running, Reported, Reading, Idle
<1>2. Known(compiler)' /\ Shots(snaps, disk)'
  BY <1>1, SameComparison
<1>3. ComparingOK'
  <2>1. CASE Compared
    <3>1. job'.stage = "idle"
      BY <2>1 DEF Compared, Idle
    <3> QED
      BY <3>1 DEF ComparingOK
  <2> QED
    BY <2>1, PopenReport, ReadReport
<1>4. TidyInv'
  BY DiffTidy DEF ReportInv
<1>5. MakingOK'
  BY <1>1 DEF MakingOK
<1> QED
  BY <1>2, <1>3, <1>4, <1>5 DEF ReportInv

\* A snapshot goes with its files, or the compiler goes on.
LEMMA BetweenReport ==
    ASSUME ReportInv, Destroy \/ Change
    PROVE  ReportInv'
<1>1. ~gone /\ job' = job /\ job = Idle /\ snaps # <<>>
  BY DEF Destroy, Change
<1>2. MakingOK' /\ ComparingOK'
  <2>1. job'.stage = "idle"
    BY <1>1, IdleIs
  <2> QED
    BY <2>1 DEF MakingOK, ComparingOK
<1>3. Known(compiler')
  <2>1. compiler' \in Compilers \/ compiler' = compiler
    BY StateAssumption DEF Destroy, Change
  <2> QED
    BY <1>1, <2>1 DEF ReportInv, Known
<1>4. Shots(snaps', disk')
  <2>1. CASE Change
    BY <1>1, <2>1 DEF Change, ReportInv
  <2>2. CASE Destroy
    <3>1. PICK n \in Nat : /\ DOMAIN snaps = 1 .. n + 1
                           /\ DOMAIN Front(snaps) = 1 .. n
                           /\ \A i \in 1 .. n : Front(snaps)[i] = snaps[i]
      BY <1>1, InnermostIs DEF ReportInv, TidyInv
    <3>2. \A p \in DOMAIN disk' : p \in DOMAIN disk /\ disk'[p] = disk[p]
      BY <2>2 DEF Destroy, WithoutFiles
    <3>3. Shots(snaps, disk')
      BY <1>1, <3>2, ShotsKept DEF ReportInv
    <3>4. PICK f : f = Front(snaps)
      OBVIOUS
    <3>5. \A i \in 1 .. n : i \in DOMAIN snaps
      BY <3>1
    <3>6. Shots(f, disk')
      BY <3>1, <3>3, <3>4, <3>5 DEF Shots
    <3> QED
      BY <2>2, <3>4, <3>6 DEF Destroy
  <2> QED
    BY <2>1, <2>2
<1>5. TidyInv'
  BY BetweenTidy DEF ReportInv
<1> QED
  BY <1>2, <1>3, <1>4, <1>5 DEF ReportInv, Known

\* Every step of a call, of the compiler and of the environment.
LEMMA ReportNext == ReportInv /\ [Next]_vars => ReportInv'
<1> SUFFICES ASSUME ReportInv, [Next]_vars PROVE ReportInv'
  OBVIOUS
<1>1. CASE Open \/ compare
  BY <1>1, BeginReport
<1>2. CASE Destroy \/ Change
  BY <1>2, BetweenReport
<1>3. CASE Signal \/ storeFails
  <2>1. gone' = TRUE
    BY <1>3 DEF Signal, storeFails, Die
  <2>2. TidyInv'
    BY TidyNext DEF ReportInv
  <2> QED
    BY <2>1, <2>2 DEF ReportInv
<1>4. CASE createUniqueFile
  BY <1>4, CreateReport
<1>5. CASE RemoveFileOnSignal
  BY <1>5, RegisterReport
<1>6. CASE store
  BY <1>6, StoreReport
<1>7. CASE Popen \/ ReadChunk \/ Compared
  BY <1>7, DiffReport
<1>8. CASE UNCHANGED vars
  <2>1. /\ gone' = gone /\ snaps' = snaps /\ disk' = disk /\ compiler' = compiler
        /\ job' = job
    BY <1>8 DEF vars
  <2>2. TidyInv'
    BY TidyNext DEF ReportInv
  <2> QED
    BY <2>1, <2>2 DEF ReportInv, Known, MakingOK, ComparingOK, Tells, Differ, LinesOf,
                      Innermost
<1> QED
  BY <1>1, <1>2, <1>3, <1>4, <1>5, <1>6, <1>7, <1>8 DEF Next, Step

-----------------------------------------------------------------------------
(* What the reports say.                                                   *)

\* What has been reported so far: of each structure, that diff was not run, or
\* all its output, which is something just if the texts of the snapshot and of
\* the compiler differ in a line that is not ignored, or if a file is missing.
TextsReported ==
    job.stage = "diff" /\ ~gone => \A k \in DOMAIN job.report :
      LET r == job.report[k]
          Left(c) == Kept(Kinds[k], compiler, TextOf(Kinds[k], c))
          Lost == LostPath(k) \in {Innermost.paths[k],
                                   Head(Innermost.pair).paths[k]}
      IN  \/ r.logged = 0 /\ r.wrote = -1
          \/ /\ r.logged = r.wrote /\ r.logged \in Nat
             /\ r.logged # 0 => Left(Innermost.seen) # Left(compiler)
             /\ r.logged = 0 => Lost \/ Left(Innermost.seen) = Left(compiler)

\* The files hold what the compiler was and is like.
LEMMA ReportInvTexts == ReportInv => TextsReported
<1> SUFFICES ASSUME ReportInv, job.stage = "diff", ~gone, NEW k \in DOMAIN job.report
             PROVE  LET r == job.report[k]
                        Left(c) == Kept(Kinds[k], compiler, TextOf(Kinds[k], c))
                        Lost == LostPath(k) \in {Innermost.paths[k],
                                                 Head(Innermost.pair).paths[k]}
                    IN  \/ r.logged = 0 /\ r.wrote = -1
                        \/ /\ r.logged = r.wrote /\ r.logged \in Nat
                           /\ r.logged # 0 => Left(Innermost.seen) # Left(compiler)
                           /\ r.logged = 0 =>
                                Lost \/ Left(Innermost.seen) = Left(compiler)
  BY DEF TextsReported
<1>1. PICK q : Innermost.pair = <<q>> /\ buildLookup(q.seen) = compiler
  BY DEF ReportInv, ComparingOK
<1>2. /\ snaps # <<>> /\ k \in Kind /\ Tells(k, job.report[k])
  BY DEF ReportInv, ComparingOK
<1>3. /\ Shot(Innermost, disk) /\ Shot(q, disk) /\ q.module = Innermost.module
      /\ Real(All(Innermost)) \subseteq DOMAIN disk
  BY <1>1, <1>2, InnermostShot
<1>4. PICK r : r = job.report[k]
  OBVIOUS
<1>5. PICK one, two : one = Innermost.paths[k] /\ two = q.paths[k]
  OBVIOUS
<1>6. Head(Innermost.pair) = q
  BY <1>1
<1>7. CASE /\ Prints(k, Innermost.module)
           /\ r.wrote \in Nat /\ r.logged = r.wrote /\ (r.wrote # 0 <=> Differ(k))
  <2>1. /\ PathAt(k, one) /\ one # NoPath
        /\ one \in DOMAIN disk => disk[one] = TextOf(Kinds[k], Innermost.seen)
    BY <1>2, <1>3, <1>5, <1>7 DEF Shot
  <2>2. /\ PathAt(k, two) /\ two # NoPath
        /\ two \in DOMAIN disk => disk[two] = TextOf(Kinds[k], q.seen)
    BY <1>2, <1>3, <1>5, <1>7 DEF Shot
  <2>3. TextOf(Kinds[k], q.seen) = TextOf(Kinds[k], compiler)
    <3>1. PICK d \in Compilers : q.seen \in {d, buildLookup(d)}
      BY <1>3 DEF Shot, Known
    <3> QED
      BY <1>1, <3>1, BuiltTells
  <2>4. Differ(k) <=>
          /\ one \in DOMAIN disk /\ two \in DOMAIN disk
          /\ Kept(Kinds[k], compiler, disk[one]) # Kept(Kinds[k], compiler, disk[two])
    BY <1>5, <1>6 DEF Differ, LinesOf
  <2>5. Real({one}) \subseteq DOMAIN disk /\ Real({two}) \subseteq DOMAIN disk
    <3>1. one \in FilesOf(Innermost) /\ two \in FilesOf(q)
      BY <1>2, <1>3, <1>5 DEF Shot, FilesOf, ToSet
    <3>2. one \in All(Innermost) /\ two \in All(Innermost)
      BY <1>1, <3>1, PairIs DEF All
    <3> QED
      BY <1>3, <3>2 DEF Real
  <2>6. /\ one \notin DOMAIN disk => one = LostPath(k)
        /\ two \notin DOMAIN disk => two = LostPath(k)
    BY <2>1, <2>2, <2>5, Missing
  <2> QED
    BY <1>4, <1>5, <1>6, <1>7, <2>1, <2>2, <2>3, <2>4, <2>6
<1> QED
  BY <1>2, <1>4, <1>7 DEF Tells

\* What is left of a text depends on the state of the compiler only as far as
\* its module goes, and building the tables changes no text.
LEMMA LeftIs ==
    ASSUME PrintersTell, NEW kind \in ToSet(Kinds),
           NEW old, Known(old), NEW now, Known(now)
    PROVE  LET Left(c) == Kept(kind, now, TextOf(kind, c))
           IN  /\ Changed(kind, old, now) => Left(old) # Left(now)
               /\ Left(old) # Left(now) =>
                    Changed(kind, old, now) \/ LosesIntrinsics(kind, old, now)
<1>1. PICK e \in Compilers : old \in {e, buildLookup(e)}
  BY DEF Known
<1>2. PICK d \in Compilers : now \in {d, buildLookup(d)}
  BY DEF Known
<1>3. /\ TextOf(kind, old) = TextOf(kind, e) /\ TextOf(kind, now) = TextOf(kind, d)
      /\ Meaning(kind, old) = Meaning(kind, e) /\ Meaning(kind, now) = Meaning(kind, d)
      /\ old.module = e.module /\ now.module = d.module
  BY <1>1, <1>2, BuiltTells
<1>4. Ignored(kind, now) = Ignored(kind, d)
  BY <1>3 DEF Ignored
<1>5. \A text : Kept(kind, now, text) = Kept(kind, d, text)
  BY <1>4 DEF Kept
<1>6. Changed(kind, old, now) <=> Changed(kind, e, d)
  BY <1>3 DEF Changed
<1>7. LosesIntrinsics(kind, old, now) <=> LosesIntrinsics(kind, e, d)
  BY <1>3 DEF LosesIntrinsics
<1> QED
  BY <1>3, <1>5, <1>6, <1>7 DEF PrintersTell

\* Where the printers tell, the texts tell what has changed.
LEMMA TextsAreRight == PrintersTell /\ ReportInv => ReportsRight
<1> SUFFICES ASSUME PrintersTell, ReportInv, job.stage = "diff", ~gone,
                    NEW k \in DOMAIN job.report
             PROVE  LET kind == Kinds[k]
                        r == job.report[k]
                        old == Innermost.seen
                        Lost == LostPath(k) \in {Innermost.paths[k],
                                                 Head(Innermost.pair).paths[k]}
                    IN  /\ r.logged > 0 => \/ Changed(kind, old, compiler)
                                           \/ LosesIntrinsics(kind, old, compiler)
                        /\ Changed(kind, old, compiler) /\ r.logged = 0 =>
                             r.wrote = -1 \/ Lost
                        /\ r.wrote # -1 => r.logged = r.wrote
  BY DEF ReportsRight
<1>1. /\ k \in Kind /\ snaps # <<>> /\ Known(compiler)
  BY DEF ReportInv, ComparingOK
<1>2. Known(Innermost.seen)
  BY <1>1, InnermostShot DEF Shot
<1>3. Kinds[k] \in ToSet(Kinds)
  BY <1>1 DEF Kind, ToSet
<1>4. LET Left(c) == Kept(Kinds[k], compiler, TextOf(Kinds[k], c))
      IN  /\ Changed(Kinds[k], Innermost.seen, compiler) =>
               Left(Innermost.seen) # Left(compiler)
          /\ Left(Innermost.seen) # Left(compiler) =>
               \/ Changed(Kinds[k], Innermost.seen, compiler)
               \/ LosesIntrinsics(Kinds[k], Innermost.seen, compiler)
  BY <1>1, <1>2, <1>3, LeftIs
<1> QED
  BY <1>4, ReportInvTexts DEF TextsReported

\* While a snapshot is alive, its files and those of its pair hold what the
\* compiler was like when they were taken (store), whatever other snapshots were
\* taken or destroyed and whichever files could not be made.
THEOREM ShotsAreTrue == Spec => []ReportInv
<1> QED
  BY ReportInit, ReportNext, PTL DEF Spec

\* compare reports all of the differences between what the printers made of the
\* compiler then and make of it now (differentContent), for whatever compilers
\* and whatever the printers make of them.
THEOREM TextsAreReported == Spec => []TextsReported
<1> QED
  BY ReportInvTexts, ShotsAreTrue, PTL

\* compare reports what has changed since the snapshot was taken and nothing
\* else, if what is left of the printers' texts differs where the compiler does
\* in meaning, and nowhere else but for intrinsics that were lost.
THEOREM ReportsAreRight == PrintersTell => (Spec => []ReportsRight)
<1> SUFFICES ASSUME PrintersTell PROVE Spec => []ReportsRight
  OBVIOUS
<1>1. ReportInv => ReportsRight
  BY TextsAreRight
<1> QED
  BY <1>1, ShotsAreTrue, PTL
=============================================================================
