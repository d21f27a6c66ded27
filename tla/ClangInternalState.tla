------------------------- MODULE ClangInternalState -------------------------
(***************************************************************************)
(* Snapshots of the compiler in temporary files and their comparison: what *)
(* StateDebuggerRAII takes before and compares after.  A snapshot is five  *)
(* files, one for each structure of the compiler; a comparison takes a     *)
(* second snapshot and runs diff on each pair of files, whose output       *)
(* platform::Popen reads in chunks.  Snapshots nest, as their owners do.   *)
(*                                                                         *)
(* Files may fail to be made, diff may fail to start, and a signal may end *)
(* the process between any two steps.  A text is a sequence of lines.      *)
(***************************************************************************)
EXTENDS Integers, Sequences, SequencesExt, FiniteSets

CONSTANTS
    Compilers,   \* the states the compiler may be in, see Compiler below
    Started,     \* those among them in which the first snapshot is taken
    Builtins,    \* lines that name a builtin function
    InputLines,  \* files that are lines of input (input_line_N)
    Intrinsics,  \* lines of a module that name an intrinsic function
    Hidden,      \* files named "-", or under /usr/ and a bits directory
    MaxSnaps, MaxChanges, MaxFaults,   \* bounds
    Chunk,       \* capacity of the buffer Popen reads into
    MaxOutput    \* bound on the bytes a diff writes

\* A state of the compiler: the lines of its lookup tables, and whether these
\* are still to be built; the files it knows in the order of its map, each
\* with whether its entry was cleared and whether its text is loaded; AST and
\* module as they are printed; macros.
Compiler ==
    [tables : Seq(Builtins \cup STRING), pending : BOOLEAN,
     infos : Seq([name : Nat, cleared : BOOLEAN, loaded : BOOLEAN]),
     ast : Seq(STRING), module : Seq(Intrinsics \cup STRING),
     macros : Seq(STRING)]

ASSUME StateAssumption ==
    /\ Started \subseteq Compilers
    /\ \A c \in Compilers : c \in Compiler
    /\ {MaxSnaps, MaxChanges, MaxFaults} \subseteq Nat
    /\ {Chunk, MaxOutput} \subseteq Nat \ {0}

VARIABLES
    compiler,
    snaps,       \* the snapshots alive, the innermost last
    job,         \* the call in progress on the innermost snapshot
    disk,        \* temporary files: a function from paths to texts
    registered,  \* those to be removed on a signal
    gone,        \* the process has ended
    changes, faults   \* counters for the bounds

vars == <<compiler, snaps, job, disk, registered, gone, changes, faults>>

-----------------------------------------------------------------------------
(* What a snapshot writes.                                                 *)

Kinds == <<"lookup", "included", "ast", "module", "macros">>
Kind == DOMAIN Kinds

\* Declarations wait to be entered until the table is asked for: of one that is
\* pending a dump shows nothing.
Dumped(c) == IF c.pending THEN <<>> ELSE c.tables

buildLookup(c) == [c EXCEPT !.pending = FALSE]

\* The traversal builds what is pending before it dumps it.
Tables(c) == Dumped(buildLookup(c))

Sorted(names) == SortSeq(names, LAMBDA m, n : m < n)

\* The files under a heading, sorted; nothing at all if there are none.
Listing(heading, infos) ==
    LET names == [i \in DOMAIN infos |-> infos[i].name]
    IN  IF names = <<>> THEN <<>>
        ELSE <<<<heading, 0>>>>
               \o [i \in DOMAIN names |-> <<"", Sorted(names)[i]>>]

printIncludedFiles(c) ==
    LET Shown(loaded) ==
          SelectSeq(c.infos, LAMBDA f : ~f.cleared /\ f.name \notin Hidden
                                          /\ f.loaded = loaded)
    IN  Listing("Parsed", Shown(TRUE)) \o Listing("From AST file", Shown(FALSE))

\* The macros are not asked for (the call is commented out): a heading alone.
printMacroDefinitions(c) == <<"Ordered Alphabetically:">>

TextOf(kind, c) ==
    CASE kind = "lookup" -> Tables(c)
      [] kind = "included" -> printIncludedFiles(c)
      [] kind = "ast" -> c.ast
      [] kind = "module" -> c.module
      [] kind = "macros" -> printMacroDefinitions(c)

\* The lines diff is told to ignore when the compiler is in the state now: the
\* intrinsics are those of the module as it is when it is compared.
Ignored(kind, now) ==
    CASE kind = "lookup" -> Builtins
      [] kind = "included" -> {<<"", n>> : n \in InputLines}
      [] kind = "module" -> Intrinsics \cap ToSet(now.module)
      [] OTHER -> {}

\* What is left of a text.  (Where a text is reordered, which lines diff holds
\* for changed is its choice; no text of the instances is.)
Kept(kind, now, text) == SelectSeq(text, LAMBDA l : l \notin Ignored(kind, now))

-----------------------------------------------------------------------------
Idle == [stage |-> "idle"]
Innermost == Last(snaps)

Running == job # Idle /\ ~gone

\* Signals and fatal errors: the files that were registered are removed, and
\* with the process its memory is gone.
Die ==
    /\ gone' = TRUE
    /\ disk' = [p \in DOMAIN disk \ registered |-> disk[p]]
    /\ snaps' = <<>> /\ registered' = {}
    /\ changes' = 0 /\ faults' = 0
    /\ UNCHANGED <<compiler, job>>

Signal == ~gone /\ Die

Fault == faults < MaxFaults /\ faults' = faults + 1

\* The compiler goes on between two calls.
Change ==
    /\ job = Idle /\ ~gone /\ snaps # <<>>
    /\ changes < MaxChanges /\ changes' = changes + 1
    /\ compiler' \in Compilers \ {compiler}
    /\ UNCHANGED <<snaps, job, disk, registered, gone, faults>>

\* A job in the constructor of a snapshot: what it is for, whether there is a
\* module, the paths named so far.
Making(stage, for, module, paths) ==
    [stage |-> stage, for |-> for, module |-> module, paths |-> paths]

\* ClangInternalState(): whether there is a CodeGen, and so a module, is seen
\* by the owner.  A snapshot that has been compared is not nested in any more.
Open ==
    /\ job = Idle /\ ~gone /\ Len(snaps) < MaxSnaps
    /\ snaps # <<>> => Innermost.pair = <<>>
    /\ \E module \in BOOLEAN : job' = Making("create", "new", module, <<>>)
    /\ UNCHANGED <<compiler, snaps, disk, registered, gone, changes, faults>>

compare ==
    /\ job = Idle /\ ~gone /\ snaps # <<>>
    /\ job' = Making("create", "pair", Innermost.module, <<>>)
    /\ UNCHANGED <<compiler, snaps, disk, registered, gone, changes, faults>>

\* Paths that name no file: none at all, and one that could not be made.
NoPath == <<>>
LostPath(k) == <<k, 0>>

\* A path that names no other file.
UniquePath(k) ==
    <<k, CHOOSE n \in 1 .. Cardinality(DOMAIN disk) + 1 :
           <<k, n>> \notin DOMAIN disk>>

\* createOutputFile up to createUniqueFile: it makes the file, or the
\* directory is not there, or it fails in another way, which the code takes
\* for success.
createUniqueFile ==
    /\ Running /\ job.stage = "create"
    /\ LET k == Len(job.paths) + 1
           Named(p) == job' = Making("register", job.for, job.module,
                                     Append(job.paths, p))
       IN  \/ /\ Named(UniquePath(k))
              /\ disk' = [p \in DOMAIN disk \cup {UniquePath(k)} |->
                            IF p = UniquePath(k) THEN <<>> ELSE disk[p]]
              /\ UNCHANGED faults
           \/ /\ Fault
              /\ Named(NoPath) \/ Named(LostPath(k))
              /\ UNCHANGED disk
    /\ UNCHANGED <<compiler, snaps, registered, gone, changes>>

\* A defect: only the last file of a snapshot is registered.
Registered_Last(paths) == IF Len(paths) = Len(Kinds) THEN {Last(paths)} ELSE {}

Registered(paths) == {Last(paths)}

\* The rest of createOutputFile.
RemoveFileOnSignal ==
    /\ Running /\ job.stage = "register"
    /\ registered' = registered \cup Registered(job.paths)
    /\ job' = Making(IF Len(job.paths) = Len(Kinds) THEN "print" ELSE "create",
                     job.for, job.module, job.paths)
    /\ UNCHANGED <<compiler, snaps, disk, gone, changes, faults>>

\* A defect: the destructor forgets the macros.
FilesOf_FirstFour(s) == ToSet(SubSeq(s.paths, 1, 4))

FilesOf(s) == ToSet(s.paths)

Pair(s) == IF s.pair = <<>> THEN {} ELSE FilesOf(Head(s.pair))

\* ~ClangInternalState: remove.  The list for signals keeps the names in the
\* code; no file has one of them again, so that the model drops them.
WithoutFiles(d, files) == [p \in DOMAIN d \ files |-> d[p]]

\* The streams of job.paths that are written to.
Written == {k \in Kind : Kinds[k] = "module" => job.module}

\* store() once all streams are there.  A stream that is null is dereferenced;
\* one on a descriptor that was never set writes to a file of somebody else, or
\* the write or the close (a second one, if it is the descriptor of another
\* stream here) fails, which is fatal.  Dumping the tables builds them.
\* The new snapshot of compare replaces the last one and destroys it.
store ==
    /\ Running /\ job.stage = "print"
    /\ \A k \in Written : job.paths[k] # NoPath
    /\ LET new == [paths |-> job.paths, module |-> job.module,
                   seen |-> compiler, pair |-> <<>>]
           printed == [p \in DOMAIN disk |->
                         IF \E k \in Written : job.paths[k] = p
                         THEN TextOf(Kinds[p[1]], compiler) ELSE disk[p]]
       IN  IF job.for = "new"
           THEN /\ snaps' = Append(snaps, new)
                /\ disk' = printed
                /\ job' = Idle
                /\ UNCHANGED registered
           ELSE /\ snaps' = Append(Front(snaps),
                                   [Innermost EXCEPT !.pair = <<new>>])
                /\ disk' = WithoutFiles(printed, Pair(Innermost))
                /\ registered' = registered \ Pair(Innermost)
                /\ job' = [stage |-> "diff", at |-> 1, report |-> <<>>]
    /\ compiler' = buildLookup(compiler)
    /\ UNCHANGED <<gone, changes, faults>>

storeFails ==
    /\ Running /\ job.stage = "print"
    /\ \E k \in Written : job.paths[k] \in {NoPath, LostPath(k)}
    /\ Die

-----------------------------------------------------------------------------
(* differentContent and Popen.                                             *)

\* The report gets what was logged of the differences, and how much of them
\* there was (-1: diff was not run).
Reported(logged, wrote) ==
    job' = [stage |-> "diff", at |-> job.at + 1,
            report |-> Append(job.report, [logged |-> logged, wrote |-> wrote])]

\* What diff sees of a file.
LinesOf(k, path) == Kept(Kinds[k], compiler, disk[path])

\* A defect: diff is told to take a file that is not there for an empty one.
Differ_Absent(k) ==
    LET Text(path) == IF path \in DOMAIN disk THEN LinesOf(k, path) ELSE <<>>
    IN  Text(Innermost.paths[k]) # Text(Head(Innermost.pair).paths[k])

\* diff says nothing on its standard output of a file that is not there.
Differ(k) ==
    LET one == Innermost.paths[k]
        two == Head(Innermost.pair).paths[k]
    IN  {one, two} \subseteq DOMAIN disk /\ LinesOf(k, one) # LinesOf(k, two)

\* A job that reads the output: how much it has, and how much diff wrote.
Reading(at, report, size, wrote) ==
    [stage |-> "read", at |-> at, report |-> report,
     size |-> size, wrote |-> wrote]

\* The command is started.
Popen ==
    /\ Running /\ job.stage = "diff" /\ job.at \in Kind
    /\ IF Kinds[job.at] = "module" /\ ~Innermost.module
       THEN Reported(0, -1) /\ UNCHANGED faults
       ELSE \/ /\ \E n \in IF Differ(job.at) THEN 1 .. MaxOutput ELSE {0} :
                    job' = Reading(job.at, job.report, 0, n)
               /\ UNCHANGED faults
            \/ Fault /\ Reported(0, -1)
    /\ UNCHANGED <<compiler, snaps, disk, registered, gone, changes>>

\* A defect: fread is taken for read, which says -1 when it fails.
AtEnd_Failed(r) == r < 0

\* fread gives less than it was asked for at the end of the output only.
AtEnd(r) == r < Chunk

\* One turn of the loop that reads the output.
ReadChunk ==
    /\ Running /\ job.stage = "read"
    /\ LET left == job.wrote - job.size
           r == IF left < Chunk THEN left ELSE Chunk
       IN  IF AtEnd(r) THEN Reported(job.size + r, job.wrote)
           ELSE job' = Reading(job.at, job.report, job.size + r, job.wrote)
    /\ UNCHANGED <<compiler, snaps, disk, registered, gone, changes, faults>>

\* compare() is over; its report is in the log.
Compared ==
    /\ Running /\ job.stage = "diff" /\ job.at \notin Kind
    /\ job' = Idle
    /\ UNCHANGED <<compiler, snaps, disk, registered, gone, changes, faults>>

\* ~ClangInternalState(): its own files, then those of the pair it owns.
Destroy ==
    /\ job = Idle /\ ~gone /\ snaps # <<>>
    /\ LET files == FilesOf(Innermost) \cup Pair(Innermost)
       IN  /\ disk' = WithoutFiles(disk, files)
           /\ registered' = registered \ files
    /\ snaps' = Front(snaps)
    /\ changes' = IF Len(snaps) = 1 THEN 0 ELSE changes
    /\ faults' = IF Len(snaps) = 1 THEN 0 ELSE faults
    /\ compiler' \in IF Len(snaps) = 1 THEN Started ELSE {compiler}
    /\ UNCHANGED <<job, gone>>

-----------------------------------------------------------------------------
Init ==
    /\ compiler \in Started
    /\ snaps = <<>> /\ job = Idle
    /\ disk = <<>> /\ registered = {}
    /\ gone = FALSE
    /\ changes = 0 /\ faults = 0

Step == createUniqueFile \/ RemoveFileOnSignal \/ store \/ storeFails
          \/ Popen \/ ReadChunk \/ Compared

Next == Open \/ compare \/ Destroy \/ Change \/ Signal \/ Step

\* A call that has begun goes on.
Spec == Init /\ [][Next]_vars /\ WF_vars(Step)

-----------------------------------------------------------------------------
(* Properties.                                                             *)

\* The structures a comparison is about: the tables but for builtins, which
\* files are known and loaded but for lines of input, the AST, the module but
\* for intrinsics.  Macros are in no file.
Meaning(kind, c) ==
    CASE kind = "lookup" -> ToSet(c.tables) \ Builtins
      [] kind = "included" ->
           {<<f.name, f.loaded>> : f \in
              {f \in ToSet(c.infos) : ~f.cleared
                                        /\ f.name \notin Hidden \cup InputLines}}
      [] kind = "ast" -> c.ast
      [] kind = "module" -> ToSet(c.module) \ Intrinsics
      [] kind = "macros" -> "nothing"

Changed(kind, old, now) == Meaning(kind, old) # Meaning(kind, now)

\* An intrinsic that the module has lost is not ignored.
LosesIntrinsics(kind, old, now) ==
    kind = "module" /\ \E l \in Intrinsics : l \in ToSet(old.module) \ ToSet(now.module)

\* Of two states of the compiler: what is left of their texts differs if what
\* they mean does, and otherwise only if intrinsics were lost.  No compiler
\* lists the same things in another order.
PrintersTell ==
    \A old, now \in Compilers, kind \in ToSet(Kinds) :
      LET Left(c) == Kept(kind, now, TextOf(kind, c))
          tells == Left(old) # Left(now)
      IN  /\ Changed(kind, old, now) => tells
          /\ tells => Changed(kind, old, now) \/ LosesIntrinsics(kind, old, now)

\* compare() reports just what has changed since the snapshot was taken,
\* whatever order the compiler keeps its files in and whichever tables it has
\* built.  It is silent about a change only if a file could not be made or diff
\* not be started; an intrinsic that the module has lost is a change too.  A
\* report has all of diff's output.
ReportsRight ==
    job.stage = "diff" /\ ~gone => \A k \in DOMAIN job.report :
      LET kind == Kinds[k]
          r == job.report[k]
          old == Innermost.seen
          Lost == LostPath(k) \in {Innermost.paths[k],
                                   Head(Innermost.pair).paths[k]}
      IN  /\ r.logged > 0 => \/ Changed(kind, old, compiler)
                             \/ LosesIntrinsics(kind, old, compiler)
          /\ Changed(kind, old, compiler) /\ r.logged = 0 => r.wrote = -1 \/ Lost
          /\ r.wrote # -1 => r.logged = r.wrote

Owned == UNION {UNION {ToSet(s.paths) : s \in {snaps[i]} \cup ToSet(snaps[i].pair)} :
                  i \in DOMAIN snaps}

\* The temporary files are those of the snapshots alive, of the pair each has
\* from its last comparison, and of the one being made: none is left behind,
\* and none is removed under a snapshot that still needs it.
NoLitter ==
    ~gone =>
      /\ DOMAIN disk \subseteq
           Owned \cup (IF "paths" \in DOMAIN job THEN ToSet(job.paths) ELSE {})
      /\ \A p \in Owned : p = NoPath \/ p[2] = 0 \/ p \in DOMAIN disk

\* A process that is ended by a signal, or by a stream it could not open,
\* leaves at most the one file it had made and not yet registered.
SignalCleans ==
    gone => \A p \in DOMAIN disk : job.stage = "register" /\ p = Last(job.paths)

\* Every call ends.
Finishes == (job # Idle) ~> (job = Idle \/ gone)
=============================================================================
