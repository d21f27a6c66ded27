-------------------------------- MODULE Paths --------------------------------
(***************************************************************************)
(* The helpers for search paths: expansion of environment variables,       *)
(* splitting of path lists, and the include paths of the compiler.         *)
(*                                                                         *)
(* Strings are sequences of the few characters the helpers look at and of  *)
(* letters.  The two loops whose end is not plain (over the dollar signs   *)
(* of a string, over the components of a list) take one step per turn; one *)
(* call runs at a time.  The calls that have nothing to do with the        *)
(* compiler's options are made while these are empty.                      *)
(***************************************************************************)
EXTENDS Integers, Sequences, SequencesExt, FiniteSets

CONSTANTS
    Strings,       \* what ExpandEnvVars is called with
    Env,           \* environment: a function from names to values
    Lists,         \* what SplitPaths is called with
    Outputs,       \* what the dynamic loader says of its search paths
    Directory,     \* the directories that exist
    IncludeLists,  \* what AddIncludePaths is called with
    Preset,        \* include paths the compiler may start with
    ArgLists,      \* compiler arguments LookForFile searches
    Names,         \* what LookForFile is called with
    FileSets,      \* the regular files that may exist
    WorkingDir,    \* of the FileManager
    MaxEntries,    \* bound on include paths
    Misuse         \* calls outside the contract:
                   \*   "twice"    add a list that names a path twice
                   \*   "runpath"  the loader has searched a RUNPATH, too

\* Whether a split is verbose makes a difference in the failing mode only.
Mode == {"prune", "fail", "failVerbose", "allow"}

FlagWords == {"-idirafter", "-iquote", "-isystem", "-c-isystem",
              "-index-header-map", "-F", "-I"}

Group == {"After", "Quoted", "Angled", "System", "IndexHeaderMap", "CSystem"}

\* A user entry of HeaderSearchOptions.
Entry(path, group, framework) ==
    [path |-> path, group |-> group, framework |-> framework]

ASSUME PathsAssumption ==
    /\ MaxEntries \in Nat
    /\ Misuse \subseteq {"twice", "runpath"}
    /\ Strings \cup Lists \cup IncludeLists \cup Outputs \subseteq Seq(STRING)
    /\ \A name \in DOMAIN Env : Env[name] \in Seq(STRING)
    /\ \A args \in ArgLists : args \in Seq(Seq(STRING))
    /\ Names \cup {WorkingDir} \subseteq Seq(STRING) /\ <<>> \notin Names
    /\ \A e \in Preset :
         /\ e \in [path : Seq(STRING), group : Group, framework : BOOLEAN]
         /\ e.framework => e.group = "Angled"

VARIABLES
    call,     \* what runs: nothing, or the loop of a helper
    input,    \* its string argument
    str,      \* the string being expanded, or what is left to split
    at,       \* the dollar sign found, 0 for none
    mode,     \* the mode of a split
    paths,    \* the paths it has collected
    existed,  \* AllExisted
    entries,  \* UserEntries of the HeaderSearchOptions
    result    \* of the last call that returned

vars == <<call, input, str, at, mode, paths, existed, entries, result>>

-----------------------------------------------------------------------------
(* Strings.                                                                *)

\* The first place of c in s from i on, or 0.
Find(c, s, i) ==
    LET here == {k \in i..Len(s) : s[k] = c}
    IN  IF here = {} THEN 0 ELSE CHOOSE k \in here : \A j \in here : k <= j

\* StringRef::split(":"): without a delimiter all is in the first part.
First(s) ==
    LET d == Find(":", s, 1) IN IF d = 0 THEN s ELSE SubSeq(s, 1, d - 1)

Second(s) ==
    LET d == Find(":", s, 1) IN IF d = 0 THEN <<>> ELSE SubSeq(s, d + 1, Len(s))

Exists(p) == p \in Directory

\* The members of s at the places in P, in their order.
Kept(s, P) ==
    LET upto[i \in 0..Len(s)] ==
          IF i = 0 THEN <<>>
          ELSE IF i \in P THEN Append(upto[i - 1], s[i])
          ELSE upto[i - 1]
    IN  upto[Len(s)]

-----------------------------------------------------------------------------
(* ExpandEnvVars.                                                          *)

Value(name) == IF name \in DOMAIN Env THEN Env[name] ELSE <<>>

NoResult == [call |-> "none"]

Idle == call = "idle" /\ result = NoResult

\* The client has seen the result.
Forget ==
    /\ call = "idle" /\ result # NoResult
    /\ result' = NoResult
    /\ UNCHANGED <<call, input, str, at, mode, paths, existed, entries>>

CallExpand(s) ==
    /\ call' = "expand"
    /\ input' = s /\ str' = s
    /\ at' = Find("$", s, 1)
    /\ UNCHANGED <<mode, paths, existed, entries, result>>

\* A defect: the search goes on behind the place of the value.
SearchFrom_PastName(d, slash) == IF slash = 0 THEN d + 1 ELSE slash + 1

\* Where the next dollar sign is looked for: just behind the last one, in
\* the value as well.
SearchFrom(d, slash) == d + 1

\* One turn: a name reaches to the next slash or to the end.
ExpandStep ==
    /\ call = "expand" /\ at # 0
    /\ LET slash == Find("/", str, at + 1)
           end == IF slash = 0 THEN Len(str) + 1 ELSE slash
           new == SubSeq(str, 1, at - 1) \o Value(SubSeq(str, at + 1, end - 1))
                    \o SubSeq(str, end, Len(str))
       IN  str' = new /\ at' = Find("$", new, SearchFrom(at, slash))
    /\ UNCHANGED <<call, input, mode, paths, existed, entries, result>>

\* The answer says whether the expansion exists if that is asked for (path).
ExpandReturn ==
    /\ call = "expand" /\ at = 0
    /\ call' = "idle"
    /\ \E path \in BOOLEAN :
         result' = [call |-> "expand", input |-> input, value |-> str,
                    path |-> path, all |-> path => Exists(str)]
    /\ input' = <<>> /\ str' = <<>>
    /\ UNCHANGED <<at, mode, paths, existed, entries>>

-----------------------------------------------------------------------------
(* SplitPaths.                                                             *)

SplitStart(c, in, s, md) ==
    /\ call' = c
    /\ input' = in /\ str' = s
    /\ mode' = md /\ paths' = <<>> /\ existed' = TRUE
    /\ UNCHANGED <<at, entries, result>>

CallSplit(s, md) == SplitStart("split", s, s, md)

\* A defect: the paths of LD_LIBRARY_PATH are not skipped.
SearchStart_First(out) == 1

\* The loader's words for LD_LIBRARY_PATH, search path= and the system search
\* path are one character each: "L", "=" and "S".
SearchStart(out) == IF Find("L", out, 1) = 0 THEN 1 ELSE Find("L", out, 1)

Unspaced(s) == Kept(s, {i \in DOMAIN s : s[i] # " "})

\* The text between the first search path= and the words for the system.
SystemPath(out) ==
    LET from == Find("=", out, SearchStart(out))
        to == IF from = 0 THEN 0 ELSE Find("S", out, from)
    IN  IF to = 0 THEN <<>>
        ELSE Unspaced(SubSeq(out, from + 1, to - 1))

\* GetSystemLibraryPaths, for what Popen has read.
CallGetSystemLibraryPaths(out) ==
    SplitStart("libraries", out, SystemPath(out), "prune")

Splitting == call \in {"split", "include", "libraries"}

\* What the mode makes of the component p.
Taken(p) ==
    IF p # <<>> /\ (Exists(p) \/ mode = "allow") THEN Append(paths, p) ELSE paths

\* SplitPaths is over: AddIncludePaths goes on, or a client gets its answer.
Return(found, all) ==
    IF call = "include"
      THEN /\ call' = "add" /\ paths' = found
           /\ UNCHANGED <<input, str, mode, existed, result>>
      ELSE /\ call' = "idle"
           /\ result' = [call |-> IF call = "log" THEN "split" ELSE call,
                         input |-> input, mode |-> mode,
                         value |-> found, all |-> all]
           /\ input' = <<>> /\ str' = <<>> /\ mode' = "allow"
           /\ paths' = <<>> /\ existed' = TRUE

\* One turn of the loop: there is text behind the first delimiter.
SplitStep ==
    /\ Splitting /\ Second(str) # <<>>
    /\ LET p == First(str)
           missing == p # <<>> /\ ~Exists(p)
       IN  IF missing /\ mode = "fail" THEN Return(paths, FALSE)
           ELSE IF missing /\ mode = "failVerbose"
             THEN /\ call' = "log"
                  /\ UNCHANGED <<input, str, mode, paths, existed, result>>
             ELSE /\ existed' = (existed /\ ~missing)
                  /\ paths' = Taken(p)
                  /\ str' = Second(str)
                  /\ UNCHANGED <<call, input, mode, result>>
    /\ UNCHANGED <<at, entries>>

\* A turn of the loop that logs the rest: each turn splits the same string
\* anew, and then its second part.  A turn that does not end the loop leaves
\* everything as it is, so the next one is the same.
LogStep ==
    /\ call = "log"
    /\ IF Second(Second(str)) = <<>> THEN Return(paths, FALSE)
       ELSE UNCHANGED <<call, input, str, mode, paths, existed, result>>
    /\ UNCHANGED <<at, entries>>

\* A defect: the delimiter at the end is left on.
Trimmed_Off(s) == s

\* Trim the delimiter in A:B:C:
Trimmed(s) ==
    IF s # <<>> /\ Last(s) = ":" THEN Front(s) ELSE s

\* The last component, behind the loop.
SplitLast ==
    /\ Splitting /\ Second(str) = <<>>
    /\ LET p == Trimmed(str)
       IN  Return(Taken(p), existed /\ (p = <<>> \/ Exists(p)))
    /\ UNCHANGED <<at, entries>>

-----------------------------------------------------------------------------
(* AddIncludePaths and CopyIncludePaths.                                   *)

CallAddIncludePaths(s) == SplitStart("include", s, s, "allow")

\* A defect: paths that are there are added again.
Unknown_All(p) == TRUE

\* Paths the options have already are not added.
Unknown(p) == \A i \in DOMAIN entries : entries[i].path # p

AddIncludePaths ==
    /\ call = "add"
    /\ LET new == Kept(paths, {i \in DOMAIN paths : Unknown(paths[i])})
       IN  entries' = entries \o [i \in DOMAIN new |->
                                    Entry(new[i], "Angled", FALSE)]
    /\ call' = "idle"
    /\ input' = <<>> /\ str' = <<>> /\ paths' = <<>> /\ existed' = TRUE
    /\ UNCHANGED <<at, mode, result>>

IsSystem(e) == e.group \in {"System", "IndexHeaderMap", "CSystem"}

\* A defect: the map's flag comes without the flag of its directory.
Flag_MapAlone(e) ==
    CASE e.group = "After" -> <<"-idirafter">>
      [] e.group = "Quoted" -> <<"-iquote">>
      [] e.group = "System" -> <<"-isystem">>
      [] e.group = "CSystem" -> <<"-isystem">>
      [] e.group = "IndexHeaderMap" -> <<"-index-header-map">>
      [] e.group = "Angled" -> <<IF e.framework THEN "-F" ELSE "-I">>

\* The flags of an entry; the other languages' system groups are like CSystem.
Flag(e) ==
    CASE e.group = "After" -> <<"-idirafter">>
      [] e.group = "Quoted" -> <<"-iquote">>
      [] e.group = "System" -> <<"-isystem">>
      [] e.group = "CSystem" -> <<"-c-isystem">>
      [] e.group = "IndexHeaderMap" ->
           <<"-index-header-map", IF e.framework THEN "-F" ELSE "-I">>
      [] e.group = "Angled" -> <<IF e.framework THEN "-F" ELSE "-I">>

\* The part of CopyIncludePaths that concerns user entries.
CopyIncludePaths(withSystem, withFlags) ==
    LET Flags(e) == [i \in DOMAIN Flag(e) |-> <<Flag(e)[i]>>]
        Args(e) == IF IsSystem(e) /\ ~withSystem THEN <<>>
                   ELSE (IF withFlags THEN Flags(e) ELSE <<>>) \o <<e.path>>
        copied[i \in 0..Len(entries)] ==
          IF i = 0 THEN <<>> ELSE copied[i - 1] \o Args(entries[i])
    IN  copied[Len(entries)]

-----------------------------------------------------------------------------
(* LookForFile.  "-I" is one character, and stands for "/I" too.           *)

IsAbsolute(p) == p[1] = "/"

\* path::append(dir, p), for a p that is not empty.
Join(dir, p) ==
    IF dir = <<>> THEN p
    ELSE IF Last(dir) = "/" THEN dir \o (IF p[1] = "/" THEN Tail(p) ELSE p)
    ELSE IF p[1] = "/" THEN dir \o p
    ELSE dir \o <<"/">> \o p

IsInclude(arg) == arg # <<>> /\ arg[1] = "-I"

\* A defect: the argument of a bare -I is looked at again.
NextArg_Again(args, i) == i + 1

\* A bare -I takes the next argument with it, whatever that is.
NextArg(args, i) == IF IsInclude(args[i]) /\ Len(args[i]) = 1 THEN i + 2 ELSE i + 1

\* The directory that the turn of the loop at the i-th argument looks into.
SearchDir(args, i) ==
    IF Len(args[i]) > 1 THEN Tail(args[i]) ELSE args[i + 1]

\* That turn finds the file p; a bare -I at the end names no directory.
Finds(args, p, files, i) ==
    /\ IsInclude(args[i])
    /\ Len(args[i]) > 1 \/ i < Len(args)
    /\ Join(SearchDir(args, i), p) \in files

\* The turn that ends the loop over the arguments, behind them all if there
\* is no file.
LastTurn(args, p, files) ==
    LET last[i \in 1..Len(args) + 2] ==
          IF i > Len(args) \/ Finds(args, p, files, i) THEN i
          ELSE last[NextArg(args, i)]
    IN  last[1]

\* FileManager::FixupRelativePath.
Fixes(p) == WorkingDir # <<>> /\ ~IsAbsolute(p)

\* Where the file is, or <<>> if it is not found.
FoundAt(args, p, fm, files) ==
    LET fixed == Join(WorkingDir, p)
        turn == LastTurn(args, p, files)
    IN  IF p \in files THEN p
        ELSE IF fm /\ Fixes(p) /\ fixed \in files THEN fixed
        ELSE IF (~fm /\ IsAbsolute(p)) \/ turn > Len(args) THEN <<>>
        ELSE Join(SearchDir(args, turn), p)

LookForFile(args, p, fm, files) ==
    /\ LET found == FoundAt(args, p, fm, files)
       IN  result' = [call |-> "look", args |-> args, path |-> p, fm |-> fm,
                      files |-> files, all |-> found # <<>>,
                      value |-> IF found = <<>> THEN p ELSE found]
    /\ UNCHANGED <<call, input, str, at, mode, paths, existed, entries>>

-----------------------------------------------------------------------------
(* What the components of a list are, by their places.                     *)

\* The places where components start, and the component that starts there.
Starts(s) == {i \in DOMAIN s : s[i] # ":" /\ (i = 1 \/ s[i - 1] = ":")}

ComponentAt(s, i) ==
    LET d == Find(":", s, i) IN SubSeq(s, i, IF d = 0 THEN Len(s) ELSE d - 1)

\* f leads from the places of a list through all of P, in their order.
Ascends(f, P) ==
    /\ \A i, j \in DOMAIN f : i < j => f[i] < f[j]
    /\ P = {f[i] : i \in DOMAIN f}

\* list holds the components of s that start at P, in their order.
Collects(list, s, P) ==
    \E f \in [DOMAIN list -> P] :
       Ascends(f, P) /\ \A i \in DOMAIN list : list[i] = ComponentAt(s, f[i])

\* A list that names no path twice, unless clients may do that.
Listable(s) ==
    "twice" \notin Misuse =>
      \A i, j \in Starts(s) : ComponentAt(s, i) = ComponentAt(s, j) => i = j

\* What the loader prints for one search path, or for that and LD_LIBRARY_PATH.
OneSearchPath(out) ==
    LET to == Find("S", out, 1)
        starts == {i \in 1 .. to : Find("L", out, 1) <= i /\ out[i] = "="}
    IN  to # 0 => \E i \in starts : \A j \in starts : j = i

ASSUME LoaderAssumption ==
    "runpath" \notin Misuse => \A out \in Outputs : OneSearchPath(out)

\* No path begins like a flag of the compiler: CopyIncludePaths could not be
\* read otherwise.
PathsAreNoFlags ==
    /\ \A s \in IncludeLists : \A i \in DOMAIN s : s[i] \notin FlagWords
    /\ \A e \in Preset : e.path # <<>> /\ e.path[1] \notin FlagWords

\* No value of a variable holds a dollar sign behind its first character,
\* which would be expanded again.
ValuesAreFinal ==
    \A name \in DOMAIN Env : \A i \in DOMAIN Env[name] : i > 1 => Env[name][i] # "$"

Init ==
    /\ call = "idle"
    /\ input = <<>> /\ str = <<>> /\ at = 0
    /\ mode = "allow" /\ paths = <<>> /\ existed = TRUE
    /\ entries \in {<<>>} \cup {<<e>> : e \in Preset}
    /\ result = NoResult

Step == ExpandStep \/ ExpandReturn \/ SplitStep \/ LogStep \/ SplitLast
          \/ AddIncludePaths

\* Calls that leave the options alone.
Plain ==
    /\ Idle /\ entries = <<>>
    /\ \/ \E s \in Strings : CallExpand(s)
       \/ \E s \in Lists, md \in Mode : CallSplit(s, md)
       \/ \E out \in Outputs : CallGetSystemLibraryPaths(out)
       \/ \E args \in ArgLists, p \in Names, fm \in BOOLEAN, files \in FileSets :
            LookForFile(args, p, fm, files)

Include ==
    /\ Idle
    /\ \E s \in IncludeLists :
         /\ Listable(s)
         /\ Len(entries) + Cardinality(Starts(s)) <= MaxEntries
         /\ CallAddIncludePaths(s)

Next == Plain \/ Include \/ Forget \/ Step

\* A call that has begun goes on.
Spec == Init /\ [][Next]_vars /\ WF_vars(Step)

-----------------------------------------------------------------------------
(* Properties.                                                             *)

\* Places of components that exist, and of those with nothing missing up to
\* them.
ExistingIn(s) == {i \in Starts(s) : Exists(ComponentAt(s, i))}

UnbrokenIn(s) == {i \in Starts(s) : \A j \in Starts(s) : j <= i => j \in ExistingIn(s)}

\* The answer of SplitPaths: the components between delimiters, none empty,
\* in order, those that do not exist left out unless all are asked for, in the
\* failing mode those in front of the first that does not exist, and whether
\* all existed.
SplitIsRight ==
    result.call = "split" =>
      LET s == result.input
      IN  /\ result.all = (ExistingIn(s) = Starts(s))
          /\ Collects(result.value, s, CASE result.mode = "allow" -> Starts(s)
                                         [] result.mode = "prune" -> ExistingIn(s)
                                         [] OTHER -> UnbrokenIn(s))

\* GetSystemLibraryPaths gives the directories that exist in the search path
\* that the loader names last before the words for the system, in order.
LibrariesAreRight ==
    result.call = "libraries" =>
      LET out == result.input
          to == Find("S", out, 1)
          starts == {i \in 1 .. to : out[i] = "="}
          from == CHOOSE i \in starts : \A j \in starts : j <= i
          text == Unspaced(SubSeq(out, from + 1, to - 1))
      IN  IF to = 0 THEN result.value = <<>>
          ELSE Collects(result.value, text, ExistingIn(text))

\* ExpandEnvVars replaces, in each part between slashes, the text from the
\* first dollar sign on by the value of the variable it names, and says of the
\* expansion, not of the text it came from, whether it exists.
ExpandIsRight ==
    result.call = "expand" =>
      LET in == result.input
          Named(i) == \E j \in 1..i : in[j] = "$" /\ \A k \in j..i : in[k] # "/"
          Name(i) == LET slash == Find("/", in, i)
                     IN  SubSeq(in, i + 1, IF slash = 0 THEN Len(in) ELSE slash - 1)
          New(i) == IF ~Named(i) THEN <<in[i]>>
                    ELSE IF ~Named(i - 1) THEN Value(Name(i))
                    ELSE <<>>
          expanded[i \in 0..Len(in)] ==
            IF i = 0 THEN <<>> ELSE expanded[i - 1] \o New(i)
      IN  /\ result.value = expanded[Len(in)]
          /\ result.path => result.all = (expanded[Len(in)] \in Directory)

\* LookForFile leaves the path alone unless it finds the file, first where it
\* is named, then in the working directory of the FileManager, then in the
\* directories of the arguments, the first of them first.  An argument is the
\* directory of the bare -I before it unless that is such a directory itself.
LookupIsRight ==
    result.call = "look" =>
      LET args == result.args
          Bare(i) == args[i] = <<"-I">>
          operand[i \in 0..Len(args)] ==
            IF i <= 1 THEN FALSE ELSE Bare(i - 1) /\ ~operand[i - 1]
          Dir(i) == IF operand[i] THEN args[i] ELSE Tail(args[i])
          Named(i) == operand[i] \/ (IsInclude(args[i]) /\ ~Bare(i))
          In(i) == Join(Dir(i), result.path)
          hits == {i \in DOMAIN args : Named(i) /\ In(i) \in result.files}
          There(c) == result.all /\ result.value = c
      IN  IF result.path \in result.files THEN There(result.path)
          ELSE IF ~result.fm /\ IsAbsolute(result.path)
            THEN ~result.all /\ result.value = result.path
          ELSE IF result.fm /\ Fixes(result.path)
                    /\ Join(WorkingDir, result.path) \in result.files
            THEN There(Join(WorkingDir, result.path))
          ELSE IF hits = {} THEN ~result.all /\ result.value = result.path
          ELSE \E i \in hits : (\A j \in hits : i <= j) /\ There(In(i))

\* No include path is searched twice, whatever the compiler had to start with
\* and whatever is added call after call.
NoDuplicates ==
    IsInjective([i \in DOMAIN entries |-> entries[i].path])

\* What a compiler makes of the i-th argument, which is no flag.
ReadEntry(args, i) ==
    LET Before(k) == IF k >= 1 THEN args[k][1] ELSE "none"
    IN  Entry(args[i],
              CASE Before(i - 1) = "-idirafter" -> "After"
                [] Before(i - 1) = "-iquote" -> "Quoted"
                [] Before(i - 1) = "-isystem" -> "System"
                [] Before(i - 1) = "-c-isystem" -> "CSystem"
                [] Before(i - 2) = "-index-header-map" -> "IndexHeaderMap"
                [] OTHER -> "Angled",
              Before(i - 1) = "-F")

\* The arguments mean the entries at the places P, in their order.
MeansEntries(args, P) ==
    LET places == {i \in DOMAIN args : args[i][1] \notin FlagWords}
    IN  \E f \in [P -> places] :
          Ascends(f, places) /\ \A k \in P : ReadEntry(args, f[k]) = entries[k]

\* The arguments that CopyIncludePaths makes mean the same entries to the
\* compiler that reads them, in the same order.
CopyMeansTheSame ==
    /\ MeansEntries(CopyIncludePaths(TRUE, TRUE), DOMAIN entries)
    /\ MeansEntries(CopyIncludePaths(FALSE, TRUE),
                    {i \in DOMAIN entries : ~IsSystem(entries[i])})

\* Every call returns, that of SplitPaths which is "exiting early" but logs the
\* rest first included.
Returns == (call # "idle") ~> (call = "idle")

=============================================================================
