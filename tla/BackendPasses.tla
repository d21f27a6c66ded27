---------------------------- MODULE BackendPasses ----------------------------
(***************************************************************************)
(* The passes that prepare an LLVM module for a JIT that already holds     *)
(* others, and what the JIT then makes of its symbols.                     *)
(*                                                                         *)
(* A module is a function from the names of its globals to their           *)
(* descriptions.  Every pass treats each global by itself, so running the  *)
(* passes one after the other is composing the operators below.  Module    *)
(* loading, unloading and the optimiser are not defined in the repository; *)
(* they are modelled as the passes rely on them: of several weak           *)
(* definitions the JIT keeps the first, and the optimiser may drop what    *)
(* is discardable.                                                         *)
(***************************************************************************)
EXTENDS Integers, Sequences, SequencesExt, FiniteSets

CONSTANTS
    Name,       \* names of globals
    Typeinfo,   \* those that start with _ZT
    Str,        \* those that start with .str
    Structor,   \* those of CUDA constructors, destructors and handles
    Host,       \* those the process or a shared library defines
    Mod,        \* slots for loaded modules
    NoMod,
    Module,     \* what CodeGen emits
    Level,      \* optimisation levels asked for
    CudaFile,   \* is a GPU binary given?
    DisableLLVMPasses,
    Misuse      \* "unload": modules are removed in any order

Linkage == {"external", "externweak", "weakany", "weakodr", "linkonce",
            "internal", "private", "available"}

\* def: has a definition; near: dso_local or not of default visibility;
\* big: a function of 50 instructions or more, or a variable.
Global == [def : BOOLEAN, link : Linkage, near : BOOLEAN, big : BOOLEAN,
           fun : BOOLEAN]

ASSUME BackendAssumption ==
    /\ Typeinfo \cup Str \cup Structor \cup Host \subseteq Name
    /\ Structor \cap Str = {}
    /\ NoMod \notin Mod
    /\ Level \subseteq Int
    /\ \A m \in Module : DOMAIN m \subseteq Name /\ m \in [DOMAIN m -> Global]
    /\ CudaFile \in BOOLEAN /\ DisableLLVMPasses \in BOOLEAN
    /\ Misuse \subseteq {"unload"}

\* A name with the suffix of a module is none that CodeGen emits.
ASSUME SuffixAssumption == Name \cap (Structor \X Mod) = {}

\* CodeGen gives every module CUDA structors and handles of its own.
ASSUME StructorAssumption ==
    \A m \in Module : \A n \in DOMAIN m \cap Structor :
      m[n].def /\ m[n].link = "internal"

VARIABLES
    built,   \* per level the module its pass managers were made with, if any
    ran,     \* the level of the last module run
    source,  \* what CodeGen emitted for each loaded module
    loaded,  \* what the passes and the optimiser made of it
    order,   \* the loaded modules, oldest first
    owner    \* the module whose definition of a symbol the JIT uses

vars == <<built, ran, source, loaded, order, owner>>

\* A symbol is a name, or a name with the suffix of a module.
Symbol == Name \cup (Structor \X Mod)

Empty == [n \in {} |-> 0]

-----------------------------------------------------------------------------
(* Linkage, as LLVM defines it.                                            *)

isLocalLinkage(g) == g.link \in {"internal", "private"}

isDiscardableIfUnused(g) ==
    isLocalLinkage(g) \/ g.link \in {"linkonce", "available"}

isWeakForLinker(g) ==
    g.link \in {"linkonce", "weakany", "weakodr", "externweak"}

\* What a module contributes to the symbol table of the JIT.
Emits(g) == g.def /\ ~isLocalLinkage(g) /\ g.link # "available"

Strong(g) == Emits(g) /\ ~isWeakForLinker(g)

-----------------------------------------------------------------------------
(* The passes, for the global g of name n.                                 *)

\* A defect: the pass is not run.
KeepLocalGV_Off(n, g) == g

KeepLocalGV(n, g) ==
    IF g.def /\ n \notin Str /\ isDiscardableIfUnused(g)
         /\ g.link = "internal"
      THEN [g EXCEPT !.link = "weakany"] ELSE g

PreventLocalOpt(g) ==
    IF g.def THEN g
    ELSE [g EXCEPT !.link = IF isLocalLinkage(g) THEN "external" ELSE @,
                   !.near = FALSE]

\* A defect: the pass is not run.
WeakTypeinfoVTable_Off(n, g) == g

\* Declarations are not excepted.
WeakTypeinfoVTable(n, g) ==
    IF ~g.fun /\ g.link = "external" /\ n \in Typeinfo
      THEN [g EXCEPT !.link = "weakany"] ELSE g

doesSymbolAlreadyExist(n) == owner[n] # NoMod

\* A defect: a weak symbol is taken to exist.
shouldRemoveGlobalDefinition_Always(n, g) ==
    isDiscardableIfUnused(g) /\ isWeakForLinker(g)

shouldRemoveGlobalDefinition(n, g) ==
    /\ isDiscardableIfUnused(g) /\ isWeakForLinker(g)
    /\ doesSymbolAlreadyExist(n) \/ n \in Host

\* deleteBody makes a function external, setInitializer leaves the linkage.
ReuseExistingWeakSymbols(n, g) ==
    IF g.def /\ g.big /\ shouldRemoveGlobalDefinition(n, g)
      THEN [g EXCEPT !.def = FALSE,
                     !.link = IF g.fun THEN "external" ELSE @]
      ELSE g

\* A defect: names are left as they are.
UniqueCUDAStructorName_Off(n, g, mod) == n

\* The name that g has in the JIT; of variables, only definitions change.
UniqueCUDAStructorName(n, g, mod) ==
    IF CudaFile /\ n \in Structor /\ (g.fun \/ g.def) THEN <<n, mod>> ELSE n

Passed(n, g) ==
    ReuseExistingWeakSymbols(n,
      WeakTypeinfoVTable(n, PreventLocalOpt(KeepLocalGV(n, g))))

\* The module m after the passes, in the slot mod.
AfterPasses(m, mod) ==
    LET new(n) == UniqueCUDAStructorName(n, Passed(n, m[n]), mod)
    IN  [s \in {new(n) : n \in DOMAIN m} |->
           Passed(CHOOSE n \in DOMAIN m : new(n) = s,
                  m[CHOOSE n \in DOMAIN m : new(n) = s])]

-----------------------------------------------------------------------------
(* Pass managers.                                                          *)

Clamp(l) == IF l < 0 THEN 0 ELSE IF l > 3 THEN 3 ELSE l

\* CreatePasses fills the slot of level 0 if LLVM's passes are disabled.
CreatePasses(l) == IF DisableLLVMPasses THEN 0 ELSE l

-----------------------------------------------------------------------------
(* The JIT.                                                                *)

\* The optimiser may drop definitions that are discardable.
Optimised(m) ==
    {[s \in DOMAIN m \ gone |-> m[s]] :
       gone \in SUBSET {s \in DOMAIN m : m[s].def /\ isDiscardableIfUnused(m[s])}}

\* CodeGen refers to what exists, and defines a strong symbol once; only
\* typeinfo and vtables (_ZT also starts the names of thunks, which are
\* functions) come with every module that needs them.
Compilable(m) ==
    \A n \in DOMAIN m :
      /\ ~m[n].def => n \in Host \/ owner[n] # NoMod
      /\ Strong(m[n]) /\ (n \notin Typeinfo \/ m[n].fun) => owner[n] = NoMod

\* The module is compiled at level l and added to the JIT.
runOnModule(mod, m, l) ==
    /\ mod \notin ToSet(order)
    /\ Compilable(m)
    /\ ran' = Clamp(l)
    /\ built' = IF built[Clamp(l)] # NoMod THEN built
                ELSE [built EXCEPT ![CreatePasses(Clamp(l))] = mod]
    /\ source' = [source EXCEPT ![mod] = m]
    /\ \E out \in Optimised(AfterPasses(m, mod)) :
         /\ loaded' = [loaded EXCEPT ![mod] = out]
         /\ owner' = [s \in Symbol |->
              IF owner[s] = NoMod /\ s \in DOMAIN out /\ Emits(out[s])
                THEN mod ELSE owner[s]]
    /\ order' = Append(order, mod)

\* Transactions are unloaded latest first.
removeModule(i) ==
    /\ i = Len(order) \/ "unload" \in Misuse
    /\ LET mod == order[i]
       IN  /\ source' = [source EXCEPT ![mod] = Empty]
           /\ loaded' = [loaded EXCEPT ![mod] = Empty]
           /\ owner' = [s \in Symbol |->
                IF owner[s] = mod THEN NoMod ELSE owner[s]]
    /\ order' = RemoveAt(order, i)
    /\ UNCHANGED <<built, ran>>

Init ==
    /\ built = [l \in 0..3 |-> NoMod]
    /\ ran = 0
    /\ source = [mod \in Mod |-> Empty]
    /\ loaded = [mod \in Mod |-> Empty]
    /\ order = <<>>
    /\ owner = [s \in Symbol |-> NoMod]

Next ==
    \/ \E mod \in Mod, m \in Module, l \in Level : runOnModule(mod, m, l)
    \/ \E i \in DOMAIN order : removeModule(i)

Spec == Init /\ [][Next]_vars

-----------------------------------------------------------------------------
(* Properties.                                                             *)

\* The variables have their types, and a level is one of the four.
TypeOK ==
    /\ built \in [0..3 -> Mod \cup {NoMod}]
    /\ ran \in 0..3
    /\ source \in [Mod -> Module \cup {Empty}]
    /\ DOMAIN loaded = Mod
    /\ \A mod \in Mod : \A s \in DOMAIN loaded[mod] :
         s \in Symbol /\ loaded[mod][s] \in Global
    /\ order \in Seq(Mod) /\ IsInjective(order)
    /\ owner \in [Symbol -> Mod \cup {NoMod}]

\* The JIT linker is never given two strong definitions of one symbol, and a
\* strong one is the one it uses: internal symbols, typeinfo and vtables that
\* come with several modules do not clash.
NoDuplicates ==
    \A mod \in Mod : \A s \in DOMAIN loaded[mod] :
      Strong(loaded[mod][s]) => owner[s] = mod

\* Whatever a loaded module refers to is defined by a loaded module or the
\* process: a definition is only dropped in favour of one that stays.
Resolved ==
    \A mod \in Mod : \A s \in DOMAIN loaded[mod] :
      \/ owner[s] # NoMod
      \/ s \in Host
      \/ loaded[mod][s].def /\ ~Emits(loaded[mod][s])

\* The named internal symbols of a loaded module can be found by the modules
\* that come after it, whatever the optimiser drops: the input of one line
\* is used by the next.
LocalsKept ==
    \A mod \in Mod : \A n \in DOMAIN source[mod] :
      LET g == source[mod][n]
      IN  g.def /\ g.link = "internal" /\ n \notin Str =>
            owner[UniqueCUDAStructorName(n, g, mod)] # NoMod

\* Every module's CUDA constructors, destructors and handles are its own and
\* not those of a module before it.
OwnStructors ==
    CudaFile => \A mod \in Mod : \A n \in DOMAIN source[mod] \cap Structor :
      source[mod][n].def =>
        \E s \in DOMAIN loaded[mod] : /\ owner[s] = mod
                                      /\ s = n \/ s = <<n, mod>>

\* No declaration is taken to be near when the passes are over, as
\* PreventLocalOptPass means it: the definition may lie anywhere.  What
\* ReuseExistingWeakSymbols turns into a declaration comes too late for it.
NothingNear ==
    \A mod \in Mod : \A s \in DOMAIN loaded[mod] :
      ~loaded[mod][s].def => ~loaded[mod][s].near

\* The pass managers of the level that runs exist.
ManagersBuilt == order # <<>> => built[ran] # NoMod
=============================================================================
