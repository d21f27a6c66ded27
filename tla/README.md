# A TLA+ model of cppinterp

cppinterp is a C++ interpreter library built on Clang and LLVM: values that
outlive the code that computed them, transactions of declarations, a lexer for
meta commands, passes over the modules handed to the JIT, and helpers for
paths, the platform and snapshots of the compiler's state. The repository
holds declarations for more than it implements; what has no implementation is
modelled only as far as the implemented code relies on it.

## 1. The system

| component | files | state it keeps | operations | who it talks to |
|---|---|---|---|---|
| Value, AllocatedValue | `lib/Interpreter/Value.cc`, `include/.../Value.h` | type kind, storage, managed flag; per payload a counter, a destructor, the number of elements, a canary | constructors, copy and move, assignment, destruction, Retain, Release | compiled user code (constructors, destructors), the interpreter (`compileDtorCallFor`) |
| Transaction | `Transaction.cc/.h` | state, diagnostics level, declaration and macro queues, nested and parent transactions, module, options | append, setState, setIssuedDiags, addNested, removeNested, clear, ... | the incremental parser, which begins, ends and commits it, and the pool that re-uses it |
| Scopes of the Interpreter | `Interpreter.cc`, `Interpreter.h` | the transaction of the scope, whether it was popped, saved parser flags | PushTransactionRAII, pop, StateDebuggerRAII, InputFlagsRAII | IncrementalParser, ClangInternalState |
| MetaLexer | `MetaLexer.cc/.h` | cursor into the line | lex and its parts, LexRAII | the (undeclared) meta parser |
| Backend passes | `BackendPasses.cc/.h` | cached pass managers per level; linkage of globals | KeepLocalGV, PreventLocalOpt, WeakTypeinfoVTable, UniqueCUDAStructor, ReuseExistingWeakSymbols, runOnModule | IncrementalJIT (symbol lookup, addModule) |
| IncrementalJIT | `IncrementalJIT.h` | SharedAtomicFlag, unload maps | addModule, lookup, removal | declared only, except SharedAtomicFlag |
| Platform | `Platform.cc/.h` | a thread's ring of validated pages | IsMemoryValid, Popen, DLOpen/DLSym, GetSystemLibraryPaths, ... | the kernel, the dynamic loader |
| Paths | `Paths.cc/.h` | header search options (Clang's) | ExpandEnvVars, SplitPaths, AddIncludePaths, LookForFile, CopyIncludePaths | the environment, the file system |
| ClangInternalState | `ClangInternalState.cc/.h` | a snapshot in five temporary files | store, compare, the print functions | file system, `diff` through Popen |
| AST helpers | `AST.cc/.h` | none (rewrites a function body) | IsWrapper, MaybeMangleDeclName, GetOrCreateLastExpr | Sema |
| ASTTransformer, DeclCollector | `ASTTransformer.cc/.h`, `DeclCollector.h` | consumer, current transaction, transformer lists | Transform, Emit, SetTransformers | the parser |
| Options, output, casts | `CompilationOptions.h`, `InvocationOptions.h`, `RuntimeOptions.h`, `Output.h`, `Casting.h`, `PrintHelper.h` | plain data | comparison, printing, casts | everything |


Two mechanisms join the parts. *Callbacks*: releasing a Value runs destructors
of interpreted code, and these use Values. *Scope objects*: every entry into
the compiler is bracketed by C++ objects that begin and end a transaction,
compare snapshots, or restore flags, and these nest as the calls do. The rest
is calls: the parser hands a transaction's module to the backend passes and
then to the JIT; options and paths are read when the compiler is set up.

### What is hard, and what is correct

The program is sequential but for `IncrementalJIT`, of which no code that runs
is in the repository; what is hard is re-entrance, long sequences of legal
calls, and boundaries.

* **Value.** `operator=` releases the old payload before it copies the new
  fields; `Release` runs user destructors in between, which may assign and
  destroy other Values. Correct means: the counter is the number of Values
  that hold a payload at every moment of every such nesting, nothing leaks,
  every destructor is called once on an object that exists, and a payload
  that lost its last Value is given back. Payload layout (element count,
  stride, padding to the canary) and the C++ type it was computed from have to
  agree.
* **Transactions and scopes.** Blocks are re-used, the parser's current
  transaction is a global, and scopes hold raw pointers to it. Correct means:
  scopes and the tree of nested transactions stay in step, a scope ends its
  own transaction and nobody else's, errors of a nested transaction keep its
  parents from being committed, nothing of a block's former life shows, and
  every transaction that is begun is ended.
* **MetaLexer.** It advances before it looks. Correct means: tokens tile the
  line, are the longest of their kind, nothing is read behind the NUL, and
  looking ahead leaves no trace.
* **Backend passes.** The linkage of globals is rewritten so that many modules
  can share one symbol table. Correct means: no symbol is strong twice, what a
  module refers to stays defined, an internal symbol of one line is visible to
  the next, constructors of CUDA modules stay apart; and the pass managers that
  are used are those that were made, for the module that is compiled.
* **Paths.** Correct means: agreement with a definition by components instead
  of by loop, and that every call returns.
* **Platform: memory check.** Every thread answers from its own cache, and
  other threads map and unmap pages meanwhile. Correct means: an answer is
  right when the kernel gives it, and a stale one comes only from the few
  pointers that were found valid last.
* **ClangInternalState (with Popen).** A snapshot is five temporary files; files
  may fail to be made, `diff` may fail to start, a signal may end the process
  between any two steps. Correct means: a comparison reports what changed and
  nothing else, every file is removed, once, and not too early.
* **AST helpers.** Correct means: the expression that is found or inserted is
  the value of the line, stands where the index says, and is inserted once
  however often it is asked for.

`PROJECT.json` lists these hazards at the lines where they bite.

## 2. Plan

Modules in the order of their importance; all of these exist.

1. `ManagedValue`, `PayloadLayout`, `SharedPayload`, `ValueTypes`: the only part
   whose mistakes corrupt memory. `ManagedValueProofs` proves, in this order, the
   counting, the destructors and objects in payloads, that `SharedPayload` is
   implemented, and that `ValueTypes` yields the layouts the proofs assume.
2. `Transactions` and `TransactionStack`: transactions and the scopes that open and
   close them, and what these promise, with `TransactionsProofs`.
3. `MetaLexer`, with `MetaLexerProofs`. 4. `BackendPasses`, with
   `BackendPassesProofs`. 5. `Paths`, which also composes `GetSystemLibraryPaths`
   of Platform with `SplitPaths`, with `PathsProofs`.
6. `PointerCheck`: threads, mapped pages and a cache per thread, with
   `PointerCheckProofs`.
7. `ClangInternalState`, which composes the snapshots with `Popen` of Platform,
   with `ClangInternalStateProofs`.
8. `LastExpr`: `GetOrCreateLastExpr` on lists of statements, with `LastExprProofs`.

What would come next: an action for `setPtr` on managed Values, and Values that
live inside payloads; `ClangInternalState` in place of the event by which
`Transactions` stands for a comparison; and a *set of valid pages* as an
abstract specification that `PointerCheck` implements, with a proof of the
refinement.

The project is kept small enough to be rerun as a whole: eight runs that pass,
with some forty properties, and four that show a disagreement of the code with
what it says of itself. A module that is added takes the place of weaker
properties, or shares a run, as `ManagedValue`, `ValueTypes` and `LastExpr` do.

## 3. The modules and the code

### ManagedValue (with PayloadLayout and SharedPayload)

| model | code |
|---|---|
| `handle[h]` | a `Value`: whether it is alive, its `TypeKind`, and the cell its `storage_.ptr_` manages |
| `heap[c]` | an `AllocatedValue`: `ref_cnt_` (`cnt`), `elems_num_` (`left`), its layout, the canary (`touched`), and which offsets hold objects (`built`) |
| `stack` | the C++ stack: assignments and destructions in progress, each with the place it has reached |
| `DefaultConstruct`, `ConstructPlain`, `ConstructManaged` | the constructors, `CreatePayload` included |
| `Construct` | the placement of the objects in the payload by compiled code |
| `CopyConstruct`, `MoveConstruct`, `Begin`, `Finish` | copy and move constructors, both `operator=`, the destructor |
| `ReleaseStart`, `DestroyElem`, `DeletePayload` | `Release`: decrement, the loop over the elements, `delete[]` |

An operation is atomic up to where it calls user code. New operations start when
none runs, or when the last one is inside a destructor. A freed block is free to
be reused at once; reading the counter of a freed block yields any value.
Payload bytes are not modelled, only at which offsets objects live;
`PayloadLayout` computes offsets, padding and stride the way `CreatePayload` and
`Release` do. `Misuse` names what clients might do beyond the contract:
`"self"`, assigning the only holder to itself; `"reentrant"`, destructors that
touch the very Value being assigned (with it `CountIsHolders` and `StackOK` do
not hold). `Constructions` says what a constructor may leave behind: `"full"`;
with `"silent"` (the first bytes not written, so that the canary stays)
`FreedDestroyed` does not hold, with `"thrown"` (an exception half-way)
`DestroysBuilt` does not: the canary is a heuristic. Nor does `DestroysBuilt`
hold with an array of objects smaller than the canary among the layouts:
`Release` takes the stride from the padded size, so that the destructor of a
`char`-sized element is called at 0 and 4 instead of 0 and 1 (`Strided` in
`ManagedValueProofs` says which layouts are right).

`SharedPayload` is the promise: payloads owned by sets of Values, without
counters or stack. The refinement maps a cell's owners to its `Holders`.

### ValueTypes

`Value(QualType, Interpreter&)`: kind, managed or not, number of elements,
presence of a destructor. Types are a base under array dimensions with the
amount of them the spelling shows, because `dyn_cast` on a `QualType` does not
look through typedef names and `getAs` does. With arrays of arrays or typedefs
of arrays of records among the types (`Every` in `MCEvaluation`)
`DestroysObjects` does not hold: `T[2][2]` and a typedef of
`T[2]` are given a payload but no destructor. `Handled` says which types the
code finds the objects of. Vector types wider than the storage are not managed
at all.

### Transactions (with TransactionStack)

| model | code |
|---|---|
| `txn[t]` | a block of the pool with the fields of `Transaction`; `failed` is history |
| `current` | the parser's current transaction |
| `frames` | the scope objects on the stack |
| `flags`, `debug` | `input_flags_`; `isPrintingDebug()` |
| `OpenScope`, `PopEarly`, `CloseScope` | `PushTransactionRAII`, `pop`, its destructor |
| `OpenDebugger`, `TakeSnapshot`, `Compare`, `CloseDebugger`, `CloseQuiet` | `StateDebuggerRAII`, which opens a scope around each snapshot |
| `OpenFlags`, `CloseFlags` | `InputFlagsRAII` |
| `AppendDecl`, `setDefinitionShadowNS`, `setIssuedDiags`, `clear`, `Destroy` | the members of `Transaction` |
| `beginTransaction`, `endTransaction`, `commitTransaction`, `release` | external: the parser is declared only, and modelled from how the scopes use it |

`Misuse` again names the calls beyond the contract: `"pop"`, popping a scope
early when its transaction is still there (the destructor pops again, possibly a
block that was re-used: `OwnTransaction` fails); `"clear"` on a transaction that
has nested ones (`FamilyTree` fails); `"lower"`, a milder diagnostics level than
the present one (after an error `ErrorsNotCommitted` fails). The actions do what
the members do, which ask for nothing; what clients keep to stands beside them
in `Next` (`MayClear`, `MaySet`). `clear` leaves the macros, so that a cleared
transaction need not be empty, although its comment (`Transaction.h:399`) says
that it clears all declarations, and the pointer to the shadow namespace, which
is then no longer queued and keeps `setDefinitionShadowNS` from accepting
another.

`Retired` is a block in the pool: its containers are gone, its plain fields keep
what they held (the diagnostics level among them) until `Initialize` resets
them. `OnlyErrorsRollBack` would see a level that is left over. `Destroy`
deletes what the lists of nested transactions name, as `~Transaction` does, not
what names the transaction as its parent; `FamilyTree` says that it is the same.

`TransactionStack` is the promise, without scope objects, parents, lists, levels
of diagnostics or a pool: units of input are open inside each other, only the
innermost takes input and ends, it is discarded only if neither it nor anything
begun inside it holds input, what had errors is not kept, and a topmost unit is
forgotten with everything begun inside it. The refinement maps the open units to
the transactions that scopes still collect into, the units around one to its
line of parents, and kept and undone ones to committed and rolled back ones.
Printing, flags, snapshots and the closing of a scope that was rolled back
change nothing for it. It holds without `"pop"`, `"clear"` and `"lower"`.

### MetaLexer

A line is a sequence of character classes and a NUL. One action per call that
moves the cursor; `Save` and `Restore` are the RAII look-ahead. `overrun`
records a read behind the NUL, `covered` (history) how far the tokens read
outside every look-ahead reach. A loop of the code that advances while the
character is of some set is the first place where it is not (`SkipWhile`); the
loop of `lexQuotedStringAndAdvance`, which takes two characters at a backslash,
is the recursive function of `QuoteEnd`. A line may not end in a backslash
unless `"backslash"` is in `Misuse`: there the code jumps over the NUL. Nor may
it have nine digits in a row unless `"digits"` is: `getConstant` sums the digits
with the weights of `kPow10`, which lacks 10^8 and 10^9, and `TokensAreRight`
then fails.

### BackendPasses

A module is a function from names to globals (defined or not, linkage, near,
big, function). Each pass of `CreatePasses` is an operator on one global and
`AfterPasses` composes them in the order of the code. `runOnModule` also takes
the step of the optimiser (which may drop what is discardable) and of the JIT
linker (the first weak definition wins), both external. `built` has, for each
level, the module with which its pass managers were made. `removeModule` removes
the module at a position of the load order: the last one, or any with `"unload"`
in `Misuse`. With that `Resolved` does not hold, as a definition was dropped in
favour of one that goes first.

What CodeGen is taken to do is stated as assumptions: CUDA structors are
internal definitions of their own module (`StructorAssumption`), and a name with
the suffix of a module is not emitted otherwise (`SuffixAssumption`). A suffix
is taken to tell modules apart: the code cleans the module's name of characters
that a symbol may not have, and the names are numbered. The modules of the runs
hold definitions that are `dso_local`, and `NothingNear` does not hold of them
(run `BackendNear`), because `ReuseExistingWeakSymbols` makes declarations after
`PreventLocalOptPass` has passed them by as definitions. The
function passes of a level stay bound to the first module that was compiled at
it, also for later modules and when it is gone: `built` keeps that module.
`ManagersBuilt` asks only that there is one; what the passes do with another is
LLVM's. `_ZT` names that are functions (thunks) are not touched
by `WeakTypeinfoVTablePass`, which looks at variables only.

### Paths

Strings are sequences of the characters the code looks at. The loops of
`ExpandEnvVars` and `SplitPaths` take one step per turn, so that "the call
returns" is a question; `LookForFile` and `AddIncludePaths` are one step each.
The loop of `LookForFile` over the arguments is the recursive function of
`LastTurn`: a turn is left with the file (`Finds`) or for the next argument, the
one behind the operand of a bare `-I` (`NextArg`). What the properties compare
with is said by places instead: `Starts` and `ComponentAt` for lists, `operand`
in `LookupIsRight` for arguments, `Ascends` for "in the same order".
`GetSystemLibraryPaths` of Platform is a client of `SplitPaths`: it takes its
text out of what the dynamic loader prints (`Popen` delivers it whole, see
ClangInternalState) and prunes what does not exist. `Misuse`: `"twice"` lets
clients add a list that names a path twice (`NoDuplicates` fails, although
`Paths.cc:272` says that duplicates are avoided: paths are compared with the
entries there were before the call); `"runpath"` lets the loader name a RUNPATH
(`LibrariesAreRight` fails: the text runs from behind `LD_LIBRARY_PATH` to the
system's path and holds whatever lies between); `LoaderAssumption` says what it
prints otherwise. Lists are split in every mode, verbosely too. In the failing
mode the loop that logs what is left (`LogStep`) starts again from the same
string in every turn: with two components or more behind the missing one it does
not end, which is what `PathsVerbose` shows of `Returns`. Nothing is claimed of
the loops that do end: their end is plain. Two more properties depend on the
data. `ExpandEnvVars` looks for the next dollar sign behind the last one, in the
value too, so that a value with a dollar sign behind its first character is
expanded again (`ValuesAreFinal` excludes that; a variable that names itself
there would be expanded for ever, in a string that grows without bound, which is
no instance for TLC). The answer of `ExpandEnvVars` is that of `fs::exists` if
the client asks for it. `CopyIncludePaths` writes paths as they are, so that a
path that begins like a flag is read as one (`PathsAreNoFlags`).

### PointerCheck

| model | code |
|---|---|
| `lines[t]`, `mostRecent[t]` | the `thread_local` `PointerCheck` of `IsMemoryValid`: its array and its index |
| `call[t]` | where a thread is in `IsMemoryValid`: before `msync`, before `push`, answered |
| `mapped` | the pages of the process, external |
| `pushed[t]` | history: the last pointers pushed, and whether their page went away since `msync` |

`Call` looks in the cache, `Msync` asks the kernel, `Push` enters the pointer
and answers; other threads, and `Map` and `Unmap`, run between. The lines begin
as null pointers, so that null is a hit and valid to a thread that has not
filled its lines, against `Platform.h:35`: `AnswersRight` says so, and names the
other answers that may be wrong.

### ClangInternalState (with Popen)

| model | code |
|---|---|
| `snaps` | the `ClangInternalState` objects alive: file names, whether there is a module, the pair of the last comparison; `seen` is history |
| `job` | the call in progress: making and registering file after file (`Making`), running `diff`, reading its output (`Reading`) |
| `disk`, `registered` | temporary files; those `RemoveFileOnSignal` knows |
| `Open`, `createUniqueFile`, `RemoveFileOnSignal`, `store`, `storeFails` | the constructor, `createOutputFile`, `store()` |
| `compare`, `Popen`, `ReadChunk`, `Compared` | `compare`, `differentContent`, the loop of `platform::Popen` |
| `Destroy` | the destructor |
| `Change`, `Signal` | external: the compiler goes on; the process is ended |

The print functions are operators from a state of the compiler to a text, a
sequence of lines: what they keep, drop, sort and build on the way. Of tables
that are still to be built (`pending`) a dump shows nothing (`Dumped`), so that
two snapshots of one compiler would differ if the traversal did not build them
first (`buildLookup`, in `Tables`), and `store` leaves them built. The macros
are never compared, because the call that prints them is commented out.
`createUniqueFile` may fail in the two ways the code tells apart, and `diff` may
fail to start; a stream that is null or was never opened ends the process when
it is written to, as it does in LLVM (`storeFails`). `module_` is read when
snapshots are compared, although the code may hold a pointer to a module that is
gone: the model takes the compiler's present one. A fresh file gets a name that
no file on the disk has (`UniquePath`); there is no bound on them. A name that
was removed stays in the code's list for signals; no file gets it again, so the
model drops it.

### LastExpr

A body is a sequence of statements: null ones, expressions, declarations with
the names they declare, others, and references that were inserted. One action,
`GetOrCreateLastExpr`, with the flag `omit_decl_stmts`. The documentation of
that flag (`AST.h:49`) says the opposite of the code, which inserts a reference
when it is *false*; the model follows the code. Bodies
without any statement but null ones are excluded (`BodyAssumption`): the code
reads `stmts[-1]`.

## 4. The runs

| run | instance | shows |
|---|---|---|
| `Evaluation`, part `"life"` | 3 Values, 2 cells, 4 layouts, 3 nested operations, counter modulo 4 | the counter is the number of holders, nothing leaks, destructors find their objects, `SharedPayload` is implemented, payloads are given back |
| `Evaluation`, part `"type"` | all bases; records with at most one dimension and no typedef names for dimensions, other bases with any | destruction reaches every object |
| `Evaluation`, part `"line"` | bodies of up to 4 statements, 2 variables | the value of the line is found; one reference at most is added |
| `ManagedValueSelf` | 2 Values, 1 cell, `Misuse = {"self"}` | **finding**: `v = v` on an only holder frees the payload it keeps |
| `TransactionsSafe` | 3 blocks, 3 scope objects | scopes and the tree of transactions stay in step, a scope keeps its transaction, errors and nothing else keep from being committed, `TransactionStack` is implemented (without liveness, hence with symmetry) |
| `TransactionsEnd` | 2 blocks, 2 scope objects, macros, shadow namespaces, flags | every transaction ends |
| `MetaLexer` | lines of 3 characters of all classes, 5 of quotes and backslashes, 8 digits | tokens, bounds, look-ahead |
| `BackendPasses` | two modules of one or two globals each of every sort, loaded and removed | symbols do not clash, references resolve, internal symbols are visible, structors stay apart |
| `BackendDisabled` | LLVM's passes disabled | **finding**: a null pass manager is used |
| `BackendNear` | as `BackendPasses` | **finding**: a declaration keeps the mark of a near definition |
| `Paths` | strings of up to five characters, lists of three components, four arguments, outputs of the loader | agreement with the definitions |
| `PathsVerbose` | as `Paths` | **finding**: verbose splitting in the failing mode may not return |
| `PointerCheck` | 2 threads, 2 lines, pages of 2 addresses, addresses 0, 2, 3, 4 | the cache is a queue without repetition; which answers may be out of date |
| `ClangInternalState` | 2 snapshots, 1 change, 1 fault, signals, chunks of 2 bytes, outputs of up to 3 | comparisons report what changed, files are removed, calls end |

`Evaluation` runs three modules that share no state, one after the other in the
life of a line of input: which expression is its value, what Value is made of
its type, how Values live. `MCEvaluation` takes the sum of their behaviours and
not the product: `part` says which module moves, the others stay where they
began. `ManagedValue` has its fairness there as in `FairSpec`.

Where a property is checked for less than the code accepts, the module or the MC
module names what was left out, and section 3 says which property fails with it.
These inputs are in no run: early pops, clearing a transaction with nested ones,
milder diagnostics, destructors that touch the Value being assigned,
constructors that throw or write nothing, arrays smaller than the canary, arrays
of arrays and under typedef names, a backslash at the end of a line, constants
of nine digits, modules removed out of order, lists that name a path twice, a
loader that names a RUNPATH, values of variables with a further dollar sign.
Some of them contradict what a comment of the code says, as section 3 tells; the
four disagreements that have a run are those where the program loops for ever,
uses what was freed or was never made, or passes on a wrong mark.

`CHECK_DEADLOCK FALSE` is set for
`ClangInternalState` alone: there the process may end.

**Bounds, and why they are enough.** Three Values: an assignment in progress has
a source and a destination, and a destructor inside it needs one more that is
neither. Two cells: an old and a new payload. Three nested operations: one
inside a destructor inside a destructor, and one that returns to both. The
counter wraps at 4 with 3 Values: `HandleAssumption` says that there are fewer
Values than counter values, as 2^32 Values are out of a process's reach; with
more Values than that `ref_cnt_` would wrap. Four layouts: one object, an array,
no destructor, no elements. Three blocks and three scopes: a transaction, one
nested in it, one nested in that, each of which may end in another order and be
re-used. Two modules: every pass looks at one global and at whether an earlier
module has it; the levels are one below the lowest and one above the highest, so
that two of the four slots are used. Five quotes and backslashes: an escaped
quote between two quotes behind a literal. Three components: one before, at and
behind the one that is missing, or two behind it. Eight digits: the constants up
to which the table of powers is right (constants of nine digits get a wrong
value). Two lines of cache and two threads: the ring wraps, and one thread's
page goes away while the other is between `msync` and `push`; of the four
addresses one is null, two share a page and one has a page of its own. Two
snapshots: one nested in the other, and each with the pair of a comparison. One
change tells what a comparison must report; one fault, at any step, on top of a
signal at any step. Chunks of two and outputs up to three: output that ends in a
chunk, at its end, and in the next one. Four statements: a declaration, a
reference put behind it, and null statements before and after. `MaxDepth`,
`MaxFrames`, `MaxSaved`, `MaxSnaps`, `MaxEntries`, `MaxChanges`, `MaxFaults` and
`MaxOutput` are the bounds in guards.

**Fairness.** `ManagedValue!FairSpec` has strong fairness of a step at each
depth of the stack: the code of an operation runs on, and a user destructor
that is entered returns at some time, which nothing in the code enforces but
every C++ program relies on. Strong, since at a depth the step is disabled
while operations nested in it run. `Transactions!FairSpec` likewise: control
leaves each block, so that the destructors of the scope objects run; this is
the C++ rule, also under exceptions. `Paths!Spec` has weak fairness of the steps
of a call that has begun: the calling thread is scheduled, as is that of
`ClangInternalState!Spec`, where `diff` ends too (its output is finite). Callers
are never fair: nobody has to call anything.

## 5. The proofs

Every theorem holds for all values of the constants that satisfy the modules'
named assumptions; further premises are part of the theorem. TLC evaluates the
assumptions in every run of the module.

**`ManagedValueProofs`**, for any sets of Values, cells and layouts, any
`CountLimit` above the number of Values and any depth of nesting:

* `TypeCorrect`: `Spec => []TypeOK`, whatever the clients do.
* `Inductive`: `Spec => []IInv` under `Misuse = {}`, with
  `IInv == TypeOK /\ StackOK /\ CountIsHolders /\ NoLeak`.
* `CountsHolders` and `NothingLeaks`: its last two conjuncts.
* `NestedStayApart`: its second one, `StackOK`, which is a property of its own.
* `ReleaseAsserts`: `CountPositive` (the assertion of `Release`) and `HeldIsLive`
  (no Value names freed memory) follow.

`CountIsHolders` alone is not inductive: a step of an assignment writes a
handle and decrements a cell that were chosen when the assignment began, and
other operations ran in between. `StackOK` says what they cannot have done:
the handle an operation is to write still has the cell it releases, no two
operations of the stack write the same handle or release what another reads,
and a cell that is being destroyed has no holder. The proof has one lemma per
action (`ConstructManagedOK`, `CopyConstructOK`, ..., `FinishCopyOK`), lemmas on
the stack (`PushStack`, `GotoStack`, `PopStack`) and on the counter (`IncExact`,
`DecExact`: the counter is exact where it does not wrap, which
`CountIsHolders` with `HandleAssumption` guarantees), and `Quiet` for steps that
touch neither handles nor counters.

In the same module, `ImplementsSharing` is `Spec => Abstract!Spec` under `Misuse
= {}`, the safety part of the property `Shared`. Under `IInv` the mapping
depends on the holders and on what is allocated alone (`Mapped`); there is one
lemma per abstract action, and one per place of the code that takes it:
construction acquires, copies share, moves hand over, the decrement of a release
leaves, `delete[]` reclaims, and every other step stutters. `OwnersExclusive`
carries an invariant of `SharedPayload` over.

Also there, under `InContract`: no misuse, constructors that run to their end,
and elements that fill the canary where there is a destructor.
`DestructorsFindObjects` is `Spec => []DestroysBuilt`, `NothingUndestroyed` is
`Spec => FreedDestroyed`. The invariant `PInv` adds to `IInv` that a touched
payload holds exactly the objects below its counter of elements, that only a
payload being destroyed has fewer than all, and that a release destroys where
there is something to destroy and deletes where there is not. `StrideIsRight` is
the arithmetic: for such layouts the quotient of the padded size is the size of
an element.

Its last part is about `ValueTypes`: `HandledTypesDestroyed` says that, for any
set of types all of which are `Handled`, `DestroysObjects` holds: the
constructor of `Value(QualType, ...)` yields a kind, a number of elements and a
destructor with which `Release` destroys exactly the objects of the type. A
handled type has one dimension at most, so that the product of its dimensions is
that one (`ProductOne`), and its layout is `Strided`, which `StrideIsRight`
needs.

**`TransactionsProofs`**, for any pool and any number of scopes, without `"pop"`
in `Misuse`: `ScopesStayNested` (`ScopesNest`) and `ScopesKeepTheirs`
(`OwnTransaction`), from `IInv == Types /\ Chain /\ OwnTransaction`. `Chain` is
`ScopesNest` said of each pair of neighbours among the scopes that were not
rolled back: the transaction of the innermost one is the parser's current one,
that of the outermost has no parent, that of each other is nested in its
neighbour's. `OwnTransaction` is needed with it, and it with `OwnTransaction`:
ending a transaction disturbs no neighbour only if no two scopes name one block,
and a block is fresh to a new scope only if no scope still names it. An early
pop breaks this, unless its transaction was rolled back.

Under `Misuse = {}` the same module proves `FamilyStaysTree` (`FamilyTree`),
`OnlyErrorsDo` (`OnlyErrorsRollBack`) and `ErrorsAreNotCommitted`
(`ErrorsNotCommitted`), from `TreeInv == IInv /\ Tree(txn) /\ Held`. `Tree` says
that parents and lists of nested transactions are inverse (`Listed`), that every
chain of parents stays among the blocks in use and ends at one without a parent
(`Planted`), that an error is known to the topmost parent (`Blamed`), and that a
topmost parent has the level of errors only if there were some in this life of
its tree (`Owing`, which `Initialize` is needed for). `Ancestors(par, t)` is the
least set closed under parents, so that its lemmas (`AncestorsLeast`,
`AncestorsTransitive`, `OneRoot`, and what becomes of it when a block joins,
leaves or a subtree is deleted) need no recursion. `Held` ties the tree to the
scopes: what collects has an open scope, and what a scope names collects or was
rolled back. `TreeInv` is kept by each operation on the pool by itself
(`BeginTree`, ...), and by the actions because they are compositions of these.

`ImplementsStack` is `Spec => Stacked`, the refinement of `TransactionStack`,
under the same premise. Under `TreeInv` the open units are what collects, and
`Line` is `Ancestors` (`Mapped`); the current transaction has exactly them above
it (`CurrentLine`), so it is the innermost unit (`CurrentInnermost`). There is
one lemma per kind of step: `Begins`, `Declares`, `Fails`, `Finishes`,
`Discards` (what has an empty list of nested transactions has nothing begun
inside it, by `AncestorHasChild`), `Forgets`, and `Pops`, where the innermost
scope that is not rolled back turns out to be the current transaction's, and an
error to have reached the level of diagnostics that decides
(`BlamedNotCommitted`). `UnitsAreDisciplined` carries an invariant of
`TransactionStack` over, `Disciplined`: the units around another are in order
and outlive it, and what is kept had no errors.

**`BackendPassesProofs`**, for any names, modules, levels and number of modules
loaded: `TypeCorrect`; `SymbolsDoNotClash` (`NoDuplicates`) and `StructorsApart`
(`OwnStructors`) in whatever order modules are removed; and, if they are removed
latest first, `ReferencesResolve` (`Resolved`) and `InternalsVisible`
(`LocalsKept`). `IInv` joins to
the first two that a slot without a module is empty (`Vacant`), that suffixed
symbols belong to the module of their suffix (`Suffixed`), and that internal
symbols were emitted by the module that has them (`InternalsEmitted`).
`References` is for removal in order: the owner of what a module refers to is
the host or a module that was loaded before it.

**`PointerCheckProofs`**, for any threads, pointers, page size and number of
lines: `RingsAreQueues` (`FirstInFirstOut`), `LinesDiffer` (`NoPointerTwice`)
and `AnswersAreRight` (`AnswersRight`). The first two need each other: a thread
that is about to push does not have its pointer in its cache, since nobody else
writes there. The strengthening `Fresh` says that what a thread has pushed, or
is about to push, without a doubt is mapped: any unmapping since its `msync` has
raised the doubt.

**`ClangInternalStateProofs`**, for any number of snapshots, changes and faults:
`SignalsClean` (`SignalCleans`), from `Covered` (every file on the disk is
registered, or is the one about to be) and `PathsOK` (the shape of a job's list
of paths); and `NothingLittered` (`NoLitter`), from `TidyInv`: each file on the
disk has one owner among the snapshots, their pairs and the snapshot in the
making, each path of theirs that names a file names one that is there, and no
two name the same. A fresh path is free because the disk is finite
(`UniquePathIsFree`, a pigeonhole argument over one more name than there are
files).

Also there, what the comparisons say. `ReportInv` adds to `TidyInv` that the
files of a snapshot hold the texts of the state it saw, as far as they could be
made (`Shots`), that a pair was taken of the compiler as it is while it is
compared, and that a report, and an output that is being read, agree with
`Differ`. It needs `TidyInv`: that `store` writes to no file of another
snapshot, and that a fresh file belongs to none, is what `Tidy` says of owners.
`TextsAreReported` follows, with no premise: what is logged of a structure is
all of diff's output, and there is some just if the texts of then and now differ
in a line that is not ignored, or a file could not be made. `ReportsAreRight`
(`ReportsRight`) is about what the texts mean, and has `PrintersTell` for a
premise: two states of the compiler differ in what is left of their texts if
they differ in meaning, and otherwise only by intrinsics that were lost. This is
a statement about the constant `Compilers` alone: diff compares sequences of
lines, so that a compiler that lists the same tables in another order would be
reported. The run evaluates it on its compilers (`PrintersTellHere`), among
which are those that list their files in another order, have tables to build, or
differ in what is to be ignored.

**`MetaLexerProofs`**, under `Misuse = {}`, for lines of any length and any
depth of look-ahead: `TypeCorrect`, `NothingReadBehind` (`ReadsInBounds`),
`TokensAreWhatTheySay` (`TokensAreRight`), `LookaheadLeavesNoTrace`
(`LookaheadReturns`) and `NothingSkipped` (`TokensTile`). For each way to read a
token there is a lemma that its result is `Good`: within the line, of its kind,
the longest (`RunIsGood`, `ConstantIsGood`, ...). `IInv` adds to the properties
that every saved cursor is in front of the NUL, and that the line is one of the
contract (`Fine`). What the recursive functions compute (the place of the
closing quote, the sum over digits) is not taken on trust: that they exist, and
what they are equal to, is proved by the well-foundedness of `Nat`, with a set
in place of the predicate.

**`LastExprProofs`**, for bodies of any length: `ValueIsFound` (`FindsValue`)
and `AddsOneAtMost` (`AddsOneReference`). `IInv` says that the body is the one
that was parsed, or that with one reference behind its last statement that
counts (`Grown`); in the second case the inserted statement is an expression and
the last one that counts, so that another call finds it and inserts nothing.

**`PathsProofs`**, for strings, lists, outputs and arguments of any number and
length:

* `SplitsAreRight` (`SplitIsRight`) and, if the loader names no RUNPATH,
  `LibrariesAreThoseOfTheSystem` (`LibrariesAreRight`), from `IInv`. Its heart is
  `LoopAt(n)`: the loop stands at a cut `n` of the list, the text behind it is
  left, what the mode wants of the components in front of it has been collected
  in order, and `existed` says whether they all exist.
* `NoPathTwice` (`NoDuplicates`), if no list names a path twice.
* `CopiesMeanTheSame` (`CopyMeansTheSame`) under `PathsAreNoFlags`: by induction over
  the entries, the arguments written so far mean the entries so far (`Mean`); one
  more entry adds one or two flags and its path (`ArgsAre`), the reading of what
  is there already does not change (`ReadStays`), and that of the new path depends
  on the flags in front of it alone (`MeanOneMore`).
* `LookupsAreRight` (`LookupIsRight`): the loop stops at the first argument that is
  a hit, as every argument it skips is the operand of a bare `-I` and none it looks
  at is (`LoopFindsFirst`, by induction from the last argument down).
* `ExpansionsAreRight` (`ExpandIsRight`) under `ValuesAreFinal`. The loop rewrites the
  string it searches, so the invariant `ExpandOK` names the place of the *original*
  string it has come to: what stands in front is the `Expansion` up to there, what
  stands behind is the rest of the original, a part begins there, and `at` is the
  first dollar sign of that rest (`Progress`). A turn moves this place to the end
  of the next name (`Progresses`): the name is taken over as its value
  (`NameTaken`), and the search, which goes on inside the value, finds nothing
  before the rest.

**Only model-checked:** all liveness (`Reclaimed`, `Ended`, `Finishes`, and the
fairness part of `Shared`), which is out of the prover's reach. Everything else
that a run checks is a theorem, under the premises named above; where a property
fails outside of them section 3 says how.

## 6. Not modelled, and why

* `IncrementalJIT`, `IncrementalExecutor`, the parser, most of `Interpreter` and
  `DeclCollector`: declared without bodies. Where modelled code calls them they
  are external, and the map of `PROJECT.json` says so.
* Of `Platform`: `DLOpen`, `DLSym`, `DLClose`, `NormalizePath`, `GetCwd`,
  `Demangle`. They keep no state and pass on what the C library says. (`DLOpen`
  without a place for the error leaves the `dlerror` of a failure to the next
  caller, `Platform.cc:95`.)
* Of the AST helpers: `IsWrapper` and `MaybeMangleDeclName`, which ask Clang for a
  name.
* `ASTTransformer`: only setters and a loop over virtual calls have bodies.
* Values nested in payloads, `setPtr` on managed Values: cells hold opaque
  objects. The hazards say what could go wrong.
* Threads that share Values: nothing in the repository starts one.
* Printing, logging, options and casts: no state, or plain data.
* In `Paths`: the include options that depend on no entry, and
  `AddIncludePaths` without a delimiter.
