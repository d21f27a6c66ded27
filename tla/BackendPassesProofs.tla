------------------------ MODULE BackendPassesProofs ------------------------
(***************************************************************************)
(* What the passes guarantee of the JIT's symbol table, for any number of  *)
(* modules with any number of globals, loaded and unloaded in any number   *)
(* of steps.                                                               *)
(***************************************************************************)
EXTENDS BackendPasses, SequenceTheorems, TLAPS

-----------------------------------------------------------------------------
(* One global under the passes.                                            *)

\* The shape a global keeps, whatever it becomes.
LEMMA PassedType ==
    ASSUME NEW n, NEW g \in Global
    PROVE  /\ Passed(n, g) \in Global
           /\ Passed(n, g).fun = g.fun
           /\ Passed(n, g).def => g.def
<1> DEFINE a == KeepLocalGV(n, g)
           b == PreventLocalOpt(a)
           c == WeakTypeinfoVTable(n, b)
           d == ReuseExistingWeakSymbols(n, c)
<1>1. a \in Global /\ a.fun = g.fun /\ a.def = g.def
  BY DEF KeepLocalGV, Global, Linkage
<1> HIDE DEF a
<1>2. b \in Global /\ b.fun = g.fun /\ b.def = g.def
  BY <1>1 DEF PreventLocalOpt, Global, Linkage
<1> HIDE DEF b
<1>3. c \in Global /\ c.fun = g.fun /\ c.def = g.def
  BY <1>2 DEF WeakTypeinfoVTable, Global, Linkage
<1> HIDE DEF c
<1>4. d \in Global /\ d.fun = g.fun /\ (d.def => g.def)
  BY <1>3 DEF ReuseExistingWeakSymbols, Global, Linkage
<1>5. Passed(n, g) = d
  BY DEF Passed, a, b, c
<1> QED
  BY <1>4, <1>5

\* What is strong was so, and is no typeinfo or vtable.
LEMMA StrongWas ==
    ASSUME NEW n, NEW g \in Global, Strong(Passed(n, g))
    PROVE  Strong(g) /\ (n \notin Typeinfo \/ g.fun)
<1> DEFINE a == KeepLocalGV(n, g)
           b == PreventLocalOpt(a)
           c == WeakTypeinfoVTable(n, b)
           d == ReuseExistingWeakSymbols(n, c)
<1>0. Passed(n, g) = d
  BY DEF Passed
<1>1. a \in Global /\ a.fun = g.fun /\ a.def = g.def
        /\ (a.link = "external" => g.link = "external")
  BY DEF KeepLocalGV, Global, Linkage
<1> HIDE DEF a
<1>2. b \in Global /\ b.fun = g.fun /\ b.def = g.def
        /\ (b.def => b.link = a.link)
  BY <1>1 DEF PreventLocalOpt, Global, Linkage
<1> HIDE DEF b
<1>3. c \in Global /\ c.fun = g.fun /\ c.def = g.def
        /\ (c.link = "external" =>
              b.link = "external" /\ (g.fun \/ n \notin Typeinfo))
  BY <1>2 DEF WeakTypeinfoVTable, Global, Linkage
<1> HIDE DEF c
<1>4. d \in Global /\ (d.def => d = c)
  BY <1>3 DEF ReuseExistingWeakSymbols, Global, Linkage
<1> HIDE DEF d
<1>5. d.def /\ d.link = "external"
  BY <1>0, <1>4 DEF Strong, Emits, isLocalLinkage, isWeakForLinker, Global, Linkage
<1>6. g.def /\ g.link = "external" /\ (n \notin Typeinfo \/ g.fun)
  BY <1>1, <1>2, <1>3, <1>4, <1>5
<1> QED
  BY <1>6 DEF Strong, Emits, isLocalLinkage, isWeakForLinker

\* An internal definition is kept, and seen by the other modules.
LEMMA InternalKept ==
    ASSUME NEW n, NEW g \in Global, g.def, g.link = "internal", n \notin Str
    PROVE  Passed(n, g).def /\ Passed(n, g).link = "weakany"
<1> DEFINE a == KeepLocalGV(n, g)
           b == PreventLocalOpt(a)
           c == WeakTypeinfoVTable(n, b)
           d == ReuseExistingWeakSymbols(n, c)
<1>0. Passed(n, g) = d
  BY DEF Passed
<1>1. a \in Global /\ a.def /\ a.link = "weakany"
  BY DEF KeepLocalGV, isDiscardableIfUnused, isLocalLinkage, Global, Linkage
<1> HIDE DEF a
<1>2. b = a
  BY <1>1 DEF PreventLocalOpt
<1>3. c = b
  BY <1>1, <1>2 DEF WeakTypeinfoVTable
<1>4. d = c
  BY <1>1, <1>2, <1>3 DEF ReuseExistingWeakSymbols, shouldRemoveGlobalDefinition,
     isDiscardableIfUnused, isLocalLinkage, Global
<1> QED
  BY <1>0, <1>1, <1>2, <1>3, <1>4

\* A definition that is dropped is an inline one which exists elsewhere.
LEMMA DroppedExists ==
    ASSUME NEW n, NEW g \in Global, g.def, ~Passed(n, g).def
    PROVE  /\ g.link = "linkonce"
           /\ owner[n] # NoMod \/ n \in Host
<1> DEFINE a == KeepLocalGV(n, g)
           b == PreventLocalOpt(a)
           c == WeakTypeinfoVTable(n, b)
           d == ReuseExistingWeakSymbols(n, c)
<1>0. Passed(n, g) = d
  BY DEF Passed
<1>1. a \in Global /\ a.def
        /\ (a.link = "linkonce" => g.link = "linkonce")
  BY DEF KeepLocalGV, Global, Linkage
<1> HIDE DEF a
<1>2. b = a
  BY <1>1 DEF PreventLocalOpt
<1> HIDE DEF b
<1>3. c \in Global /\ c.def
        /\ (c.link = "linkonce" => g.link = "linkonce")
  BY <1>1, <1>2 DEF WeakTypeinfoVTable, Global, Linkage
<1> HIDE DEF c
<1>4. shouldRemoveGlobalDefinition(n, c)
  BY <1>0, <1>3 DEF ReuseExistingWeakSymbols, Global, Linkage
<1>5. c.link = "linkonce" /\ (owner[n] # NoMod \/ n \in Host)
  BY <1>3, <1>4 DEF shouldRemoveGlobalDefinition, doesSymbolAlreadyExist,
     isDiscardableIfUnused, isLocalLinkage, isWeakForLinker, Global, Linkage
<1> QED
  BY <1>0, <1>3, <1>4, <1>5

-----------------------------------------------------------------------------
(* A module under the passes.                                              *)

\* The name of the global n of the module m in the JIT.
NewName(n, m, mod) == UniqueCUDAStructorName(n, Passed(n, m[n]), mod)

\* A global's name is its own, or its own with the module's suffix.
LEMMA NewNameIs ==
    ASSUME NEW m \in Module, NEW mod \in Mod, NEW n \in DOMAIN m
    PROVE  /\ n \in Name /\ m[n] \in Global
           /\ NewName(n, m, mod) \in Symbol
           /\ \/ NewName(n, m, mod) = n
              \/ n \in Structor /\ NewName(n, m, mod) = <<n, mod>>
           /\ m[n].def /\ Passed(n, m[n]).def =>
                NewName(n, m, mod) = UniqueCUDAStructorName(n, m[n], mod)
           /\ CudaFile /\ n \in Structor => NewName(n, m, mod) = <<n, mod>>
<1>1. n \in Name /\ m[n] \in Global
  BY BackendAssumption
<1>2. Passed(n, m[n]).fun = m[n].fun
  BY <1>1, PassedType
<1>3. n \in Structor => Passed(n, m[n]).def
  BY <1>1, BackendAssumption, StructorAssumption, InternalKept
<1> QED
  BY <1>1, <1>2, <1>3 DEF NewName, UniqueCUDAStructorName, Symbol

\* No two globals of a module get one name.
LEMMA NewNamesDiffer ==
    ASSUME NEW m \in Module, NEW mod \in Mod,
           NEW n1 \in DOMAIN m, NEW n2 \in DOMAIN m,
           NewName(n1, m, mod) = NewName(n2, m, mod)
    PROVE  n1 = n2
<1>1. \A n \in DOMAIN m : n \notin Structor \X Mod
  BY BackendAssumption, SuffixAssumption
<1>2. \A n \in Structor : <<n, mod>> \in Structor \X Mod
  OBVIOUS
<1>3. <<n1, mod>> = <<n2, mod>> => n1 = n2
  OBVIOUS
<1> QED
  BY <1>1, <1>2, <1>3, NewNameIs

\* The module that results has the globals under their new names.
LEMMA AfterPassesIs ==
    ASSUME NEW m \in Module, NEW mod \in Mod
    PROVE  /\ DOMAIN AfterPasses(m, mod) = {NewName(n, m, mod) : n \in DOMAIN m}
           /\ \A n \in DOMAIN m :
                AfterPasses(m, mod)[NewName(n, m, mod)] = Passed(n, m[n])
<1> DEFINE S == {NewName(n, m, mod) : n \in DOMAIN m}
           old(s) == CHOOSE n \in DOMAIN m : NewName(n, m, mod) = s
<1>1. AfterPasses(m, mod) = [s \in S |-> Passed(old(s), m[old(s)])]
  BY DEF AfterPasses, NewName
<1>2. ASSUME NEW n \in DOMAIN m
      PROVE  old(NewName(n, m, mod)) = n
  <2>1. \E k \in DOMAIN m : NewName(k, m, mod) = NewName(n, m, mod)
    OBVIOUS
  <2>2. /\ old(NewName(n, m, mod)) \in DOMAIN m
        /\ NewName(old(NewName(n, m, mod)), m, mod) = NewName(n, m, mod)
    BY <2>1
  <2> QED
    BY <2>2, NewNamesDiffer
<1>3. \A n \in DOMAIN m : NewName(n, m, mod) \in S
  OBVIOUS
<1>5. DOMAIN AfterPasses(m, mod) = S
  <2> HIDE DEF old, S
  <2> QED
    BY <1>1
<1>4. \A n \in DOMAIN m :
        AfterPasses(m, mod)[NewName(n, m, mod)] = Passed(n, m[n])
  <2> HIDE DEF old
  <2> TAKE n \in DOMAIN m
  <2>1. NewName(n, m, mod) \in S
    BY <1>3
  <2> HIDE DEF S
  <2> QED
    BY <1>1, <1>2, <2>1
<1> QED
  BY <1>4, <1>5

\* What the optimiser leaves of a module comes from what CodeGen emitted.
LEMMA Compiled ==
    ASSUME NEW m \in Module, NEW mod \in Mod,
           NEW out \in Optimised(AfterPasses(m, mod)), NEW s \in DOMAIN out
    PROVE  \E n \in DOMAIN m : s = NewName(n, m, mod) /\ out[s] = Passed(n, m[n])
<1> DEFINE p == AfterPasses(m, mod)
<1>1. PICK gone \in SUBSET {t \in DOMAIN p : p[t].def
                                               /\ isDiscardableIfUnused(p[t])} :
        out = [t \in DOMAIN p \ gone |-> p[t]]
  BY DEF Optimised
<1>2. s \in DOMAIN p /\ out[s] = p[s]
  BY <1>1
<1>3. s \in {NewName(n, m, mod) : n \in DOMAIN m}
  BY <1>2, AfterPassesIs
<1>4. PICK n \in DOMAIN m : s = NewName(n, m, mod)
  BY <1>3
<1>5. p[s] = Passed(n, m[n])
  BY <1>4, AfterPassesIs
<1> QED
  BY <1>2, <1>4, <1>5

\* Its internal globals stay, and become symbols of the JIT.
LEMMA Remains ==
    ASSUME NEW m \in Module, NEW mod \in Mod,
           NEW out \in Optimised(AfterPasses(m, mod)),
           NEW n \in DOMAIN m, m[n].def, m[n].link = "internal", n \notin Str
    PROVE  /\ NewName(n, m, mod) = UniqueCUDAStructorName(n, m[n], mod)
           /\ NewName(n, m, mod) \in DOMAIN out
           /\ Emits(out[NewName(n, m, mod)])
<1> DEFINE p == AfterPasses(m, mod)
           s == NewName(n, m, mod)
<1>1. PICK gone \in SUBSET {t \in DOMAIN p : p[t].def
                                               /\ isDiscardableIfUnused(p[t])} :
        out = [t \in DOMAIN p \ gone |-> p[t]]
  BY DEF Optimised
<1>2. s \in DOMAIN p /\ p[s] = Passed(n, m[n])
  <2>1. DOMAIN p = {NewName(k, m, mod) : k \in DOMAIN m}
        /\ \A k \in DOMAIN m : p[NewName(k, m, mod)] = Passed(k, m[k])
    BY AfterPassesIs
  <2> HIDE DEF p
  <2> QED
    BY <2>1
<1>3. p[s].def /\ p[s].link = "weakany"
  BY <1>2, NewNameIs, InternalKept
<1>4. s \notin gone
  BY <1>1, <1>3 DEF isDiscardableIfUnused, isLocalLinkage
<1>5. out[s] = p[s] /\ s \in DOMAIN out
  BY <1>1, <1>2, <1>4
<1>6. Emits(out[s])
  BY <1>3, <1>5 DEF Emits, isLocalLinkage
<1>7. s = UniqueCUDAStructorName(n, m[n], mod)
  BY <1>2, <1>3, NewNameIs
<1> QED
  BY <1>5, <1>6, <1>7

-----------------------------------------------------------------------------
(* The inductive invariants.                                               *)

\* A slot that is not loaded holds nothing, and no symbol is its.
Vacant ==
    \A mod \in Mod : mod \notin ToSet(order) =>
      source[mod] = Empty /\ loaded[mod] = Empty /\ \A s \in Symbol : owner[s] # mod

\* A symbol with the suffix of a module is no other's.
Suffixed ==
    \A n \in Structor, mod \in Mod :
      <<n, mod>> \in Symbol => owner[<<n, mod>>] \in {NoMod, mod}

\* The named internal definitions of a module are emitted.
InternalsEmitted ==
    \A mod \in Mod : \A n \in DOMAIN source[mod] :
      LET g == source[mod][n]
          s == UniqueCUDAStructorName(n, g, mod)
      IN  g.def /\ g.link = "internal" /\ n \notin Str =>
            s \in DOMAIN loaded[mod] /\ Emits(loaded[mod][s])

IInv == /\ TypeOK /\ Vacant /\ Suffixed /\ NoDuplicates
        /\ OwnStructors /\ InternalsEmitted

\* The module a was loaded before b, or is b.
Older(a, b) ==
    \E i, j \in DOMAIN order : i <= j /\ order[i] = a /\ order[j] = b

\* What a module emits or refers to is in a module that is removed after it.
References ==
    \A mod \in Mod : \A s \in DOMAIN loaded[mod] :
      \/ Older(owner[s], mod)
      \/ /\ ~Emits(loaded[mod][s])
         /\ s \in Host \/ loaded[mod][s].def

-----------------------------------------------------------------------------
(* The order of the modules.                                               *)

\* A slot without a module holds no globals.
LEMMA EmptyIs == DOMAIN Empty = {}
BY DEF Empty

\* The list without its i-th element.
LEMMA RemovedIs ==
    ASSUME NEW S, NEW q \in Seq(S), NEW i \in DOMAIN q
    PROVE  /\ RemoveAt(q, i) \in Seq(S)
           /\ DOMAIN RemoveAt(q, i) = 1 .. Len(q) - 1
           /\ \A k \in 1 .. Len(q) - 1 :
                RemoveAt(q, i)[k] = IF k < i THEN q[k] ELSE q[k + 1]
<1> DEFINE a == SubSeq(q, 1, i - 1)
           b == SubSeq(q, i + 1, Len(q))
<1>1. i \in 1 .. Len(q) /\ Len(q) \in Nat
  OBVIOUS
<1>2. a \in Seq(S) /\ Len(a) = i - 1 /\ \A k \in 1 .. i - 1 : a[k] = q[k]
  BY <1>1
<1>3. /\ b \in Seq(S) /\ Len(b) = Len(q) - i
      /\ \A k \in 1 .. Len(q) - i : b[k] = q[i + k]
  BY <1>1
<1>4. RemoveAt(q, i) = a \o b
  BY DEF RemoveAt
<1> HIDE DEF a, b
<1>5. /\ a \o b \in Seq(S) /\ Len(a \o b) = Len(q) - 1
      /\ \A k \in 1 .. Len(q) - 1 :
           (a \o b)[k] = IF k < i THEN a[k] ELSE b[k - (i - 1)]
  <2>1. /\ a \o b \in Seq(S) /\ Len(a \o b) = Len(a) + Len(b)
        /\ \A k \in 1 .. Len(a) + Len(b) :
             (a \o b)[k] = IF k <= Len(a) THEN a[k] ELSE b[k - Len(a)]
    BY <1>2, <1>3, ConcatProperties
  <2>2. Len(a) + Len(b) = Len(q) - 1
    BY <1>1, <1>2, <1>3
  <2>3. \A k \in 1 .. Len(q) - 1 : k <= Len(a) <=> k < i
    BY <1>1, <1>2
  <2> QED
    BY <1>2, <2>1, <2>2, <2>3
<1>6. ASSUME NEW k \in 1 .. Len(q) - 1
      PROVE  (a \o b)[k] = IF k < i THEN q[k] ELSE q[k + 1]
  <2>1. CASE k < i
    BY <1>1, <1>2, <1>5, <2>1
  <2>2. CASE ~(k < i)
    <3>1. k - (i - 1) \in 1 .. Len(q) - i /\ i + (k - (i - 1)) = k + 1
      BY <1>1, <2>2
    <3>2. b[k - (i - 1)] = q[k + 1]
      BY <1>3, <3>1
    <3> QED
      BY <1>5, <2>2, <3>2
  <2> QED
    BY <2>1, <2>2
<1>7. DOMAIN (a \o b) = 1 .. Len(a \o b)
  BY <1>5
<1>8. DOMAIN (a \o b) = 1 .. Len(q) - 1
  BY <1>5, <1>7
<1> DEFINE r == a \o b
<1>9. r \in Seq(S) /\ DOMAIN r = 1 .. Len(q) - 1
  BY <1>5, <1>8
<1>10. \A k \in 1 .. Len(q) - 1 : r[k] = IF k < i THEN q[k] ELSE q[k + 1]
  BY <1>6
<1>11. RemoveAt(q, i) = r
  BY <1>4
<1> HIDE DEF r
<1> QED
  BY <1>9, <1>10, <1>11

\* Of different modules, all but the removed one stay, and stay different.
LEMMA RemovedOrder ==
    ASSUME TypeOK, NEW i \in DOMAIN order, order' = RemoveAt(order, i)
    PROVE  /\ order' \in Seq(Mod) /\ IsInjective(order')
           /\ \A mod \in Mod : mod \notin ToSet(order') /\ mod # order[i] =>
                mod \notin ToSet(order)
<1>1. order \in Seq(Mod) /\ IsInjective(order)
  BY DEF TypeOK
<1>2. i \in 1 .. Len(order) /\ Len(order) \in Nat /\ DOMAIN order = 1 .. Len(order)
  BY <1>1
<1>3. /\ order' \in Seq(Mod) /\ DOMAIN order' = 1 .. Len(order) - 1
      /\ \A k \in 1 .. Len(order) - 1 :
           order'[k] = IF k < i THEN order[k] ELSE order[k + 1]
  BY <1>1, RemovedIs
<1>4. IsInjective(order')
  <2> DEFINE at(k) == IF k < i THEN k ELSE k + 1
  <2>1. \A k \in DOMAIN order' : at(k) \in DOMAIN order /\ order'[k] = order[at(k)]
    BY <1>2, <1>3
  <2>2. \A k, l \in DOMAIN order' : at(k) = at(l) => k = l
    BY <1>2, <1>3
  <2> HIDE DEF at
  <2> QED
    BY <1>1, <2>1, <2>2 DEF IsInjective
<1>5. ASSUME NEW k \in DOMAIN order, order[k] # order[i]
      PROVE  order[k] \in ToSet(order')
  <2>1. CASE k < i
    <3>1. k \in DOMAIN order' /\ order'[k] = order[k]
      BY <1>2, <1>3, <2>1
    <3> QED
      BY <3>1 DEF ToSet
  <2>2. CASE k > i
    <3>1. k - 1 \in DOMAIN order' /\ order'[k - 1] = order[k]
      BY <1>2, <1>3, <2>2
    <3> QED
      BY <3>1 DEF ToSet
  <2> QED
    BY <1>2, <1>5, <2>1, <2>2
<1> QED
  BY <1>3, <1>4, <1>5 DEF ToSet

\* A module that is not loaded is put last.
LEMMA AppendedOrder ==
    ASSUME TypeOK, NEW mod \in Mod, mod \notin ToSet(order),
           order' = Append(order, mod)
    PROVE  /\ order' \in Seq(Mod) /\ IsInjective(order')
           /\ ToSet(order') = ToSet(order) \cup {mod}
           /\ \A a \in ToSet(order) \cup {mod} : Older(a, mod)'
           /\ \A a, b : Older(a, b) => Older(a, b)'
<1>1. order \in Seq(Mod) /\ IsInjective(order) /\ Len(order) \in Nat
  BY DEF TypeOK
<1>2. /\ order' \in Seq(Mod) /\ DOMAIN order = 1 .. Len(order)
      /\ DOMAIN order' = 1 .. Len(order) + 1
      /\ \A k \in 1 .. Len(order) : order'[k] = order[k]
      /\ order'[Len(order) + 1] = mod
  BY <1>1
<1>3. \A k \in DOMAIN order : order[k] # mod
  BY DEF ToSet
<1>4. IsInjective(order')
  BY <1>1, <1>2, <1>3 DEF IsInjective
<1>5. ToSet(order') = ToSet(order) \cup {mod}
  BY <1>1, <1>2 DEF ToSet
<1>6. ASSUME NEW a \in ToSet(order) \cup {mod}
      PROVE  Older(a, mod)'
  <2>1. PICK k \in DOMAIN order' : order'[k] = a
    BY <1>5 DEF ToSet
  <2>2. k <= Len(order) + 1 /\ Len(order) + 1 \in DOMAIN order'
    BY <1>1, <1>2
  <2> QED
    BY <1>2, <2>1, <2>2 DEF Older
<1>7. \A a, b : Older(a, b) => Older(a, b)'
  BY <1>1, <1>2 DEF Older
<1> QED
  BY <1>2, <1>4, <1>5, <1>6, <1>7

-----------------------------------------------------------------------------
(* The steps.                                                              *)

\* With nothing loaded there is no clash and no reference.
LEMMA InvInit == Init => IInv /\ References
<1> SUFFICES ASSUME Init PROVE IInv /\ References
  OBVIOUS
<1>1. /\ \A mod \in Mod : DOMAIN loaded[mod] = {} /\ DOMAIN source[mod] = {}
      /\ \A mod \in Mod : loaded[mod] = Empty /\ source[mod] = Empty
      /\ DOMAIN loaded = Mod /\ DOMAIN source = Mod
  BY EmptyIs DEF Init
<1>2. \A s \in Symbol : owner[s] = NoMod
  BY DEF Init
<1>3. TypeOK
  <2>1. order \in Seq(Mod) /\ IsInjective(order)
    BY DEF Init, IsInjective
  <2>2. source \in [Mod -> Module \cup {Empty}]
    BY DEF Init
  <2>3. owner \in [Symbol -> Mod \cup {NoMod}]
    BY DEF Init
  <2>4. built \in [0 .. 3 -> Mod \cup {NoMod}] /\ ran \in 0 .. 3
    BY DEF Init
  <2> QED
    BY <1>1, <2>1, <2>2, <2>3, <2>4 DEF TypeOK
<1>4. Vacant
  BY <1>1, <1>2, BackendAssumption DEF Vacant
<1>5. Suffixed
  BY <1>2 DEF Suffixed
<1> QED
  BY <1>1, <1>3, <1>4, <1>5
  DEF IInv, NoDuplicates, OwnStructors, InternalsEmitted, References

\* A module is loaded: what it adds, and what it leaves alone.
LEMMA RunIs ==
    ASSUME IInv, NEW mod \in Mod, NEW m \in Module, NEW l \in Level,
           runOnModule(mod, m, l)
    PROVE  /\ \E out \in Optimised(AfterPasses(m, mod)) :
                /\ loaded' = [loaded EXCEPT ![mod] = out]
                /\ owner' = [s \in Symbol |->
                     IF owner[s] = NoMod /\ s \in DOMAIN out /\ Emits(out[s])
                       THEN mod ELSE owner[s]]
           /\ source' = [source EXCEPT ![mod] = m]
           /\ mod \notin ToSet(order) /\ order' = Append(order, mod)
           /\ \A s \in Symbol : owner[s] # mod
           /\ Compilable(m)
BY DEF runOnModule, IInv, Vacant

\* runOnModule: the names of the new module that the table lacks become its
\* own, the others stay with modules that were loaded before it.
LEMMA RunOK ==
    ASSUME IInv, NEW mod \in Mod, NEW m \in Module, NEW l \in Level,
           runOnModule(mod, m, l)
    PROVE  IInv' /\ (References => References')
<1>1. PICK out \in Optimised(AfterPasses(m, mod)) :
        /\ loaded' = [loaded EXCEPT ![mod] = out]
        /\ owner' = [s \in Symbol |->
             IF owner[s] = NoMod /\ s \in DOMAIN out /\ Emits(out[s])
               THEN mod ELSE owner[s]]
  BY RunIs
<1>2. /\ source' = [source EXCEPT ![mod] = m]
      /\ mod \notin ToSet(order) /\ order' = Append(order, mod)
      /\ \A s \in Symbol : owner[s] # mod
      /\ Compilable(m)
  BY RunIs
<1>3. /\ DOMAIN source = Mod /\ DOMAIN loaded = Mod
      /\ owner \in [Symbol -> Mod \cup {NoMod}]
      /\ mod # NoMod
  BY BackendAssumption DEF IInv, TypeOK
<1>4. /\ DOMAIN loaded' = Mod /\ loaded'[mod] = out
      /\ \A k \in Mod \ {mod} : loaded'[k] = loaded[k]
  BY <1>1, <1>3
<1>5. /\ DOMAIN source' = Mod /\ source'[mod] = m
      /\ \A k \in Mod \ {mod} : source'[k] = source[k]
  BY <1>2, <1>3
<1>6. /\ \A s \in Symbol : owner[s] # NoMod => owner'[s] = owner[s]
      /\ \A s \in Symbol : owner[s] = NoMod =>
           owner'[s] = IF s \in DOMAIN out /\ Emits(out[s]) THEN mod ELSE NoMod
      /\ owner' \in [Symbol -> Mod \cup {NoMod}]
  BY <1>1, <1>3
<1>7. \A s \in DOMAIN out : \E n \in DOMAIN m :
        s = NewName(n, m, mod) /\ out[s] = Passed(n, m[n])
  BY Compiled
<1>8. \A s \in DOMAIN out : s \in Symbol /\ out[s] \in Global
  BY <1>7, NewNameIs, PassedType
<1>9. /\ order' \in Seq(Mod) /\ IsInjective(order')
      /\ ToSet(order') = ToSet(order) \cup {mod}
      /\ \A a \in ToSet(order) \cup {mod} : Older(a, mod)'
      /\ \A a, b : Older(a, b) => Older(a, b)'
  BY <1>2, AppendedOrder DEF IInv
<1>10. \A n \in Structor : <<n, mod>> \in Symbol => owner[<<n, mod>>] = NoMod
  BY <1>2 DEF IInv, Suffixed
<1>11. TypeOK'
  <2>1. source' \in [Mod -> Module \cup {Empty}]
    BY <1>2 DEF IInv, TypeOK
  <2>2. \A k \in Mod : \A s \in DOMAIN loaded'[k] :
          s \in Symbol /\ loaded'[k][s] \in Global
    BY <1>4, <1>8 DEF IInv, TypeOK
  <2>3. Clamp(l) \in 0 .. 3 /\ CreatePasses(Clamp(l)) \in 0 .. 3
    BY BackendAssumption DEF Clamp, CreatePasses
  <2>4. ran' \in 0 .. 3 /\ built' \in [0 .. 3 -> Mod \cup {NoMod}]
    BY <2>3 DEF runOnModule, IInv, TypeOK
  <2> QED
    BY <1>4, <1>6, <1>9, <2>1, <2>2, <2>4 DEF TypeOK
<1>12. Vacant'
  <2> SUFFICES ASSUME NEW k \in Mod, k \notin ToSet(order')
               PROVE  source'[k] = Empty /\ loaded'[k] = Empty
                        /\ \A s \in Symbol : owner'[s] # k
    BY DEF Vacant
  <2>1. k # mod /\ k \notin ToSet(order)
    BY <1>9
  <2>2. source[k] = Empty /\ loaded[k] = Empty /\ \A s \in Symbol : owner[s] # k
    BY <2>1 DEF IInv, Vacant
  <2> QED
    BY <1>4, <1>5, <1>6, <2>1, <2>2, BackendAssumption
<1>13. Suffixed'
  <2> SUFFICES ASSUME NEW n \in Structor, NEW k \in Mod, <<n, k>> \in Symbol
               PROVE  owner'[<<n, k>>] \in {NoMod, k}
    BY DEF Suffixed
  <2>1. CASE owner[<<n, k>>] # NoMod
    BY <1>6, <2>1 DEF IInv, Suffixed
  <2>2. CASE owner[<<n, k>>] = NoMod /\ <<n, k>> \notin DOMAIN out
    BY <1>6, <2>2
  <2>3. CASE <<n, k>> \in DOMAIN out
    <3>1. PICK n2 \in DOMAIN m : <<n, k>> = NewName(n2, m, mod)
      BY <1>7, <2>3
    <3>2. <<n, k>> = n2 \/ <<n, k>> = <<n2, mod>>
      BY <3>1, NewNameIs
    <3>3. <<n, k>> # n2
      BY <3>1, NewNameIs, SuffixAssumption
    <3>4. k = mod
      BY <3>2, <3>3
    <3> QED
      BY <1>6, <1>10, <3>4
  <2> QED
    BY <2>1, <2>2, <2>3
<1>14. NoDuplicates'
  <2> SUFFICES ASSUME NEW k \in Mod, NEW s \in DOMAIN loaded'[k],
                      Strong(loaded'[k][s])
               PROVE  owner'[s] = k
    BY DEF NoDuplicates
  <2>1. CASE k # mod
    <3>1. s \in DOMAIN loaded[k] /\ Strong(loaded[k][s])
      BY <1>4, <2>1
    <3>2. owner[s] = k /\ s \in Symbol
      BY <3>1 DEF IInv, NoDuplicates, TypeOK
    <3> QED
      BY <1>6, <3>2, BackendAssumption
  <2>2. CASE k = mod
    <3>1. s \in DOMAIN out /\ Strong(out[s]) /\ s \in Symbol
      BY <1>4, <1>8, <2>2
    <3>2. PICK n \in DOMAIN m : s = NewName(n, m, mod) /\ out[s] = Passed(n, m[n])
      BY <1>7, <3>1
    <3>3. Strong(m[n]) /\ (n \notin Typeinfo \/ m[n].fun)
      BY <3>1, <3>2, NewNameIs, StrongWas
    <3>4. owner[n] = NoMod
      BY <1>2, <3>3 DEF Compilable
    <3>5. owner[s] = NoMod
      BY <1>10, <3>1, <3>2, <3>4, NewNameIs
    <3> QED
      BY <1>6, <2>2, <3>1, <3>5 DEF Strong
  <2> QED
    BY <2>1, <2>2
<1>15. InternalsEmitted'
  <2> SUFFICES ASSUME NEW k \in Mod, NEW n \in DOMAIN source'[k],
                      source'[k][n].def, source'[k][n].link = "internal",
                      n \notin Str
               PROVE  LET s == UniqueCUDAStructorName(n, source'[k][n], k)
                      IN  s \in DOMAIN loaded'[k] /\ Emits(loaded'[k][s])
    BY DEF InternalsEmitted, UniqueCUDAStructorName, Emits, isLocalLinkage
  <2>1. CASE k # mod
    BY <1>4, <1>5, <2>1 DEF IInv, InternalsEmitted
  <2>2. CASE k = mod
    BY <1>4, <1>5, <2>2, Remains
  <2> QED
    BY <2>1, <2>2
<1>16. OwnStructors'
  <2> SUFFICES ASSUME CudaFile, NEW k \in Mod,
                      NEW n \in DOMAIN source'[k] \cap Structor, source'[k][n].def
               PROVE  \E s \in DOMAIN loaded'[k] : /\ owner'[s] = k
                                                   /\ s = n \/ s = <<n, k>>
    BY DEF OwnStructors
  <2>1. CASE k # mod
    <3>1. n \in DOMAIN source[k] \cap Structor /\ source[k][n].def
      BY <1>5, <2>1
    <3>2. PICK s \in DOMAIN loaded[k] : owner[s] = k /\ (s = n \/ s = <<n, k>>)
      BY <3>1 DEF IInv, OwnStructors
    <3>3. s \in Symbol
      BY DEF IInv, TypeOK
    <3>4. owner'[s] = k /\ s \in DOMAIN loaded'[k]
      BY <1>4, <1>6, <2>1, <3>2, <3>3, BackendAssumption
    <3> QED
      BY <3>2, <3>4
  <2>2. CASE k = mod
    <3>1. n \in DOMAIN m /\ n \in Structor
      BY <1>5, <2>2
    <3>2. m[n].def /\ m[n].link = "internal" /\ n \notin Str
      BY <3>1, StructorAssumption, BackendAssumption
    <3>3. <<n, mod>> \in DOMAIN out /\ Emits(out[<<n, mod>>])
      BY <3>1, <3>2, Remains, NewNameIs
    <3>4. owner'[<<n, mod>>] = mod
      BY <1>6, <1>8, <1>10, <3>1, <3>3
    <3> QED
      BY <1>4, <2>2, <3>3, <3>4
  <2> QED
    BY <2>1, <2>2
<1>17. ASSUME References PROVE References'
  <2> SUFFICES ASSUME NEW k \in Mod, NEW s \in DOMAIN loaded'[k]
               PROVE  \/ Older(owner[s], k)'
                      \/ /\ ~Emits(loaded'[k][s])
                         /\ s \in Host \/ loaded'[k][s].def
    BY DEF References, Emits, isLocalLinkage
  <2>0. \A t \in Symbol : owner[t] # NoMod => owner[t] \in ToSet(order)
    BY <1>3 DEF IInv, Vacant
  <2>1. CASE k # mod
    <3>1. s \in DOMAIN loaded[k] /\ loaded'[k][s] = loaded[k][s] /\ s \in Symbol
      BY <1>4, <2>1 DEF IInv, TypeOK
    <3>2. CASE Older(owner[s], k)
      <4>1. owner[s] \in Mod
        BY <3>2 DEF Older, IInv, TypeOK
      <4>2. owner'[s] = owner[s]
        BY <1>6, <3>1, <4>1, BackendAssumption
      <4>3. PICK a : a = owner[s]
        OBVIOUS
      <4>4. Older(a, k)'
        BY <1>9, <3>2, <4>3
      <4> QED
        BY <4>2, <4>3, <4>4 DEF Older
    <3> QED
      BY <1>17, <3>1, <3>2 DEF References
  <2>2. CASE k = mod
    <3>1. s \in DOMAIN out /\ loaded'[k][s] = out[s] /\ s \in Symbol
      BY <1>4, <1>8, <2>2
    <3>2. \/ Older(owner[s], mod)'
          \/ owner'[s] = NoMod
      BY <1>6, <1>9, <2>0, <3>1 DEF Older
    <3>3. CASE owner'[s] = NoMod
      <4>1. owner[s] = NoMod /\ ~Emits(out[s])
        BY <1>6, <3>1, <3>3, <1>3
      <4>2. PICK n \in DOMAIN m :
              s = NewName(n, m, mod) /\ out[s] = Passed(n, m[n])
        BY <1>7, <3>1
      <4>3. CASE ~out[s].def
        <5>1. n \notin Structor /\ s = n
          BY <4>2, <4>3, NewNameIs, StructorAssumption, InternalKept,
             BackendAssumption
        <5>2. s \in Host
          <6>1. CASE m[n].def
            BY <4>1, <4>2, <4>3, <5>1, <6>1, NewNameIs, DroppedExists
          <6>2. CASE ~m[n].def
            BY <1>2, <4>1, <5>1, <6>2 DEF Compilable
          <6> QED
            BY <6>1, <6>2
        <5> QED
          BY <3>1, <4>1, <5>2
      <4> QED
        BY <3>1, <4>1, <4>3
    <3> QED
      BY <2>2, <3>2, <3>3
  <2> QED
    BY <2>1, <2>2
<1> QED
  BY <1>11, <1>12, <1>13, <1>14, <1>15, <1>16, <1>17 DEF IInv

\* A module is unloaded, the last one if References is to be kept.
LEMMA RemoveOK ==
    ASSUME IInv, NEW i \in DOMAIN order, removeModule(i)
    PROVE  IInv' /\ (Misuse = {} /\ References => References')
<1> DEFINE mod == order[i]
<1>1. /\ source' = [source EXCEPT ![mod] = Empty]
      /\ loaded' = [loaded EXCEPT ![mod] = Empty]
      /\ owner' = [s \in Symbol |-> IF owner[s] = mod THEN NoMod ELSE owner[s]]
      /\ order' = RemoveAt(order, i)
      /\ built' = built /\ ran' = ran
  BY DEF removeModule
<1>2. /\ DOMAIN source = Mod /\ DOMAIN loaded = Mod /\ mod \in Mod
      /\ owner \in [Symbol -> Mod \cup {NoMod}]
  BY DEF IInv, TypeOK
<1>3. /\ order' \in Seq(Mod) /\ IsInjective(order')
      /\ \A k \in Mod : k \notin ToSet(order') /\ k # mod => k \notin ToSet(order)
  BY <1>1, RemovedOrder DEF IInv
<1> HIDE DEF mod
<1>4. /\ DOMAIN loaded' = Mod /\ DOMAIN loaded'[mod] = {} /\ loaded'[mod] = Empty
      /\ \A k \in Mod \ {mod} : loaded'[k] = loaded[k]
  BY <1>1, <1>2, EmptyIs
<1>5. /\ DOMAIN source'[mod] = {} /\ source'[mod] = Empty
      /\ \A k \in Mod \ {mod} : source'[k] = source[k]
  BY <1>1, <1>2, EmptyIs
<1>6. /\ owner' \in [Symbol -> Mod \cup {NoMod}]
      /\ \A s \in Symbol : owner'[s] = IF owner[s] = mod THEN NoMod ELSE owner[s]
  BY <1>1, <1>2
<1>7. TypeOK'
  <2>1. source' \in [Mod -> Module \cup {Empty}]
    BY <1>1 DEF IInv, TypeOK
  <2>2. \A k \in Mod : \A s \in DOMAIN loaded'[k] :
          s \in Symbol /\ loaded'[k][s] \in Global
    BY <1>4 DEF IInv, TypeOK
  <2>3. ran' \in 0 .. 3 /\ built' \in [0 .. 3 -> Mod \cup {NoMod}]
    BY <1>1 DEF IInv, TypeOK
  <2> QED
    BY <1>3, <1>4, <1>6, <2>1, <2>2, <2>3 DEF TypeOK
<1>8. Vacant'
  <2> SUFFICES ASSUME NEW k \in Mod, k \notin ToSet(order')
               PROVE  source'[k] = Empty /\ loaded'[k] = Empty
                        /\ \A s \in Symbol : owner'[s] # k
    BY DEF Vacant
  <2>1. CASE k = mod
    BY <1>2, <1>4, <1>5, <1>6, <2>1, BackendAssumption
  <2>2. CASE k # mod
    <3>1. source[k] = Empty /\ loaded[k] = Empty /\ \A s \in Symbol : owner[s] # k
      BY <1>3, <2>2 DEF IInv, Vacant
    <3> QED
      BY <1>4, <1>5, <1>6, <2>2, <3>1, BackendAssumption
  <2> QED
    BY <2>1, <2>2
<1>9. Suffixed'
  BY <1>6 DEF IInv, Suffixed
<1>10. NoDuplicates'
  <2> SUFFICES ASSUME NEW k \in Mod, NEW s \in DOMAIN loaded'[k],
                      Strong(loaded'[k][s])
               PROVE  owner'[s] = k
    BY DEF NoDuplicates
  <2>1. k # mod
    BY <1>4
  <2>2. s \in DOMAIN loaded[k] /\ Strong(loaded[k][s]) /\ s \in Symbol
    BY <1>4, <2>1 DEF IInv, TypeOK
  <2> QED
    BY <1>6, <2>1, <2>2 DEF IInv, NoDuplicates
<1>11. InternalsEmitted'
  <2> SUFFICES ASSUME NEW k \in Mod, NEW n \in DOMAIN source'[k],
                      source'[k][n].def, source'[k][n].link = "internal",
                      n \notin Str
               PROVE  LET s == UniqueCUDAStructorName(n, source'[k][n], k)
                      IN  s \in DOMAIN loaded'[k] /\ Emits(loaded'[k][s])
    BY DEF InternalsEmitted, UniqueCUDAStructorName, Emits, isLocalLinkage
  <2>1. k # mod
    BY <1>5
  <2> QED
    BY <1>4, <1>5, <2>1 DEF IInv, InternalsEmitted
<1>12. OwnStructors'
  <2> SUFFICES ASSUME CudaFile, NEW k \in Mod,
                      NEW n \in DOMAIN source'[k] \cap Structor, source'[k][n].def
               PROVE  \E s \in DOMAIN loaded'[k] : /\ owner'[s] = k
                                                   /\ s = n \/ s = <<n, k>>
    BY DEF OwnStructors
  <2>1. k # mod
    BY <1>5
  <2>2. n \in DOMAIN source[k] \cap Structor /\ source[k][n].def
    BY <1>5, <2>1
  <2>3. PICK s \in DOMAIN loaded[k] : owner[s] = k /\ (s = n \/ s = <<n, k>>)
    BY <2>2 DEF IInv, OwnStructors
  <2>4. s \in Symbol
    BY DEF IInv, TypeOK
  <2>5. owner'[s] = k /\ s \in DOMAIN loaded'[k]
    BY <1>4, <1>6, <2>1, <2>3, <2>4
  <2> QED
    BY <2>3, <2>5
<1>13. ASSUME Misuse = {}, References PROVE References'
  <2> SUFFICES ASSUME NEW k \in Mod, NEW s \in DOMAIN loaded'[k]
               PROVE  \/ Older(owner[s], k)'
                      \/ /\ ~Emits(loaded'[k][s])
                         /\ s \in Host \/ loaded'[k][s].def
    BY DEF References, Emits, isLocalLinkage
  <2>1. k # mod
    BY <1>4
  <2>2. s \in DOMAIN loaded[k] /\ loaded'[k][s] = loaded[k][s] /\ s \in Symbol
    BY <1>4, <2>1 DEF IInv, TypeOK
  <2>3. CASE Older(owner[s], k)
    <3>1. PICK a \in DOMAIN order, b \in DOMAIN order :
            a <= b /\ order[a] = owner[s] /\ order[b] = k
      BY <2>3 DEF Older
    <3>2. i = Len(order) /\ order \in Seq(Mod) /\ IsInjective(order)
      BY <1>13 DEF removeModule, IInv, TypeOK
    <3>3. /\ DOMAIN order' = 1 .. Len(order) - 1
          /\ \A j \in 1 .. Len(order) - 1 :
               order'[j] = IF j < i THEN order[j] ELSE order[j + 1]
      BY <1>1, <3>2, RemovedIs
    <3>4. b # i
      BY <2>1, <3>1 DEF mod
    <3>5. a < i /\ b < i /\ a \in 1 .. Len(order) - 1 /\ b \in 1 .. Len(order) - 1
      BY <3>1, <3>2, <3>4
    <3>6. order'[a] = owner[s] /\ order'[b] = k
      BY <3>1, <3>3, <3>5
    <3>7. owner[s] # mod
      BY <3>1, <3>2, <3>5 DEF IsInjective, mod
    <3>8. owner'[s] = owner[s]
      BY <1>6, <2>2, <3>7
    <3> QED
      BY <3>1, <3>3, <3>5, <3>6, <3>8 DEF Older
  <2> QED
    BY <1>13, <2>2, <2>3 DEF References
<1> QED
  BY <1>7, <1>8, <1>9, <1>10, <1>11, <1>12, <1>13 DEF IInv

\* Loading keeps everything; removal keeps References if it is latest first.
LEMMA InvNext ==
    IInv /\ [Next]_vars => IInv' /\ (Misuse = {} /\ References => References')
<1> SUFFICES ASSUME IInv, [Next]_vars
             PROVE  IInv' /\ (Misuse = {} /\ References => References')
  OBVIOUS
<1>1. CASE \E mod \in Mod, m \in Module, l \in Level : runOnModule(mod, m, l)
  BY <1>1, RunOK
<1>2. CASE \E i \in DOMAIN order : removeModule(i)
  BY <1>2, RemoveOK
<1>3. CASE UNCHANGED vars
  <2>1. /\ source' = source /\ loaded' = loaded /\ owner' = owner
        /\ order' = order /\ built' = built /\ ran' = ran
    BY <1>3 DEF vars
  <2>2. TypeOK' /\ Vacant' /\ Suffixed' /\ NoDuplicates'
    BY <2>1 DEF IInv, TypeOK, Vacant, Suffixed, NoDuplicates
  <2>3. OwnStructors'
    BY <2>1 DEF IInv, OwnStructors
  <2>4. InternalsEmitted'
    BY <2>1 DEF IInv, InternalsEmitted
  <2>5. References => References'
    BY <2>1 DEF References, Older
  <2> QED
    BY <2>2, <2>3, <2>4, <2>5 DEF IInv
<1> QED
  BY <1>1, <1>2, <1>3 DEF Next

-----------------------------------------------------------------------------
(* The theorems.                                                           *)

\* Whatever is loaded and unloaded, in any order, the invariant holds.
THEOREM Inductive == Spec => []IInv
<1>1. Init => IInv
  BY InvInit
<1>2. IInv /\ [Next]_vars => IInv'
  BY InvNext
<1> QED
  BY <1>1, <1>2, PTL DEF Spec

\* The fields of the model keep their types under all passes.
THEOREM TypeCorrect == Spec => []TypeOK
<1>1. IInv => TypeOK
  BY DEF IInv
<1> QED
  BY <1>1, Inductive, PTL

\* Internal symbols, typeinfo and vtables of any number of modules never give
\* the linker two strong definitions of one symbol (KeepLocalGVPass,
\* WeakTypeinfoVTablePass).
THEOREM SymbolsDoNotClash == Spec => []NoDuplicates
<1>1. IInv => NoDuplicates
  BY DEF IInv
<1> QED
  BY <1>1, Inductive, PTL

\* UniqueCUDAStructorName keeps the CUDA structors of modules apart.
THEOREM StructorsApart == Spec => []OwnStructors
<1>1. IInv => OwnStructors
  BY DEF IInv
<1> QED
  BY <1>1, Inductive, PTL

\* If modules are removed latest first, what a module emits or refers to lies
\* in a module that is removed no earlier than itself.
THEOREM InductiveLifo ==
    ASSUME Misuse = {}
    PROVE  Spec => [](IInv /\ References)
<1>1. Init => IInv /\ References
  BY InvInit
<1>2. (IInv /\ References) /\ [Next]_vars => (IInv /\ References)'
  BY InvNext
<1> QED
  BY <1>1, <1>2, PTL DEF Spec

\* Then ReuseExistingWeakSymbols drops a definition only for one that stays.
THEOREM ReferencesResolve ==
    ASSUME Misuse = {}
    PROVE  Spec => []Resolved
<1>1. IInv /\ References => Resolved
  BY BackendAssumption DEF IInv, TypeOK, References, Older, Resolved
<1> QED
  BY <1>1, InductiveLifo, PTL

\* And the internal symbols of a line can be found by all that come after it
\* (KeepLocalGVPass), whatever the optimiser drops.
THEOREM InternalsVisible ==
    ASSUME Misuse = {}
    PROVE  Spec => []LocalsKept
<1>1. IInv /\ References => LocalsKept
  <2> SUFFICES ASSUME IInv, References, NEW mod \in Mod,
                      NEW n \in DOMAIN source[mod],
                      source[mod][n].def, source[mod][n].link = "internal",
                      n \notin Str
               PROVE  owner[UniqueCUDAStructorName(n, source[mod][n], mod)] # NoMod
    BY DEF LocalsKept
  <2> DEFINE s == UniqueCUDAStructorName(n, source[mod][n], mod)
  <2>1. s \in DOMAIN loaded[mod] /\ Emits(loaded[mod][s])
    BY DEF IInv, InternalsEmitted
  <2> HIDE DEF s
  <2>2. Older(owner[s], mod)
    BY <2>1 DEF References
  <2>3. owner[s] \in Mod
    BY <2>2 DEF Older, IInv, TypeOK
  <2> QED
    BY <2>3, BackendAssumption DEF s
<1> QED
  BY <1>1, InductiveLifo, PTL
=============================================================================
