--------------------------- MODULE MCBackendPasses ---------------------------
(***************************************************************************)
(* BackendPasses on modules of up to two globals of every sort CodeGen     *)
(* emits.                                                                  *)
(***************************************************************************)
EXTENDS BackendPasses, TLC

CONSTANTS inline, static, vtable, str, ctor, libfn

Names == {inline, static, vtable, str, ctor, libfn}

Fun(def, link, big) ==
    [def |-> def, link |-> link, near |-> FALSE, big |-> big, fun |-> TRUE]
Var(def, link, near) ==
    [def |-> def, link |-> link, near |-> near, big |-> TRUE, fun |-> FALSE]

\* The forms in which a name is emitted; definitions of variables are near, as
\* in code that is not position-independent.
Forms ==
    [n \in Names |->
       CASE n = inline -> {Fun(TRUE, "linkonce", TRUE),
                           Fun(TRUE, "linkonce", FALSE),
                           Fun(FALSE, "external", TRUE),
                           Var(TRUE, "linkonce", TRUE)}
         [] n = static -> {Var(TRUE, "internal", TRUE),
                           Var(FALSE, "external", TRUE)}
         [] n = vtable -> {Var(TRUE, "external", FALSE),
                           Var(TRUE, "linkonce", TRUE),
                           Var(FALSE, "external", FALSE)}
         [] n = str -> {Var(TRUE, "private", TRUE),
                        Var(TRUE, "internal", TRUE)}
         [] n = ctor -> {Fun(TRUE, "internal", TRUE)}
         [] n = libfn -> {Fun(TRUE, "linkonce", TRUE),
                          Fun(TRUE, "available", TRUE),
                          Fun(FALSE, "external", TRUE)}]

Modules ==
    UNION {{m \in [S -> UNION {Forms[n] : n \in S}] : \A n \in S : m[n] \in Forms[n]} :
             S \in {T \in SUBSET Names : Cardinality(T) \in 1..2}}

Libraries == {libfn}
Typeinfos == {vtable}
Strings == {str}
Structors == {ctor}
Levels == {-1, 4}

Slots == Permutations(Mod)

=============================================================================
