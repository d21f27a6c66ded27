------------------------------- MODULE MCPaths -------------------------------
(***************************************************************************)
(* Paths on all short strings, with two variables and two directories.     *)
(***************************************************************************)
EXTENDS Paths

UpTo(n, S) == UNION {[1..k -> S] : k \in 0..n}

Dollars == UpTo(5, {"a", "$", "/"})
Colons == UpTo(5, {"a", "b", ":"})
Includes == UpTo(3, {"a", "b", ":"}) \ {<<>>}

\* The loader's lines: a process number and a colon, then a search path and
\* where it is from, LD_LIBRARY_PATH, a RUNPATH or the system.
Line(list, from) == <<"p", ":", " ", "=">> \o list \o <<" ", from, " ">>

SearchPaths ==
    {ld \o run \o sys :
       ld \in {<<>>, Line(<<"a">>, "L")},
       run \in {<<>>} \cup (IF "runpath" \in Misuse
                            THEN {Line(<<"b">>, "R")} ELSE {}),
       sys \in {<<>>, <<"p", ":">>} \cup
                 {Line(list, "S") : list \in UpTo(3, {"a", "b", ":"})}}

\* A value with a slash, and one that begins with a dollar sign; a name that
\* holds one, as in $a$a, is never set.
Variables == [n \in {<<"a">>, <<"a", "a">>} |->
                IF n = <<"a">> THEN <<"a", "/", "b">> ELSE <<"$", "a">>]

Directories == {<<"a">>, <<"a", "b">>, <<"a", "/", "b">>}

Presets == {Entry(<<"a">>, g, FALSE) : g \in Group}
             \cup {Entry(<<"b">>, "Angled", TRUE)}

\* -I, -Ia, a and /.
Arguments == UpTo(4, {<<"-I">>, <<"-I", "a">>, <<"a">>, <<"/">>})

FileNames == {<<"f">>, <<"/", "f">>}

InDir(d) == d \o <<"/", "f">>

\* f in the directories a, -Ia and -I, in the working directory w, in / and
\* where it is named.
FilesThere ==
    {{}, {<<"f">>}, {<<"/", "f">>}, {InDir(<<"w">>), InDir(<<"a">>)},
     {InDir(<<"a">>)}, {InDir(<<"-I", "a">>)}, {InDir(<<"-I">>)},
     {InDir(<<"a">>), InDir(<<"-I">>), <<"/", "f">>}}

WorkDir == <<"w">>

\* What the theorems about copied paths and about expansions assume.
ASSUME TheoremsApply == PathsAreNoFlags /\ ValuesAreFinal

=============================================================================
