------------------------ MODULE MCClangInternalState ------------------------
(* A compiler whose structures change one at a time. *)
EXTENDS ClangInternalState

File(n, cleared, loaded) == [name |-> n, cleared |-> cleared, loaded |-> loaded]

Header == File(2, FALSE, TRUE)

Base ==
    [tables |-> <<"f">>, pending |-> FALSE, infos |-> <<Header>>,
     ast |-> <<"f">>, module |-> <<"f">>, macros |-> <<>>]

\* What no comparison may report: a builtin, an intrinsic, a macro, and files
\* that are cleared, hidden, or a line of input.
Quiet ==
    [Base EXCEPT !.tables = <<"f", "__builtin">>, !.module = <<"f", "llvm">>,
                 !.macros = <<"m">>,
                 !.infos = <<Header, File(1, TRUE, TRUE), File(9, FALSE, TRUE),
                             File(3, FALSE, TRUE)>>]

\* Tables to be built, two files in the other order than below, an intrinsic.
Disordered ==
    [Base EXCEPT !.pending = TRUE, !.infos = <<File(1, FALSE, TRUE), Header>>,
                 !.module = <<"f", "llvm">>]

Starts == {Base, Disordered}

\* A declaration in each structure; a file that is loaded or from an AST file.
Variants ==
    {Base, Quiet, Disordered,
     [Base EXCEPT !.tables = <<"f", "g">>],
     [Base EXCEPT !.ast = <<"f", "g">>],
     [Base EXCEPT !.module = <<"f", "g">>],
     [Base EXCEPT !.infos = <<Header, File(1, FALSE, TRUE)>>],
     [Base EXCEPT !.infos = <<Header, File(1, FALSE, FALSE)>>]}

BuiltinLines == {"__builtin"}
IntrinsicLines == {"llvm"}

\* What the theorem on the reports takes for granted of the printers.
ASSUME PrintersTellHere == PrintersTell
=============================================================================
