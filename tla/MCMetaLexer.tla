----------------------------- MODULE MCMetaLexer -----------------------------
(***************************************************************************)
(* MetaLexer on every short line, on longer lines of quotes, and on        *)
(* constants of up to eight digits.                                        *)
(***************************************************************************)
EXTENDS MetaLexer

UpTo(n, S) == UNION {[1..k -> S] : k \in 0..n}

SomeOfEach == {"1", "dq", "sq", " ", "a", "[", "bs", "/", "*", "nl", "+"}

ShortLines ==
    UpTo(3, SomeOfEach) \cup UpTo(5, {"dq", "sq", "bs"})
      \cup UpTo(8, {"0", "9"})

TwoLines == {<<>>, <<"dq", "a", "dq">>}

=============================================================================
