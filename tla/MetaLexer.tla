------------------------------ MODULE MetaLexer ------------------------------
(***************************************************************************)
(* The lexer of meta commands: a cursor into a line that ends in NUL, and  *)
(* calls that read a token and move the cursor.                            *)
(*                                                                         *)
(* A line is a sequence of characters, of which the lexer tells apart the  *)
(* classes below; its NUL is one place behind the last of them.  The       *)
(* meta parser, which the repository only names, is any client that stops  *)
(* at the token eof.                                                       *)
(***************************************************************************)
EXTENDS Naturals, Integers, Sequences, FiniteSets

CONSTANTS
    Lines,      \* the lines a lexer is made for
    MoreLines,  \* the lines reset() is called with
    MaxSaved,   \* bound on MetaLexer::RAII objects alive at a time
    Misuse      \* the calls outside the contract:
                \*   "backslash"  a line whose last character is a backslash
                \*   "digits"     a line with nine digits in a row

Digit == <<"0", "1", "2", "3", "4", "5", "6", "7", "8", "9">>
Digits == {Digit[i] : i \in DOMAIN Digit}
Quotes == {"dq", "sq"}        \* " and '
Blanks == {" "}               \* space and tab
Letters == {"a"}              \* letters and _
Punctuation == {"[", "bs", "/", "*"}   \* [ for every other; bs is \
Char == Digits \cup Quotes \cup Blanks \cup Letters \cup Punctuation
          \cup {"nl", "+"}    \* + for every character lex has no case for

ASSUME MetaLexerAssumption ==
    /\ Lines \cup MoreLines \subseteq Seq(Char)
    /\ MaxSaved \in Nat
    /\ Misuse \subseteq {"backslash", "digits"}

VARIABLES
    line,     \* what cur_pos_ points into
    pos,      \* cur_pos_, counted from 1
    token,    \* the Token of the last call
    overrun,  \* has a call read behind the NUL?
    saved,    \* saved_pos of the RAII objects, innermost last
    covered   \* history: where the tokens read outside every RAII end

vars == <<line, pos, token, overrun, saved, covered>>

-----------------------------------------------------------------------------
(* The buffer, a line l, and the tokens.                                   *)

Nul(l) == Len(l) + 1

\* The character at position p; there is no telling what lies behind NUL.
At(l, p) ==
    IF p \in DOMAIN l THEN l[p] ELSE IF p = Nul(l) THEN "nul" ELSE "outside"

\* A token, and where the call that read it leaves the cursor.
Token(kind, start, len, next) ==
    [kind |-> kind, start |-> start, len |-> len, next |-> next]

NoToken == Token("unknown", 1, 0, 1)

\* A defect: the loop tests the next character.
SkipWhile_Next(l, S, p) ==
    LET skip[q \in 1..Nul(l)] == IF At(l, q + 1) \in S THEN skip[q + 1] ELSE q
    IN  skip[p]

\* The loops over one class of characters: the first p with another.
SkipWhile(l, S, p) ==
    LET skip[q \in 1..Nul(l)] == IF At(l, q) \in S THEN skip[q + 1] ELSE q
    IN  skip[p]

\* A defect: the cursor does not step back from the character that ended
\* the loop.
Run_NoStepBack(kind, l, S, p) ==
    LET q == SkipWhile(l, S, p) IN Token(kind, p, q - p, q + 1)

\* A token of everything in the class S from p on.
Run(kind, l, S, p) ==
    LET q == SkipWhile(l, S, p) IN Token(kind, p, q - p, q)

\* A defect: a backslash is a character like the others.
QuoteEnd_NoEscape(l, p) ==
    LET find[q \in 1..Nul(l) + 1] ==
          IF At(l, q) \in {At(l, p), "nul", "outside"} THEN q ELSE find[q + 1]
    IN  find[p + 1]

\* Where the loop of lexQuotedStringAndAdvance stops for the quote at p: at
\* the closing quote, or where it gives up.  A backslash takes the next
\* character with it, NUL too.
QuoteEnd(l, p) ==
    LET find[q \in 1..Nul(l) + 1] ==
          IF At(l, q) = "bs" THEN find[q + 2]
          ELSE IF At(l, q) \in {At(l, p), "nul", "outside"} THEN q
          ELSE find[q + 1]
    IN  find[p + 1]

lexQuotedStringAndAdvance(l, p) ==
    LET q == QuoteEnd(l, p)
    IN  IF At(l, q) = At(l, p)
          THEN Token(IF At(l, p) = "dq" THEN "stringlit" ELSE "charlit",
                     p, q + 1 - p, q + 1)
          ELSE Token("eof", q, 0, q)

-----------------------------------------------------------------------------
(* The calls.                                                              *)

\* lex(): the token at position p of the line l.
Lexed(l, p) ==
    CASE At(l, p) \in Quotes -> lexQuotedStringAndAdvance(l, p)
      [] At(l, p) = "/" /\ At(l, p + 1) = "/" -> Token("comment", p, 2, p + 2)
      [] At(l, p) = "/" /\ At(l, p + 1) = "*" -> Token("l_comment", p, 2, p + 2)
      [] At(l, p) = "*" /\ At(l, p + 1) = "/" -> Token("r_comment", p, 2, p + 2)
      [] At(l, p) \in Digits -> Run("constant", l, Digits, p)
      [] At(l, p) \in Letters -> Run("ident", l, Letters \cup Digits, p)
      [] At(l, p) \in Blanks -> Run("space", l, Blanks, p)
      [] At(l, p) = "nul" -> Token("eof", p, 1, p + 1)
      [] At(l, p) \in {"nl", "+"} -> Token("unknown", p, 0, p + 1)
      [] OTHER -> Token("punctuator", p, 1, p + 1)

\* A client asks for nothing after eof.
AtEnd == token.kind = "eof"

\* A call that reads the token t.
Reads(t) ==
    /\ token' = t
    /\ pos' = t.next
    /\ overrun' = (overrun \/ t.next > Nul(line) + 1 \/ At(line, t.start) = "outside")
    /\ covered' = IF saved = <<>> THEN t.next ELSE covered
    /\ UNCHANGED <<line, saved>>

lex == ~AtEnd /\ Reads(Lexed(line, pos))

\* The class of the characters up to a separator or the end of the line.
Word == Char \ Blanks
RestOfLine == Char \ {"nl"}

\* lexAnyString(): the caller sees to it that there is a character to read.
lexAnyString ==
    /\ ~AtEnd
    /\ At(line, pos) \in Word
    /\ Reads(Run("raw_ident", line, Word, pos))

\* readToEndOfLine() with a kind of the caller's choice.
readToEndOfLine == ~AtEnd /\ Reads(Run("rest", line, RestOfLine, pos))

\* skipWhiteSpace()
skipWhiteSpace ==
    /\ ~AtEnd
    /\ pos' = SkipWhile(line, Blanks, pos)
    /\ covered' = IF saved = <<>> THEN pos' ELSE covered
    /\ UNCHANGED <<line, token, overrun, saved>>

\* The constructor and the destructor of MetaLexer::RAII.
Save ==
    /\ ~AtEnd
    /\ Len(saved) < MaxSaved
    /\ saved' = Append(saved, pos)
    /\ UNCHANGED <<line, pos, token, overrun, covered>>

\* A defect: the destructor leaves the cursor where it is.
Restore_Nothing ==
    /\ saved # <<>>
    /\ saved' = SubSeq(saved, 1, Len(saved) - 1)
    /\ token' = NoToken
    /\ UNCHANGED <<line, pos, overrun, covered>>

\* The token read ahead is one the client forgets.
Restore ==
    /\ saved # <<>>
    /\ pos' = saved[Len(saved)]
    /\ saved' = SubSeq(saved, 1, Len(saved) - 1)
    /\ token' = NoToken
    /\ UNCHANGED <<line, overrun, covered>>

\* reset(): not while a position of the old line is saved.
reset(l) ==
    /\ saved = <<>>
    /\ line' = l
    /\ pos' = 1
    /\ covered' = 1
    /\ token' = NoToken
    /\ UNCHANGED <<overrun, saved>>

-----------------------------------------------------------------------------
(* The value of a constant.                                                *)

\* The table of ten weights, of which eight are powers of ten, modulo 2^32.
kPow10 ==
    <<1, 10, 100, 1000, 10000, 100000, 1000000, 10000000, -1, 0>>

\* The weight of the i-th of len digits, i counted from 1.
Weight(len, i) == kPow10[len - i + 1]

DigitValue(c) == (CHOOSE d \in DOMAIN Digit : Digit[d] = c) - 1

\* getConstant(): the sum over the digits of a token.
getConstant(l, t) ==
    LET sum[i \in 0..t.len] ==
          IF i = 0 THEN 0
          ELSE sum[i - 1] + DigitValue(At(l, t.start + i - 1)) * Weight(t.len, i)
    IN  sum[t.len]

-----------------------------------------------------------------------------
\* A backslash at the end of a line may take the NUL with it, and the table has
\* no weight for a ninth digit.
Legal(l) ==
    /\ "backslash" \notin Misuse /\ l # <<>> => l[Len(l)] # "bs"
    /\ "digits" \notin Misuse =>
         \A i \in 1..Len(l) - 8 : \E k \in i..i + 8 : l[k] \notin Digits

Init ==
    /\ line \in {l \in Lines : Legal(l)}
    /\ pos \in {1, SkipWhile(line, Blanks, 1)}
    /\ token = NoToken
    /\ overrun = FALSE
    /\ saved = <<>>
    /\ covered = pos

Next ==
    \/ lex
    \/ lexAnyString
    \/ readToEndOfLine
    \/ skipWhiteSpace
    \/ Save
    \/ Restore
    \/ \E l \in MoreLines : Legal(l) /\ reset(l)

Spec == Init /\ [][Next]_vars

-----------------------------------------------------------------------------
(* Properties.                                                             *)

\* The variables have their types; the cursor stays in the line or, at its
\* end, one place behind the NUL.
TypeOK ==
    /\ line \in Seq(Char)
    /\ pos \in 1..Nul(line) + 1
    /\ token.start \in 1..Nul(line) /\ token.len \in 0..Nul(line)
    /\ overrun \in BOOLEAN
    /\ \A i \in DOMAIN saved : saved[i] \in 1..Nul(line)
    /\ covered \in 1..Nul(line) + 1

\* No call reads behind the NUL, and only the token eof moves the cursor
\* there, which no client lexes after: the unchecked cur_pos_++ are safe.
ReadsInBounds ==
    /\ ~overrun
    /\ pos = Nul(line) + 1 => AtEnd

\* What a token is, without loops.  A backslash quotes the next character, so
\* a quote ends a literal if an even number of backslashes precede it.
Unquoted(l, p, q) ==
    \E n \in 0..q - 1 - p :
      /\ n % 2 = 0
      /\ \A i \in q - n..q - 1 : At(l, i) = "bs"
      /\ At(l, q - n - 1) # "bs"

\* q is the end, exclusive, of the longest stretch from p in the class S.
Longest(l, S, p, q) ==
    /\ \A i \in p..q - 1 : At(l, i) \in S
    /\ At(l, q) \notin S

\* The number that the digits of the token t spell.
Spelt(l, t) ==
    LET upto[i \in 0..t.len] ==
          IF i = 0 THEN 0
          ELSE 10 * upto[i - 1] + DigitValue(At(l, t.start + i - 1))
    IN  upto[t.len]

\* The text of each token is the one its kind promises, as long as can be:
\* a literal reaches to the first quote of its own sort that no backslash
\* protects, words and numbers reach to the first other character, and eof
\* comes at the NUL and nowhere else.  The value of a constant is the number
\* its digits spell.
Right(l, t) ==
    LET p == t.start
        q == t.start + t.len
    IN  CASE t.kind \in {"stringlit", "charlit"} ->
               /\ At(l, p) = IF t.kind = "stringlit" THEN "dq" ELSE "sq"
               /\ At(l, q - 1) = At(l, p) /\ q - 1 > p
               /\ \A i \in p + 1..q - 1 :
                    At(l, i) = At(l, p) /\ Unquoted(l, p, i) <=> i = q - 1
          [] t.kind = "ident" ->
               At(l, p) \in Letters /\ Longest(l, Letters \cup Digits, p, q)
          [] t.kind = "constant" ->
               /\ At(l, p) \in Digits /\ Longest(l, Digits, p, q)
               /\ getConstant(l, t) = Spelt(l, t)
          [] t.kind = "space" -> Longest(l, Blanks, p, q)
          [] t.kind = "raw_ident" -> q > p /\ Longest(l, Word, p, q)
          [] t.kind = "comment" -> At(l, p) = "/" /\ At(l, p + 1) = "/"
          [] t.kind = "l_comment" -> At(l, p) = "/" /\ At(l, p + 1) = "*"
          [] t.kind = "r_comment" -> At(l, p) = "*" /\ At(l, p + 1) = "/"
          [] t.kind = "punctuator" ->
               /\ At(l, p) \in Punctuation
               /\ At(l, p) = "/" => At(l, q) \notin {"/", "*"}
          [] t.kind = "eof" -> At(l, p) = "nul"
          [] OTHER -> TRUE

TokensAreRight == Right(line, token)

\* Successive tokens leave no gap and share no character, and every lex()
\* moves the cursor unless the line is at its end, so that a client that
\* lexes on comes to eof: a character lex() has no case for counts as one,
\* and an unclosed literal is passed over.
TokensTile ==
    [][lex => \/ /\ token'.start = pos
                 /\ pos' = pos + (IF token'.len = 0 THEN 1 ELSE token'.len)
              \/ /\ token'.kind = "eof"
                 /\ pos' \in {Nul(line), Nul(line) + 1}]_vars

\* Looking ahead leaves no trace: when the RAII objects are gone the cursor
\* is at the end of what was read without them.
LookaheadReturns ==
    covered = IF saved = <<>> THEN pos ELSE saved[1]

=============================================================================
