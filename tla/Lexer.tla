------------------------------- MODULE Lexer -------------------------------
(***************************************************************************)
(* The lexer, codegen/lexer.cpp: get_all_tokens with get_next_token, which   *)
(* reads character after character as long as what it has read is some token, *)
(* and puts the first character back that is not part of it.  Texts are      *)
(* strings.  The attribute of a token is the text it was read from.         *)
(***************************************************************************)
EXTENDS Naturals, Sequences, SequencesExt, FiniteSets

CONSTANTS
    Texts,                  \* the texts that may be given to it
    Letter,                 \* the letters in them, with the underscore
    mapTermIdx              \* the table indices of the terminals of a grammar

Digit == {"0", "1", "2", "3", "4", "5", "6", "7", "8", "9"}

Char(w, i) == SubSeq(w, i, i)
AllIn(w, chars) == \A i \in 1 .. Len(w) : Char(w, i) \in chars
Begins(w, pairs) == Len(w) >= 2 /\ SubSeq(w, 1, 2) \in pairs
Behind(w, n) == SubSeq(w, n + 1, Len(w))

-----------------------------------------------------------------------------
(* get_lexer_matching_tokens *)

IsDigits(w) == w # "" /\ AllIn(w, Digit)

\* (mutant) a prefix of a hexadecimal or binary number is not accepted
IntPatternStrict(w) ==
    \/ IsDigits(w)
    \/ Begins(w, {"0x", "0b"}) /\ IsDigits(Behind(w, 2))

\* With the matches that only let the search go on.
IntPattern(w) ==
    \/ IsDigits(w)
    \/ Begins(w, {"0x", "0b"}) /\ (w \in {"0x", "0b"} \/ IsDigits(Behind(w, 2)))

\* A bitset cannot be made of other digits.
Throws(w) ==
    /\ IntPattern(w) /\ Begins(w, {"0b"})
    /\ ~ AllIn(Behind(w, 2), {"0", "1"})

RealPattern(w) ==
    \E n \in 1 .. Len(w) :
        /\ IsDigits(SubSeq(w, 1, n))
        /\ n < Len(w) => Char(w, n + 1) = "." /\ AllIn(Behind(w, n + 1), Digit)

Keyword(w) ==
    CASE w = "if"                -> {"IF"}
      [] w = "else"              -> {"ELSE"}
      [] w \in {"loop", "while"} -> {"LOOP"}
      [] w = "func"              -> {"FUNC"}
      [] w = "extern"            -> {"EXTERN"}
      [] w = "return"            -> {"RETURN"}
      [] w = "break"             -> {"BREAK"}
      [] w = "continue"          -> {"CONTINUE"}
      [] OTHER                   -> {}
IdentPattern(w) == w # "" /\ Char(w, 1) \in Letter /\ AllIn(w, Letter \cup Digit)

Operator(w) ==
    CASE w = "=="           -> {"EQU"}
      [] w \in {"!=", "<>"} -> {"NEQU"}
      [] w \in {"||", "or"} -> {"OR"}
      [] w \in {"&&", "and"} -> {"AND"}
      [] w = "xor"          -> {"BIN_XOR"}
      [] w = ">="           -> {"GEQU"}
      [] w = "<="           -> {"LEQU"}
      [] w = "<<"           -> {"SHIFT_LEFT"}
      [] w = ">>"           -> {"SHIFT_RIGHT"}
      [] w \in {"+", "-", "*", "/", "%", "^", "(", ")", "{", "}", "[", "]", ",", ";",
                "=", ">", "<", "!", "|", "&"} -> {w}
      [] OTHER -> {}

\* The identifiers of the tokens that w may be, in the order they are tried.
get_lexer_matching_tokens(w) ==
    LET only(b, id) == IF b THEN <<id>> ELSE <<>>
        word == IF Keyword(w) # {} THEN Keyword(w)
                ELSE IF IdentPattern(w) THEN {"IDENT"} ELSE {}
    IN  only(IntPattern(w), "INT") \o only(RealPattern(w), "REAL")
            \o SetToSeq(word) \o SetToSeq(Operator(w))

-----------------------------------------------------------------------------
VARIABLES
    text, end_on_newline,
    pos,                    \* characters taken from the stream
    line,
    input,                  \* what has been read for the next token
    longest_lexer_matching, in_line_comment, in_string,
    vec,                    \* the tokens
    status                  \* "read", "done", "error"

textVars == <<text, end_on_newline>>
tokenVars == <<input, longest_lexer_matching, in_line_comment, in_string>>
vars == <<text, end_on_newline, pos, line, input, longest_lexer_matching,
          in_line_comment, in_string, vec, status>>

LexerInit ==
    /\ text \in Texts /\ end_on_newline \in BOOLEAN
    /\ pos = 0 /\ line = 1
    /\ input = "" /\ longest_lexer_matching = <<>>
    /\ in_line_comment = FALSE /\ in_string = FALSE
    /\ vec = <<>> /\ status = "read"

Reading   == status = "read" /\ pos < Len(text)
c         == Char(text, pos + 1)
Taken     == pos' = pos + 1
Outside   == longest_lexer_matching = <<>>
\* A character that is not part of a comment, outside of any other match.
Fresh     == Reading /\ Outside /\ ~ (in_line_comment /\ c # "\n")

\* get_next_token returns, and get_all_tokens appends the token; it calls
\* get_next_token again, with fresh local variables, unless this was the last one.
Return(id, lval) ==
    /\ vec' = Append(vec, [id |-> id, lval |-> lval, line |-> line,
                           tableidx |-> IF id \in DOMAIN mapTermIdx
                                        THEN mapTermIdx[id] ELSE 0])
    /\ status' = IF id = "END" THEN "done" ELSE status
    /\ input' = "" /\ longest_lexer_matching' = <<>>
    /\ in_line_comment' = FALSE /\ in_string' = FALSE
    /\ UNCHANGED <<textVars, line>>

\* The end of the text; a string that is still open is dropped.
EndOfText ==
    /\ status = "read" /\ pos = Len(text) /\ Outside
    /\ Return("END", "")
    /\ UNCHANGED pos

SkipComment ==
    /\ Reading /\ in_line_comment /\ c # "\n"
    /\ Taken
    /\ UNCHANGED <<textVars, line, tokenVars, vec, status>>

BeginString ==
    /\ Fresh /\ c = "\"" /\ ~ in_line_comment /\ ~ in_string
    /\ Taken
    /\ in_string' = TRUE
    /\ UNCHANGED <<textVars, line, input, longest_lexer_matching, in_line_comment, vec, status>>

EndString ==
    /\ Fresh /\ c = "\"" /\ ~ in_line_comment /\ in_string
    /\ Taken
    /\ Return("STR", input)

BeginComment ==
    /\ Fresh /\ c = "#" /\ ~ in_string
    /\ Taken
    /\ in_line_comment' = TRUE
    /\ UNCHANGED <<textVars, line, input, longest_lexer_matching, in_string, vec, status>>

SkipBlank ==
    /\ Fresh /\ c \in {" ", "\t"} /\ ~ in_string
    /\ Taken
    /\ UNCHANGED <<textVars, line, tokenVars, vec, status>>

\* Strings do not keep it from ending the input or from being skipped.
EndOnNewline ==
    /\ Fresh /\ c = "\n" /\ end_on_newline
    /\ Taken
    /\ Return("END", "")

\* (mutant) the newline that ends a comment is not counted
NewlineUncounted ==
    /\ Fresh /\ c = "\n" /\ ~ end_on_newline
    /\ Taken
    /\ in_line_comment' = FALSE
    /\ line' = IF in_line_comment THEN line ELSE line + 1
    /\ UNCHANGED <<textVars, input, longest_lexer_matching, in_string, vec, status>>

Newline ==
    /\ Fresh /\ c = "\n" /\ ~ end_on_newline
    /\ Taken
    /\ in_line_comment' = FALSE
    /\ line' = line + 1
    /\ UNCHANGED <<textVars, input, longest_lexer_matching, in_string, vec, status>>

\* A character that is looked at as part of a token or a string.
Content ==
    /\ Reading /\ ~ (in_line_comment /\ c # "\n")
    /\ Outside => c \notin {"\"", "\n"} /\ (in_string \/ c \notin {"#", " ", "\t"})

InString ==
    /\ Content /\ in_string
    /\ Taken
    /\ input' = input \o c
    /\ UNCHANGED <<textVars, line, longest_lexer_matching, in_line_comment, in_string, vec, status>>

Matching == get_lexer_matching_tokens(input \o c)

\* The token is longer, and there is more to read.
Longer ==
    /\ Content /\ ~ in_string /\ ~ Throws(input \o c)
    /\ Matching # <<>> /\ pos + 1 < Len(text)
    /\ Taken
    /\ input' = input \o c /\ longest_lexer_matching' = Matching
    /\ UNCHANGED <<textVars, line, in_line_comment, in_string, vec, status>>

\* The first match counts.
LastToken ==
    /\ Content /\ ~ in_string /\ ~ Throws(input \o c)
    /\ Matching # <<>> /\ pos + 1 = Len(text)
    /\ Taken
    /\ Return(Matching[1], input \o c)

\* The character is put back.
PutBack ==
    /\ Content /\ ~ in_string
    /\ Matching = <<>> /\ ~ Outside
    /\ Return(longest_lexer_matching[1], input)
    /\ UNCHANGED pos

\* Nothing begins with the character, or a number cannot be converted.
Throw ==
    /\ Content /\ ~ in_string
    /\ (Matching = <<>> /\ Outside) \/ Throws(input \o c)
    /\ status' = "error"
    /\ UNCHANGED <<textVars, pos, line, tokenVars, vec>>

Stopped ==
    /\ status # "read"
    /\ UNCHANGED vars

LexerNext ==
    \/ EndOfText \/ SkipComment \/ BeginString \/ EndString \/ BeginComment
    \/ SkipBlank \/ EndOnNewline \/ Newline
    \/ InString \/ Longer \/ LastToken \/ PutBack \/ Throw \/ Stopped

LexerSpec == LexerInit /\ [][LexerNext]_vars

-----------------------------------------------------------------------------
(* Properties *)

IsToken(w) == get_lexer_matching_tokens(w) # <<>>
FirstBehind(i, chars) ==
    LET places == {j \in i + 1 .. Len(text) : Char(text, j) \in chars}
    IN  IF places = {} THEN Len(text) + 1 ELSE CHOOSE j \in places : \A k \in places : j <= k

Token(id, lval, ln) == [id |-> id, lval |-> lval, line |-> ln]

\* What the text behind its first i characters consists of: at each place the
\* longest token there is.  "open" is a string that is not closed on its line.
RECURSIVE Tokens(_, _)
Tokens(i, ln) ==
    LET next  == Char(text, i + 1)
        quote == FirstBehind(i + 1, {"\"", "\n"})
        ends  == {j \in i + 1 .. Len(text) : IsToken(SubSeq(text, i + 1, j))}
        last  == CHOOSE j \in ends : \A k \in ends : k <= j
        word  == SubSeq(text, i + 1, last)
    IN  CASE i >= Len(text) \/ (next = "\n" /\ end_on_newline) -> <<Token("END", "", ln)>>
          [] i < Len(text) /\ next = "\n" /\ ~ end_on_newline -> Tokens(i + 1, ln + 1)
          [] i < Len(text) /\ next \in {" ", "\t"} -> Tokens(i + 1, ln)
          [] i < Len(text) /\ next = "#" -> Tokens(FirstBehind(i, {"\n"}) - 1, ln)
          [] i < Len(text) /\ next = "\"" ->
                 IF quote > Len(text) \/ Char(text, quote) = "\n" THEN <<Token("open", "", ln)>>
                 ELSE <<Token("STR", SubSeq(text, i + 2, quote - 1), ln)>> \o Tokens(quote, ln)
          [] OTHER ->
                 IF ends = {} \/ \E k \in ends : Throws(SubSeq(text, i + 1, k))
                 THEN <<Token("error", "", ln)>>
                 ELSE <<Token(get_lexer_matching_tokens(word)[1], word, ln)>>
                          \o Tokens(last, ln)

StringsClosed == \A i \in DOMAIN Tokens(0, 1) : Tokens(0, 1)[i].id # "open"
Read(tokens) == [i \in DOMAIN tokens |-> <<tokens[i].id, tokens[i].lval>>]

\* Stopping at the first character that makes no token finds the longest tokens,
\* whatever stands between them, and a text is rejected only where no token
\* begins or a number has no value.  Strings are closed on their line.
LongestMatches ==
    StringsClosed =>
        /\ status = "done"  => Read(vec) = Read(Tokens(0, 1))
        /\ status = "error" => Read(Append(vec, Token("error", "", 0))) = Read(Tokens(0, 1))

\* A token has the number of the line it stands on, behind comments and empty
\* lines, and also if the newline has been read with it and put back.
LinesRight ==
    StringsClosed =>
        \A i \in DOMAIN vec \cap DOMAIN Tokens(0, 1) : vec[i].line = Tokens(0, 1)[i].line
=============================================================================
