------------------------------ MODULE MCLexer ------------------------------
(* All short texts over some characters, and longer ones made of pieces.     *)
EXTENDS Lexer

MCLetter == {"_", "a", "b", "x", "o", "r", "i", "f", "l", "s", "e", "n", "d", "p"}

RECURSIVE TextsOf(_, _)
TextsOf(pieces, n) ==
    IF n = 0 THEN {""}
    ELSE {""} \cup {p \o w : p \in pieces, w \in TextsOf(pieces, n - 1)}

\* Numbers; operators; strings, comments and lines; words.
MCTexts ==
    TextsOf({"0", "1", "2", "b", "x", "."}, 4)
        \cup TextsOf({"=", "<", ">", "!", "|", "&", "~", "a"}, 3)
        \cup TextsOf({"\"", "#", "\n", " ", "a", "+"}, 4)
        \cup TextsOf({"if", "or", "else", "loop", "xor", "and", "1", " ", "["}, 3)

\* The bracket is no terminal of the script grammar.
MCTermIdx ==
    [id \in {"INT", "REAL", "STR", "IDENT", "END", "IF", "ELSE", "LOOP", "=", "<"} |->
        CASE id = "END" -> 0 [] id = "=" -> 1 [] OTHER -> 2]
=============================================================================
