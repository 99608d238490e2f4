------------------------------ MODULE MCParser ------------------------------
(* The lines TLC parses: every line of up to four characters; and of up to *)
(* six, those over two smaller sets of characters, long enough for a line  *)
(* with too many tokens, for a redirection given twice, and for a pipe     *)
(* whose right side starts with a redirection.                             *)
EXTENDS Parser

LinesOver(chars, n) == UNION {[1..m -> chars] : m \in 0..n}

MCLines == LinesOver({"a", " ", ">", "<", "|", "&", "$?"}, 4)
             \cup LinesOver({"a", " ", ">", "|"}, 6)
             \cup LinesOver({"a", "<", ">", "&"}, 6)
=============================================================================
