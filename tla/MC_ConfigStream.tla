--------------------------- MODULE MC_ConfigStream ---------------------------
(***************************************************************************)
(* Model-checking instance of ConfigStream.  Names and values are short    *)
(* byte strings chosen to reach the parser's edge cases: an empty name and *)
(* an empty value, a name holding "#" and a trailing blank, values holding *)
(* a tab, ";" and "//", all inside the quotes.                             *)
(***************************************************************************)
EXTENDS ConfigStream

MCNames  == {<<97>>, <<>>, <<35, 32>>}
MCValues == {<<>>, <<9, 59>>, <<47, 47>>}
=============================================================================
