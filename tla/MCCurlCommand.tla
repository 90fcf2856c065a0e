-------------------------- MODULE MCCurlCommand --------------------------
(***************************************************************************)
(* Input domains for CurlCommand: texts of up to three characters over    *)
(* the characters that matter to a shell (quote, backslash, blank,        *)
(* newline) and one ordinary letter.                                      *)
(***************************************************************************)
EXTENDS CurlCommand

MCShellChars == {"a", Q, BS, SP, NL}
MCPlainChars == {"a", SP}
=============================================================================
