----------------------------- MODULE MCRioStream -----------------------------
(***************************************************************************)
(* RioStream for TLC: an empty line, a line, one that exactly fits into a  *)
(* buffer with its terminator, and one that does not.                      *)
(***************************************************************************)
EXTENDS RioStream

Lines == {<<NL>>, <<"a", NL>>, <<"a", "b", NL>>, <<"a", "b", "c", NL>>}
=============================================================================
