----------------------------- MODULE MCParSort -----------------------------
(***************************************************************************)
(* ParSort for TLC, on every array of a given length over a few values.    *)
(***************************************************************************)
EXTENDS ParSort
=============================================================================
