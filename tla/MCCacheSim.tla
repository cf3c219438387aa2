----------------------------- MODULE MCCacheSim -----------------------------
(***************************************************************************)
(* CacheSim for TLC, under every combination of options that main allows.  *)
(***************************************************************************)
EXTENDS CacheSim

\* Three blocks of the first set, which has room for two, and one of the second.
Trace == {0, 9, 17, 6}
=============================================================================
