--------------------------- MODULE MCMessageQueue ---------------------------
(***************************************************************************)
(* MessageQueue for TLC.  The sets of threads and messages are sets of     *)
(* model values given in the configurations; they are not symmetry sets,   *)
(* because the run checks liveness.                                        *)
(***************************************************************************)
EXTENDS MessageQueue
=============================================================================
