--------------------------- MODULE MCConnectionTask ---------------------------
(* Three tunnel requests on one connection whose bridge channel holds one    *)
(* job, as in the source: with HTTP/2 two handlers can compete for the slot  *)
(* while a third one's bridge is running.                                    *)
EXTENDS ConnectionTask, TLC

CONSTANTS r1, r2, r3
Symmetry == Permutations({r1, r2, r3})
=============================================================================
