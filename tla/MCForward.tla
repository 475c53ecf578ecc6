------------------------------ MODULE MCForward ------------------------------
(* A timeout of two units: each attempt can be answered at once, late, or    *)
(* not at all.                                                               *)
EXTENDS Forward

MCTimeout == 2
=============================================================================
