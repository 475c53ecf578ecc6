-------------------------- MODULE MCServerLifecycle --------------------------
(* Two callers, two addresses, two generations, two connection tasks, and    *)
(* the source's own ratio of the two timeouts in ticks of one second.        *)
EXTENDS ServerLifecycle, TLC

CONSTANTS c1, c2, a1, a2, k1, k2
Symmetry == Permutations({c1, c2}) \cup Permutations({k1, k2}) \cup Permutations({a1, a2})
=============================================================================
