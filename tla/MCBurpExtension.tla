--------------------------- MODULE MCBurpExtension ---------------------------
(* Two workers, so that status results can be applied out of order, and one  *)
(* fallback address besides the stored one.                                  *)
EXTENDS BurpExtension, TLC

CONSTANTS auto, unloader, w1, w2, a1, a2

MCWorkers == {w1, w2}
MCCallers == {w1, w2, auto, unloader}
MCAddrs == {a1, a2}
MCFallbacks == <<a2>>
OneAddr == {a1}
NoFallbacks == <<>>
MCSymmetry == Permutations({w1, w2})

\* What a finished call returned is forgotten with its thread, and the address
\* of a reply matters only when a server runs.
MCView ==
    <<up, call, task, at, want, try, ui, ending,
      [t \in Callers |-> IF task[t] = "none" THEN NoAddr
                         ELSE IF reply[t].running THEN reply[t].addr ELSE NoAddr]>>
=============================================================================
