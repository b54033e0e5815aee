----------------------------- MODULE MCLspPool -----------------------------
(* Small instances of the pool.  *)
EXTENDS LspPool, TLC

CONSTANTS k1, k2

MCGroups == {Keys}
MCSelections == {{k1}}
MCSymmetry == Permutations(Pids) \cup Permutations(Workers) \cup Permutations(Callers)
=============================================================================
