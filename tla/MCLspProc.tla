----------------------------- MODULE MCLspProc -----------------------------
(* Small instances of the LSP worker.  *)
EXTENDS LspProc

MCSymmetry == Permutations(Clients)
=============================================================================
