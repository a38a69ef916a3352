------------------------------ MODULE MCVault -------------------------------
(* Connections, the keys hosts show and all secrets but the first are alike.  *)
EXTENDS Vault, TLC

Alike == Permutations(Conns) \cup Permutations(Prints)
             \cup Permutations(Secrets \ {FirstSecret})
=============================================================================
