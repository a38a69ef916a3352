------------------------------ MODULE MCChannel ------------------------------
(* The hosts have no identity but their place in the chain.                  *)
EXTENDS Channel, TLC

HostSymmetry == Permutations(Hosts)
=============================================================================
