------------------------------- MODULE MCAuth -------------------------------
(* Keys and connections have no identity of their own.  Tokens have: one is *)
(* the seed.                                                                *)
EXTENDS Auth, TLC

AuthSymmetry == Permutations(Keys) \cup Permutations(Conns)
=============================================================================
