-------------------------------- MODULE MCAcl --------------------------------
(* Windows that time 0 is in, time 1 is in, or both.                          *)
EXTENDS Acl, TLC

CONSTANTS g, h, a1, a2

TwoWindows == {<<-1, 9>>, <<0, 9>>}
ExpiringWindow == {<<-1, 1>>}
OneWindow == {<<-1, 9>>}
AclSymmetry == Permutations(Acls)
=============================================================================
