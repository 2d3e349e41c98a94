------------------------------ MODULE MCForging ------------------------------
(* Three delegates, two of them configured here; the account of the first  *)
(* is in the second block.                                                 *)
EXTENDS Forging
CONSTANTS k1, k2, k3
ConfiguredKeys == <<k1, k2>>
RegistrationHeights == [k \in {k1, k2, k3} |-> IF k = k1 THEN 2 ELSE 1]
Lists == <<<<k3, k1, k2>>, <<k2, k3, k1>>>>
MCSecrets == ConfiguredKeys
MCRegisteredAt == RegistrationHeights
MCList(h) == Lists[IF h < 3 THEN 1 ELSE 2]
=============================================================================
