---------------------------- MODULE MCNvsManager ----------------------------
(* Small instances of NvsManager for TLC. *)
EXTENDS NvsManager, TLC

CONSTANTS k1, k2, v1, v2

TwoKeys   == {k1, k2}
TwoValues == {v1, v2}
OneMayBeLong == {k2}

(* Bits flip while the device is off. *)
InStorage == {"off"}

ValueSymmetry == Permutations(Values)

=============================================================================
