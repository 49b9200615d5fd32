---------------------------- MODULE MCController ----------------------------
(* Small instances of Controller for TLC. *)
EXTENDS Controller

CONSTANTS i1, i2, r1, r2, k1, k2, v1, v2

TwoInstructions == {i1, i2}
TwoRegisters    == {r1, r2}
TwoKeys         == {k1, k2}
TwoValues       == {v1, v2}

(* Configurations that disagree, and one of a single setting.  The second  *)
(* is too long for the buffer.                                             *)
SomeConfigs ==
  {<<<<k1, v1>>, <<k2, v1>>>>, <<<<k1, v2>>, <<k2, v2>>>>, <<<<k2, v1>>>>}

FirstFits == [c \in SomeConfigs |-> IF c[1] = <<k1, v2>> THEN 1 ELSE Len(c)]

(* A relay together with each of the others. *)
Pairs ==
  {{"setRelay", "enqueueInstruction"}, {"setRelay", "applyRemoteConfig"},
   {"setRelay", "writeCoil"}}

=============================================================================
