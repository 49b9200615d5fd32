--------------------------- MODULE MCFirmwareCache ---------------------------
(* Small instances of FirmwareCache for TLC. *)
EXTENDS FirmwareCache, TLC

CONSTANTS i1, i2

TwoImages == {i1, i2}
OneImage  == {i1}

Filled(n, i) == [k \in 1 .. n |-> i]

(* Chunks: a single cell and two of another contents; the same and two     *)
(* cells like the single one; one cell or three.                           *)
Mixed      == {Filled(1, i1), Filled(2, i2)}
MixedOrNot == Mixed \cup {Filled(2, i1)}
OneOrThree == {Filled(1, i1), Filled(3, i1)}

Host == {FALSE}
Esp  == {TRUE}

(* Slot A, then slot B, each a header sector and SlotSize - SectorSize cells. *)
Adjacent == [s \in Slots |-> s * SlotSize]

Cuts      == {"powercut"}
Unaligned == {"unaligned"}
AnyUse    == Uses

=============================================================================
