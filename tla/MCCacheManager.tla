--------------------------- MODULE MCCacheManager ---------------------------
(* Small instances of CacheManager for TLC. *)
EXTENDS CacheManager

CONSTANTS v1, v2

TwoValues == {v1, v2}

(* Less than a line, and more than is left of it. *)
Pieces == {<<v1>>, <<v2, v2>>}

=============================================================================
