------------------------- MODULE MCMemoryIntegrityTree -------------------------
(* MemoryIntegrityTree for TLC: four blocks, two of them siblings in use. *)
EXTENDS MemoryIntegrityTree

MCWords == <<"w1", "w2", "w3">>

=============================================================================
