--------------------------- MODULE MCMemoryOwner ---------------------------
(* Instances of MemoryOwner for model checking.                            *)
EXTENDS MemoryOwner
=============================================================================
