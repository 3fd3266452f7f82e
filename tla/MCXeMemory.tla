----------------------------- MODULE MCXeMemory -----------------------------
(* Two records of one or two pages in three, two alignments, owners and     *)
(* fence timelines; the third generation is the last, so a record is reused. *)
EXTENDS XeMemory, TLC

Symmetry == Permutations(Owners) \cup Permutations(Timelines)
=============================================================================
