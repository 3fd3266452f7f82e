--------------------------- MODULE MCXeSubmission ---------------------------
(* The queue alone: two job entries, three sequence numbers and two reset   *)
(* epochs, so that the table fills, sequences run out and the last          *)
(* generation is reached.  One resource is enough here: which resources a   *)
(* batch names matters only to the memory manager (MCXeMemorySubmission).   *)
EXTENDS XeSubmission
=============================================================================
