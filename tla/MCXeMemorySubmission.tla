------------------------ MODULE MCXeMemorySubmission ------------------------
(* Queue, bridge and memory manager together: two jobs of one or two        *)
(* resources that may share an allocation, two records of one page, and     *)
(* enough generations for a record to be reclaimed and reused while an old  *)
(* handle is still around.                                                  *)
EXTENDS XeMemorySubmission

Handles == [slot : 0 .. Capacity - 1, generation : 1 .. MaxGeneration - 1]
=============================================================================
