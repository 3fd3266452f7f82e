------------------------ MODULE MCXeContextExecution ------------------------
(* One job of two allocations on one context, over two records of one page  *)
(* and two generations, so that a named record can be reclaimed and reused. *)
EXTENDS XeContextExecution
=============================================================================
