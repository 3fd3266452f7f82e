-------------------------- MODULE MCXeGuCFirmware --------------------------
(* Two regions of one or two pages and a plan of both; two grants with a    *)
(* page between them that belongs to somebody else.                         *)
EXTENDS XeGuCFirmware

Grants == <<[first |-> 0, pages |-> 1], [first |-> 2, pages |-> 2]>>
=============================================================================
