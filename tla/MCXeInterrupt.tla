---- MODULE MCXeInterrupt ----
EXTENDS XeInterrupt
====
