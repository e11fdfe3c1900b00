------------------------------ MODULE MCToolCalls ------------------------------
(* Instances of ToolCalls for TLC. *)
EXTENDS ToolCalls

CONSTANTS c1, c2, o1, o2, a1, a2

=============================================================================
