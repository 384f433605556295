----------------------------- MODULE MCToolRegistry -----------------------------
(* The start of the session and a reload, a manager of two tools, and a          *)
(* configuration of each kind.                                                   *)
EXTENDS ToolRegistry
=============================================================================
