------------------------------- MODULE MCPipe -------------------------------
(* Pipe with small model values for TLC. *)
EXTENDS Pipe
=============================================================================
