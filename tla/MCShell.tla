------------------------------ MODULE MCShell ------------------------------
(* A small instance of Shell: lines of one to three commands *)
EXTENDS Shell

MCPipelines == [cmds : 1..3, bg : BOOLEAN]
=============================================================================
