----------------------------- MODULE MCStartup -----------------------------
(* A small instance of Startup: two daemons that both own the schema and   *)
(* one that waits for it, three versions, and a plugin content with the    *)
(* second of them, as the real one is with version 6 of 8.                 *)
EXTENDS Startup

MCStatements == <<1, 2, 1>>
============================================================================
