-------------------------- MODULE MCServerLifecycle --------------------------
(***************************************************************************)
(* Two users may start the server at once, or again after it has ended;    *)
(* two clients connect; one process is killed and one stop script runs.    *)
(***************************************************************************)
EXTENDS ServerLifecycle

CONSTANTS u1, u2
=============================================================================
