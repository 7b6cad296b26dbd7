---------------------------- MODULE MCSecKeyShm ----------------------------
(***************************************************************************)
(* Instances of SecKeyShm: the server process asks for the larger table,   *)
(* a client process for one node (ServerOperation.cpp:190 with maxNode 10, *)
(* ClientOperation.cpp:24 with 1), and each may be the first to start.     *)
(***************************************************************************)
EXTENDS SecKeyShm, TLC

CONSTANTS srv, cli, opn, s1, s2, c1, o1, kA, kB, kC, idA, idB

\* opn is a process that opens the segment without a size, as SecKeyShm(key).
MCProcOf   == [t \in Threads |-> CASE t = c1 -> cli [] t = o1 -> opn [] OTHER -> srv]
MCReqNodes == [p \in Procs |-> CASE p = cli -> 1 [] p = opn -> 0 [] OTHER -> MaxNodes]

\* kA and kB are an agreement of pair idA and its renewal.
MCIdOf     == [r \in Records |-> IF r = kC THEN idB ELSE idA]

\* The worker threads of the server are interchangeable.
Workers == Permutations({s1, s2})
=============================================================================
