------------------------------ MODULE MCMysqlOP ------------------------------
(***************************************************************************)
(* Two worker threads and two clients, of whom one is registered.  The     *)
(* table is empty; for the run of overlapping selects it may also hold a   *)
(* key of each.                                                            *)
(***************************************************************************)
EXTENDS MysqlOP

CONSTANTS t1, t2, idA, idB, kA, kB

RowOf(id, key) == [id |-> id, key |-> key, state |-> 0, n |-> 0]
Empty == {<<>>}
MCStored == {<<>>, <<RowOf(idA, kA)>>, <<RowOf(idA, kA), RowOf(idB, kB)>>}

\* Of the other client only that it is refused is asked.
FewAsked == {s \in Statements : s.id = idB => s.kind = "check"}
=============================================================================
