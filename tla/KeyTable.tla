------------------------------ MODULE KeyTable ------------------------------
(***************************************************************************)
(* What the shared-memory table promises its callers: cells that are       *)
(* filled once, in order, and never changed after that.                    *)
(***************************************************************************)
EXTENDS Integers

CONSTANTS Records, Empty, MaxNodes

VARIABLE cells

Cells == 0..(MaxNodes - 1)

Init == cells = [i \in Cells |-> Empty]

\* A record goes to the first empty cell.
Add(r) ==
  \E i \in Cells :
    /\ cells[i] = Empty
    /\ \A j \in 0..(i - 1) : cells[j] # Empty
    /\ cells' = [cells EXCEPT ![i] = r]

Next == \E r \in Records : Add(r)

Spec == Init /\ [][Next]_cells
=============================================================================
