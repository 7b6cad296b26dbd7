--------------------------- MODULE MCKeyAgreement ---------------------------
(***************************************************************************)
(* Instances of KeyAgreement.  KeyIds has a value that is also a keyid of  *)
(* the database and one that is not, as time(NULL) % 100000 has.           *)
(***************************************************************************)
EXTENDS KeyAgreement, TLC

CONSTANTS c1, c2, idA, idB, n1, n2

\* Every client has an id of its own ...
MCIdOf == [c \in Clients |-> IF c = c1 THEN idA ELSE idB]
\* ... or all share one, as client/main.cpp has it.
MCSame == [c \in Clients |-> idA]

\* r1 and r2 are only ever compared: the random strings are interchangeable, and
\* so are the clients of MCIdOf when their ids change places with them.
Randoms == Permutations({n1, n2})
Swap == (c1 :> c2) @@ (c2 :> c1) @@ (idA :> idB) @@ (idB :> idA)
Symmetric == Randoms \cup {Swap} \cup {Swap @@ p : p \in Randoms}

\* Two operations overlap as they can; a third, which asks about a key, comes
\* after both.
ThirdAsks ==
  opened = 3 =>
    /\ \A c \in Clients : cli[c].n = 3 => cli[c].req.cmd = "check"
    /\ \A n \in {1, 2} : conn[n] = Gone
=============================================================================
