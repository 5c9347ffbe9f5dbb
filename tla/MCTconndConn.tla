------------------------------ MODULE MCTconndConn ------------------------------
(***************************************************************************)
(* Small instances of TconndConn.                                          *)
(***************************************************************************)
EXTENDS TconndConn

CONSTANTS c1, c2, c3

NoVIP  == {}
OneVIP == {c2}

Silent    == [c \in Client |-> 0]
OneTalks2 == [c \in Client |-> IF c = c1 THEN 2 ELSE 0]

Symmetry == Permutations(Client)
=============================================================================
