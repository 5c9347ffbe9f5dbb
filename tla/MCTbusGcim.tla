------------------------------ MODULE MCTbusGcim ------------------------------
(* Two processes with a channel between them, which comes and goes, and a      *)
(* second channel that one of them shares with a process that never starts.    *)
EXTENDS TbusGcim, TLC

CONSTANTS p, q, ab, bc

EndsOf == (ab :> {p, q}) @@ (bc :> {q})
Lists  == {{bc}, {ab, bc}}
Interchange == Permutations(Seg)
===============================================================================
