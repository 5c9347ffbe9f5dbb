------------------------------- MODULE MCLibrary -------------------------------
(***************************************************************************)
(* Small instances of the parts of the framework.                          *)
(***************************************************************************)
EXTENDS Library

\* Two keys share a code, and one more their bucket.
MCCode == [k \in Keys |-> IF k = "c" THEN 4 ELSE 2]

\* By number only; by number and period; piled up; by period only.
MCDevices ==
    {[max |-> 2, stick |-> FALSE, period |-> 0, limit |-> 2, unit |-> 4],
     [max |-> 2, stick |-> FALSE, period |-> 2, limit |-> 2, unit |-> 2],
     [max |-> 3, stick |-> TRUE,  period |-> 0, limit |-> 2, unit |-> 2],
     [max |-> 0, stick |-> FALSE, period |-> 2, limit |-> 2, unit |-> 1]}

\* A text, and a binary message in two pieces.
MCMessages == {[size |-> 1, counted |-> 1], [size |-> 3, counted |-> 2]}
=============================================================================
