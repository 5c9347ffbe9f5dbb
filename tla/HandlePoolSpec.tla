----------------------------- MODULE HandlePoolSpec -----------------------------
(***************************************************************************)
(* What a user of a memory pool may rely on (tmempool.h): alloc and free   *)
(* change the value of the pool as HandlePool says, in one step each; a    *)
(* call the process dies in has no effect, but leaves a pool that neither  *)
(* gives nor takes any more.                                               *)
(***************************************************************************)
EXTENDS HandlePool

VARIABLES pool, broken

Init == pool = NewPool /\ broken = FALSE

Alloc ==
    /\ ~broken /\ CanAlloc(pool)
    /\ pool' = AfterAlloc(pool) /\ UNCHANGED broken

Free(h) ==
    /\ ~broken /\ Live(pool, h)
    /\ \E lifo \in BOOLEAN : pool' = AfterFree(pool, h, lifo)
    /\ UNCHANGED broken

Break == ~broken /\ broken' = TRUE /\ UNCHANGED pool

Next == Alloc \/ Break \/ \E h \in 0 .. MaxIdx : Free(h)

Spec == Init /\ [][Next]_<<pool, broken>>
=============================================================================
