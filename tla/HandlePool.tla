------------------------------- MODULE HandlePool -------------------------------
(***************************************************************************)
(* What a memory pool of comm/tmempool.c promises, as operators on the     *)
(* value of a pool: blocks at the positions 0 .. Cap - 1 are handed out in *)
(* the order in which they became free (TMEMPOOL_FIFO, the default) or the *)
(* last freed first (TMEMPOOL_LIFO), under handles that change from use to *)
(* use: a handle is the position plus Cap times the number of earlier uses *)
(* of the block, so that an old handle finds nothing.  Position 0 is the   *)
(* exception: tmempool_alloc takes an iIdx of 0 for a block never used.    *)
(***************************************************************************)
EXTENDS Integers, Sequences

CONSTANTS
    Cap,     \* iMax
    MaxIdx   \* the largest value of iIdx; beyond it a block starts anew

ASSUME PoolAssumption == Cap \in Nat \ {0} /\ MaxIdx \in Nat /\ MaxIdx >= Cap - 1

Position == 0 .. Cap - 1

PosOf(h) == h % Cap

\* tmempool_init_body_i: all blocks free, linked in the order of positions.
NewPool == [free |-> [k \in 1 .. Cap |-> k - 1],
            last |-> [p \in Position |-> 0],
            valid |-> {}]

\* Mutant of NextIdx: the handle is the position.
NextIdxPlain(p, last) == p

\* Mutant of NextIdx: the handles never start anew.
NextIdxOn(p, last) == IF last = 0 THEN p ELSE (last \div Cap) * Cap + Cap + p

\* The handle the block at p gets when the one it had was last.
NextIdx(p, last) ==
    LET next == (last \div Cap) * Cap + Cap + p
    IN  IF last = 0 \/ next > MaxIdx THEN p ELSE next

\* tmempool_get: the block h names is in use, under this handle.
Live(pl, h) == h >= 0 /\ PosOf(h) \in pl.valid /\ pl.last[PosOf(h)] = h

CanAlloc(pl) == pl.free # <<>>
AllocIdx(pl) == NextIdx(Head(pl.free), pl.last[Head(pl.free)])

AfterAlloc(pl) ==
    [free |-> Tail(pl.free),
     last |-> [pl.last EXCEPT ![Head(pl.free)] = AllocIdx(pl)],
     valid |-> pl.valid \cup {Head(pl.free)}]

AfterFree(pl, h, lifo) ==
    [pl EXCEPT !.free = IF lifo THEN <<PosOf(h)>> \o @ ELSE Append(@, PosOf(h)),
               !.valid = @ \ {PosOf(h)}]
=============================================================================
