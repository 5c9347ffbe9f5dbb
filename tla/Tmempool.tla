-------------------------------- MODULE Tmempool --------------------------------
(***************************************************************************)
(* The memory pool of comm/tmempool.c in shared memory: blocks linked by   *)
(* their positions into a list of free ones, handed out under handles that *)
(* change from use to use.  Alloc and free take a step for every word they *)
(* write, so that the process may die between any two of them; the next    *)
(* one attaches, and tmempool_fix makes a new list if iStart # iEnd.       *)
(*                                                                         *)
(* Only one process uses a pool.  The history variable pool is the value   *)
(* of HandlePool the pool is to implement.                                 *)
(***************************************************************************)
EXTENDS HandlePool, FiniteSets

VARIABLES
    inited,             \* iInited
    iFreeHead, iFreeTail, iUsed, iMethod,
    torn,               \* iStart # iEnd
    fValid, iIdx, iNext, \* the blocks
    pc,                 \* "down", "idle" or the next write of the call
    cur,                \* iPos of the call
    idx,                \* iIdx of the call
    iter, seen, during, \* a walk with tmempool_find_used: *piPos, the handles
                        \* it returned, those in use since it began
    pool                \* history: the pool's value

head   == <<inited, iFreeHead, iFreeTail, iUsed, iMethod, torn>>
blocks == <<fValid, iIdx, iNext>>
walk   == <<iter, seen, during>>
vars   == <<inited, iFreeHead, iFreeTail, iUsed, iMethod, torn, fValid, iIdx, iNext,
            pc, cur, idx, iter, seen, during, pool>>

NoWalk == iter' = -1 /\ seen' = {} /\ during' = {}

\* A new segment: all bytes are 0, nothing is linked.
Init ==
    /\ inited = FALSE /\ torn = FALSE
    /\ iFreeHead = 0 /\ iFreeTail = 0 /\ iUsed = 0 /\ iMethod = "FIFO"
    /\ fValid = [p \in Position |-> FALSE]
    /\ iIdx = [p \in Position |-> 0] /\ iNext = [p \in Position |-> 0]
    /\ pc = "init" /\ cur = 0 /\ idx = 0
    /\ iter = -1 /\ seen = {} /\ during = {}
    /\ pool = NewPool

\* tmempool_init: iInited comes last.
InitBody ==
    /\ pc = "init" /\ pc' = "ready"
    /\ iFreeHead' = 0 /\ iFreeTail' = Cap - 1
    /\ iNext' = [p \in Position |-> IF p = Cap - 1 THEN -1 ELSE p + 1]
    /\ UNCHANGED <<inited, iUsed, iMethod, torn, fValid, iIdx, cur, idx, walk, pool>>

InitDone ==
    /\ pc = "ready" /\ pc' = "idle" /\ inited' = TRUE
    /\ UNCHANGED <<iFreeHead, iFreeTail, iUsed, iMethod, torn, blocks, cur, idx, walk, pool>>

SetMethod ==
    /\ pc = "idle" /\ iMethod' = IF iMethod = "FIFO" THEN "LIFO" ELSE "FIFO"
    /\ UNCHANGED <<inited, iFreeHead, iFreeTail, iUsed, torn, blocks, pc, cur, idx, walk, pool>>
-----------------------------------------------------------------------------
(***************************************************************************)
(* tmempool_alloc                                                          *)
(***************************************************************************)
Goto(from, to) == pc = from /\ pc' = to

\* Mutant of AllocBegin: iStart # iEnd is not looked at.
AllocBeginTorn ==
    /\ Goto("idle", "unlink")
    /\ iUsed < Cap /\ iFreeHead # -1
    /\ torn' = TRUE
    /\ cur' = iFreeHead
    /\ idx' = NextIdx(iFreeHead, iIdx[iFreeHead])
    /\ UNCHANGED <<inited, iFreeHead, iFreeTail, iUsed, iMethod, blocks, walk, pool>>

AllocBegin ==
    /\ Goto("idle", "unlink")
    /\ iUsed < Cap /\ iFreeHead # -1 /\ ~torn
    /\ torn' = TRUE
    /\ cur' = iFreeHead
    /\ idx' = NextIdx(iFreeHead, iIdx[iFreeHead])
    /\ UNCHANGED <<inited, iFreeHead, iFreeTail, iUsed, iMethod, blocks, walk, pool>>

AllocUnlink ==
    /\ Goto("unlink", "empty")
    /\ iFreeHead' = iNext[cur]
    /\ UNCHANGED <<inited, iFreeTail, iUsed, iMethod, torn, blocks, cur, idx, walk, pool>>

\* Mutant of AllocEmpty: the tail of an empty list keeps the position.
AllocEmptyNot ==
    /\ Goto("empty", "validate")
    /\ UNCHANGED <<inited, iFreeHead, iFreeTail, iUsed, iMethod, torn, blocks, cur, idx, walk, pool>>

AllocEmpty ==
    /\ Goto("empty", "validate")
    /\ iFreeTail' = IF iFreeHead = -1 THEN -1 ELSE iFreeTail
    /\ UNCHANGED <<inited, iFreeHead, iUsed, iMethod, torn, blocks, cur, idx, walk, pool>>

AllocValid ==
    /\ Goto("validate", "count")
    /\ fValid' = [fValid EXCEPT ![cur] = TRUE]
    /\ UNCHANGED <<head, iIdx, iNext, cur, idx, walk, pool>>

AllocCount ==
    /\ Goto("count", "number")
    /\ iUsed' = iUsed + 1
    /\ UNCHANGED <<inited, iFreeHead, iFreeTail, iMethod, torn, blocks, cur, idx, walk, pool>>

AllocNumber ==
    /\ Goto("number", "allocated")
    /\ iIdx' = [iIdx EXCEPT ![cur] = idx]
    /\ UNCHANGED <<head, fValid, iNext, cur, idx, walk, pool>>

\* iEnd = iStart
AllocEnd ==
    /\ Goto("allocated", "idle")
    /\ torn' = FALSE
    /\ pool' = AfterAlloc(pool)
    /\ UNCHANGED <<inited, iFreeHead, iFreeTail, iUsed, iMethod, blocks, cur, idx, walk>>
-----------------------------------------------------------------------------
(***************************************************************************)
(* tmempool_free, of a handle the application holds.                       *)
(***************************************************************************)

\* tmempool_get finds the block
Found(h) == fValid[PosOf(h)] /\ iIdx[PosOf(h)] = h

FreeBegin(h) ==
    /\ Goto("idle", "invalidate")
    /\ Found(h) /\ ~torn
    /\ torn' = TRUE /\ cur' = PosOf(h) /\ idx' = h
    /\ UNCHANGED <<inited, iFreeHead, iFreeTail, iUsed, iMethod, blocks, walk, pool>>

FreeInvalid ==
    /\ Goto("invalidate", "uncount")
    /\ fValid' = [fValid EXCEPT ![cur] = FALSE]
    /\ UNCHANGED <<head, iIdx, iNext, cur, idx, walk, pool>>

FreeCount ==
    /\ Goto("uncount", "next")
    /\ iUsed' = iUsed - 1
    /\ UNCHANGED <<inited, iFreeHead, iFreeTail, iMethod, torn, blocks, cur, idx, walk, pool>>

FreeNext ==
    /\ Goto("next", "end")
    /\ iNext' = [iNext EXCEPT ![cur] = IF iMethod = "LIFO" THEN iFreeHead ELSE -1]
    /\ UNCHANGED <<head, fValid, iIdx, cur, idx, walk, pool>>

\* The far end of the list: the tail of an empty one (LIFO), the head of an empty
\* one or the last block's link (FIFO).
FreeEnd ==
    /\ Goto("end", "near")
    /\ iFreeTail' = IF iMethod = "LIFO" /\ iFreeHead = -1 THEN cur ELSE iFreeTail
    /\ iFreeHead' = IF iMethod = "FIFO" /\ iFreeTail = -1 THEN cur ELSE iFreeHead
    /\ iNext' = IF iMethod = "FIFO" /\ iFreeTail # -1
                THEN [iNext EXCEPT ![iFreeTail] = cur] ELSE iNext
    /\ UNCHANGED <<inited, iUsed, iMethod, torn, fValid, iIdx, cur, idx, walk, pool>>

FreeNear ==
    /\ Goto("near", "freed")
    /\ iFreeHead' = IF iMethod = "LIFO" THEN cur ELSE iFreeHead
    /\ iFreeTail' = IF iMethod = "FIFO" THEN cur ELSE iFreeTail
    /\ UNCHANGED <<inited, iUsed, iMethod, torn, blocks, cur, idx, walk, pool>>

\* iEnd = iStart
FreeDone ==
    /\ Goto("freed", "idle")
    /\ torn' = FALSE
    /\ pool' = AfterFree(pool, idx, iMethod = "LIFO")
    /\ during' = during \ {idx}
    /\ UNCHANGED <<inited, iFreeHead, iFreeTail, iUsed, iMethod, blocks, cur, idx, iter, seen>>
-----------------------------------------------------------------------------
(***************************************************************************)
(* Death and tmempool_attach                                               *)
(***************************************************************************)
Crash ==
    /\ pc # "down" /\ pc' = "down" /\ NoWalk
    /\ UNCHANGED <<head, blocks, cur, idx, pool>>

Invalid == {p \in Position : ~fValid[p]}

\* tmempool_fix links the free blocks in the order of their positions.
Fixed ==
    iNext' = [p \in Position |->
                IF fValid[p] THEN iNext[p]
                ELSE IF \A q \in Invalid : q <= p THEN -1
                ELSE CHOOSE q \in Invalid : q > p /\ \A r \in Invalid : r > p => q <= r]

\* tmempool_check_head_i: a torn pool is fixed, but iEnd stays behind iStart.
Attach ==
    /\ Goto("down", "idle")
    /\ inited
    /\ IF torn
       THEN /\ iUsed' = Cardinality(Position \ Invalid)
            /\ Fixed
            /\ IF Invalid = {} THEN iFreeHead' = -1 /\ iFreeTail' = -1
               ELSE /\ iFreeHead' = CHOOSE p \in Invalid : \A q \in Invalid : p <= q
                    /\ iFreeTail' = CHOOSE p \in Invalid : \A q \in Invalid : q <= p
       ELSE UNCHANGED <<iUsed, iNext, iFreeHead, iFreeTail>>
    /\ UNCHANGED <<inited, iMethod, torn, fValid, iIdx, cur, idx, walk, pool>>
-----------------------------------------------------------------------------
(***************************************************************************)
(* A walk over the used blocks, with calls of any kind between its steps.  *)
(***************************************************************************)
Used == {p \in Position : fValid[p]}

First(P) == IF P = {} THEN -1 ELSE CHOOSE p \in P : \A q \in P : p <= q

WalkFirst ==
    /\ pc = "idle" /\ iter = -1 /\ Used # {}
    /\ iter' = First(Used) /\ seen' = {} /\ during' = {iIdx[p] : p \in Used}
    /\ UNCHANGED <<head, blocks, pc, cur, idx, pool>>

\* Mutant of WalkNext: the walk goes on with the block after the next one.
WalkNextSkip ==
    /\ pc = "idle" /\ iter # -1
    /\ LET next == First({p \in Used : p > iter + 1})
       IN  IF next = -1 THEN NoWalk
           ELSE iter' = next /\ seen' = seen \cup {iIdx[iter]} /\ UNCHANGED during
    /\ UNCHANGED <<head, blocks, pc, cur, idx, pool>>

\* tmempool_find_used_next returns the handle of the block found before.
WalkNext ==
    /\ pc = "idle" /\ iter # -1
    /\ LET next == First({p \in Used : p > iter})
       IN  IF next = -1 THEN NoWalk
           ELSE iter' = next /\ seen' = seen \cup {iIdx[iter]} /\ UNCHANGED during
    /\ UNCHANGED <<head, blocks, pc, cur, idx, pool>>
-----------------------------------------------------------------------------
Next ==
    \/ InitBody \/ InitDone \/ SetMethod
    \/ AllocBegin \/ AllocUnlink \/ AllocEmpty \/ AllocValid \/ AllocCount \/ AllocNumber
    \/ AllocEnd
    \/ \E h \in 0 .. MaxIdx : FreeBegin(h)
    \/ FreeInvalid \/ FreeCount \/ FreeNext \/ FreeEnd \/ FreeNear \/ FreeDone
    \/ Crash \/ Attach
    \/ WalkFirst \/ WalkNext

Spec == Init /\ [][Next]_vars
-----------------------------------------------------------------------------
Pcs == {"init", "ready", "idle", "down", "unlink", "empty", "validate", "count", "number",
        "allocated", "invalidate", "uncount", "next", "end", "near", "freed"}

TypeOK ==
    /\ inited \in BOOLEAN /\ torn \in BOOLEAN
    /\ iFreeHead \in Position \cup {-1} /\ iFreeTail \in Position \cup {-1}
    /\ iUsed \in 0 .. Cap /\ iMethod \in {"FIFO", "LIFO"}
    /\ fValid \in [Position -> BOOLEAN] /\ iIdx \in [Position -> 0 .. MaxIdx]
    /\ iNext \in [Position -> Position \cup {-1}]
    /\ pc \in Pcs /\ cur \in Position /\ idx \in 0 .. MaxIdx
    /\ iter \in Position \cup {-1}
    /\ seen \subseteq 0 .. MaxIdx /\ during \subseteq 0 .. MaxIdx
    /\ pool.free \in Seq(Position) /\ pool.last \in [Position -> 0 .. MaxIdx]
    /\ pool.valid \subseteq Position

\* The free blocks f are linked from head to tail.
Linked(f, first, last, next) ==
    /\ first = IF f = <<>> THEN -1 ELSE f[1]
    /\ last = IF f = <<>> THEN -1 ELSE f[Len(f)]
    /\ \A k \in DOMAIN f : next[f[k]] = IF k = Len(f) THEN -1 ELSE f[k + 1]

\* Between two calls the list of free blocks is the abstract pool's, link by link,
\* iUsed is right, and the blocks carry the handles given out -- after any number of
\* allocs and frees by either method, and across deaths between two calls.
Intact ==
    /\ Linked(pool.free, iFreeHead, iFreeTail, iNext)
    /\ iUsed = Cap - Len(pool.free)
    /\ iIdx = pool.last
    /\ fValid = [p \in Position |-> p \in pool.valid]

\* After a death inside a call and tmempool_fix the list links the blocks that are
\* not in use, and iUsed counts the others.
Repaired ==
    /\ iUsed = Cardinality(Used)
    /\ iFreeHead = First(Invalid)
    /\ \A p \in Invalid : iNext[p] = First({q \in Invalid : q > p})
    /\ iFreeTail = IF Invalid = {} THEN -1
                   ELSE CHOOSE p \in Invalid : \A q \in Invalid : q <= p

ListInv == pc = "idle" => IF torn THEN Repaired ELSE Intact

\* A walk returns every handle that is in use from its beginning to its end,
\* whatever is allocated and freed between its steps.
WalkComplete ==
    [][iter # -1 /\ iter' = -1 /\ pc' # "down" => during \subseteq seen \cup {iIdx[iter]}]_vars

\* What the pool promises: the handles of HandlePool, until a call is cut short;
\* after that the pool gives and takes nothing any more.
Abstract == INSTANCE HandlePoolSpec WITH broken <- torn /\ pc \in {"down", "idle"}
PoolSpec == Abstract!Spec
=============================================================================
