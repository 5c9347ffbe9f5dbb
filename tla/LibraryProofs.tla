----------------------------- MODULE LibraryProofs -----------------------------
(***************************************************************************)
(* Proofs about Library, for all values of its constants.                  *)
(*                                                                         *)
(* The memory pool: the free list survives every sequence of allocs, frees *)
(* by either method and deaths between two calls, tmempool_fix makes a     *)
(* list of what is free after a death inside a call, the pool keeps        *)
(* HandlePoolSpec, and a walk misses nothing.  The hash table: its lists   *)
(* are whole between two calls, and every key is found, whatever died      *)
(* before.  The log file: rotation takes the oldest messages, within the   *)
(* limits.  At the end the parts are put together, with the life of a      *)
(* process from TappLifeProofs.                                            *)
(***************************************************************************)
EXTENDS Library, FiniteSetTheorems, WellFoundedInduction, TLAPS

\* A value the pool of HandlePool may have: the free blocks, each once, are those
\* not in use.
Pools == [free : Seq(Position), last : [Position -> 0 .. MaxIdx], valid : SUBSET Position]

PoolOK(pl) ==
    /\ pl \in Pools
    /\ \A j, k \in DOMAIN pl.free : pl.free[j] = pl.free[k] => j = k
    /\ {pl.free[k] : k \in DOMAIN pl.free} = Position \ pl.valid

\* The positions in f follow each other from the first to the last one.
Chain(f, next) == \A k \in DOMAIN f : next[f[k]] = IF k = Len(f) THEN -1 ELSE f[k + 1]

FirstOf(f) == IF f = <<>> THEN -1 ELSE f[1]
LastOf(f)  == IF f = <<>> THEN -1 ELSE f[Len(f)]

AllocPcs == {"unlink", "empty", "validate", "count", "number", "allocated"}
FreePcs  == {"invalidate", "uncount", "next", "end", "near", "freed"}

\* Before, between and after the calls.
RestInv ==
    /\ pc = "init" => /\ ~inited /\ ~torn /\ iUsed = 0 /\ pool = NewPool
                      /\ fValid = [p \in Position |-> FALSE]
                      /\ iIdx = [p \in Position |-> 0]
    /\ pc = "ready" => ~torn
    /\ pc \in {"ready", "idle"} /\ ~torn => Intact
    /\ pc = "idle" /\ torn => Repaired
    /\ pc = "down" /\ inited /\ ~torn => Intact

\* What tmempool_alloc has written, call by call.  The links do not change.
AllocInv == pc \in AllocPcs =>
    /\ torn /\ pool.free # <<>>
    /\ cur = pool.free[1] /\ idx = AllocIdx(pool)
    /\ Chain(pool.free, iNext)
    /\ iFreeHead = IF pc = "unlink" THEN cur ELSE iNext[cur]
    /\ iFreeTail = IF pc \in {"unlink", "empty"} \/ Len(pool.free) > 1
                   THEN LastOf(pool.free) ELSE -1
    /\ fValid = [p \in Position |->
                    p \in pool.valid \/ (pc \in {"count", "number", "allocated"} /\ p = cur)]
    /\ iUsed = Cap - Len(pool.free) + IF pc \in {"number", "allocated"} THEN 1 ELSE 0
    /\ iIdx = IF pc = "allocated" THEN [pool.last EXCEPT ![cur] = idx] ELSE pool.last

\* What tmempool_free has written of the flags and numbers,
FreeInv == pc \in FreePcs =>
    /\ torn /\ Live(pool, idx) /\ cur = PosOf(idx)
    /\ iIdx = pool.last
    /\ fValid = [p \in Position |-> p \in pool.valid /\ (pc = "invalidate" \/ p # cur)]
    /\ iUsed = Cap - Len(pool.free) - IF pc \in {"invalidate", "uncount"} THEN 0 ELSE 1

\* and of the list: the block goes to the front,
LifoInv == pc \in FreePcs /\ iMethod = "LIFO" =>
    /\ Chain(pool.free, iNext)
    /\ iFreeHead = IF pc = "freed" THEN cur ELSE FirstOf(pool.free)
    /\ iFreeTail = IF pc \in {"near", "freed"} /\ pool.free = <<>> THEN cur
                   ELSE LastOf(pool.free)
    /\ pc \in {"end", "near", "freed"} => iNext[cur] = FirstOf(pool.free)

\* or to the end.
FifoInv == pc \in FreePcs /\ iMethod = "FIFO" =>
    /\ pc \notin {"near", "freed"} => Chain(pool.free, iNext)
    /\ pc \in {"near", "freed"} =>
          \A k \in DOMAIN pool.free :
              iNext[pool.free[k]] = IF k = Len(pool.free) THEN cur ELSE pool.free[k + 1]
    /\ iFreeHead = IF pc \in {"near", "freed"} /\ pool.free = <<>> THEN cur
                   ELSE FirstOf(pool.free)
    /\ iFreeTail = IF pc = "freed" THEN cur ELSE LastOf(pool.free)
    /\ pc \in {"end", "near", "freed"} => iNext[cur] = -1

\* The inductive invariant.
IInv == TypeOK /\ PoolOK(pool) /\ RestInv /\ AllocInv /\ FreeInv /\ LifoInv /\ FifoInv
-----------------------------------------------------------------------------
Below == {s \in Nat \X Nat : s[1] < s[2]}

LEMMA Smallest ==
    ASSUME NEW P \in SUBSET Nat, P # {}
    PROVE  \E x \in P : \A y \in P : x <= y
  <1>1. IsWellFoundedOn(Below, Nat)
    BY NatLessThanWellFounded DEF OpToRel, Below
  <1>2. \E x \in P : \A y \in P : ~ (<<y, x>> \in Below)
    BY <1>1, WFMin, Zenon
  <1>3. \A x, y \in P : ~ (<<y, x>> \in Below) => x <= y
    BY DEF Below
  <1> QED
    BY <1>2, <1>3

LEMMA Largest ==
    ASSUME NEW P \in SUBSET Position, P # {}
    PROVE  \E x \in P : \A y \in P : y <= x
  <1> DEFINE Q == {Cap - 1 - p : p \in P}
  <1>0. Cap \in Nat /\ P \subseteq 0 .. Cap - 1
    BY PoolAssumption DEF Position
  <1>1. Q \in SUBSET Nat
    BY <1>0
  <1>2. Q # {}
    OBVIOUS
  <1>3. \A y \in P : Cap - 1 - y \in Q
    OBVIOUS
  <1>4. \A q \in Q : \E x \in P : q = Cap - 1 - x
    OBVIOUS
  <1> HIDE DEF Q
  <1>5. PICK q \in Q : \A y \in Q : q <= y
    BY <1>1, <1>2, Smallest
  <1>6. PICK x \in P : q = Cap - 1 - x
    BY <1>4
  <1>7. \A y \in P : Cap - 1 - x <= Cap - 1 - y
    BY <1>3, <1>5, <1>6
  <1> QED
    BY <1>0, <1>7

LEMMA NextIdxType ==
    ASSUME NEW p \in Position, NEW l \in 0 .. MaxIdx
    PROVE  NextIdx(p, l) \in 0 .. MaxIdx
  <1>1. l \div Cap \in Nat
    BY PoolAssumption
  <1>2. (l \div Cap) * Cap \in Nat
    BY <1>1, PoolAssumption
  <1> QED
    BY <1>2, PoolAssumption DEF NextIdx, Position

LEMMA PosOfType == ASSUME NEW h \in Nat PROVE PosOf(h) \in Position
  BY PoolAssumption DEF PosOf, Position
-----------------------------------------------------------------------------
(***************************************************************************)
(* The abstract pool.                                                      *)
(***************************************************************************)
LEMMA NewPoolOK == PoolOK(NewPool) /\ Len(NewPool.free) = Cap /\ NewPool.valid = {}
  <1> DEFINE f == [k \in 1 .. Cap |-> k - 1]
  <1>0. Cap \in Nat \ {0} /\ MaxIdx \in Nat
    BY PoolAssumption
  <1>1. f \in Seq(Position) /\ Len(f) = Cap
    BY <1>0 DEF Position
  <1>2. NewPool.free = f /\ NewPool.valid = {} /\ NewPool \in Pools
    BY <1>0, <1>1 DEF NewPool, Pools, Position
  <1>3. \A p \in Position : p + 1 \in DOMAIN f /\ f[p + 1] = p
    BY <1>0 DEF Position
  <1>4. \A k \in DOMAIN f : f[k] \in Position
    BY <1>0 DEF Position
  <1>5. \A j, k \in DOMAIN f : f[j] = f[k] => j = k
    BY <1>0
  <1> HIDE DEF f
  <1>6. {f[k] : k \in DOMAIN f} = Position
    BY <1>3, <1>4
  <1> QED
    BY <1>1, <1>2, <1>5, <1>6 DEF PoolOK

\* The first free block is taken.
LEMMA AllocPool ==
    ASSUME NEW pl, PoolOK(pl), pl.free # <<>>
    PROVE  /\ AllocIdx(pl) \in 0 .. MaxIdx /\ pl.free[1] \in Position \ pl.valid
           /\ PoolOK(AfterAlloc(pl))
           /\ AfterAlloc(pl).free = Tail(pl.free)
           /\ AfterAlloc(pl).last = [pl.last EXCEPT ![pl.free[1]] = AllocIdx(pl)]
           /\ AfterAlloc(pl).valid = pl.valid \cup {pl.free[1]}
  <1> DEFINE f == pl.free
             g == Tail(f)
  <1>1. f \in Seq(Position) /\ Len(f) \in Nat \ {0} /\ pl \in Pools /\ f[1] = Head(f)
    BY DEF PoolOK, Pools
  <1>2. \A j, k \in DOMAIN f : f[j] = f[k] => j = k
    BY DEF PoolOK
  <1>3. {f[k] : k \in DOMAIN f} = Position \ pl.valid
    BY DEF PoolOK
  <1>4. f[1] \in Position \ pl.valid
    BY <1>1, <1>3
  <1>5. AllocIdx(pl) \in 0 .. MaxIdx
    BY <1>1, <1>4, NextIdxType DEF AllocIdx, Pools
  <1>6. /\ AfterAlloc(pl).free = g
        /\ AfterAlloc(pl).last = [pl.last EXCEPT ![f[1]] = AllocIdx(pl)]
        /\ AfterAlloc(pl).valid = pl.valid \cup {f[1]}
    BY <1>1 DEF AfterAlloc
  <1>7. g \in Seq(Position) /\ Len(g) = Len(f) - 1 /\ \A k \in DOMAIN g : g[k] = f[k + 1]
    BY <1>1
  <1>8. AfterAlloc(pl) \in Pools
    BY <1>1, <1>4, <1>5, <1>7 DEF AfterAlloc, Pools
  <1>9. \A j, k \in DOMAIN g : g[j] = g[k] => j = k
    BY <1>1, <1>2, <1>7
  <1>10. {g[k] : k \in DOMAIN g} = Position \ (pl.valid \cup {f[1]})
    <2>1. \A k \in DOMAIN g : g[k] \in Position \ pl.valid /\ g[k] # f[1]
      BY <1>1, <1>2, <1>3, <1>7
    <2>2. ASSUME NEW p \in Position \ pl.valid, p # f[1]
          PROVE  \E k \in DOMAIN g : g[k] = p
      <3>1. PICK j \in DOMAIN f : f[j] = p
        BY <1>3
      <3>2. j \in 2 .. Len(f)
        BY <1>1, <2>2, <3>1
      <3>3. j - 1 \in DOMAIN g /\ g[j - 1] = p
        BY <1>1, <1>7, <3>1, <3>2
      <3> QED
        BY <3>3
    <2> QED
      BY <2>1, <2>2
  <1> QED
    BY <1>4, <1>5, <1>6, <1>8, <1>9, <1>10 DEF PoolOK

\* A block in use goes to the front or to the end.
LEMMA FreePool ==
    ASSUME NEW pl, PoolOK(pl), NEW h \in 0 .. MaxIdx, Live(pl, h), NEW lifo \in BOOLEAN
    PROVE  /\ PosOf(h) \in pl.valid
           /\ PoolOK(AfterFree(pl, h, lifo))
           /\ AfterFree(pl, h, lifo).last = pl.last
           /\ AfterFree(pl, h, lifo).valid = pl.valid \ {PosOf(h)}
           /\ AfterFree(pl, h, lifo).free =
                 IF lifo THEN <<PosOf(h)>> \o pl.free ELSE Append(pl.free, PosOf(h))
  <1> DEFINE f == pl.free
             c == PosOf(h)
             g == IF lifo THEN <<c>> \o f ELSE Append(f, c)
  <1>1. f \in Seq(Position) /\ Len(f) \in Nat /\ pl \in Pools /\ c \in pl.valid
    BY DEF PoolOK, Pools, Live
  <1>2. \A j, k \in DOMAIN f : f[j] = f[k] => j = k
    BY DEF PoolOK
  <1>3. {f[k] : k \in DOMAIN f} = Position \ pl.valid
    BY DEF PoolOK
  <1>4. c \in Position
    BY <1>1 DEF Pools
  <1>5. /\ AfterFree(pl, h, lifo).free = g
        /\ AfterFree(pl, h, lifo).last = pl.last
        /\ AfterFree(pl, h, lifo).valid = pl.valid \ {c}
    BY <1>1 DEF AfterFree, Pools
  <1>6. g \in Seq(Position)
    BY <1>1, <1>4
  <1>7. AfterFree(pl, h, lifo) \in Pools
    BY <1>1, <1>6 DEF AfterFree, Pools
  <1>8. /\ \A j, k \in DOMAIN g : g[j] = g[k] => j = k
        /\ {g[k] : k \in DOMAIN g} = Position \ (pl.valid \ {c})
    <2>0. \A k \in DOMAIN f : f[k] # c
      BY <1>1, <1>3
    <2>1. CASE lifo
      <3>1. /\ Len(g) = Len(f) + 1 /\ g[1] = c
            /\ \A k \in DOMAIN g \ {1} : k - 1 \in DOMAIN f /\ g[k] = f[k - 1]
            /\ \A k \in DOMAIN f : k + 1 \in DOMAIN g /\ g[k + 1] = f[k]
        BY <1>1, <1>4, <2>1, <1>6
      <3> HIDE DEF g
      <3>2. \A j, k \in DOMAIN g : g[j] = g[k] => j = k
        <4> SUFFICES ASSUME NEW j \in DOMAIN g, NEW k \in DOMAIN g, g[j] = g[k] PROVE j = k
          OBVIOUS
        <4>0. j \in Nat /\ k \in Nat
          BY <1>6
        <4>1. CASE j = 1 \/ k = 1
          BY <2>0, <3>1, <4>1
        <4>2. CASE j # 1 /\ k # 1
          BY <1>2, <3>1, <4>0, <4>2
        <4> QED
          BY <4>1, <4>2
      <3>3. 1 \in DOMAIN g
        BY <1>1, <1>6, <3>1
      <3>4. {g[k] : k \in DOMAIN g} = {f[k] : k \in DOMAIN f} \cup {c}
        BY <3>1, <3>3
      <3> QED
        BY <1>1, <1>3, <1>4, <3>2, <3>4
    <2>2. CASE ~lifo
      <3>1. /\ Len(g) = Len(f) + 1 /\ g[Len(f) + 1] = c
            /\ \A k \in DOMAIN g : k # Len(f) + 1 => k \in DOMAIN f /\ g[k] = f[k]
            /\ \A k \in DOMAIN f : k \in DOMAIN g /\ g[k] = f[k]
        BY <1>1, <1>4, <2>2, <1>6
      <3> HIDE DEF g
      <3>2. \A j, k \in DOMAIN g : g[j] = g[k] => j = k
        BY <1>1, <1>2, <1>6, <2>0, <3>1
      <3>3. Len(f) + 1 \in DOMAIN g
        BY <1>1, <1>6, <3>1
      <3>4. {g[k] : k \in DOMAIN g} = {f[k] : k \in DOMAIN f} \cup {c}
        BY <3>1, <3>3
      <3> QED
        BY <1>1, <1>3, <1>4, <3>2, <3>4
    <2> QED
      BY <2>1, <2>2
  <1> HIDE DEF g
  <1>9. PoolOK(AfterFree(pl, h, lifo))
    BY <1>5, <1>7, <1>8 DEF PoolOK
  <1> QED
    BY <1>1, <1>5, <1>9 DEF g

\* A list without a block in use does not fill the pool.
LEMMA Room ==
    ASSUME NEW pl, PoolOK(pl), NEW c \in pl.valid
    PROVE  Len(pl.free) < Cap
  <1> DEFINE f == pl.free
             T == Position \ {c}
  <1>1. f \in Seq(Position) /\ c \in Position /\ Cap \in Nat \ {0} /\ Len(f) \in Nat
    BY PoolAssumption DEF PoolOK, Pools
  <1>2. IsFiniteSet(Position) /\ Cardinality(Position) = Cap
    BY <1>1, FS_Interval DEF Position
  <1>3. IsFiniteSet(T) /\ Cardinality(T) = Cap - 1
    BY <1>1, <1>2, FS_RemoveElement
  <1>4. \A k \in 1 .. Len(f) : f[k] \in T
    BY <1>1 DEF PoolOK
  <1>5. f \in [1 .. Len(f) -> T]
    BY <1>1, <1>4
  <1>6. \A j, k \in 1 .. Len(f) : f[j] = f[k] => j = k
    BY <1>1 DEF PoolOK
  <1>7. f \in Injection(1 .. Len(f), T)
    BY <1>5, <1>6 DEF Injection, IsInjective
  <1>8. Cardinality(1 .. Len(f)) <= Cap - 1
    BY <1>3, <1>7, FS_Injection
  <1>9. Cardinality(1 .. Len(f)) = Len(f)
    <2>1. \A m \in Nat : Cardinality(1 .. m) = m
      BY FS_Interval
    <2> QED
      BY <1>1, <2>1
  <1> QED
    BY <1>1, <1>8, <1>9

-----------------------------------------------------------------------------
(***************************************************************************)
(* The steps.                                                              *)
(***************************************************************************)

\* What the list of free blocks gives: positions, a chain that ends, a head and a
\* tail that tell an empty list.
LEMMA ListFacts ==
    ASSUME PoolOK(pool)
    PROVE  /\ pool \in Pools /\ pool.free \in Seq(Position) /\ Len(pool.free) \in Nat
           /\ DOMAIN pool.free = 1 .. Len(pool.free)
           /\ \A k \in DOMAIN pool.free : pool.free[k] \in Position \ pool.valid
           /\ pool.free = <<>> <=> Len(pool.free) = 0
           /\ FirstOf(pool.free) \in Position \cup {-1}
           /\ LastOf(pool.free) \in Position \cup {-1}
           /\ FirstOf(pool.free) = -1 <=> pool.free = <<>>
           /\ LastOf(pool.free) = -1 <=> pool.free = <<>>
           /\ -1 \notin Position
  <1>1. pool \in Pools /\ pool.free \in Seq(Position) /\ Len(pool.free) \in Nat
    BY DEF PoolOK, Pools
  <1>2. \A k \in DOMAIN pool.free : pool.free[k] \in Position \ pool.valid
    BY DEF PoolOK
  <1>3. -1 \notin Position
    BY DEF Position
  <1> QED
    BY <1>1, <1>2, <1>3 DEF FirstOf, LastOf

LEMMA IntactIs ==
    Intact <=> /\ Chain(pool.free, iNext)
               /\ iFreeHead = FirstOf(pool.free) /\ iFreeTail = LastOf(pool.free)
               /\ iUsed = Cap - Len(pool.free)
               /\ iIdx = pool.last
               /\ fValid = [p \in Position |-> p \in pool.valid]
  BY DEF Intact, Linked, Chain, FirstOf, LastOf

LEMMA InitIInv == Init => IInv
  <1> SUFFICES ASSUME Init PROVE IInv
    OBVIOUS
  <1>1. PoolOK(pool)
    BY NewPoolOK DEF Init
  <1>2. 0 \in Position /\ 0 \in 0 .. MaxIdx /\ 0 \in 0 .. Cap
    BY PoolAssumption DEF Position
  <1>3. TypeOK
    BY <1>1, <1>2 DEF Init, TypeOK, PoolOK, Pools, Pcs
  <1> QED
    BY <1>1, <1>3 DEF Init, IInv, RestInv, AllocInv, FreeInv, LifoInv, FifoInv, AllocPcs, FreePcs

\* Before the pool is open, and a change of the method.
LEMMA OpenIInv == IInv /\ (InitBody \/ InitDone \/ SetMethod) => IInv'
  <1> SUFFICES ASSUME IInv, InitBody \/ InitDone \/ SetMethod PROVE IInv'
    OBVIOUS
  <1> USE DEF IInv, Goto, Pcs, AllocPcs, FreePcs
  <1>1. CASE InitBody
    <2>1. Cap \in Nat \ {0} /\ MaxIdx \in Nat /\ 0 \in Position /\ Cap - 1 \in Position
      BY PoolAssumption DEF Position
    <2>2. iNext' \in [Position -> Position \cup {-1}]
      BY <1>1, <2>1 DEF InitBody, Position
    <2>3. TypeOK'
      BY <1>1, <2>1, <2>2 DEF InitBody, TypeOK, blocks, walk
    <2>4. pool = NewPool /\ iUsed = 0 /\ ~torn
      BY <1>1 DEF InitBody, RestInv
    <2>5. /\ pool.free = [k \in 1 .. Cap |-> k - 1] /\ Len(pool.free) = Cap
          /\ pool.valid = {} /\ pool.last = [p \in Position |-> 0]
      BY <2>4, NewPoolOK DEF NewPool
    <2>6. Intact'
      <3>1. FirstOf(pool.free) = 0 /\ LastOf(pool.free) = Cap - 1
        BY <2>1, <2>5, SMTT(30) DEF FirstOf, LastOf
      <3>2. \A k \in 1 .. Cap : iNext'[k - 1] = IF k = Cap THEN -1 ELSE k
        BY <1>1, <2>1 DEF InitBody, Position
      <3>3. Chain(pool.free, iNext')
        BY <2>1, <2>5, <3>2 DEF Chain
      <3>4. iIdx = pool.last
        BY <1>1, <2>5 DEF InitBody, RestInv
      <3>5. fValid = [p \in Position |-> p \in pool.valid]
        <4>1. fValid = [p \in Position |-> FALSE]
          BY <1>1 DEF InitBody, RestInv
        <4>2. \A p \in Position : (p \in pool.valid) = FALSE
          BY <2>5
        <4> QED
          BY <4>1, <4>2, Zenon
      <3>6. iUsed = Cap - Len(pool.free) /\ iFreeHead' = FirstOf(pool.free)
            /\ iFreeTail' = LastOf(pool.free)
        BY <1>1, <2>1, <2>4, <2>5, <3>1 DEF InitBody
      <3>7. pool' = pool /\ iUsed' = iUsed /\ iIdx' = iIdx /\ fValid' = fValid
        BY <1>1 DEF InitBody
      <3> QED
        BY <3>3, <3>4, <3>5, <3>6, <3>7 DEF Intact, Linked, Chain, FirstOf, LastOf
    <2>7. (RestInv /\ AllocInv /\ FreeInv /\ LifoInv /\ FifoInv)'
      BY <1>1, <2>4, <2>6 DEF InitBody, RestInv, AllocInv, FreeInv, LifoInv, FifoInv
    <2> QED
      BY <1>1, <2>3, <2>7 DEF InitBody
  <1>2. CASE InitDone
    <2>1. Intact /\ ~torn
      BY <1>2 DEF InitDone, RestInv
    <2>2. Intact'
      BY <1>2, <2>1 DEF InitDone, Intact, Linked, blocks
    <2>3. TypeOK'
      BY <1>2 DEF InitDone, TypeOK, blocks, walk
    <2> QED
      BY <1>2, <2>1, <2>2, <2>3 DEF InitDone, RestInv, AllocInv, FreeInv, LifoInv, FifoInv
  <1>3. CASE SetMethod
    <2>1. TypeOK'
      BY <1>3 DEF SetMethod, TypeOK, blocks, walk
    <2>2. Intact => Intact'
      BY <1>3 DEF SetMethod, Intact, Linked, blocks
    <2>3. Repaired => Repaired'
      BY <1>3 DEF SetMethod, Repaired, Invalid, Used, blocks
    <2> QED
      BY <1>3, <2>1, <2>2, <2>3
      DEF SetMethod, RestInv, AllocInv, FreeInv, LifoInv, FifoInv
  <1> QED
    BY <1>1, <1>2, <1>3

\* The steps of tmempool_alloc.
LEMMA AllocIInv ==
    ASSUME IInv,
           \/ AllocBegin \/ AllocUnlink \/ AllocEmpty \/ AllocValid \/ AllocCount
           \/ AllocNumber \/ AllocEnd
    PROVE  IInv'
  <1> USE DEF IInv, Goto, Pcs, AllocPcs, FreePcs
  <1>0. Cap \in Nat \ {0} /\ MaxIdx \in Nat
    BY PoolAssumption
  <1>1. CASE AllocBegin
    <2>1. Intact /\ ~torn /\ iFreeHead # -1
      BY <1>1 DEF AllocBegin, RestInv
    <2>2. pool.free # <<>> /\ iFreeHead = pool.free[1]
      BY <2>1, IntactIs, ListFacts DEF FirstOf
    <2>3. idx' = AllocIdx(pool) /\ AllocIdx(pool) \in 0 .. MaxIdx /\ cur' \in Position
      <3>1. pool.free[1] = Head(pool.free) /\ pool.last = iIdx
        BY <2>1, <2>2, IntactIs, ListFacts
      <3>2. AllocIdx(pool) \in 0 .. MaxIdx /\ pool.free[1] \in Position
        BY <2>2, AllocPool
      <3> QED
        BY <1>1, <2>2, <3>1, <3>2 DEF AllocBegin, AllocIdx
    <2>4. TypeOK'
      BY <1>1, <2>3 DEF AllocBegin, TypeOK, blocks, walk
    <2>5. AllocInv'
      <3>1. /\ Chain(pool.free, iNext) /\ iFreeTail = LastOf(pool.free)
            /\ iUsed = Cap - Len(pool.free) /\ iIdx = pool.last
            /\ fValid = [p \in Position |-> p \in pool.valid]
        BY <2>1, IntactIs
      <3>2. Cap - Len(pool.free) + 0 = Cap - Len(pool.free)
        BY <1>0, ListFacts
      <3> QED
        BY <1>1, <2>2, <2>3, <3>1, <3>2 DEF AllocBegin, AllocInv, blocks, Chain, LastOf
    <2> QED
      BY <1>1, <2>4, <2>5 DEF AllocBegin, RestInv, FreeInv, LifoInv, FifoInv
  <1>2. CASE AllocUnlink
    <2>1. TypeOK'
      BY <1>2 DEF AllocUnlink, TypeOK, blocks, walk
    <2>2. AllocInv'
      BY <1>2 DEF AllocUnlink, AllocInv, blocks, Chain, LastOf
    <2> QED
      BY <1>2, <2>1, <2>2 DEF AllocUnlink, RestInv, FreeInv, LifoInv, FifoInv
  <1>3. CASE AllocEmpty
    <2>1. TypeOK'
      BY <1>3 DEF AllocEmpty, TypeOK, blocks, walk
    <2>2. pool.free # <<>> /\ cur = pool.free[1] /\ iFreeHead = iNext[cur]
          /\ Chain(pool.free, iNext) /\ iFreeTail = LastOf(pool.free)
      BY <1>3 DEF AllocEmpty, AllocInv
    <2>3. iFreeHead = -1 <=> ~ (Len(pool.free) > 1)
      <3>0. Len(pool.free) \in Nat \ {0} /\ DOMAIN pool.free = 1 .. Len(pool.free)
        BY <2>2, ListFacts
      <3>1. 1 \in DOMAIN pool.free /\ (Len(pool.free) # 1 => 2 \in DOMAIN pool.free)
        <4>1. \A m \in Nat \ {0} : 1 \in 1 .. m /\ (m # 1 => 2 \in 1 .. m)
          OBVIOUS
        <4> QED
          BY <3>0, <4>1, Zenon
      <3>2. iFreeHead = IF Len(pool.free) = 1 THEN -1 ELSE pool.free[1 + 1]
        BY <2>2, <3>1 DEF Chain
      <3> QED
        BY <3>0, <3>1, <3>2, ListFacts
    <2>4. iFreeTail' = IF Len(pool.free) > 1 THEN LastOf(pool.free) ELSE -1
      BY <1>3, <2>2, <2>3 DEF AllocEmpty
    <2>5. AllocInv'
      BY <1>3, <2>2, <2>4 DEF AllocEmpty, AllocInv, blocks, Chain, LastOf
    <2> QED
      BY <1>3, <2>1, <2>5 DEF AllocEmpty, RestInv, FreeInv, LifoInv, FifoInv
  <1>4. CASE AllocValid
    <2>1. TypeOK'
      BY <1>4 DEF AllocValid, TypeOK, head, walk
    <2>2. fValid' = [p \in Position |-> p \in pool.valid \/ p = cur]
      BY <1>4 DEF AllocValid, AllocInv, TypeOK
    <2>3. AllocInv'
      BY <1>4, <2>2 DEF AllocValid, AllocInv, head, Chain, LastOf
    <2> QED
      BY <1>4, <2>1, <2>3 DEF AllocValid, head, RestInv, FreeInv, LifoInv, FifoInv
  <1>5. CASE AllocCount
    <2>0. Len(pool.free) \in Nat \ {0} /\ iUsed \in 0 .. Cap
      BY <1>5, ListFacts DEF AllocCount, AllocInv, TypeOK
    <2>1. iUsed = Cap - Len(pool.free) + 0
      BY <1>5 DEF AllocCount, AllocInv
    <2>2. iUsed + 1 \in 0 .. Cap /\ iUsed + 1 = Cap - Len(pool.free) + 1
      BY <1>0, <2>0, <2>1
    <2>3. TypeOK'
      BY <1>5, <2>2 DEF AllocCount, TypeOK, blocks, walk
    <2>4. AllocInv'
      BY <1>5, <2>2 DEF AllocCount, AllocInv, blocks, Chain, LastOf
    <2> QED
      BY <1>5, <2>3, <2>4 DEF AllocCount, RestInv, FreeInv, LifoInv, FifoInv
  <1>6. CASE AllocNumber
    <2>1. TypeOK'
      BY <1>6 DEF AllocNumber, TypeOK, head, walk
    <2>2. AllocInv'
      BY <1>6 DEF AllocNumber, AllocInv, head, Chain, LastOf
    <2> QED
      BY <1>6, <2>1, <2>2 DEF AllocNumber, head, RestInv, FreeInv, LifoInv, FifoInv
  <1>7. CASE AllocEnd
    <2> DEFINE f == pool.free
               g == pool'.free
    <2>1. /\ f # <<>> /\ cur = f[1] /\ idx = AllocIdx(pool) /\ Chain(f, iNext)
          /\ iFreeHead = iNext[cur]
          /\ iFreeTail = IF Len(f) > 1 THEN LastOf(f) ELSE -1
          /\ fValid = [p \in Position |-> p \in pool.valid \/ p = cur]
          /\ iUsed = Cap - Len(f) + 1
          /\ iIdx = [pool.last EXCEPT ![cur] = idx]
      BY <1>7 DEF AllocEnd, AllocInv
    <2>2. /\ PoolOK(pool') /\ g = Tail(f)
          /\ pool'.last = [pool.last EXCEPT ![cur] = idx]
          /\ pool'.valid = pool.valid \cup {cur}
      BY <1>7, <2>1, AllocPool DEF AllocEnd
    <2>3. /\ f \in Seq(Position) /\ Len(f) \in Nat \ {0} /\ g \in Seq(Position)
          /\ Len(g) = Len(f) - 1 /\ \A k \in DOMAIN g : g[k] = f[k + 1]
          /\ DOMAIN g = 1 .. Len(g) /\ DOMAIN f = 1 .. Len(f)
      BY <2>1, <2>2, ListFacts
    <2> HIDE DEF f, g
    <2>4. Chain(g, iNext)
      <3>1. \A k \in DOMAIN f : iNext[f[k]] = IF k = Len(f) THEN -1 ELSE f[k + 1]
        BY <2>1 DEF Chain
      <3> SUFFICES ASSUME NEW k \in DOMAIN g
                   PROVE  iNext[g[k]] = IF k = Len(g) THEN -1 ELSE g[k + 1]
        BY DEF Chain
      <3>2. k \in Nat /\ k + 1 \in DOMAIN f /\ g[k] = f[k + 1]
        BY <2>3
      <3>3. k # Len(g) => k + 1 \in DOMAIN g /\ g[k + 1] = f[k + 1 + 1]
        BY <2>3
      <3> QED
        BY <2>3, <3>1, <3>2, <3>3
    <2>5. iFreeHead = FirstOf(g) /\ iFreeTail = LastOf(g)
      <3>1. CASE Len(f) = 1
        <4>1. iNext[f[1]] = -1 /\ g = <<>>
          BY <2>1, <2>3, <3>1 DEF Chain
        <4> QED
          BY <2>1, <3>1, <4>1 DEF FirstOf, LastOf
      <3>2. CASE Len(f) # 1
        <4>0. Len(f) > 1 /\ 1 \in DOMAIN g /\ Len(g) \in DOMAIN g /\ 1 \in DOMAIN f
          BY <2>3, <3>2
        <4>1. iNext[f[1]] = f[1 + 1] /\ g # <<>>
          BY <2>1, <3>2, <4>0 DEF Chain
        <4>2. g[1] = f[1 + 1] /\ g[Len(g)] = f[Len(f)]
          BY <2>3, <4>0
        <4> QED
          BY <2>1, <4>0, <4>1, <4>2 DEF FirstOf, LastOf
      <3> QED
        BY <3>1, <3>2
    <2>6. iUsed = Cap - Len(g)
      BY <1>0, <2>1, <2>3
    <2>7. fValid = [p \in Position |-> p \in pool'.valid]
      BY <2>1, <2>2
    <2>8. iIdx = pool'.last
      BY <2>1, <2>2
    <2>9. Intact'
      <3>1. /\ iFreeHead' = iFreeHead /\ iFreeTail' = iFreeTail /\ iUsed' = iUsed
            /\ fValid' = fValid /\ iIdx' = iIdx /\ iNext' = iNext
        BY <1>7 DEF AllocEnd, blocks
      <3> QED
        BY <2>4, <2>5, <2>6, <2>7, <2>8, <3>1 DEF g, Intact, Linked, Chain, FirstOf, LastOf
    <2>10. TypeOK'
      <3>1. /\ pool'.free \in Seq(Position) /\ pool'.last \in [Position -> 0 .. MaxIdx]
            /\ pool'.valid \subseteq Position
        BY <2>2 DEF PoolOK, Pools
      <3> QED
        BY <1>7, <3>1 DEF AllocEnd, TypeOK, blocks, walk
    <2> QED
      BY <1>7, <2>2, <2>9, <2>10 DEF AllocEnd, RestInv, AllocInv, FreeInv, LifoInv, FifoInv
  <1> QED
    BY <1>1, <1>2, <1>3, <1>4, <1>5, <1>6, <1>7

\* The steps of tmempool_free.
LEMMA FreeIInv ==
    ASSUME IInv,
           \/ \E h \in 0 .. MaxIdx : FreeBegin(h)
           \/ FreeInvalid \/ FreeCount \/ FreeNext \/ FreeEnd \/ FreeNear \/ FreeDone
    PROVE  IInv'
  <1> USE DEF IInv, Goto, Pcs, AllocPcs, FreePcs
  <1>0. Cap \in Nat \ {0} /\ MaxIdx \in Nat
    BY PoolAssumption
  <1>1. ASSUME NEW h \in 0 .. MaxIdx, FreeBegin(h) PROVE IInv'
    <2>1. Intact /\ ~torn /\ cur' = PosOf(h) /\ idx' = h
      BY <1>1 DEF FreeBegin, RestInv
    <2>2. PosOf(h) \in Position
      BY <1>0, PosOfType
    <2>3. Live(pool, h)
      <3>1. fValid = [p \in Position |-> p \in pool.valid] /\ iIdx = pool.last
        BY <2>1, IntactIs
      <3>2. fValid[PosOf(h)] /\ iIdx[PosOf(h)] = h
        BY <1>1 DEF FreeBegin, Found
      <3>3. PosOf(h) \in pool.valid
        BY <2>2, <3>1, <3>2, Zenon
      <3>4. h >= 0 /\ pool.last[PosOf(h)] = h
        BY <1>0, <3>1, <3>2
      <3> QED
        BY <3>3, <3>4 DEF Live
    <2>4. /\ Chain(pool.free, iNext) /\ iFreeTail = LastOf(pool.free)
          /\ iFreeHead = FirstOf(pool.free)
          /\ iUsed = Cap - Len(pool.free) - 0 /\ iIdx = pool.last
          /\ fValid = [p \in Position |-> p \in pool.valid]
      BY <1>0, <2>1, IntactIs, ListFacts
    <2>5. TypeOK'
      BY <1>1, <2>2 DEF FreeBegin, TypeOK, blocks, walk
    <2>6. FreeInv'
      BY <1>1, <2>1, <2>3, <2>4 DEF FreeBegin, FreeInv, blocks, Live
    <2>7. LifoInv' /\ FifoInv'
      BY <1>1, <2>4 DEF FreeBegin, LifoInv, FifoInv, blocks, Chain, FirstOf, LastOf
    <2> QED
      BY <1>1, <2>5, <2>6, <2>7 DEF FreeBegin, RestInv, AllocInv
  <1>2. CASE FreeInvalid
    <2>1. TypeOK'
      BY <1>2 DEF FreeInvalid, TypeOK, head, walk
    <2>2. fValid' = [p \in Position |-> p \in pool.valid /\ p # cur]
      BY <1>2 DEF FreeInvalid, FreeInv, TypeOK
    <2>3. FreeInv'
      BY <1>2, <2>2 DEF FreeInvalid, FreeInv, head, Live
    <2>4. LifoInv' /\ FifoInv'
      BY <1>2 DEF FreeInvalid, LifoInv, FifoInv, head, Chain, FirstOf, LastOf
    <2> QED
      BY <1>2, <2>1, <2>3, <2>4 DEF FreeInvalid, head, RestInv, AllocInv
  <1>3. CASE FreeCount
    <2>1. Len(pool.free) \in Nat /\ Len(pool.free) < Cap
      <3>1. cur \in pool.valid
        BY <1>3 DEF FreeCount, FreeInv, Live
      <3> QED
        BY <3>1, Room, ListFacts
    <2>2. iUsed = Cap - Len(pool.free) - 0
      BY <1>3 DEF FreeCount, FreeInv
    <2>3. iUsed - 1 \in 0 .. Cap /\ iUsed - 1 = Cap - Len(pool.free) - 1
      BY <1>0, <2>1, <2>2
    <2>4. TypeOK'
      BY <1>3, <2>3 DEF FreeCount, TypeOK, blocks, walk
    <2>5. FreeInv'
      BY <1>3, <2>3 DEF FreeCount, FreeInv, blocks, Live
    <2>6. LifoInv' /\ FifoInv'
      BY <1>3 DEF FreeCount, LifoInv, FifoInv, blocks, Chain, FirstOf, LastOf
    <2> QED
      BY <1>3, <2>4, <2>5, <2>6 DEF FreeCount, RestInv, AllocInv
  <1>4. CASE FreeNext
    <2>1. iFreeHead = FirstOf(pool.free) /\ iFreeTail = LastOf(pool.free)
          /\ Chain(pool.free, iNext) /\ iFreeHead \in Position \cup {-1}
      BY <1>4 DEF FreeNext, LifoInv, FifoInv, TypeOK
    <2>2. \A k \in DOMAIN pool.free : pool.free[k] # cur
      BY <1>4, ListFacts DEF FreeNext, FreeInv, Live
    <2>3. /\ iNext' \in [Position -> Position \cup {-1}]
          /\ iNext'[cur] = IF iMethod = "LIFO" THEN iFreeHead ELSE -1
          /\ \A p \in Position : p # cur => iNext'[p] = iNext[p]
      BY <1>4, <2>1 DEF FreeNext, TypeOK
    <2>4. TypeOK'
      BY <1>4, <2>3 DEF FreeNext, TypeOK, head, walk
    <2>5. Chain(pool.free, iNext')
      BY <2>1, <2>2, <2>3, ListFacts DEF Chain
    <2>6. FreeInv'
      BY <1>4 DEF FreeNext, FreeInv, head, Live
    <2>7. LifoInv' /\ FifoInv'
      BY <1>4, <2>1, <2>3, <2>5 DEF FreeNext, LifoInv, FifoInv, head, Chain, FirstOf, LastOf
    <2> QED
      BY <1>4, <2>4, <2>6, <2>7 DEF FreeNext, head, RestInv, AllocInv
  <1>5. CASE FreeEnd
    <2>0. iMethod \in {"LIFO", "FIFO"} /\ cur \in Position
      BY DEF TypeOK
    <2>1. iFreeHead = FirstOf(pool.free) /\ iFreeTail = LastOf(pool.free)
          /\ Chain(pool.free, iNext)
          /\ iNext[cur] = IF iMethod = "LIFO" THEN FirstOf(pool.free) ELSE -1
      BY <1>5, <2>0 DEF FreeEnd, LifoInv, FifoInv
    <2>2. TypeOK'
      BY <1>5 DEF FreeEnd, TypeOK, walk
    <2>3. FreeInv'
      BY <1>5 DEF FreeEnd, FreeInv, Live
    <2>4. CASE iMethod = "LIFO"
      <3>1. /\ iFreeTail' = IF pool.free = <<>> THEN cur ELSE LastOf(pool.free)
            /\ iFreeHead' = FirstOf(pool.free) /\ iNext' = iNext
        BY <1>5, <2>1, <2>4, ListFacts DEF FreeEnd
      <3>2. LifoInv' /\ FifoInv'
        BY <1>5, <2>1, <2>4, <3>1 DEF FreeEnd, LifoInv, FifoInv, Chain, FirstOf, LastOf
      <3> QED
        BY <1>5, <2>2, <2>3, <3>2 DEF FreeEnd, RestInv, AllocInv
    <2>5. CASE iMethod = "FIFO"
      <3>1. /\ iFreeHead' = IF pool.free = <<>> THEN cur ELSE FirstOf(pool.free)
            /\ iFreeTail' = LastOf(pool.free)
            /\ iNext' = IF pool.free = <<>> THEN iNext
                        ELSE [iNext EXCEPT ![LastOf(pool.free)] = cur]
        BY <1>5, <2>1, <2>5, ListFacts DEF FreeEnd
      <3>2. \A k \in DOMAIN pool.free :
                iNext'[pool.free[k]] = IF k = Len(pool.free) THEN cur ELSE pool.free[k + 1]
        <4> SUFFICES ASSUME NEW k \in DOMAIN pool.free
                     PROVE  iNext'[pool.free[k]] =
                                IF k = Len(pool.free) THEN cur ELSE pool.free[k + 1]
          OBVIOUS
        <4>1. /\ k \in 1 .. Len(pool.free) /\ Len(pool.free) \in DOMAIN pool.free
              /\ pool.free # <<>> /\ pool.free[k] \in Position
              /\ LastOf(pool.free) = pool.free[Len(pool.free)]
          BY ListFacts DEF LastOf
        <4>2. pool.free[k] = pool.free[Len(pool.free)] <=> k = Len(pool.free)
          BY <4>1 DEF PoolOK
        <4>3. iNext[pool.free[k]] = IF k = Len(pool.free) THEN -1 ELSE pool.free[k + 1]
          BY <2>1 DEF Chain
        <4>4. iNext \in [Position -> Position \cup {-1}]
          BY DEF TypeOK
        <4> QED
          BY <3>1, <4>1, <4>2, <4>3, <4>4
      <3>3. iNext'[cur] = -1
        <4>1. pool.free # <<>> => LastOf(pool.free) \in Position /\ LastOf(pool.free) # cur
          BY <1>5, ListFacts DEF FreeEnd, FreeInv, Live, LastOf
        <4> QED
          BY <2>0, <2>1, <2>5, <3>1, <4>1 DEF TypeOK
      <3>4. LifoInv' /\ FifoInv'
        BY <1>5, <2>5, <3>1, <3>2, <3>3 DEF FreeEnd, LifoInv, FifoInv, FirstOf, LastOf
      <3> QED
        BY <1>5, <2>2, <2>3, <3>4 DEF FreeEnd, RestInv, AllocInv
    <2> QED
      BY <2>0, <2>4, <2>5
  <1>6. CASE FreeNear
    <2>1. TypeOK'
      BY <1>6 DEF FreeNear, TypeOK, blocks, walk
    <2>2. FreeInv'
      BY <1>6 DEF FreeNear, FreeInv, blocks, Live
    <2>3. LifoInv' /\ FifoInv'
      BY <1>6 DEF FreeNear, LifoInv, FifoInv, blocks, Chain, FirstOf, LastOf
    <2> QED
      BY <1>6, <2>1, <2>2, <2>3 DEF FreeNear, RestInv, AllocInv
  <1>7. CASE FreeDone
    <2> DEFINE f == pool.free
               g == pool'.free
    <2>0. iMethod \in {"LIFO", "FIFO"} /\ idx \in 0 .. MaxIdx /\ Live(pool, idx)
          /\ cur = PosOf(idx) /\ cur \in Position
      BY <1>7 DEF FreeDone, FreeInv, TypeOK
    <2>1. /\ PoolOK(pool') /\ pool'.last = pool.last /\ pool'.valid = pool.valid \ {cur}
          /\ g = IF iMethod = "LIFO" THEN <<cur>> \o f ELSE Append(f, cur)
      BY <1>7, <2>0, FreePool DEF FreeDone
    <2>2. /\ fValid = [p \in Position |-> p \in pool.valid /\ p # cur]
          /\ iUsed = Cap - Len(f) - 1 /\ iIdx = pool.last
      BY <1>7 DEF FreeDone, FreeInv
    <2>3. f \in Seq(Position) /\ Len(f) \in Nat /\ DOMAIN f = 1 .. Len(f)
          /\ (f = <<>> <=> Len(f) = 0)
      BY ListFacts
    <2>4. ASSUME iMethod = "LIFO"
          PROVE  /\ Chain(g, iNext) /\ Len(g) = Len(f) + 1
                 /\ iFreeHead = FirstOf(g) /\ iFreeTail = LastOf(g)
      <3>1. /\ Len(g) = Len(f) + 1 /\ DOMAIN g = 1 .. Len(g) /\ g[1] = cur /\ g # <<>>
            /\ \A k \in 2 .. Len(g) : k - 1 \in DOMAIN f /\ g[k] = f[k - 1]
        BY <2>0, <2>1, <2>3, <2>4
      <3>2. /\ Chain(f, iNext) /\ iFreeHead = cur /\ iNext[cur] = FirstOf(f)
            /\ iFreeTail = IF f = <<>> THEN cur ELSE LastOf(f)
        BY <1>7, <2>4 DEF FreeDone, LifoInv
      <3> HIDE DEF f, g
      <3>3. Chain(g, iNext)
        <4> SUFFICES ASSUME NEW k \in DOMAIN g
                     PROVE  iNext[g[k]] = IF k = Len(g) THEN -1 ELSE g[k + 1]
          BY DEF Chain
        <4>1. CASE k = 1
          <5>1. CASE f = <<>>
            BY <2>3, <3>1, <3>2, <4>1, <5>1 DEF FirstOf
          <5>2. CASE f # <<>>
            <6>1. Len(g) # 1 /\ 1 + 1 \in 2 .. Len(g) /\ 1 + 1 - 1 = 1
              BY <2>3, <3>1, <5>2
            <6> QED
              BY <3>1, <3>2, <4>1, <5>2, <6>1 DEF FirstOf
          <5> QED
            BY <5>1, <5>2
        <4>2. CASE k # 1
          <5>1. /\ k \in 2 .. Len(g) /\ k - 1 \in DOMAIN f /\ g[k] = f[k - 1]
                /\ k - 1 + 1 = k
            BY <2>3, <3>1, <4>2
          <5>2. iNext[f[k - 1]] = IF k - 1 = Len(f) THEN -1 ELSE f[k - 1 + 1]
            BY <3>2, <5>1 DEF Chain
          <5>3. k # Len(g) => k + 1 \in 2 .. Len(g) /\ k + 1 - 1 = k
            BY <2>3, <3>1, <5>1
          <5> QED
            BY <2>3, <3>1, <5>1, <5>2, <5>3
        <4> QED
          BY <4>1, <4>2
      <3>4. iFreeHead = FirstOf(g) /\ iFreeTail = LastOf(g)
        <4>1. f # <<>> => Len(g) \in 2 .. Len(g) /\ Len(g) - 1 = Len(f)
          BY <2>3, <3>1
        <4> QED
          BY <2>3, <3>1, <3>2, <4>1 DEF FirstOf, LastOf
      <3> QED
        BY <3>1, <3>3, <3>4
    <2>5. ASSUME iMethod = "FIFO"
          PROVE  /\ Chain(g, iNext) /\ Len(g) = Len(f) + 1
                 /\ iFreeHead = FirstOf(g) /\ iFreeTail = LastOf(g)
      <3>1. /\ Len(g) = Len(f) + 1 /\ DOMAIN g = 1 .. Len(g) /\ g[Len(g)] = cur /\ g # <<>>
            /\ \A k \in 1 .. Len(f) : g[k] = f[k]
        BY <2>0, <2>1, <2>3, <2>5
      <3>2. /\ \A k \in DOMAIN f : iNext[f[k]] = IF k = Len(f) THEN cur ELSE f[k + 1]
            /\ iFreeHead = IF f = <<>> THEN cur ELSE FirstOf(f)
            /\ iFreeTail = cur /\ iNext[cur] = -1
        BY <1>7, <2>5 DEF FreeDone, FifoInv
      <3> HIDE DEF f, g
      <3>3. Chain(g, iNext)
        <4> SUFFICES ASSUME NEW k \in DOMAIN g
                     PROVE  iNext[g[k]] = IF k = Len(g) THEN -1 ELSE g[k + 1]
          BY DEF Chain
        <4>1. CASE k = Len(g)
          BY <3>1, <3>2, <4>1
        <4>2. CASE k # Len(g)
          <5>1. k \in 1 .. Len(f) /\ g[k] = f[k]
            BY <2>3, <3>1, <4>2
          <5>2. k # Len(f) => g[k + 1] = f[k + 1]
            BY <2>3, <3>1, <5>1
          <5>3. k = Len(f) => g[k + 1] = cur
            BY <3>1
          <5> QED
            BY <2>3, <3>2, <4>2, <5>1, <5>2, <5>3
        <4> QED
          BY <4>1, <4>2
      <3>4. iFreeHead = FirstOf(g) /\ iFreeTail = LastOf(g)
        <4>1. f # <<>> => 1 \in 1 .. Len(f)
          BY <2>3
        <4>2. f = <<>> => Len(g) = 1
          BY <2>3, <3>1
        <4> QED
          BY <3>1, <3>2, <4>1, <4>2 DEF FirstOf, LastOf
      <3> QED
        BY <3>1, <3>3, <3>4
    <2>6. Chain(g, iNext) /\ iFreeHead = FirstOf(g) /\ iFreeTail = LastOf(g)
          /\ Len(g) = Len(f) + 1
      BY <2>0, <2>4, <2>5
    <2>7. Intact'
      <3>1. /\ iFreeHead' = iFreeHead /\ iFreeTail' = iFreeTail /\ iUsed' = iUsed
            /\ fValid' = fValid /\ iIdx' = iIdx /\ iNext' = iNext
        BY <1>7 DEF FreeDone, blocks
      <3>2. iUsed = Cap - Len(g)
        BY <1>0, <2>2, <2>3, <2>6
      <3>3. fValid = [p \in Position |-> p \in pool'.valid]
        BY <2>1, <2>2
      <3>4. iIdx = pool'.last
        BY <2>1, <2>2
      <3> QED
        BY <2>6, <3>1, <3>2, <3>3, <3>4 DEF Intact, Linked, Chain, FirstOf, LastOf
    <2>8. TypeOK'
      <3>1. /\ pool'.free \in Seq(Position) /\ pool'.last \in [Position -> 0 .. MaxIdx]
            /\ pool'.valid \subseteq Position
        BY <2>1 DEF PoolOK, Pools
      <3>2. during' \subseteq 0 .. MaxIdx
        BY <1>7 DEF FreeDone, TypeOK
      <3> QED
        BY <1>7, <3>1, <3>2 DEF FreeDone, TypeOK, blocks
    <2> HIDE DEF f, g
    <2> QED
      BY <1>7, <2>1, <2>7, <2>8 DEF FreeDone, RestInv, AllocInv, FreeInv, LifoInv, FifoInv
  <1> QED
    BY <1>1, <1>2, <1>3, <1>4, <1>5, <1>6, <1>7

\* Death, and what the next process finds.
LEMMA CrashIInv == ASSUME IInv, Crash PROVE IInv'
  <1> USE DEF IInv, Goto, Pcs, AllocPcs, FreePcs
  <1>1. TypeOK'
    BY DEF Crash, NoWalk, TypeOK, head, blocks
  <1>2. ASSUME inited, ~torn PROVE Intact
    BY <1>2 DEF Crash, RestInv, AllocInv, FreeInv, TypeOK
  <1>3. Intact => Intact'
    BY DEF Crash, Intact, Linked, head, blocks
  <1> QED
    BY <1>1, <1>2, <1>3 DEF Crash, head, RestInv, AllocInv, FreeInv, LifoInv, FifoInv

LEMMA FirstIs ==
    ASSUME NEW P \in SUBSET Position
    PROVE  /\ First(P) \in Position \cup {-1} /\ (First(P) = -1 <=> P = {})
           /\ P # {} => First(P) \in P /\ \A q \in P : First(P) <= q
  <1>1. P \in SUBSET Nat /\ -1 \notin P
    BY PoolAssumption DEF Position
  <1>2. P # {} => \E p \in P : \A q \in P : p <= q
    BY <1>1, Smallest
  <1> QED
    BY <1>1, <1>2 DEF First

LEMMA UsedCount == Cardinality(Used) \in 0 .. Cap
  <1>1. IsFiniteSet(Position) /\ Cardinality(Position) = Cap
    BY PoolAssumption, FS_Interval DEF Position
  <1>2. IsFiniteSet(Used) /\ Cardinality(Used) <= Cap
    BY <1>1, FS_Subset DEF Used
  <1> QED
    BY <1>2, FS_CardinalityType, PoolAssumption

\* tmempool_fix.
LEMMA AttachIInv == ASSUME IInv, Attach PROVE IInv'
  <1> USE DEF IInv, Goto, Pcs, AllocPcs, FreePcs
  <1>1. CASE ~torn
    <2>1. Intact
      BY <1>1 DEF Attach, RestInv
    <2>2. Intact'
      BY <1>1, <2>1 DEF Attach, Intact, Linked
    <2>3. TypeOK'
      BY <1>1 DEF Attach, TypeOK, walk
    <2> QED
      BY <1>1, <2>2, <2>3 DEF Attach, RestInv, AllocInv, FreeInv, LifoInv, FifoInv
  <1>2. CASE torn
    <2>0. Position \ Invalid = Used /\ Invalid \in SUBSET Position
      BY DEF Invalid, Used
    <2>1. Used' = Used /\ Invalid' = Invalid
      BY DEF Attach, Used, Invalid
    <2>2. iUsed' = Cardinality(Used)
      BY <1>2, <2>0 DEF Attach
    <2>3. iFreeHead' = First(Invalid)
      BY <1>2 DEF Attach, First
    <2>4. /\ iFreeTail' = IF Invalid = {} THEN -1
                          ELSE CHOOSE p \in Invalid : \A q \in Invalid : q <= p
          /\ iFreeTail' \in Position \cup {-1}
      <3>1. Invalid # {} => \E p \in Invalid : \A q \in Invalid : q <= p
        BY <2>0, Largest
      <3> QED
        BY <1>2, <2>0, <3>1 DEF Attach
    <2>5. ASSUME NEW p \in Invalid
          PROVE  iNext'[p] = First({q \in Invalid : q > p})
      <3>1. p \in Position /\ ~fValid[p]
        BY DEF Invalid
      <3>2. iNext'[p] = IF \A q \in Invalid : q <= p THEN -1
                        ELSE CHOOSE q \in Invalid : q > p /\ \A r \in Invalid : r > p => q <= r
        BY <1>2, <3>1 DEF Attach, Fixed
      <3> DEFINE Q == {q \in Invalid : q > p}
      <3>3. (\A q \in Invalid : q <= p) <=> Q = {}
        <4>1. \A q \in Invalid : q \in Int /\ p \in Int
          BY <2>0, PoolAssumption DEF Position
        <4>2. \A q \in Invalid : q <= p <=> ~ (q > p)
          BY <4>1
        <4> QED
          BY <4>2
      <3>4. (CHOOSE q \in Invalid : q > p /\ \A r \in Invalid : r > p => q <= r)
                = CHOOSE q \in Q : \A r \in Q : q <= r
        <4>1. \A q : (q \in Invalid /\ q > p /\ \A r \in Invalid : r > p => q <= r)
                     <=> (q \in Q /\ \A r \in Q : q <= r)
          OBVIOUS
        <4> QED
          BY <4>1
      <3> QED
        BY <3>2, <3>3, <3>4 DEF First
    <2>6. iNext' \in [Position -> Position \cup {-1}]
      <3>1. /\ DOMAIN iNext' = Position /\ iNext' = [p \in Position |-> iNext'[p]]
            /\ \A p \in Position : fValid[p] => iNext'[p] = iNext[p]
        BY <1>2 DEF Attach, Fixed
      <3>2. \A p \in Position : iNext'[p] \in Position \cup {-1}
        <4> SUFFICES ASSUME NEW p \in Position PROVE iNext'[p] \in Position \cup {-1}
          OBVIOUS
        <4>1. CASE fValid[p]
          BY <3>1, <4>1 DEF TypeOK
        <4>2. CASE ~fValid[p]
          <5>1. p \in Invalid /\ {q \in Invalid : q > p} \in SUBSET Position
            BY <4>2 DEF Invalid
          <5>2. First({q \in Invalid : q > p}) \in Position \cup {-1}
            BY <5>1, FirstIs
          <5> QED
            BY <2>5, <5>1, <5>2
        <4> QED
          BY <4>1, <4>2
      <3> QED
        BY <3>1, <3>2
    <2>7. TypeOK'
      BY <1>2, <2>0, <2>2, <2>3, <2>4, <2>6, FirstIs, UsedCount DEF Attach, TypeOK, walk
    <2>8. Repaired'
      BY <2>1, <2>2, <2>3, <2>4, <2>5 DEF Repaired
    <2> QED
      BY <1>2, <2>7, <2>8 DEF Attach, RestInv, AllocInv, FreeInv, LifoInv, FifoInv
  <1> QED
    BY <1>1, <1>2

\* A walk touches nothing of the pool.
LEMMA WalkIInv == ASSUME IInv, WalkFirst \/ WalkNext PROVE IInv'
  <1> USE DEF IInv, Goto, Pcs, AllocPcs, FreePcs
  <1>1. /\ UNCHANGED <<head, blocks, pc, cur, idx, pool>>
        /\ pc = "idle"
    BY DEF WalkFirst, WalkNext
  <1>2. /\ iter' \in Position \cup {-1}
        /\ seen' \subseteq 0 .. MaxIdx /\ during' \subseteq 0 .. MaxIdx
    <2>1. {iIdx[p] : p \in Used} \subseteq 0 .. MaxIdx /\ Used \subseteq Position
      BY DEF Used, TypeOK
    <2>2. CASE WalkFirst
      BY <2>1, <2>2, FirstIs DEF WalkFirst
    <2>3. CASE WalkNext
      <3>1. \A P : P \in SUBSET Position => First(P) \in Position \cup {-1}
        BY FirstIs
      <3> DEFINE next == First({p \in Used : p > iter})
      <3>2. next \in Position \cup {-1}
        BY <2>1, <3>1
      <3>3. \/ iter' = -1 /\ seen' = {} /\ during' = {}
            \/ iter' = next /\ seen' = seen \cup {iIdx[iter]} /\ during' = during
        BY <2>3 DEF WalkNext, NoWalk
      <3>4. iIdx[iter] \in 0 .. MaxIdx
        BY <2>3 DEF WalkNext, TypeOK
      <3> HIDE DEF next
      <3> QED
        BY <3>2, <3>3, <3>4 DEF TypeOK
    <2> QED
      BY <2>2, <2>3
  <1>3. TypeOK'
    BY <1>1, <1>2 DEF TypeOK, head, blocks
  <1>4. (Intact => Intact') /\ (Repaired => Repaired')
    BY <1>1 DEF Intact, Repaired, Linked, Invalid, Used, head, blocks
  <1> QED
    BY <1>1, <1>3, <1>4 DEF head, RestInv, AllocInv, FreeInv, LifoInv, FifoInv

LEMMA StepIInv == IInv /\ [Next]_vars => IInv'
  <1> SUFFICES ASSUME IInv, [Next]_vars PROVE IInv'
    OBVIOUS
  <1>1. CASE UNCHANGED vars
    <2>1. /\ UNCHANGED <<inited, iFreeHead, iFreeTail, iUsed, iMethod, torn>>
          /\ UNCHANGED <<fValid, iIdx, iNext, pc, cur, idx, iter, seen, during, pool>>
      BY <1>1 DEF vars
    <2>2. TypeOK' /\ PoolOK(pool)'
      BY <2>1 DEF IInv, TypeOK
    <2>3. RestInv'
      BY <2>1 DEF IInv, RestInv, Intact, Linked, Repaired, Used, Invalid
    <2>4. AllocInv' /\ FreeInv'
      BY <2>1 DEF IInv, AllocInv, FreeInv, Chain, LastOf, Live
    <2>5. LifoInv' /\ FifoInv'
      BY <2>1 DEF IInv, LifoInv, FifoInv, Chain, FirstOf, LastOf
    <2> QED
      BY <2>2, <2>3, <2>4, <2>5 DEF IInv
  <1>2. CASE Next
    BY <1>2, OpenIInv, AllocIInv, FreeIInv, CrashIInv, AttachIInv, WalkIInv DEF Next
  <1> QED
    BY <1>1, <1>2

\* The invariant holds in every state.
LEMMA Invariant == Spec => []IInv
  BY InitIInv, StepIInv, PTL DEF Spec

LEMMA InvariantShows == IInv => TypeOK /\ ListInv
  BY DEF IInv, RestInv, ListInv
-----------------------------------------------------------------------------
\* The words of a pool keep their types: iUsed stays within iMax, every link is a
\* position or -1, every handle at most the limit.
THEOREM PoolTypeCorrect == Spec => []TypeOK
  BY Invariant, InvariantShows, PTL

\* Between two calls the list of free blocks is that of the abstract pool, link by
\* link, or, after a death inside a call, the one tmempool_fix makes.
THEOREM ListCorrect == Spec => []ListInv
  BY Invariant, InvariantShows, PTL

\* HandlePoolSpec has the operators of HandlePool under its own name.
LEMMA SameOperators ==
    /\ Abstract!NewPool = NewPool
    /\ \A pl : Abstract!CanAlloc(pl) <=> CanAlloc(pl)
    /\ \A pl : Abstract!AfterAlloc(pl) = AfterAlloc(pl)
    /\ \A pl, h : Abstract!Live(pl, h) <=> Live(pl, h)
    /\ \A pl, h, lifo : Abstract!AfterFree(pl, h, lifo) = AfterFree(pl, h, lifo)
  BY DEF NewPool, CanAlloc, AfterAlloc, Live, AfterFree, AllocIdx, NextIdx, PosOf, Position,
         Abstract!NewPool, Abstract!CanAlloc, Abstract!AfterAlloc, Abstract!Live,
         Abstract!AfterFree, Abstract!AllocIdx, Abstract!NextIdx, Abstract!PosOf,
         Abstract!Position

LEMMA StepPool == IInv /\ [Next]_vars => [Abstract!Next]_<<pool, torn /\ pc \in {"down", "idle"}>>
  <1> DEFINE broken == torn /\ pc \in {"down", "idle"}
  <1> SUFFICES ASSUME IInv, [Next]_vars PROVE [Abstract!Next]_<<pool, broken>>
    OBVIOUS
  <1> USE DEF IInv, Goto
  <1>1. CASE AllocEnd
    <2>1. pool.free # <<>> /\ ~broken /\ ~broken'
      BY <1>1 DEF AllocEnd, AllocInv, AllocPcs
    <2> QED
      BY <1>1, <2>1, SameOperators DEF AllocEnd, Abstract!Next, Abstract!Alloc, CanAlloc
  <1>2. CASE FreeDone
    <2>1. Live(pool, idx) /\ idx \in 0 .. MaxIdx /\ ~broken /\ ~broken'
      BY <1>2 DEF FreeDone, FreeInv, FreePcs, TypeOK
    <2>2. \E lifo \in BOOLEAN : pool' = AfterFree(pool, idx, lifo)
      BY <1>2 DEF FreeDone
    <2> QED
      BY <2>1, <2>2, SameOperators DEF Abstract!Next, Abstract!Free
  <1>3. CASE Crash
    <2>1. pool' = pool /\ torn' = torn /\ pc' = "down"
      BY <1>3 DEF Crash, head
    <2> QED
      BY <2>1 DEF Abstract!Next, Abstract!Break
  <1>4. CASE InitBody \/ InitDone
    <2>1. pool' = pool /\ ~torn /\ ~torn'
      BY <1>4 DEF InitBody, InitDone, RestInv
    <2> QED
      BY <2>1
  <1>5. CASE SetMethod \/ WalkFirst \/ WalkNext \/ UNCHANGED vars \/ Attach
    <2>1. pool' = pool /\ broken' = broken
      BY <1>5 DEF SetMethod, WalkFirst, WalkNext, vars, Attach, head
    <2> QED
      BY <2>1
  <1>6. CASE AllocBegin \/ \E h \in 0 .. MaxIdx : FreeBegin(h)
    <2>1. pool' = pool /\ ~broken /\ ~broken'
      BY <1>6 DEF AllocBegin, FreeBegin
    <2> QED
      BY <2>1
  <1>7. CASE \/ AllocUnlink \/ AllocEmpty \/ AllocValid \/ AllocCount \/ AllocNumber
             \/ FreeInvalid \/ FreeCount \/ FreeNext \/ FreeEnd \/ FreeNear
    <2>1. pool' = pool /\ pc \notin {"down", "idle"} /\ pc' \notin {"down", "idle"}
      BY <1>7 DEF AllocUnlink, AllocEmpty, AllocValid, AllocCount, AllocNumber,
                  FreeInvalid, FreeCount, FreeNext, FreeEnd, FreeNear
    <2> QED
      BY <2>1
  <1> QED
    BY <1>1, <1>2, <1>3, <1>4, <1>5, <1>6, <1>7 DEF Next

\* tmempool.c gives what tmempool.h promises: each alloc and free is one step of
\* HandlePoolSpec, a call that is cut short has no effect on the pool's value, and
\* after it the pool gives and takes nothing.
THEOREM PoolRefines == Spec => PoolSpec
  <1>1. Init => Abstract!Init
    BY SameOperators DEF Init, Abstract!Init
  <1> QED
    BY <1>1, Invariant, StepPool, PTL DEF Spec, PoolSpec, Abstract!Spec

\* What a walk still has to return: a handle in use since it began has been returned,
\* or is that of a block the walk has not passed.  The block of an alloc is not it, and
\* the block of a free has the handle to the end of the call.
WalkInv == iter # -1 => \A h \in during :
    \/ h \in seen
    \/ \E p \in Position :
          /\ iter <= p /\ iIdx[p] = h
          /\ fValid[p] \/ (pc \in FreePcs /\ p = cur)
          /\ ~ (pc \in {"count", "number"} /\ p = cur)

LEMMA WalkStep == ASSUME IInv, WalkInv, [Next]_vars PROVE WalkInv'
  <1> SUFFICES ASSUME iter' # -1, NEW h \in during'
               PROVE  \/ h \in seen'
                      \/ \E p \in Position :
                            /\ iter' <= p /\ iIdx'[p] = h
                            /\ fValid'[p] \/ (pc' \in FreePcs /\ p = cur')
                            /\ ~ (pc' \in {"count", "number"} /\ p = cur')
    BY DEF WalkInv
  <1>0. /\ iter \in Position \cup {-1} /\ fValid \in [Position -> BOOLEAN] /\ cur \in Position
        /\ iIdx \in [Position -> 0 .. MaxIdx] /\ pc \in Pcs /\ Position \subseteq Nat
    BY PoolAssumption DEF IInv, TypeOK, Position
  <1>1. CASE WalkFirst
    <2>1. PICK p \in Used : h = iIdx[p]
      BY <1>1 DEF WalkFirst
    <2>2. Used \in SUBSET Position /\ p \in Position
      BY DEF Used
    <2>3. iter' <= p
      BY <1>1, <2>1, <2>2, FirstIs DEF WalkFirst
    <2> QED
      BY <1>1, <2>1, <2>2, <2>3 DEF WalkFirst, blocks, Used
  <1>2. CASE WalkNext
    <2> DEFINE A == {p \in Used : p > iter}
               next == First(A)
    <2>1. /\ iter # -1 /\ iter' = next /\ next # -1 /\ h \in during
          /\ seen' = seen \cup {iIdx[iter]}
          /\ UNCHANGED <<fValid, iIdx, pc, cur>> /\ pc = "idle"
      BY <1>2 DEF WalkNext, NoWalk, blocks
    <2>2. CASE h \in seen
      BY <2>1, <2>2
    <2>3. ASSUME NEW p \in Position, iter <= p, iIdx[p] = h, fValid[p]
          PROVE  h \in seen' \/ (next <= p)
      <3>1. CASE p = iter
        BY <2>1, <2>3, <3>1
      <3>2. CASE p # iter
        <4>1. p \in A /\ A \in SUBSET Position
          BY <1>0, <2>1, <2>3, <3>2 DEF Used
        <4> HIDE DEF A
        <4> QED
          BY <4>1, FirstIs
      <3> QED
        BY <3>1, <3>2
    <2> HIDE DEF next
    <2>4. \/ h \in seen
          \/ \E p \in Position : iter <= p /\ iIdx[p] = h /\ fValid[p]
      BY <2>1 DEF WalkInv, FreePcs
    <2>5. CASE h \notin seen
      <3>1. PICK p \in Position : iter <= p /\ iIdx[p] = h /\ fValid[p]
        BY <2>4, <2>5
      <3> QED
        BY <2>1, <2>3, <3>1
    <2> QED
      BY <2>2, <2>5
  <1>3. CASE Crash
    BY <1>3 DEF Crash, NoWalk
  <1>4. CASE ~ (WalkFirst \/ WalkNext \/ Crash)
    <2>1. iter' = iter /\ seen' = seen /\ h \in during
      BY <1>4 DEF Next, vars, InitBody, InitDone, SetMethod, AllocBegin, AllocUnlink, AllocEmpty,
         AllocValid, AllocCount, AllocNumber, AllocEnd, FreeBegin, FreeInvalid, FreeCount, FreeNext,
         FreeEnd, FreeNear, FreeDone, Attach, walk
    <2>2. CASE h \in seen
      BY <2>1, <2>2
    <2>3. CASE h \notin seen
      <3>1. PICK p \in Position :
               /\ iter <= p /\ iIdx[p] = h
               /\ fValid[p] \/ (pc \in FreePcs /\ p = cur)
               /\ ~ (pc \in {"count", "number"} /\ p = cur)
        BY <2>1, <2>3 DEF WalkInv
      <3> DEFINE Still == /\ iter' <= p /\ iIdx'[p] = h
                          /\ fValid'[p] \/ (pc' \in FreePcs /\ p = cur')
                          /\ ~ (pc' \in {"count", "number"} /\ p = cur')
      <3> USE DEF Goto, head, blocks, FreePcs, AllocPcs
      <3>2. CASE AllocValid
        <4>1. ~ fValid[cur]
          <5>1. pc = "validate" /\ PoolOK(pool)
            BY <3>2 DEF AllocValid, IInv
          <5>2. pool.free # <<>> /\ cur = pool.free[1] /\ (fValid[cur] <=> cur \in pool.valid)
            BY <1>0, <5>1 DEF IInv, AllocInv
          <5>3. 1 \in DOMAIN pool.free
            BY <5>1, <5>2, ListFacts
          <5>4. pool.free[1] \in Position \ pool.valid
            BY <5>1, <5>3 DEF PoolOK
          <5> QED
            BY <5>2, <5>4
        <4>2. p # cur
          BY <3>1, <3>2, <4>1 DEF AllocValid
        <4> QED
          BY <1>0, <2>1, <3>1, <3>2, <4>2 DEF AllocValid
      <3>3. CASE AllocNumber
        BY <1>0, <2>1, <3>1, <3>3 DEF AllocNumber
      <3>4. CASE FreeInvalid
        BY <1>0, <2>1, <3>1, <3>4 DEF FreeInvalid
      <3>5. CASE FreeDone
        <4>1. iIdx[cur] = idx /\ h # idx
          BY <3>5 DEF FreeDone, IInv, FreeInv, Live
        <4> QED
          BY <1>0, <2>1, <3>1, <3>5, <4>1 DEF FreeDone
      <3>6. CASE AllocBegin \/ \E g \in 0 .. MaxIdx : FreeBegin(g)
        BY <1>0, <2>1, <3>1, <3>6 DEF AllocBegin, FreeBegin
      <3>7. CASE AllocUnlink \/ AllocEmpty \/ AllocCount \/ AllocEnd
        BY <1>0, <2>1, <3>1, <3>7 DEF AllocUnlink, AllocEmpty, AllocCount, AllocEnd
      <3>8. CASE FreeCount \/ FreeNext \/ FreeEnd \/ FreeNear
        BY <1>0, <2>1, <3>1, <3>8 DEF FreeCount, FreeNext, FreeEnd, FreeNear
      <3>9. CASE InitBody \/ InitDone \/ SetMethod \/ Attach \/ UNCHANGED vars
        BY <1>0, <2>1, <3>1, <3>9 DEF InitBody, InitDone, SetMethod, Attach, vars
      <3> QED
        BY <1>4, <3>2, <3>3, <3>4, <3>5, <3>6, <3>7, <3>8, <3>9 DEF Next
    <2> QED
      BY <2>2, <2>3
  <1> QED
    BY <1>1, <1>2, <1>3, <1>4

\* The step that ends a walk finds no used block behind the last one.
LEMMA WalkEnd ==
    ASSUME IInv, WalkInv, [Next]_vars, iter # -1, iter' = -1, pc' # "down"
    PROVE  during \subseteq seen \cup {iIdx[iter]}
  <1>0. /\ iter \in Position /\ fValid \in [Position -> BOOLEAN] /\ Position \subseteq Nat
    BY PoolAssumption DEF IInv, TypeOK, Position
  <1> DEFINE A == {p \in Used : p > iter}
  <1>1. pc = "idle" /\ First(A) = -1
    BY <1>0, FirstIs DEF Next, vars, InitBody, InitDone, SetMethod, AllocBegin, AllocUnlink, AllocEmpty,
       AllocValid, AllocCount, AllocNumber, AllocEnd, FreeBegin, FreeInvalid, FreeCount, FreeNext,
       FreeEnd, FreeNear, FreeDone, Attach, walk, Crash, WalkFirst, WalkNext, Used
  <1>2. A = {}
    <2>1. A \in SUBSET Position
      BY DEF Used
    <2> HIDE DEF A
    <2> QED
      BY <1>0, <1>1, <2>1, FirstIs
  <1> SUFFICES ASSUME NEW h \in during, h \notin seen PROVE h = iIdx[iter]
    OBVIOUS
  <1>3. PICK p \in Position : iter <= p /\ iIdx[p] = h /\ fValid[p]
    BY <1>1 DEF WalkInv, FreePcs
  <1>4. p \notin A
    BY <1>2
  <1> QED
    BY <1>0, <1>3, <1>4 DEF Used

\* A walk returns every handle that is in use from its beginning to its end.
THEOREM WalkReturns == Spec => WalkComplete
  <1>1. Init => IInv /\ WalkInv
    BY InitIInv DEF Init, WalkInv
  <1>2. IInv /\ WalkInv /\ [Next]_vars => IInv' /\ WalkInv'
    BY StepIInv, WalkStep
  <1>3. IInv /\ WalkInv /\ [Next]_vars =>
           [iter # -1 /\ iter' = -1 /\ pc' # "down" => during \subseteq seen \cup {iIdx[iter]}]_vars
    BY WalkEnd
  <1> QED
    BY <1>1, <1>2, <1>3, PTL DEF Spec, WalkComplete
-----------------------------------------------------------------------------
(***************************************************************************)
(* The hash table.  Between two calls the free items and the items of      *)
(* every bucket are lists; inside a call the item in hand is apart from    *)
(* them, or the list around it is half linked.                             *)
(***************************************************************************)
\* The sets of the instance are counted as those here.
LEMMA SameCardinality == \A S : Table!Cardinality(S) = Cardinality(S)
  BY DEF Table!Cardinality, Cardinality



\* The elements of P, once each, as a list of length cnt.
Enum(P, cnt) ==
    {f \in [1 .. cnt -> P] : /\ \A i \in P : \E j \in 1 .. cnt : f[j] = i
                             /\ \A j, k \in 1 .. cnt : f[j] = f[k] => j = k}

\* The items at f are linked forward, up to the last one,
Forward(f, cnt, it) == \A j \in 1 .. cnt : it[f[j]].iNext = IF j = cnt THEN -1 ELSE f[j + 1]

\* and back, from the first, before which there is x.
Backward(f, cnt, it, x) == \A j \in 1 .. cnt : it[f[j]].iPrev = IF j = 1 THEN x ELSE f[j - 1]

\* A list of cnt items.
List(P, cnt, hd, it, x) ==
    \E f \in Enum(P, cnt) : (cnt > 0 => hd = f[1]) /\ Forward(f, cnt, it) /\ Backward(f, cnt, it, x)

\* A list item x was taken out of forward, backward too if both, while hd is still
\* the one x was in, at m.
Gap(P, cnt, hd, it, x, both) ==
    \E f \in Enum(P, cnt) : \E m \in 1 .. cnt + 1 :
        /\ it[x].iPrev = IF m = 1 THEN -1 ELSE f[m - 1]
        /\ it[x].iNext = IF m = cnt + 1 THEN -1 ELSE f[m]
        /\ hd = IF m = 1 THEN x ELSE f[1]
        /\ Forward(f, cnt, it)
        /\ IF both THEN Backward(f, cnt, it, -1)
           ELSE \A j \in 1 .. cnt :
                   it[f[j]].iPrev = IF j = m THEN x ELSE IF j = 1 THEN -1 ELSE f[j - 1]

\* While a call has the item in hand it is in no chain, or in no list of free items.
UnchainedPcs  == {"newhead", "link", "back", "bucket", "backward", "unhead", "clear"}
TakenPcs == {"alloc", "freehead", "freelink", "done"}
InsertPcs  == {"alloc", "newhead", "link", "back", "bucket", "copy"}
RemovePcs  == {"forward", "backward", "unhead", "clear"}

Own(b) == Table!BucketOf(item[node].uCode) = b

FreeItems  == {i \in Table!Item : ~item[i].fValid /\ ~(tpc \in TakenPcs /\ i = node)}
Members(b) == {i \in Table!Item : /\ item[i].fValid /\ Table!BucketOf(item[i].uCode) = b
                                  /\ ~(tpc \in UnchainedPcs /\ i = node)}

FreeListInv == tpc # "down" =>
    /\ \E cnt \in Nat : List(FreeItems, cnt, tFreeHead, item,
                             IF tpc \in {"alloc", "newhead", "freelink", "done"} THEN node ELSE -1)
    /\ FreeItems = {} => tFreeHead = -1

BucketInv == tpc # "down" =>
    \A b \in Table!Bucket :
        IF tpc \in {"backward", "unhead"} /\ Own(b)
        THEN /\ bucket[b].iCount > 0
             /\ Gap(Members(b), bucket[b].iCount - 1, bucket[b].iHead, item, node, tpc = "unhead")
        ELSE List(Members(b), bucket[b].iCount, bucket[b].iHead, item,
                  IF tpc = "bucket" /\ Own(b) THEN node ELSE -1)

\* The item in hand.
NodeInv ==
    /\ tpc \in TakenPcs => ~item[node].fValid
    /\ tpc \in {"newhead", "link"} => item[node].uCode = 0
    /\ tpc \in {"newhead", "link", "back", "bucket"} => item[node].fValid /\ item[node].iPrev = -1
    /\ tpc \in InsertPcs => key \in Keys
    /\ tpc \in {"back", "bucket", "copy"} => item[node].fValid /\ item[node].uCode = Code[key]
    /\ tpc \in {"back", "bucket"} =>
           LET b == bucket[Table!BucketOf(Code[key])]
           IN  item[node].iNext = IF b.iCount > 0 THEN b.iHead ELSE -1
    /\ tpc \in RemovePcs => item[node].fValid /\ item[node].data = key
    /\ tpc = "done" => item[node].iNext = tFreeHead
    /\ tpc \in {"freehead", "freelink", "done"} => item[node].iPrev = -1

\* What iItem counts: an item is counted before it is taken and after it is freed.
Kept == IF tpc = "newhead" THEN Table!Valid \ {node}
        ELSE IF tpc \in {"freehead", "freelink", "done"} THEN Table!Valid \cup {node}
        ELSE Table!Valid

CountInv == tpc # "down" => iItem = Cardinality(Kept)

\* Where a key is, the item in hand left out.
Seen(k) == {i \in Table!Item : Table!Holds(i, k) /\ (tpc \in {"idle", "down"} \/ i # node)}

FoundInv == \A k \in Keys : found[k] = Cardinality(Seen(k))

Entries == [fValid : BOOLEAN, uCode : Nat, iPrev : Table!Item \cup {-1}, iNext : Table!Item \cup {-1},
          data : Keys \cup {Table!NoKey}]

TableTypes ==
    /\ tpc \in {"idle", "down"} \cup InsertPcs \cup RemovePcs \cup TakenPcs
    /\ tFreeHead \in Table!Item \cup {-1} /\ iItem \in 0 .. Items
    /\ item \in [Table!Item -> Entries]
    /\ bucket \in [Table!Bucket -> [iCount : 0 .. Items, iHead : Table!Item \cup {-1}]]
    /\ node \in Table!Item /\ key \in Keys \cup {Table!NoKey} /\ found \in [Keys -> Int]

TableInv == TableTypes /\ FreeListInv /\ BucketInv /\ NodeInv /\ CountInv /\ FoundInv
-----------------------------------------------------------------------------
(***************************************************************************)
(* Lists.                                                                  *)
(***************************************************************************)
LEMMA EnumCount ==
    ASSUME NEW P, NEW cnt \in Nat, NEW f \in Enum(P, cnt)
    PROVE  IsFiniteSet(P) /\ Cardinality(P) = cnt /\ (cnt = 0 <=> P = {})
  <1>1. f \in [1 .. cnt -> P]
    BY DEF Enum
  <1>2. f \in Injection(1 .. cnt, P)
    BY <1>1 DEF Enum, Injection, IsInjective
  <1>3. f \in Surjection(1 .. cnt, P)
    BY <1>1 DEF Enum, Surjection
  <1>4. f \in Bijection(1 .. cnt, P)
    BY <1>2, <1>3 DEF Bijection
  <1>5. IsFiniteSet(1 .. cnt) /\ Cardinality(1 .. cnt) = cnt
    BY FS_Interval
  <1>6. IsFiniteSet(P) /\ Cardinality(P) = cnt
    BY <1>4, <1>5, FS_Bijection DEF ExistsBijection
  <1> QED
    BY <1>6, FS_EmptySet

LEMMA EnumType ==
    ASSUME NEW P, NEW cnt \in Nat, NEW f \in Enum(P, cnt)
    PROVE  /\ f \in [1 .. cnt -> P] /\ \A j \in 1 .. cnt : f[j] \in P
           /\ \A i \in P : \E j \in 1 .. cnt : f[j] = i
           /\ \A j, k \in 1 .. cnt : f[j] = f[k] => j = k
  BY DEF Enum

LEMMA ListEnds ==
    ASSUME NEW P, NEW cnt \in Nat, NEW hd, NEW it, NEW x, List(P, cnt, hd, it, x)
    PROVE  /\ IsFiniteSet(P) /\ Cardinality(P) = cnt /\ (cnt = 0 <=> P = {})
           /\ cnt > 0 => hd \in P
  <1>1. PICK f \in Enum(P, cnt) : cnt > 0 => hd = f[1]
    BY DEF List
  <1>2. cnt > 0 => f[1] \in P
    BY EnumType
  <1> QED
    BY <1>1, <1>2, EnumCount

\* The links alone make a list.
LEMMA ListFrame ==
    ASSUME NEW P, NEW cnt \in Nat, NEW hd, NEW it, NEW x, List(P, cnt, hd, it, x),
           NEW it2, \A i \in P : it2[i].iNext = it[i].iNext /\ it2[i].iPrev = it[i].iPrev,
           NEW head2, cnt > 0 => head2 = hd
    PROVE  List(P, cnt, head2, it2, x)
  <1>1. PICK f \in Enum(P, cnt) : (cnt > 0 => hd = f[1]) /\ Forward(f, cnt, it) /\ Backward(f, cnt, it, x)
    BY DEF List
  <1>2. \A j \in 1 .. cnt : f[j] \in P
    BY EnumType
  <1>3. Forward(f, cnt, it2) /\ Backward(f, cnt, it2, x)
    BY <1>1, <1>2 DEF Forward, Backward
  <1> QED
    BY <1>1, <1>3 DEF List

\* What is before the first item is written to it.
LEMMA ListFirst ==
    ASSUME NEW P, NEW cnt \in Nat, NEW hd, NEW it, NEW x, List(P, cnt, hd, it, x), NEW y, NEW it2,
           \A i \in P : /\ it2[i].iNext = it[i].iNext
                        /\ it2[i].iPrev = IF i = hd THEN y ELSE it[i].iPrev
    PROVE  List(P, cnt, hd, it2, y)
  <1>1. PICK f \in Enum(P, cnt) : (cnt > 0 => hd = f[1]) /\ Forward(f, cnt, it) /\ Backward(f, cnt, it, x)
    BY DEF List
  <1>2. /\ \A j \in 1 .. cnt : f[j] \in P
        /\ \A j, k \in 1 .. cnt : f[j] = f[k] => j = k
    BY EnumType
  <1>3. Forward(f, cnt, it2)
    BY <1>1, <1>2 DEF Forward
  <1>4. Backward(f, cnt, it2, y)
    <2> SUFFICES ASSUME NEW j \in 1 .. cnt
                 PROVE  it2[f[j]].iPrev = IF j = 1 THEN y ELSE f[j - 1]
      BY DEF Backward
    <2>1. hd = f[1] /\ 1 \in 1 .. cnt /\ f[j] \in P
      BY <1>1, <1>2
    <2>2. f[j] = hd <=> j = 1
      BY <1>2, <2>1
    <2> QED
      BY <1>1, <1>2, <2>1, <2>2 DEF Backward
  <1> QED
    BY <1>1, <1>3, <1>4 DEF List

\* One item more, in front.
LEMMA ListPush ==
    ASSUME NEW P, NEW cnt \in Nat, NEW hd, NEW it, NEW x, List(P, cnt, hd, it, x), x \notin P,
           it[x].iNext = IF cnt > 0 THEN hd ELSE -1
    PROVE  List(P \cup {x}, cnt + 1, x, it, it[x].iPrev)
  <1>1. PICK f \in Enum(P, cnt) : (cnt > 0 => hd = f[1]) /\ Forward(f, cnt, it) /\ Backward(f, cnt, it, x)
    BY DEF List
  <1>2. /\ \A j \in 1 .. cnt : f[j] \in P
        /\ \A i \in P : \E j \in 1 .. cnt : f[j] = i
        /\ \A j, k \in 1 .. cnt : f[j] = f[k] => j = k
    BY EnumType
  <1> DEFINE g == [j \in 1 .. cnt + 1 |-> IF j = 1 THEN x ELSE f[j - 1]]
  <1>3. /\ g[1] = x /\ \A j \in 2 .. cnt + 1 : j - 1 \in 1 .. cnt /\ g[j] = f[j - 1]
        /\ g \in [1 .. cnt + 1 -> P \cup {x}]
        /\ \A j \in 1 .. cnt : j + 1 \in 1 .. cnt + 1 /\ g[j + 1] = f[j]
    BY <1>2
  <1>4. \A j \in 1 .. cnt + 1 : j = 1 \/ j \in 2 .. cnt + 1
    OBVIOUS
  <1> HIDE DEF g
  <1>5. g \in Enum(P \cup {x}, cnt + 1)
    <2>1. \A i \in P \cup {x} : \E j \in 1 .. cnt + 1 : g[j] = i
      BY <1>2, <1>3
    <2>2. ASSUME NEW j \in 1 .. cnt + 1, NEW k \in 1 .. cnt + 1, g[j] = g[k] PROVE j = k
      BY <1>2, <1>3, <1>4, <2>2
    <2> QED
      BY <1>3, <2>1, <2>2 DEF Enum
  <1>6. Forward(g, cnt + 1, it)
    <2> SUFFICES ASSUME NEW j \in 1 .. cnt + 1
                 PROVE  it[g[j]].iNext = IF j = cnt + 1 THEN -1 ELSE g[j + 1]
      BY DEF Forward
    <2>1. CASE j = 1
      BY <1>1, <1>3, <2>1
    <2>2. CASE j # 1
      <3>1. j - 1 \in 1 .. cnt /\ g[j] = f[j - 1] /\ (j # cnt + 1 => g[j + 1] = f[j])
        BY <1>3, <2>2
      <3>2. it[f[j - 1]].iNext = IF j - 1 = cnt THEN -1 ELSE f[j - 1 + 1]
        BY <1>1, <3>1 DEF Forward
      <3> QED
        BY <3>1, <3>2
    <2> QED
      BY <2>1, <2>2
  <1>7. Backward(g, cnt + 1, it, it[x].iPrev)
    <2> SUFFICES ASSUME NEW j \in 1 .. cnt + 1
                 PROVE  it[g[j]].iPrev = IF j = 1 THEN it[x].iPrev ELSE g[j - 1]
      BY DEF Backward
    <2>1. CASE j = 1
      BY <1>3, <2>1
    <2>2. CASE j # 1
      <3>1. j - 1 \in 1 .. cnt /\ g[j] = f[j - 1]
        BY <1>3, <2>2
      <3>2. it[f[j - 1]].iPrev = IF j - 1 = 1 THEN x ELSE f[j - 1 - 1]
        BY <1>1, <3>1 DEF Backward
      <3>3. g[j - 1] = IF j - 1 = 1 THEN x ELSE f[j - 1 - 1]
        BY <1>3, <3>1
      <3> QED
        BY <2>2, <3>1, <3>2, <3>3
    <2> QED
      BY <2>1, <2>2
  <1> QED
    BY <1>3, <1>5, <1>6, <1>7 DEF List

\* The first item less.
LEMMA ListTail ==
    ASSUME NEW P, NEW cnt \in Nat, NEW hd, NEW it, NEW x, List(P, cnt, hd, it, x), cnt > 0
    PROVE  /\ hd \in P /\ List(P \ {hd}, cnt - 1, it[hd].iNext, it, hd)
           /\ cnt = 1 => it[hd].iNext = -1
           /\ cnt # 1 => it[hd].iNext \in P \ {hd}
  <1>1. PICK f \in Enum(P, cnt) : (cnt > 0 => hd = f[1]) /\ Forward(f, cnt, it) /\ Backward(f, cnt, it, x)
    BY DEF List
  <1>2. /\ \A j \in 1 .. cnt : f[j] \in P
        /\ \A i \in P : \E j \in 1 .. cnt : f[j] = i
        /\ \A j, k \in 1 .. cnt : f[j] = f[k] => j = k
    BY EnumType
  <1> DEFINE g == [j \in 1 .. cnt - 1 |-> f[j + 1]]
  <1>3. /\ 1 \in 1 .. cnt /\ hd = f[1] /\ hd \in P /\ cnt - 1 \in Nat
        /\ \A j \in 1 .. cnt - 1 : /\ j \in 1 .. cnt /\ j + 1 \in 1 .. cnt /\ g[j] = f[j + 1]
                                  /\ f[j + 1] # hd
        /\ \A j \in 2 .. cnt : j - 1 \in 1 .. cnt - 1 /\ g[j - 1] = f[j]
    BY <1>1, <1>2
  <1>4. g \in [1 .. cnt - 1 -> P \ {hd}]
    BY <1>2, <1>3
  <1> HIDE DEF g
  <1>5. g \in Enum(P \ {hd}, cnt - 1)
    <2>1. \A i \in P \ {hd} : \E j \in 1 .. cnt - 1 : g[j] = i
      <3> TAKE i \in P \ {hd}
      <3>1. PICK j \in 1 .. cnt : f[j] = i
        BY <1>2
      <3>2. j \in 2 .. cnt
        BY <3>1, <1>3
      <3> QED
        BY <3>1, <3>2, <1>3
    <2>2. ASSUME NEW j \in 1 .. cnt - 1, NEW k \in 1 .. cnt - 1, g[j] = g[k] PROVE j = k
      BY <1>2, <1>3, <2>2
    <2> QED
      BY <1>4, <2>1, <2>2 DEF Enum
  <1>6. Forward(g, cnt - 1, it)
    <2> SUFFICES ASSUME NEW j \in 1 .. cnt - 1
                 PROVE  it[g[j]].iNext = IF j = cnt - 1 THEN -1 ELSE g[j + 1]
      BY DEF Forward
    <2>1. it[f[j + 1]].iNext = IF j + 1 = cnt THEN -1 ELSE f[j + 1 + 1]
      BY <1>1, <1>3 DEF Forward
    <2>2. j # cnt - 1 => j + 1 \in 1 .. cnt - 1
      OBVIOUS
    <2> QED
      BY <2>1, <2>2, <1>3
  <1>7. Backward(g, cnt - 1, it, hd)
    <2> SUFFICES ASSUME NEW j \in 1 .. cnt - 1
                 PROVE  it[g[j]].iPrev = IF j = 1 THEN hd ELSE g[j - 1]
      BY DEF Backward
    <2>1. it[f[j + 1]].iPrev = IF j + 1 = 1 THEN x ELSE f[j + 1 - 1]
      BY <1>1, <1>3 DEF Backward
    <2>2. j # 1 => j - 1 \in 1 .. cnt - 1
      OBVIOUS
    <2> QED
      BY <2>1, <2>2, <1>3
  <1>8. it[hd].iNext = IF 1 = cnt THEN -1 ELSE f[2]
    BY <1>1, <1>3 DEF Forward
  <1>9. cnt # 1 => 1 \in 1 .. cnt - 1 /\ g[1] = f[2]
    BY <1>3
  <1>10. cnt # 1 => f[2] \in P \ {hd}
    BY <1>4, <1>9
  <1>11. cnt - 1 > 0 => it[hd].iNext = g[1]
    BY <1>8, <1>9
  <1> QED
    BY <1>3, <1>5, <1>6, <1>7, <1>8, <1>10, <1>11 DEF List

\* An item is taken out: the one before it is linked to the one behind it,
LEMMA GapForward ==
    ASSUME NEW P, -1 \notin P, NEW cnt \in Nat, NEW hd, NEW it, List(P, cnt, hd, it, -1),
           NEW x \in P, NEW it2,
           \A i \in P : /\ it2[i].iPrev = it[i].iPrev
                        /\ it2[i].iNext = IF i = it[x].iPrev THEN it[x].iNext ELSE it[i].iNext
    PROVE  cnt > 0 /\ Gap(P \ {x}, cnt - 1, hd, it2, x, FALSE)
  <1>1. PICK f \in Enum(P, cnt) : (cnt > 0 => hd = f[1]) /\ Forward(f, cnt, it) /\ Backward(f, cnt, it, -1)
    BY DEF List
  <1>2. /\ \A j \in 1 .. cnt : f[j] \in P
        /\ \A i \in P : \E j \in 1 .. cnt : f[j] = i
        /\ \A j, k \in 1 .. cnt : f[j] = f[k] => j = k
    BY EnumType
  <1>3. PICK m \in 1 .. cnt : f[m] = x
    BY <1>2
  <1>4. cnt > 0 /\ cnt - 1 \in Nat /\ m \in 1 .. cnt - 1 + 1 /\ hd = f[1]
    BY <1>1, <1>3
  <1> DEFINE g == [j \in 1 .. cnt - 1 |-> IF j < m THEN f[j] ELSE f[j + 1]]
  <1>5. \A j \in 1 .. cnt - 1 : /\ j \in 1 .. cnt /\ j + 1 \in 1 .. cnt
                                /\ j < m => g[j] = f[j]
                                /\ ~(j < m) => g[j] = f[j + 1]
    OBVIOUS
  <1>6. g \in [1 .. cnt - 1 -> P \ {x}]
    BY <1>2, <1>3
  <1> HIDE DEF g
  <1>7. g \in Enum(P \ {x}, cnt - 1)
    <2>1. \A i \in P \ {x} : \E j \in 1 .. cnt - 1 : g[j] = i
      <3> TAKE i \in P \ {x}
      <3>1. PICK j \in 1 .. cnt : f[j] = i
        BY <1>2
      <3>2. CASE j < m
        BY <3>1, <3>2, <1>5
      <3>3. CASE ~(j < m)
        <4>1. j - 1 \in 1 .. cnt - 1 /\ ~(j - 1 < m)
          BY <3>1, <3>3, <1>3
        <4>2. j - 1 + 1 = j
          OBVIOUS
        <4> QED
          BY <3>1, <4>1, <4>2, <1>5
      <3> QED
        BY <3>2, <3>3
    <2>2. ASSUME NEW j \in 1 .. cnt - 1, NEW k \in 1 .. cnt - 1, g[j] = g[k] PROVE j = k
      BY <1>2, <1>5, <2>2
    <2> QED
      BY <1>6, <2>1, <2>2 DEF Enum
  <1>8. /\ it[x].iPrev = IF m = 1 THEN -1 ELSE f[m - 1]
        /\ it[x].iNext = IF m = cnt THEN -1 ELSE f[m + 1]
    BY <1>1, <1>3 DEF Forward, Backward
  <1>9. x # it[x].iPrev
    <2>1. m # 1 => m - 1 \in 1 .. cnt
      BY <1>4
    <2> QED
      BY <1>2, <1>3, <1>8, <2>1
  <1>10. it2[x].iPrev = it[x].iPrev /\ it2[x].iNext = it[x].iNext
    BY <1>9
  <1>11. Forward(g, cnt - 1, it2)
    <2> SUFFICES ASSUME NEW j \in 1 .. cnt - 1
                 PROVE  it2[g[j]].iNext = IF j = cnt - 1 THEN -1 ELSE g[j + 1]
      BY DEF Forward
    <2>1. CASE j < m - 1
      <3>1. /\ g[j] = f[j] /\ j \in 1 .. cnt /\ m - 1 \in 1 .. cnt /\ m # 1
            /\ j # cnt - 1 /\ j # cnt /\ g[j + 1] = f[j + 1]
        BY <2>1, <1>5
      <3>2. f[j] # it[x].iPrev
        BY <3>1, <1>2, <1>8, <2>1
      <3>3. it[f[j]].iNext = f[j + 1]
        BY <3>1, <1>1 DEF Forward
      <3> QED
        BY <3>1, <3>2, <3>3, <1>2
    <2>2. CASE j = m - 1
      <3>1. /\ g[j] = f[j] /\ j \in 1 .. cnt /\ m # 1 /\ f[j] = it[x].iPrev /\ (j = cnt - 1 <=> m = cnt)
            /\ j # cnt - 1 => g[j + 1] = f[m + 1]
        BY <2>2, <1>5, <1>8
      <3>2. it2[f[j]].iNext = it[x].iNext
        BY <3>1, <1>2
      <3> QED
        BY <3>1, <3>2, <1>8
    <2>3. CASE ~(j < m)
      <3>1. /\ g[j] = f[j + 1] /\ j + 1 \in 1 .. cnt
            /\ j # cnt - 1 => g[j + 1] = f[j + 1 + 1]
        BY <2>3, <1>5
      <3>2. f[j + 1] # it[x].iPrev
        <4>1. m # 1 => m - 1 \in 1 .. cnt /\ m - 1 # j + 1
          BY <2>3
        <4> QED
          BY <3>1, <1>2, <1>8, <4>1
      <3>3. it[f[j + 1]].iNext = IF j + 1 = cnt THEN -1 ELSE f[j + 1 + 1]
        BY <3>1, <1>1 DEF Forward
      <3> QED
        BY <3>1, <3>2, <3>3, <1>2
    <2> QED
      BY <2>1, <2>2, <2>3
  <1>12. ASSUME NEW j \in 1 .. cnt - 1
         PROVE  it2[g[j]].iPrev = IF j = m THEN x ELSE IF j = 1 THEN -1 ELSE g[j - 1]
    <2>1. CASE j < m
      <3>1. g[j] = f[j] /\ j \in 1 .. cnt /\ (j # 1 => g[j - 1] = f[j - 1])
        BY <2>1, <1>5
      <3> QED
        BY <3>1, <2>1, <1>1, <1>2 DEF Backward
    <2>2. CASE ~(j < m)
      <3>1. /\ g[j] = f[j + 1] /\ j + 1 \in 1 .. cnt /\ j + 1 # 1 /\ j + 1 - 1 = j
            /\ j # m => j # 1 /\ g[j - 1] = f[j - 1 + 1] /\ j - 1 + 1 = j
        BY <2>2, <1>5
      <3>2. it[f[j + 1]].iPrev = f[j]
        BY <3>1, <1>1 DEF Backward
      <3> QED
        BY <3>1, <3>2, <1>2, <1>3
    <2> QED
      BY <2>1, <2>2
  <1>13. hd = IF m = 1 THEN x ELSE g[1]
    <2>1. m # 1 => 1 \in 1 .. cnt - 1 /\ 1 < m
      BY <1>4
    <2> QED
      BY <2>1, <1>3, <1>4, <1>5
  <1>14. it2[x].iPrev = IF m = 1 THEN -1 ELSE g[m - 1]
    <2>1. m # 1 => m - 1 \in 1 .. cnt - 1 /\ m - 1 < m
      BY <1>4
    <2> QED
      BY <2>1, <1>5, <1>8, <1>10
  <1>15. it2[x].iNext = IF m = cnt - 1 + 1 THEN -1 ELSE g[m]
    <2>1. m # cnt => m \in 1 .. cnt - 1 /\ ~(m < m)
      BY <1>4
    <2> QED
      BY <2>1, <1>5, <1>8, <1>10
  <1> QED
    BY <1>4, <1>7, <1>11, <1>12, <1>13, <1>14, <1>15 DEF Gap

\* the one behind it to the one before it,
LEMMA GapBackward ==
    ASSUME NEW P, -1 \notin P, NEW cnt \in Nat, NEW hd, NEW it, NEW x, x \notin P, x # -1,
           Gap(P, cnt, hd, it, x, FALSE), NEW it2,
           \A i \in P \cup {x} :
              /\ it2[i].iNext = it[i].iNext
              /\ it2[i].iPrev = IF i = it[x].iNext THEN it[x].iPrev ELSE it[i].iPrev
    PROVE  Gap(P, cnt, hd, it2, x, TRUE)
  <1>1. PICK f \in Enum(P, cnt), m \in 1 .. cnt + 1 :
           /\ it[x].iPrev = IF m = 1 THEN -1 ELSE f[m - 1]
           /\ it[x].iNext = IF m = cnt + 1 THEN -1 ELSE f[m]
           /\ hd = IF m = 1 THEN x ELSE f[1]
           /\ Forward(f, cnt, it)
           /\ \A j \in 1 .. cnt :
                 it[f[j]].iPrev = IF j = m THEN x ELSE IF j = 1 THEN -1 ELSE f[j - 1]
    BY DEF Gap
  <1>2. /\ \A j \in 1 .. cnt : f[j] \in P
        /\ \A j, k \in 1 .. cnt : f[j] = f[k] => j = k
    BY EnumType
  <1>3. m # cnt + 1 => m \in 1 .. cnt
    OBVIOUS
  <1>4. x # it[x].iNext
    BY <1>1, <1>2, <1>3
  <1>5. it2[x].iPrev = it[x].iPrev /\ it2[x].iNext = it[x].iNext
    BY <1>4
  <1>6. Forward(f, cnt, it2)
    BY <1>1, <1>2 DEF Forward
  <1>7. Backward(f, cnt, it2, -1)
    <2> SUFFICES ASSUME NEW j \in 1 .. cnt
                 PROVE  it2[f[j]].iPrev = IF j = 1 THEN -1 ELSE f[j - 1]
      BY DEF Backward
    <2>1. f[j] = it[x].iNext <=> j = m
      BY <1>1, <1>2, <1>3
    <2> QED
      BY <2>1, <1>1, <1>2
  <1> QED
    BY <1>1, <1>5, <1>6, <1>7 DEF Gap

\* and the head of the list to it if it was the first.
LEMMA GapClosed ==
    ASSUME NEW P, NEW cnt \in Nat, NEW hd, NEW it, NEW x, x \notin P,
           Gap(P, cnt, hd, it, x, TRUE)
    PROVE  List(P, cnt, IF hd = x THEN it[x].iNext ELSE hd, it, -1)
  <1>1. PICK f \in Enum(P, cnt), m \in 1 .. cnt + 1 :
           /\ it[x].iNext = IF m = cnt + 1 THEN -1 ELSE f[m]
           /\ hd = IF m = 1 THEN x ELSE f[1]
           /\ Forward(f, cnt, it) /\ Backward(f, cnt, it, -1)
    BY DEF Gap
  <1>2. \A j \in 1 .. cnt : f[j] \in P
    BY EnumType
  <1>3. cnt > 0 => (IF hd = x THEN it[x].iNext ELSE hd) = f[1]
    <2> HAVE cnt > 0
    <2>1. 1 \in 1 .. cnt /\ f[1] # x
      BY <1>2
    <2> QED
      BY <1>1, <2>1
  <1> QED
    BY <1>1, <1>3 DEF List
-----------------------------------------------------------------------------
(***************************************************************************)
(* The lists sht_rebuild makes.                                            *)
(***************************************************************************)
LEMMA ItemFacts ==
    /\ Table!Item \subseteq Nat /\ -1 \notin Table!Item /\ IsFiniteSet(Table!Item) /\ Cardinality(Table!Item) = Items
    /\ 0 \in Table!Item /\ Items - 1 \in Table!Item
  <1>1. Items \in Nat /\ Items > 0
    BY TableAssumption
  <1>2. IsFiniteSet(0 .. Items - 1) /\ Cardinality(0 .. Items - 1) = Items
    BY <1>1, FS_Interval
  <1> QED
    BY <1>1, <1>2 DEF Table!Item

LEMMA Countable ==
    ASSUME NEW S \in SUBSET Table!Item
    PROVE  /\ IsFiniteSet(S) /\ Cardinality(S) \in Nat /\ Cardinality(S) \in 0 .. Items
           /\ Cardinality(S) = 0 <=> S = {}
  <1>1. IsFiniteSet(S) /\ Cardinality(S) <= Items
    BY ItemFacts, FS_Subset
  <1> QED
    BY <1>1, FS_CardinalityType, FS_EmptySet, TableAssumption

LEMMA FirstItem ==
    ASSUME NEW P, P \subseteq Int, NEW p \in P, \A q \in P : p <= q
    PROVE  Table!First(P) = p
  <1>1. PICK c : c = CHOOSE d \in P : \A q \in P : d <= q
    OBVIOUS
  <1>2. c \in P /\ \A q \in P : c <= q
    BY <1>1
  <1>3. c = p
    BY <1>2
  <1> QED
    BY <1>1, <1>3 DEF Table!First

LEMMA LastIs ==
    ASSUME NEW P, P \subseteq Int, NEW p \in P, \A q \in P : q <= p
    PROVE  Table!Last(P) = p
  <1>1. PICK c : c = CHOOSE d \in P : \A q \in P : q <= d
    OBVIOUS
  <1>2. c \in P /\ \A q \in P : q <= c
    BY <1>1
  <1>3. c = p
    BY <1>2
  <1> QED
    BY <1>1, <1>3 DEF Table!Last

\* Those of S behind and before i.
Above(S, i) == {j \in S : j > i}
Under(S, i) == {j \in S : j < i}

\* Any set of items in the order of their positions: the place of one is how many are
\* before it.
LEMMA Sorted ==
    ASSUME NEW S \in SUBSET Table!Item
    PROVE  \E f \in Enum(S, Cardinality(S)) :
              \A j, k \in 1 .. Cardinality(S) : j < k => f[j] < f[k]
  <1> DEFINE c == Cardinality(S)
             Upto(i) == {j \in S : j <= i}
             place == [i \in S |-> Cardinality(Upto(i))]
  <1>1. IsFiniteSet(S) /\ c \in Nat /\ S \subseteq Nat
    BY Countable, ItemFacts
  <1>2. \A i \in S : /\ IsFiniteSet(Upto(i)) /\ Cardinality(Upto(i)) \in Nat
                     /\ Cardinality(Upto(i)) <= c /\ Cardinality(Upto(i)) # 0
    <2> TAKE i \in S
    <2>1. Upto(i) \in SUBSET S /\ i \in Upto(i)
      BY <1>1
    <2>2. IsFiniteSet(Upto(i)) /\ Cardinality(Upto(i)) <= c
      BY <1>1, <2>1, FS_Subset
    <2>3. Upto(i) # {}
      BY <2>1
    <2> QED
      BY <2>2, <2>3, FS_CardinalityType, FS_EmptySet
  <1>3. \A i, k \in S : i < k => Cardinality(Upto(i)) < Cardinality(Upto(k))
    <2> TAKE i, k \in S
    <2> HAVE i < k
    <2>0. \A j \in S : j \in Int
      BY <1>1
    <2>1. Upto(i) \in SUBSET Upto(k) /\ k \in Upto(k) /\ k \notin Upto(i)
      BY <2>0
    <2>2. /\ Cardinality(Upto(i)) <= Cardinality(Upto(k))
          /\ Cardinality(Upto(k)) = Cardinality(Upto(i)) => Upto(k) = Upto(i)
      BY <1>2, <2>1, FS_Subset
    <2>3. Upto(k) # Upto(i)
      BY <2>1
    <2> QED
      BY <1>2, <2>2, <2>3
  <1>4. place \in [S -> 1 .. c] /\ \A i \in S : place[i] = Cardinality(Upto(i))
    BY <1>1, <1>2
  <1> HIDE DEF place
  <1>5. \A i, k \in S : place[i] = place[k] => i = k
    <2> TAKE i, k \in S
    <2>1. i \in Int /\ k \in Int
      BY <1>1
    <2>2. i < k \/ k < i \/ i = k
      BY <2>1
    <2>3. \A j \in S : place[j] \in Int
      BY <1>4
    <2>4. (i < k => place[i] < place[k]) /\ (k < i => place[k] < place[i])
      BY <1>3, <1>4
    <2> QED
      BY <2>2, <2>3, <2>4
  <1>6. place \in Injection(S, 1 .. c)
    BY <1>4, <1>5 DEF Injection, IsInjective
  <1>7. IsFiniteSet(1 .. c) /\ Cardinality(1 .. c) = c
    BY <1>1, FS_Interval
  <1>8. place \in Surjection(S, 1 .. c)
    BY <1>6, <1>7, FS_Injection
  <1>9. \A j \in 1 .. c : \E i \in S : place[i] = j
    BY <1>8 DEF Surjection
  <1> DEFINE f == [j \in 1 .. c |-> CHOOSE i \in S : place[i] = j]
  <1>10. /\ f \in [1 .. c -> S] /\ \A j \in 1 .. c : f[j] \in S /\ place[f[j]] = j
    BY <1>9
  <1> HIDE DEF f
  <1>11. \A i \in S : place[i] \in 1 .. c /\ f[place[i]] = i
    BY <1>4, <1>5, <1>10
  <1>12. f \in Enum(S, c)
    BY <1>10, <1>11 DEF Enum
  <1>13. \A j, k \in 1 .. c : j < k => f[j] < f[k]
    <2> TAKE j, k \in 1 .. c
    <2> HAVE j < k
    <2>0. f[j] \in S /\ f[k] \in S /\ f[j] \in Int /\ f[k] \in Int
      <3>1. f[j] \in S /\ f[k] \in S
        BY <1>10
      <3>2. \A i \in S : i \in Int
        BY <1>1
      <3> QED
        BY <3>1, <3>2
    <2>1. f[j] < f[k] \/ f[k] < f[j] \/ f[j] = f[k]
      BY <2>0
    <2>2. ~(f[k] < f[j])
      <3> SUFFICES ASSUME f[k] < f[j] PROVE FALSE
        OBVIOUS
      <3>1. Cardinality(Upto(f[k])) < Cardinality(Upto(f[j]))
        BY <1>3, <1>10
      <3> QED
        BY <3>1, <1>4, <1>10
    <2> QED
      BY <2>1, <2>2, <1>10
  <1> QED
    BY <1>12, <1>13

\* The items behind and before one of them, in that order.
LEMMA Neighbours ==
    ASSUME NEW S \in SUBSET Table!Item, NEW cnt \in Nat, NEW f \in Enum(S, cnt),
           \A j, k \in 1 .. cnt : j < k => f[j] < f[k], NEW j \in 1 .. cnt
    PROVE  /\ Table!First(Above(S, f[j])) = IF j = cnt THEN -1 ELSE f[j + 1]
           /\ Table!Last(Under(S, f[j])) = IF j = 1 THEN -1 ELSE f[j - 1]
  <1>1. /\ \A k \in 1 .. cnt : f[k] \in S
        /\ \A i \in S : \E k \in 1 .. cnt : f[k] = i
        /\ \A k, l \in 1 .. cnt : f[k] = f[l] => k = l
    BY EnumType
  <1>2. S \subseteq Int
    BY ItemFacts
  <1>3. \A k, l \in 1 .. cnt : f[k] < f[l] => k < l
    <2> TAKE k, l \in 1 .. cnt
    <2>1. k < l \/ k = l \/ l < k
      OBVIOUS
    <2>2. l < k => f[l] < f[k]
      OBVIOUS
    <2>3. f[k] \in Int /\ f[l] \in Int
      BY <1>1, <1>2
    <2> QED
      BY <2>1, <2>2, <2>3
  <1>4. \A k, l \in 1 .. cnt : k <= l => f[k] <= f[l]
    <2> TAKE k, l \in 1 .. cnt
    <2>1. k <= l => k < l \/ k = l
      OBVIOUS
    <2>2. f[k] \in Int /\ f[l] \in Int
      BY <1>1, <1>2
    <2> QED
      BY <2>1, <2>2
  <1>5. Table!First(Above(S, f[j])) = IF j = cnt THEN -1 ELSE f[j + 1]
    <2> DEFINE P == Above(S, f[j])
    <2>1. \A i \in P : \E k \in 1 .. cnt : f[k] = i /\ j < k
      BY <1>1, <1>3 DEF Above
    <2>2. CASE j = cnt
      <3>1. P = {}
        BY <2>1, <2>2
      <3> QED
        BY <3>1, <2>2 DEF Table!First
    <2>3. CASE j # cnt
      <3>1. j + 1 \in 1 .. cnt /\ j < j + 1
        BY <2>3
      <3>2. f[j + 1] \in P
        BY <3>1, <1>1 DEF Above
      <3>3. \A q \in P : f[j + 1] <= q
        <4> TAKE q \in P
        <4>1. PICK k \in 1 .. cnt : f[k] = q /\ j < k
          BY <2>1
        <4> QED
          BY <4>1, <3>1, <1>4
      <3>4. P \subseteq Int
        BY <1>2 DEF Above
      <3> HIDE DEF P
      <3>5. Table!First(P) = f[j + 1]
        BY <3>2, <3>3, <3>4, FirstItem
      <3> QED
        BY <3>5, <2>3 DEF P
    <2> QED
      BY <2>2, <2>3
  <1>6. Table!Last(Under(S, f[j])) = IF j = 1 THEN -1 ELSE f[j - 1]
    <2> DEFINE P == Under(S, f[j])
    <2>1. \A i \in P : \E k \in 1 .. cnt : f[k] = i /\ k < j
      BY <1>1, <1>3 DEF Under
    <2>2. CASE j = 1
      <3>1. P = {}
        BY <2>1, <2>2
      <3> QED
        BY <3>1, <2>2 DEF Table!Last
    <2>3. CASE j # 1
      <3>1. j - 1 \in 1 .. cnt /\ j - 1 < j
        BY <2>3
      <3>2. f[j - 1] \in P
        BY <3>1, <1>1 DEF Under
      <3>3. \A q \in P : q <= f[j - 1]
        <4> TAKE q \in P
        <4>1. PICK k \in 1 .. cnt : f[k] = q /\ k < j
          BY <2>1
        <4> QED
          BY <4>1, <3>1, <1>4
      <3>4. P \subseteq Int
        BY <1>2 DEF Under
      <3> HIDE DEF P
      <3>5. Table!Last(P) = f[j - 1]
        BY <3>2, <3>3, <3>4, LastIs
      <3> QED
        BY <3>5, <2>3 DEF P
    <2> QED
      BY <2>2, <2>3
  <1> QED
    BY <1>5, <1>6

\* The same of all items of an ascending f.
Adjacent(S, cnt, f) ==
    \A k \in 1 .. cnt : /\ Table!First(Above(S, f[k])) = IF k = cnt THEN -1 ELSE f[k + 1]
                        /\ Table!Last(Under(S, f[k])) = IF k = 1 THEN -1 ELSE f[k - 1]

LEMMA AllNeighbours ==
    ASSUME NEW S \in SUBSET Table!Item, NEW cnt \in Nat, NEW f \in Enum(S, cnt),
           \A j, k \in 1 .. cnt : j < k => f[j] < f[k]
    PROVE  Adjacent(S, cnt, f)
  <1>1. ASSUME NEW k \in 1 .. cnt
        PROVE  /\ Table!First(Above(S, f[k])) = IF k = cnt THEN -1 ELSE f[k + 1]
               /\ Table!Last(Under(S, f[k])) = IF k = 1 THEN -1 ELSE f[k - 1]
    BY Neighbours
  <1> QED
    BY <1>1 DEF Adjacent

\* First and Last of the whole set.
LEMMA Ends ==
    ASSUME NEW S \in SUBSET Table!Item, NEW cnt \in Nat, NEW f \in Enum(S, cnt),
           \A j, k \in 1 .. cnt : j < k => f[j] < f[k]
    PROVE  /\ cnt > 0 => Table!First(S) = f[1] /\ Table!Last(S) = f[cnt]
           /\ S = {} => Table!First(S) = -1 /\ Table!Last(S) = -1
  <1>1. /\ \A k \in 1 .. cnt : f[k] \in S
        /\ \A i \in S : \E k \in 1 .. cnt : f[k] = i
    BY EnumType
  <1>2. S \subseteq Int
    BY ItemFacts
  <1>3. \A k, l \in 1 .. cnt : k <= l => f[k] <= f[l]
    <2> TAKE k, l \in 1 .. cnt
    <2>1. k <= l => k < l \/ k = l
      OBVIOUS
    <2>2. f[k] \in Int /\ f[l] \in Int
      BY <1>1, <1>2
    <2> QED
      BY <2>1, <2>2
  <1>4. ASSUME cnt > 0 PROVE Table!First(S) = f[1] /\ Table!Last(S) = f[cnt]
    <2>1. 1 \in 1 .. cnt /\ cnt \in 1 .. cnt
      BY <1>4
    <2>2. \A q \in S : f[1] <= q /\ q <= f[cnt]
      <3> TAKE q \in S
      <3>1. PICK k \in 1 .. cnt : f[k] = q
        BY <1>1
      <3>2. 1 <= k /\ k <= cnt
        OBVIOUS
      <3> QED
        BY <3>1, <3>2, <2>1, <1>3
    <2>3. f[1] \in S /\ f[cnt] \in S
      BY <1>1, <2>1
    <2> QED
      BY <1>2, <2>2, <2>3, FirstItem, LastIs
  <1> QED
    BY <1>4 DEF Table!First, Table!Last

LEMMA Ascending ==
    ASSUME NEW S \in SUBSET Table!Item, NEW it,
           \A i \in S : it[i].iPrev = Table!Last(Under(S, i)) /\ it[i].iNext = Table!First(Above(S, i))
    PROVE  /\ List(S, Cardinality(S), Table!First(S), it, -1)
           /\ S = {} => Table!First(S) = -1
  <1>1. PICK f \in Enum(S, Cardinality(S)) :
           \A j, k \in 1 .. Cardinality(S) : j < k => f[j] < f[k]
    BY Sorted
  <1>2. PICK cnt \in Nat : cnt = Cardinality(S)
    BY Countable
  <1>3. f \in Enum(S, cnt) /\ \A j, k \in 1 .. cnt : j < k => f[j] < f[k]
    BY <1>1, <1>2
  <1>4. \A k \in 1 .. cnt : f[k] \in S
    BY <1>3, EnumType
  <1>5. \A k \in 1 .. cnt : /\ Table!First(Above(S, f[k])) = IF k = cnt THEN -1 ELSE f[k + 1]
                            /\ Table!Last(Under(S, f[k])) = IF k = 1 THEN -1 ELSE f[k - 1]
    <2>1. Adjacent(S, cnt, f)
      BY <1>3, AllNeighbours
    <2> QED
      BY <2>1 DEF Adjacent
  <1>7. Forward(f, cnt, it) /\ Backward(f, cnt, it, -1)
    <2>1. \A k \in 1 .. cnt : /\ it[f[k]].iNext = IF k = cnt THEN -1 ELSE f[k + 1]
                              /\ it[f[k]].iPrev = IF k = 1 THEN -1 ELSE f[k - 1]
      BY <1>4, <1>5
    <2> QED
      BY <2>1 DEF Forward, Backward
  <1>6. (cnt > 0 => Table!First(S) = f[1]) /\ (S = {} => Table!First(S) = -1)
    BY <1>3, Ends
  <1> QED
    BY <1>2, <1>3, <1>7, <1>6 DEF List

LEMMA Descending ==
    ASSUME NEW S \in SUBSET Table!Item, NEW it,
           \A i \in S : it[i].iPrev = Table!First(Above(S, i)) /\ it[i].iNext = Table!Last(Under(S, i))
    PROVE  List(S, Cardinality(S), Table!Last(S), it, -1)
  <1>1. PICK f \in Enum(S, Cardinality(S)) :
           \A j, k \in 1 .. Cardinality(S) : j < k => f[j] < f[k]
    BY Sorted
  <1>2. PICK cnt \in Nat : cnt = Cardinality(S)
    BY Countable
  <1>3. f \in Enum(S, cnt) /\ \A j, k \in 1 .. cnt : j < k => f[j] < f[k]
    BY <1>1, <1>2
  <1>4. /\ \A k \in 1 .. cnt : f[k] \in S
        /\ \A i \in S : \E k \in 1 .. cnt : f[k] = i
        /\ \A k, l \in 1 .. cnt : f[k] = f[l] => k = l
    BY <1>3, EnumType
  <1>a. \A l \in 1 .. cnt : /\ Table!First(Above(S, f[l])) = IF l = cnt THEN -1 ELSE f[l + 1]
                            /\ Table!Last(Under(S, f[l])) = IF l = 1 THEN -1 ELSE f[l - 1]
    <2>1. Adjacent(S, cnt, f)
      BY <1>3, AllNeighbours
    <2> QED
      BY <2>1 DEF Adjacent
  <1> DEFINE g == [j \in 1 .. cnt |-> f[cnt + 1 - j]]
  <1>5. \A j \in 1 .. cnt : cnt + 1 - j \in 1 .. cnt /\ g[j] = f[cnt + 1 - j] /\ cnt + 1 - (cnt + 1 - j) = j
    OBVIOUS
  <1>6. g \in [1 .. cnt -> S]
    BY <1>4
  <1> HIDE DEF g
  <1>7. g \in Enum(S, cnt)
    <2>1. \A i \in S : \E j \in 1 .. cnt : g[j] = i
      <3> TAKE i \in S
      <3>1. PICK k \in 1 .. cnt : f[k] = i
        BY <1>4
      <3>2. cnt + 1 - k \in 1 .. cnt /\ g[cnt + 1 - k] = f[k]
        BY <1>5
      <3> QED
        BY <3>1, <3>2
    <2>2. ASSUME NEW j \in 1 .. cnt, NEW k \in 1 .. cnt, g[j] = g[k] PROVE j = k
      <3>1. cnt + 1 - j = cnt + 1 - k
        BY <1>4, <1>5, <2>2
      <3> QED
        BY <3>1
    <2> QED
      BY <1>6, <2>1, <2>2 DEF Enum
  <1>8. ASSUME NEW j \in 1 .. cnt
        PROVE  /\ it[g[j]].iNext = IF j = cnt THEN -1 ELSE g[j + 1]
               /\ it[g[j]].iPrev = IF j = 1 THEN -1 ELSE g[j - 1]
    <2> DEFINE k == cnt + 1 - j
    <2>1. k \in 1 .. cnt /\ g[j] = f[k] /\ f[k] \in S /\ (k = cnt <=> j = 1) /\ (k = 1 <=> j = cnt)
      BY <1>4, <1>5
    <2>2. j # cnt => j + 1 \in 1 .. cnt /\ g[j + 1] = f[cnt + 1 - (j + 1)] /\ cnt + 1 - (j + 1) = k - 1
      BY <1>5
    <2>3. j # 1 => j - 1 \in 1 .. cnt /\ g[j - 1] = f[cnt + 1 - (j - 1)] /\ cnt + 1 - (j - 1) = k + 1
      BY <1>5
    <2> HIDE DEF k
    <2>a. \A l \in 1 .. cnt : /\ Table!First(Above(S, f[l])) = IF l = cnt THEN -1 ELSE f[l + 1]
                              /\ Table!Last(Under(S, f[l])) = IF l = 1 THEN -1 ELSE f[l - 1]
      BY <1>a
    <2>4. /\ Table!First(Above(S, f[k])) = IF k = cnt THEN -1 ELSE f[k + 1]
          /\ Table!Last(Under(S, f[k])) = IF k = 1 THEN -1 ELSE f[k - 1]
      BY <2>1, <2>a
    <2>5. /\ it[f[k]].iPrev = IF k = cnt THEN -1 ELSE f[k + 1]
          /\ it[f[k]].iNext = IF k = 1 THEN -1 ELSE f[k - 1]
      BY <2>1, <2>4
    <2>6. it[g[j]].iNext = IF j = cnt THEN -1 ELSE g[j + 1]
      BY <2>1, <2>2, <2>5
    <2>7. it[g[j]].iPrev = IF j = 1 THEN -1 ELSE g[j - 1]
      BY <2>1, <2>3, <2>5
    <2> QED
      BY <2>6, <2>7
  <1>9. Forward(g, cnt, it) /\ Backward(g, cnt, it, -1)
    BY <1>8 DEF Forward, Backward
  <1>10. cnt > 0 => Table!Last(S) = g[1]
    <2> HAVE cnt > 0
    <2>1. 1 \in 1 .. cnt /\ cnt + 1 - 1 = cnt /\ Table!Last(S) = f[cnt]
      BY <1>3, Ends
    <2>2. g[1] = f[cnt + 1 - 1]
      BY <2>1, <1>5
    <2> QED
      BY <2>1, <2>2
  <1> QED
    BY <1>2, <1>7, <1>9, <1>10 DEF List
-----------------------------------------------------------------------------
(***************************************************************************)
(* sht_find_i.                                                             *)
(***************************************************************************)
LEMMA BucketType == \A c \in Nat : Table!BucketOf(c) \in Table!Bucket
  <1>1. Buckets \in Nat /\ Buckets > 0
    BY TableAssumption
  <1>2. \A c \in Nat : c % Buckets \in 0 .. Buckets - 1
    BY <1>1
  <1> QED
    BY <1>2 DEF Table!BucketOf, Table!Bucket

\* There is one way along a list.
LEMMA OneWay ==
    ASSUME NEW m \in Nat, NEW p, NEW f, p[1] = f[1],
           \A j \in 1 .. m - 1 : p[j] = f[j] => p[j + 1] = f[j + 1]
    PROVE  \A j \in 1 .. m : p[j] = f[j]
  <1> DEFINE D == {j \in 1 .. m : p[j] # f[j]}
  <1> SUFFICES ASSUME D # {} PROVE FALSE
    OBVIOUS
  <1>1. D \in SUBSET Nat
    OBVIOUS
  <1>2. PICK j \in D : \A i \in D : j <= i
    <2> HIDE DEF D
    <2> QED
      BY <1>1, Smallest
  <1>3. j \in 1 .. m /\ p[j] # f[j] /\ j # 1
    OBVIOUS
  <1>4. j - 1 \in 1 .. m - 1 /\ j - 1 + 1 = j /\ j - 1 \in 1 .. m
    BY <1>3
  <1>5. p[j - 1] = f[j - 1]
    BY <1>2, <1>4
  <1>6. p[j - 1 + 1] = f[j - 1 + 1]
    BY <1>4, <1>5
  <1> QED
    BY <1>3, <1>4, <1>6

LEMMA HitsOnly ==
    ASSUME NEW P \in SUBSET Table!Item, NEW k, NEW b,
           List(P, bucket[b].iCount, bucket[b].iHead, item, -1), bucket[b].iCount \in Nat
    PROVE  /\ \A i \in Table!Hits(k, b) : i \in P /\ Table!Same(i, k)
           /\ (\E i \in P : Table!Same(i, k)) => Table!Hits(k, b) # {}
  <1>0. PICK cnt \in Nat : cnt = bucket[b].iCount
    OBVIOUS
  <1>1. PICK f \in Enum(P, cnt) : (cnt > 0 => bucket[b].iHead = f[1]) /\ Forward(f, cnt, item)
    BY <1>0 DEF List
  <1>2. /\ f \in [1 .. cnt -> P] /\ \A j \in 1 .. cnt : f[j] \in P
        /\ \A i \in P : \E j \in 1 .. cnt : f[j] = i
    BY EnumType
  <1>3. ASSUME NEW i \in Table!Hits(k, b) PROVE i \in P /\ Table!Same(i, k)
    <2>0. PICK m \in 1 .. cnt : \E p \in [1 .. m -> Table!Item] :
             Table!Leads(p, m, b) /\ p[m] = i /\ \A j \in 1 .. m : Table!Same(p[j], k) <=> j = m
      BY <1>0, <1>3 DEF Table!Hits
    <2>1. PICK p : Table!Leads(p, m, b) /\ p[m] = i /\ \A j \in 1 .. m : Table!Same(p[j], k) <=> j = m
      BY <2>0
    <2>2. p[1] = f[1] /\ \A j \in 1 .. m - 1 : p[j + 1] = item[p[j]].iNext
      BY <1>1, <2>1 DEF Table!Leads
    <2>3. \A j \in 1 .. m : p[j] = f[j]
      <3>1. \A j \in 1 .. m - 1 : j \in 1 .. cnt /\ j # cnt
        OBVIOUS
      <3>2. \A j \in 1 .. m - 1 : p[j] = f[j] => p[j + 1] = f[j + 1]
        BY <1>1, <2>2, <3>1 DEF Forward
      <3>3. m \in Nat
        OBVIOUS
      <3> QED
        BY <2>2, <3>2, <3>3, OneWay
    <2>4. m \in 1 .. m
      BY <2>1
    <2> QED
      BY <2>1, <2>3, <2>4, <1>2
  <1>4. ASSUME NEW i \in P, Table!Same(i, k) PROVE Table!Hits(k, b) # {}
    <2> DEFINE M == {j \in 1 .. cnt : Table!Same(f[j], k)}
    <2>1. M # {} /\ M \in SUBSET Nat
      BY <1>2, <1>4
    <2>2. PICK m \in M : \A j \in M : m <= j
      <3> HIDE DEF M
      <3> QED
        BY <2>1, Smallest
    <2>3. m \in 1 .. cnt /\ Table!Same(f[m], k) /\ \A j \in 1 .. m : j \in 1 .. cnt
      OBVIOUS
    <2>4. \A j \in 1 .. m : Table!Same(f[j], k) <=> j = m
      <3> TAKE j \in 1 .. m
      <3>1. j \in 1 .. cnt /\ j <= m
        BY <2>3
      <3> QED
        BY <2>2, <2>3, <3>1
    <2> DEFINE p == [j \in 1 .. m |-> f[j]]
    <2>5. p \in [1 .. m -> Table!Item] /\ \A j \in 1 .. m : p[j] = f[j]
      BY <1>2, <2>3
    <2> HIDE DEF p
    <2>6. Table!Leads(p, m, b)
      <3>1. 1 \in 1 .. m /\ cnt > 0
        BY <2>3
      <3>2. ASSUME NEW j \in 1 .. m - 1 PROVE p[j + 1] = item[p[j]].iNext
        <4>1. j \in 1 .. m /\ j + 1 \in 1 .. m /\ j \in 1 .. cnt /\ j # cnt
          BY <2>3
        <4> QED
          BY <4>1, <1>1, <2>5 DEF Forward
      <3> QED
        BY <1>1, <2>5, <3>1, <3>2 DEF Table!Leads
    <2>7. p[m] = f[m] /\ f[m] \in Table!Item /\ \A j \in 1 .. m : Table!Same(p[j], k) <=> j = m
      BY <1>2, <2>3, <2>4, <2>5
    <2>8. f[m] \in Table!Hits(k, b)
      BY <1>0, <2>3, <2>5, <2>6, <2>7 DEF Table!Hits
    <2> QED
      BY <2>8
  <1> QED
    BY <1>3, <1>4

LEMMA FindFacts ==
    ASSUME TableInv, tpc = "idle", NEW k \in Keys
    PROVE  /\ Table!Find(k) # -1 => Table!Find(k) \in Table!Item /\ Table!Holds(Table!Find(k), k)
           /\ Table!Find(k) # -1 <=> \E i \in Table!Item : Table!Holds(i, k)
  <1> DEFINE b == Table!BucketOf(Code[k])
  <1>1. b \in Table!Bucket
    BY BucketType, TableAssumption
  <1>2. bucket[b].iCount \in Nat /\ Members(b) \in SUBSET Table!Item
    <2>1. bucket[b] \in [iCount : 0 .. Items, iHead : Table!Item \cup {-1}]
      BY <1>1 DEF TableInv, TableTypes
    <2> QED
      BY <2>1, TableAssumption DEF Members
  <1>3. List(Members(b), bucket[b].iCount, bucket[b].iHead, item, -1)
    BY <1>1 DEF TableInv, BucketInv
  <1>4. /\ \A i \in Table!Hits(k, b) : i \in Members(b) /\ Table!Same(i, k)
        /\ (\E i \in Members(b) : Table!Same(i, k)) => Table!Hits(k, b) # {}
    BY <1>2, <1>3, HitsOnly
  <1>5. \A i \in Table!Item : Table!Holds(i, k) <=> i \in Members(b) /\ Table!Same(i, k)
    BY DEF Table!Holds, Table!Same, Members, UnchainedPcs
  <1>6. Table!Find(k) = IF Table!Hits(k, b) = {} THEN -1 ELSE CHOOSE i \in Table!Hits(k, b) : TRUE
    BY DEF Table!Find
  <1>7. \A i \in Table!Hits(k, b) : i \in Table!Item /\ i # -1
    BY <1>2, <1>4, ItemFacts
  <1> HIDE DEF b
  <1>8. CASE Table!Hits(k, b) = {}
    BY <1>4, <1>5, <1>6, <1>8
  <1>9. CASE Table!Hits(k, b) # {}
    <2>1. Table!Find(k) \in Table!Hits(k, b)
      BY <1>6, <1>9
    <2> QED
      BY <2>1, <1>4, <1>5, <1>7
  <1> QED
    BY <1>8, <1>9
-----------------------------------------------------------------------------
(***************************************************************************)
(* What the invariant says in the middle of a call.                        *)
(***************************************************************************)
LEMMA TableFacts ==
    ASSUME TableTypes
    PROVE  /\ node \in Table!Item /\ tFreeHead \in Table!Item \cup {-1}
           /\ item \in [Table!Item -> Entries]
           /\ \A i \in Table!Item : /\ item[i].fValid \in BOOLEAN /\ item[i].uCode \in Nat
                                    /\ item[i].iPrev \in Table!Item \cup {-1} /\ item[i].iNext \in Table!Item \cup {-1}
                                    /\ item[i].data \in Keys \cup {Table!NoKey}
                                    /\ Table!BucketOf(item[i].uCode) \in Table!Bucket
           /\ \A b \in Table!Bucket : bucket[b].iCount \in Nat /\ bucket[b].iHead \in Table!Item \cup {-1}
           /\ \A k \in Keys : Code[k] \in Nat /\ Table!BucketOf(Code[k]) \in Table!Bucket
  <1>1. \A i \in Table!Item : item[i] \in Entries
    BY DEF TableTypes
  <1>2. \A b \in Table!Bucket : bucket[b] \in [iCount : 0 .. Items, iHead : Table!Item \cup {-1}]
    BY DEF TableTypes
  <1>3. \A b \in Table!Bucket : bucket[b].iCount \in Nat /\ bucket[b].iHead \in Table!Item \cup {-1}
    BY <1>2
  <1>4. \A k \in Keys : Code[k] \in Nat
    BY TableAssumption
  <1>5. \A i \in Table!Item : /\ item[i].fValid \in BOOLEAN /\ item[i].uCode \in Nat
                              /\ item[i].iPrev \in Table!Item \cup {-1} /\ item[i].iNext \in Table!Item \cup {-1}
                              /\ item[i].data \in Keys \cup {Table!NoKey}
    BY <1>1 DEF Entries
  <1> QED
    BY <1>3, <1>4, <1>5, BucketType DEF TableTypes

LEMMA FreeFacts ==
    ASSUME TableInv, tpc # "down"
    PROVE  /\ FreeItems \subseteq Table!Item /\ \A i \in FreeItems : ~item[i].fValid
           /\ tFreeHead = -1 <=> FreeItems = {}
           /\ FreeItems # {} => tFreeHead \in FreeItems
  <1>1. PICK cnt \in Nat : List(FreeItems, cnt, tFreeHead, item,
                                IF tpc \in {"alloc", "newhead", "freelink", "done"} THEN node ELSE -1)
    BY DEF TableInv, FreeListInv
  <1>2. (cnt = 0 <=> FreeItems = {}) /\ (cnt > 0 => tFreeHead \in FreeItems)
    BY <1>1, ListEnds
  <1>3. FreeItems \subseteq Table!Item /\ \A i \in FreeItems : ~item[i].fValid
    BY DEF FreeItems
  <1> QED
    <2>1. FreeItems = {} => tFreeHead = -1
      BY DEF TableInv, FreeListInv
    <2>2. FreeItems # {} => tFreeHead \in FreeItems
      BY <1>2
    <2>3. tFreeHead \in FreeItems => tFreeHead # -1
      BY <1>3, ItemFacts
    <2> QED
      BY <1>3, <2>1, <2>2, <2>3

LEMMA MemberFacts ==
    ASSUME NEW b \in Table!Bucket
    PROVE  /\ Members(b) \subseteq Table!Item /\ Members(b) \in SUBSET Table!Item /\ -1 \notin Members(b)
           /\ \A i \in Members(b) : item[i].fValid /\ Table!BucketOf(item[i].uCode) = b
  BY ItemFacts DEF Members

LEMMA ChainFacts ==
    ASSUME TableInv, tpc \notin {"down", "backward", "unhead"}, NEW b \in Table!Bucket
    PROVE  /\ List(Members(b), bucket[b].iCount, bucket[b].iHead, item,
                   IF tpc = "bucket" /\ Own(b) THEN node ELSE -1)
           /\ bucket[b].iCount \in Nat /\ Cardinality(Members(b)) = bucket[b].iCount
           /\ bucket[b].iCount = 0 <=> Members(b) = {}
           /\ bucket[b].iCount > 0 => bucket[b].iHead \in Members(b)
  <1>1. List(Members(b), bucket[b].iCount, bucket[b].iHead, item,
             IF tpc = "bucket" /\ Own(b) THEN node ELSE -1)
    BY DEF TableInv, BucketInv
  <1>2. bucket[b].iCount \in Nat
    BY TableFacts DEF TableInv
  <1> QED
    BY <1>1, <1>2, ListEnds

\* The parts of the invariant after a step.
LEMMA TypesKept ==
    ASSUME tpc' \in {"idle", "down"} \cup InsertPcs \cup RemovePcs \cup TakenPcs \cup UnchainedPcs,
           tFreeHead' \in Table!Item \cup {-1}, item' \in [Table!Item -> Entries],
           bucket' \in [Table!Bucket -> [iCount : 0 .. Items, iHead : Table!Item \cup {-1}]],
           node' \in Table!Item, key' \in Keys \cup {Table!NoKey}, found' \in [Keys -> Int],
           (tpc' # "down" /\ CountInv') \/ iItem' \in 0 .. Items
    PROVE  TableTypes'
  <1>1. CASE iItem' \in 0 .. Items
    BY <1>1 DEF TableTypes, InsertPcs, RemovePcs, TakenPcs, UnchainedPcs
  <1>2. CASE tpc' # "down" /\ CountInv'
    <2>1. Kept' \in SUBSET Table!Item
      BY DEF Kept, Table!Valid
    <2>2. Cardinality(Kept') \in 0 .. Items
      BY <2>1, Countable
    <2>3. iItem' \in 0 .. Items
      BY <1>2, <2>2 DEF CountInv
    <2> QED
      BY <2>3 DEF TableTypes, InsertPcs, RemovePcs, TakenPcs, UnchainedPcs
  <1> QED
    BY <1>1, <1>2

LEMMA FoundKept ==
    ASSUME TableInv, found' = found, \A k \in Keys : Seen(k)' = Seen(k)
    PROVE  FoundInv'
  BY DEF TableInv, FoundInv

LEMMA CountKept ==
    ASSUME TableInv, iItem' = iItem, Kept' = Kept, tpc # "down"
    PROVE  CountInv'
  BY DEF TableInv, CountInv

\* A write of one link.
LEMMA SetPrevIs ==
    ASSUME TableTypes, NEW i \in Table!Item \cup {-1}, NEW x \in Table!Item \cup {-1}, item' = Table!SetPrev(i, x)
    PROVE  /\ item' \in [Table!Item -> Entries]
           /\ \A j \in Table!Item : /\ item'[j].fValid = item[j].fValid /\ item'[j].uCode = item[j].uCode
                                    /\ item'[j].data = item[j].data /\ item'[j].iNext = item[j].iNext
                                    /\ item'[j].iPrev = IF j = i THEN x ELSE item[j].iPrev
  <1>0. item \in [Table!Item -> Entries] /\ -1 \notin Table!Item
    BY TableFacts, ItemFacts
  <1>1. CASE i \in Table!Item
    <2>1. item' = [item EXCEPT ![i].iPrev = x]
      BY <1>1 DEF Table!SetPrev, Table!Linked
    <2> QED
      BY <1>0, <1>1, <2>1 DEF Entries
  <1>2. CASE i = -1
    BY <1>0, <1>2 DEF Table!SetPrev, Table!Linked
  <1> QED
    BY <1>1, <1>2

LEMMA SetNextIs ==
    ASSUME TableTypes, NEW i \in Table!Item \cup {-1}, NEW x \in Table!Item \cup {-1}, item' = Table!SetNext(i, x)
    PROVE  /\ item' \in [Table!Item -> Entries]
           /\ \A j \in Table!Item : /\ item'[j].fValid = item[j].fValid /\ item'[j].uCode = item[j].uCode
                                    /\ item'[j].data = item[j].data /\ item'[j].iPrev = item[j].iPrev
                                    /\ item'[j].iNext = IF j = i THEN x ELSE item[j].iNext
  <1>0. item \in [Table!Item -> Entries] /\ -1 \notin Table!Item
    BY TableFacts, ItemFacts
  <1>1. CASE i \in Table!Item
    <2>1. item' = [item EXCEPT ![i].iNext = x]
      BY <1>1 DEF Table!SetNext, Table!Linked
    <2> QED
      BY <1>0, <1>1, <2>1 DEF Entries
  <1>2. CASE i = -1
    BY <1>0, <1>2 DEF Table!SetNext, Table!Linked
  <1> QED
    BY <1>1, <1>2
-----------------------------------------------------------------------------
LEMMA EmptyList == \A h, it, x : List({}, 0, h, it, x)
  <1>1. \A i \in 1 .. 0 : FALSE
    OBVIOUS
  <1>2. [j \in 1 .. 0 |-> 0] \in Enum({}, 0)
    BY <1>1 DEF Enum
  <1> QED
    BY <1>1, <1>2 DEF List, Forward, Backward

LEMMA TableInit == Table!Init => TableInv
  <1> SUFFICES ASSUME Table!Init PROVE TableInv
    OBVIOUS
  <1>0. Items \in Nat /\ Items > 0 /\ Table!Item = 0 .. Items - 1
    BY TableAssumption DEF Table!Item
  <1>1. \A i \in Table!Item : /\ item[i].fValid = FALSE /\ item[i].uCode = 0 /\ item[i].data = Table!NoKey
                              /\ item[i].iPrev = i - 1
                              /\ item[i].iNext = IF i = Items - 1 THEN -1 ELSE i + 1
    BY DEF Table!Init, Table!Free
  <1>2. item \in [Table!Item -> Entries]
    <2>1. \A i \in Table!Item : i - 1 \in Table!Item \cup {-1} /\ (i # Items - 1 => i + 1 \in Table!Item)
      BY <1>0
    <2> QED
      BY <2>1 DEF Table!Init, Table!Free, Entries
  <1>3. bucket \in [Table!Bucket -> [iCount : 0 .. Items, iHead : Table!Item \cup {-1}]]
    BY <1>0 DEF Table!Init
  <1>4. TableTypes
    BY <1>0, <1>2, <1>3 DEF Table!Init, TableTypes
  <1>5. Table!Valid = {} /\ FreeItems = Table!Item /\ \A b \in Table!Bucket : Members(b) = {}
    BY <1>1 DEF Table!Valid, FreeItems, Members, Table!Init, TakenPcs
  <1>6. FreeListInv
    <2> DEFINE f == [j \in 1 .. Items |-> j - 1]
    <2>1. f \in [1 .. Items -> Table!Item] /\ \A j \in 1 .. Items : f[j] = j - 1
      BY <1>0
    <2> HIDE DEF f
    <2>2. \A i \in Table!Item : i + 1 \in 1 .. Items /\ f[i + 1] = i
      BY <1>0, <2>1
    <2>3. f \in Enum(Table!Item, Items)
      BY <2>1, <2>2 DEF Enum
    <2>4. Forward(f, Items, item) /\ Backward(f, Items, item, -1)
      <3>1. Forward(f, Items, item)
        <4>1. \A j \in 1 .. Items : f[j] \in Table!Item /\ item[f[j]] = item[j - 1] /\ (j # Items => f[j + 1] = j)
          BY <1>0, <2>1
        <4>2. ASSUME NEW j \in 1 .. Items PROVE item[f[j]].iNext = IF j = Items THEN -1 ELSE f[j + 1]
          <5>1. /\ j - 1 \in Table!Item /\ item[f[j]] = item[j - 1]
                /\ j - 1 = Items - 1 <=> j = Items
                /\ (j - 1) + 1 = j
            BY <1>0, <4>1
          <5>2. item[j - 1].iNext = IF j - 1 = Items - 1 THEN -1 ELSE (j - 1) + 1
            BY <1>1, <5>1
          <5> QED
            BY <4>1, <5>1, <5>2
        <4> QED
          BY <4>2 DEF Forward
      <3>2. Backward(f, Items, item, -1)
        BY <1>0, <1>1, <2>1 DEF Backward
      <3> QED
        BY <3>1, <3>2
    <2>5. tFreeHead = f[1]
      BY <1>0, <2>1 DEF Table!Init
    <2>6. List(Table!Item, Items, tFreeHead, item, -1)
      BY <2>3, <2>4, <2>5 DEF List
    <2>7. tpc = "idle" /\ FreeItems # {}
      BY <1>5, ItemFacts DEF Table!Init
    <2>8. \E m \in Nat : List(FreeItems, m, tFreeHead, item,
                            IF tpc \in {"alloc", "newhead", "freelink", "done"} THEN node ELSE -1)
      BY <1>0, <1>5, <2>6, <2>7
    <2> QED
      BY <2>7, <2>8 DEF FreeListInv
  <1>7. BucketInv
    BY <1>5, EmptyList DEF BucketInv, Table!Init
  <1>8. NodeInv
    BY DEF NodeInv, Table!Init, TakenPcs, InsertPcs, RemovePcs
  <1>9. CountInv
    BY <1>5, FS_EmptySet DEF CountInv, Kept, Table!Init
  <1>10. FoundInv
    <2>1. \A k \in Keys : Seen(k) = {}
      BY <1>1 DEF Seen, Table!Holds
    <2> QED
      BY <2>1, FS_EmptySet DEF FoundInv, Table!Init
  <1> QED
    BY <1>4, <1>6, <1>7, <1>8, <1>9, <1>10 DEF TableInv
-----------------------------------------------------------------------------
(***************************************************************************)
(* The steps of an insertion.                                              *)
(***************************************************************************)
LEMMA StepInsertBegin ==
    ASSUME TableInv, NEW k \in Keys, NEW unique \in BOOLEAN, Table!InsertBegin(k, unique)
    PROVE  TableInv'
  <1> USE DEF Table!Goto
  <1>0. /\ tpc = "idle" /\ tpc' = "alloc" /\ node' = tFreeHead /\ key' = k /\ tFreeHead \in Table!Item
        /\ tFreeHead' = item[tFreeHead].iNext
        /\ iItem' = iItem /\ item' = item /\ bucket' = bucket /\ found' = found
    BY DEF Table!InsertBegin, Table!Linked
  <1>1. FreeItems # {} /\ tFreeHead \in FreeItems /\ ~item[tFreeHead].fValid
    BY <1>0, FreeFacts, ItemFacts
  <1>2. PICK cnt \in Nat : List(FreeItems, cnt, tFreeHead, item, -1)
    BY <1>0 DEF TableInv, FreeListInv
  <1>3. cnt > 0
    <2>1. cnt = 0 <=> FreeItems = {}
      BY <1>2, ListEnds
    <2> QED
      BY <1>1, <2>1
  <1>4. /\ List(FreeItems \ {tFreeHead}, cnt - 1, item[tFreeHead].iNext, item, tFreeHead)
        /\ cnt = 1 => item[tFreeHead].iNext = -1
    <2>1. List(FreeItems \ {tFreeHead}, cnt - 1, item[tFreeHead].iNext, item, tFreeHead)
      BY <1>2, <1>3, ListTail
    <2>2. cnt = 1 => item[tFreeHead].iNext = -1
      BY <1>2, <1>3 DEF List, Forward
    <2> QED
      BY <2>1, <2>2
  <1>5. FreeItems' = FreeItems \ {tFreeHead}
    BY <1>0 DEF FreeItems, TakenPcs
  <1>6. FreeItems' = {} => tFreeHead' = -1
    <2>1. cnt - 1 \in Nat
      BY <1>3
    <2>2. FreeItems \ {tFreeHead} = {} => cnt - 1 = 0
      BY <1>4, <2>1, ListEnds
    <2> QED
      BY <1>0, <1>4, <1>5, <2>2
  <1>7. FreeListInv'
    <2>1. List(FreeItems', cnt - 1, tFreeHead', item', node')
      BY <1>0, <1>4, <1>5
    <2>2. cnt - 1 \in Nat
      BY <1>3
    <2> QED
      BY <1>0, <1>6, <2>1, <2>2 DEF FreeListInv
  <1>8. BucketInv'
    <2>1. \A b \in Table!Bucket : Members(b)' = Members(b)
      BY <1>0 DEF Members, UnchainedPcs
    <2>2. \A b \in Table!Bucket : List(Members(b), bucket[b].iCount, bucket[b].iHead, item, -1)
      BY <1>0, ChainFacts
    <2> QED
      BY <1>0, <2>1, <2>2 DEF BucketInv
  <1>9. NodeInv'
    BY <1>0, <1>1 DEF NodeInv, TakenPcs, InsertPcs, RemovePcs
  <1>10. CountInv'
    BY <1>0, CountKept DEF Kept, Table!Valid
  <1>11. FoundInv'
    <2>1. \A c \in Keys : Seen(c)' = Seen(c)
      BY <1>0, <1>1 DEF Seen, Table!Holds
    <2> QED
      BY <1>0, <2>1, FoundKept
  <1>12. TableTypes'
    <2>1. tFreeHead' \in Table!Item \cup {-1}
      BY <1>0, TableFacts DEF TableInv
    <2> QED
      BY <1>0, <1>10, <2>1, TypesKept DEF TableInv, TableTypes, TakenPcs
  <1> QED
    BY <1>7, <1>8, <1>9, <1>10, <1>11, <1>12 DEF TableInv

LEMMA StepInsertAlloc == ASSUME TableInv, Table!InsertAlloc PROVE TableInv'
  <1> USE DEF Table!Goto
  <1>0. /\ tpc = "alloc" /\ tpc' = "newhead" /\ node' = node /\ key' = key /\ tFreeHead' = tFreeHead
        /\ iItem' = iItem /\ bucket' = bucket /\ found' = found
    BY DEF Table!InsertAlloc
  <1>a. node \in Table!Item /\ item \in [Table!Item -> Entries] /\ item[node].data \in Keys \cup {Table!NoKey}
    BY TableFacts DEF TableInv
  <1>1. item' = [item EXCEPT ![node] = [fValid |-> TRUE, uCode |-> 0, iPrev |-> -1,
                                       iNext |-> -1, data |-> item[node].data]]
    BY <1>a DEF Table!InsertAlloc
  <1>2. item' \in [Table!Item -> Entries]
    BY <1>1, <1>a DEF Entries
  <1>3. /\ \A i \in Table!Item : i # node => item'[i] = item[i]
        /\ item'[node].fValid /\ item'[node].uCode = 0 /\ item'[node].iPrev = -1
    BY <1>1, <1>a
  <1>4. ~item[node].fValid /\ key \in Keys
    BY <1>0 DEF TableInv, NodeInv, TakenPcs, InsertPcs
  <1>5. FreeItems' = FreeItems /\ node \notin FreeItems /\ FreeItems \subseteq Table!Item
    BY <1>0, <1>3, <1>4 DEF FreeItems, TakenPcs
  <1>6. FreeListInv'
    <2>1. PICK cnt \in Nat : List(FreeItems, cnt, tFreeHead, item, node)
      BY <1>0 DEF TableInv, FreeListInv
    <2>2. \A i \in FreeItems : item'[i].iNext = item[i].iNext /\ item'[i].iPrev = item[i].iPrev
      BY <1>3, <1>5
    <2>3. List(FreeItems, cnt, tFreeHead, item', node)
      BY <2>1, <2>2, ListFrame
    <2>4. FreeItems = {} => tFreeHead = -1
      BY <1>0, FreeFacts
    <2> QED
      BY <1>0, <1>5, <2>3, <2>4 DEF FreeListInv
  <1>7. BucketInv'
    <2> SUFFICES ASSUME NEW b \in Table!Bucket
                 PROVE  List(Members(b)', bucket[b].iCount, bucket[b].iHead, item', -1)
      BY <1>0 DEF BucketInv
    <2>1. Members(b)' = Members(b) /\ node \notin Members(b) /\ Members(b) \subseteq Table!Item
      BY <1>0, <1>3, <1>4 DEF Members, UnchainedPcs
    <2>2. List(Members(b), bucket[b].iCount, bucket[b].iHead, item, -1) /\ bucket[b].iCount \in Nat
      BY <1>0, ChainFacts
    <2>3. \A i \in Members(b) : item'[i].iNext = item[i].iNext /\ item'[i].iPrev = item[i].iPrev
      BY <1>3, <2>1
    <2> QED
      BY <2>1, <2>2, <2>3, ListFrame
  <1>8. NodeInv'
    BY <1>0, <1>3, <1>4 DEF NodeInv, TakenPcs, InsertPcs, RemovePcs
  <1>9. CountInv'
    <2>1. Kept' = Kept
      BY <1>0, <1>a, <1>3, <1>4 DEF Kept, Table!Valid
    <2> QED
      BY <1>0, <2>1, CountKept
  <1>10. FoundInv'
    <2>1. \A c \in Keys : Seen(c)' = Seen(c)
      BY <1>0, <1>3 DEF Seen, Table!Holds
    <2> QED
      BY <1>0, <2>1, FoundKept
  <1>11. TableTypes'
    BY <1>0, <1>2, <1>9, TypesKept DEF TableInv, TableTypes, InsertPcs
  <1> QED
    BY <1>6, <1>7, <1>8, <1>9, <1>10, <1>11 DEF TableInv

LEMMA StepInsertNewHead == ASSUME TableInv, Table!InsertNewHead PROVE TableInv'
  <1> USE DEF Table!Goto
  <1>0. /\ tpc = "newhead" /\ tpc' = "link" /\ node' = node /\ key' = key /\ tFreeHead' = tFreeHead
        /\ iItem' = iItem + 1 /\ bucket' = bucket /\ found' = found
    BY DEF Table!InsertNewHead
  <1>a. node \in Table!Item /\ tFreeHead \in Table!Item \cup {-1}
    BY TableFacts DEF TableInv
  <1>1. /\ item' \in [Table!Item -> Entries]
        /\ \A j \in Table!Item : /\ item'[j].fValid = item[j].fValid /\ item'[j].uCode = item[j].uCode
                                 /\ item'[j].data = item[j].data /\ item'[j].iNext = item[j].iNext
                                 /\ item'[j].iPrev = IF j = tFreeHead THEN -1 ELSE item[j].iPrev
    BY <1>a, SetPrevIs DEF Table!InsertNewHead, TableInv
  <1>2. item[node].fValid /\ item[node].uCode = 0 /\ item[node].iPrev = -1 /\ key \in Keys
    BY <1>0 DEF TableInv, NodeInv, InsertPcs
  <1>3. tFreeHead = -1 \/ ~item[tFreeHead].fValid
    BY <1>0, FreeFacts
  <1>4. FreeItems' = FreeItems /\ FreeItems \subseteq Table!Item
    BY <1>0, <1>1, <1>2 DEF FreeItems, TakenPcs
  <1>5. FreeListInv'
    <2>1. PICK cnt \in Nat : List(FreeItems, cnt, tFreeHead, item, node)
      BY <1>0 DEF TableInv, FreeListInv
    <2>2. \A i \in FreeItems : /\ item'[i].iNext = item[i].iNext
                               /\ item'[i].iPrev = IF i = tFreeHead THEN -1 ELSE item[i].iPrev
      BY <1>1, <1>4
    <2>3. List(FreeItems, cnt, tFreeHead, item', -1)
      BY <2>1, <2>2, ListFirst
    <2>4. FreeItems = {} => tFreeHead = -1
      BY <1>0, FreeFacts
    <2> QED
      BY <1>0, <1>4, <2>3, <2>4 DEF FreeListInv
  <1>6. BucketInv'
    <2> SUFFICES ASSUME NEW b \in Table!Bucket
                 PROVE  List(Members(b)', bucket[b].iCount, bucket[b].iHead, item', -1)
      BY <1>0 DEF BucketInv
    <2>1. Members(b)' = Members(b)
      BY <1>0, <1>1 DEF Members, UnchainedPcs
    <2>2. List(Members(b), bucket[b].iCount, bucket[b].iHead, item, -1) /\ bucket[b].iCount \in Nat
      BY <1>0, ChainFacts
    <2>3. \A i \in Members(b) : item'[i].iNext = item[i].iNext /\ item'[i].iPrev = item[i].iPrev
      BY <1>1, <1>3, MemberFacts
    <2> QED
      BY <2>1, <2>2, <2>3, ListFrame
  <1>7. NodeInv'
    BY <1>0, <1>1, <1>2, <1>a, <1>3 DEF NodeInv, TakenPcs, InsertPcs, RemovePcs
  <1>8. CountInv'
    <2>1. Table!Valid' = Table!Valid /\ Table!Valid \in SUBSET Table!Item /\ node \in Table!Valid
      BY <1>a, <1>1, <1>2 DEF Table!Valid
    <2>2. iItem = Cardinality(Table!Valid \ {node})
      BY <1>0 DEF TableInv, CountInv, Kept
    <2>3. Cardinality(Table!Valid \ {node}) = Cardinality(Table!Valid) - 1 /\ Cardinality(Table!Valid) \in Nat
      BY <2>1, Countable, FS_RemoveElement
    <2>4. iItem' = Cardinality(Table!Valid)
      BY <1>0, <2>2, <2>3
    <2> QED
      BY <1>0, <2>1, <2>4 DEF CountInv, Kept
  <1>9. FoundInv'
    <2>1. \A c \in Keys : Seen(c)' = Seen(c)
      BY <1>0, <1>1 DEF Seen, Table!Holds
    <2> QED
      BY <1>0, <2>1, FoundKept
  <1>10. TableTypes'
    BY <1>0, <1>1, <1>8, TypesKept DEF TableInv, TableTypes, InsertPcs
  <1> QED
    BY <1>5, <1>6, <1>7, <1>8, <1>9, <1>10 DEF TableInv

LEMMA StepInsertLink == ASSUME TableInv, Table!InsertLink PROVE TableInv'
  <1> USE DEF Table!Goto
  <1> DEFINE h == bucket[Table!BucketOf(Code[key])]
  <1>0. /\ tpc = "link" /\ tpc' = "back" /\ node' = node /\ key' = key /\ tFreeHead' = tFreeHead
        /\ iItem' = iItem /\ bucket' = bucket /\ found' = found
    BY DEF Table!InsertLink
  <1>2. item[node].fValid /\ item[node].iPrev = -1 /\ key \in Keys
    BY <1>0 DEF TableInv, NodeInv, InsertPcs
  <1>a. /\ node \in Table!Item /\ item \in [Table!Item -> Entries]
        /\ Code[key] \in Nat /\ h.iHead \in Table!Item \cup {-1}
    BY <1>2, TableFacts DEF TableInv
  <1>b. item' = [item EXCEPT ![node].uCode = Code[key],
                             ![node].iNext = IF h.iCount > 0 THEN h.iHead ELSE -1]
    BY DEF Table!InsertLink
  <1> HIDE DEF h
  <1>1. /\ item' \in [Table!Item -> Entries]
        /\ \A j \in Table!Item : /\ j # node => item'[j] = item[j]
                                 /\ item'[j].fValid = item[j].fValid /\ item'[j].data = item[j].data
                                 /\ item'[j].iPrev = item[j].iPrev
        /\ item'[node].uCode = Code[key]
        /\ item'[node].iNext = IF h.iCount > 0 THEN h.iHead ELSE -1
    BY <1>a, <1>b DEF Entries
  <1>4. FreeItems' = FreeItems /\ FreeItems \subseteq Table!Item /\ node \notin FreeItems
    BY <1>0, <1>1, <1>2 DEF FreeItems, TakenPcs
  <1>5. FreeListInv'
    <2>1. PICK cnt \in Nat : List(FreeItems, cnt, tFreeHead, item, -1)
      BY <1>0 DEF TableInv, FreeListInv
    <2>2. \A i \in FreeItems : item'[i].iNext = item[i].iNext /\ item'[i].iPrev = item[i].iPrev
      BY <1>1, <1>4
    <2>3. List(FreeItems, cnt, tFreeHead, item', -1)
      BY <2>1, <2>2, ListFrame
    <2>4. FreeItems = {} => tFreeHead = -1
      BY <1>0, FreeFacts
    <2> QED
      BY <1>0, <1>4, <2>3, <2>4 DEF FreeListInv
  <1>6. BucketInv'
    <2> SUFFICES ASSUME NEW b \in Table!Bucket
                 PROVE  List(Members(b)', bucket[b].iCount, bucket[b].iHead, item', -1)
      BY <1>0 DEF BucketInv
    <2>1. Members(b)' = Members(b) /\ node \notin Members(b) /\ Members(b) \subseteq Table!Item
      BY <1>0, <1>1 DEF Members, UnchainedPcs
    <2>2. List(Members(b), bucket[b].iCount, bucket[b].iHead, item, -1) /\ bucket[b].iCount \in Nat
      BY <1>0, ChainFacts
    <2>3. \A i \in Members(b) : item'[i].iNext = item[i].iNext /\ item'[i].iPrev = item[i].iPrev
      BY <1>1, <2>1
    <2> QED
      BY <2>1, <2>2, <2>3, ListFrame
  <1>7. NodeInv'
    BY <1>0, <1>a, <1>1, <1>2 DEF NodeInv, TakenPcs, InsertPcs, RemovePcs, h
  <1>8. CountInv'
    <2>1. Kept' = Kept
      BY <1>0, <1>1 DEF Kept, Table!Valid
    <2> QED
      BY <1>0, <2>1, CountKept
  <1>9. FoundInv'
    <2>1. \A c \in Keys : Seen(c)' = Seen(c)
      BY <1>0, <1>1 DEF Seen, Table!Holds
    <2> QED
      BY <1>0, <2>1, FoundKept
  <1>10. TableTypes'
    BY <1>0, <1>1, <1>8, TypesKept DEF TableInv, TableTypes, InsertPcs
  <1> QED
    BY <1>5, <1>6, <1>7, <1>8, <1>9, <1>10 DEF TableInv

LEMMA StepInsertBack == ASSUME TableInv, Table!InsertBack PROVE TableInv'
  <1> USE DEF Table!Goto
  <1> DEFINE o == Table!BucketOf(Code[key])
             i0 == IF bucket[o].iCount > 0 THEN bucket[o].iHead ELSE -1
  <1>0. /\ tpc = "back" /\ tpc' = "bucket" /\ node' = node /\ key' = key /\ tFreeHead' = tFreeHead
        /\ iItem' = iItem /\ bucket' = bucket /\ found' = found
    BY DEF Table!InsertBack
  <1>2. /\ item[node].fValid /\ item[node].iPrev = -1 /\ key \in Keys /\ item[node].uCode = Code[key]
        /\ item[node].iNext = i0
    BY <1>0 DEF TableInv, NodeInv, InsertPcs
  <1>a. /\ node \in Table!Item /\ item \in [Table!Item -> Entries] /\ -1 \notin Table!Item
        /\ o \in Table!Bucket /\ bucket[o].iHead \in Table!Item \cup {-1} /\ bucket[o].iCount \in Nat
    BY <1>2, TableFacts, ItemFacts DEF TableInv
  <1>b. item' = Table!SetPrev(i0, node)
    BY <1>a DEF Table!InsertBack, Table!SetPrev, Table!Linked
  <1>c. i0 = -1 \/ (i0 \in Members(o) /\ i0 = bucket[o].iHead)
    BY <1>0, <1>a, ChainFacts
  <1>d. bucket[o].iCount > 0 => i0 = bucket[o].iHead
    OBVIOUS
  <1>e. bucket[o].iCount = 0 => Members(o) = {}
    BY <1>0, <1>a, ChainFacts
  <1>f. o \in Table!Bucket /\ o = Table!BucketOf(Code[key])
    BY <1>a
  <1>g. Own(o)' <=> Table!BucketOf(item'[node].uCode) = o
    BY <1>0 DEF Own
  <1>h. i0 \in Table!Item \cup {-1}
    BY <1>a
  <1> HIDE DEF i0, o
  <1>1. /\ item' \in [Table!Item -> Entries]
        /\ \A j \in Table!Item : /\ item'[j].fValid = item[j].fValid /\ item'[j].uCode = item[j].uCode
                                 /\ item'[j].data = item[j].data /\ item'[j].iNext = item[j].iNext
                                 /\ item'[j].iPrev = IF j = i0 THEN node ELSE item[j].iPrev
    BY <1>a, <1>b, <1>h, SetPrevIs DEF TableInv
  <1>3. \A b \in Table!Bucket : Members(b) \subseteq Table!Item /\ node \notin Members(b)
    BY <1>0 DEF Members, UnchainedPcs
  <1>i. i0 # node /\ (i0 = -1 \/ item[i0].fValid)
    BY <1>a, <1>c, <1>3, MemberFacts
  <1>4. FreeItems' = FreeItems /\ FreeItems \subseteq Table!Item /\ i0 \notin FreeItems
    <2>1. FreeItems' = FreeItems /\ FreeItems \subseteq Table!Item
      BY <1>0, <1>1 DEF FreeItems, TakenPcs
    <2>2. i0 \notin FreeItems
      BY <1>a, <1>i DEF FreeItems
    <2> QED
      BY <2>1, <2>2
  <1>5. FreeListInv'
    <2>1. PICK cnt \in Nat : List(FreeItems, cnt, tFreeHead, item, -1)
      BY <1>0 DEF TableInv, FreeListInv
    <2>2. \A i \in FreeItems : item'[i].iNext = item[i].iNext /\ item'[i].iPrev = item[i].iPrev
      BY <1>1, <1>4
    <2>3. List(FreeItems, cnt, tFreeHead, item', -1)
      BY <2>1, <2>2, ListFrame
    <2>4. FreeItems = {} => tFreeHead = -1
      BY <1>0, FreeFacts
    <2> QED
      BY <1>0, <1>4, <2>3, <2>4 DEF FreeListInv
  <1>6. BucketInv'
    <2> SUFFICES ASSUME NEW b \in Table!Bucket
                 PROVE  List(Members(b)', bucket[b].iCount, bucket[b].iHead, item',
                             IF b = o THEN node ELSE -1)
      <3>1. \A b \in Table!Bucket : Own(b)' <=> b = o
        BY <1>0, <1>1, <1>2, <1>a, <1>f DEF Own
      <3> QED
        BY <1>0, <3>1 DEF BucketInv
    <2>1. Members(b)' = Members(b) /\ Members(b) \subseteq Table!Item
      BY <1>0, <1>1 DEF Members, UnchainedPcs
    <2>2. List(Members(b), bucket[b].iCount, bucket[b].iHead, item, -1) /\ bucket[b].iCount \in Nat
      BY <1>0, ChainFacts
    <2>3. CASE b = o
      <3>1. \A i \in Members(o) : /\ item'[i].iNext = item[i].iNext
                                  /\ item'[i].iPrev = IF i = bucket[o].iHead THEN node ELSE item[i].iPrev
        <4> TAKE i \in Members(o)
        <4>1. bucket[o].iCount > 0
          BY <1>a, <1>e
        <4> QED
          BY <4>1, <1>1, <1>d, <1>3, <1>f
      <3>2. List(Members(o), bucket[o].iCount, bucket[o].iHead, item', node)
        BY <2>2, <2>3, <3>1, ListFirst
      <3> QED
        BY <2>1, <2>3, <3>2
    <2>4. CASE b # o
      <3>1. i0 \notin Members(b)
        BY <1>c, <1>f, <2>4, MemberFacts
      <3>2. \A i \in Members(b) : item'[i].iNext = item[i].iNext /\ item'[i].iPrev = item[i].iPrev
        BY <1>1, <2>1, <3>1
      <3>3. List(Members(b), bucket[b].iCount, bucket[b].iHead, item', -1)
        BY <2>2, <3>2, ListFrame
      <3> QED
        BY <2>1, <2>4, <3>3
    <2> QED
      BY <2>3, <2>4
  <1>7. NodeInv'
    <2>1. item'[node].iPrev = -1 /\ item'[node].iNext = i0 /\ item'[node].fValid
          /\ item'[node].uCode = Code[key]
      BY <1>1, <1>2, <1>a, <1>i
    <2>2. i0 = LET b == bucket[Table!BucketOf(Code[key])] IN IF b.iCount > 0 THEN b.iHead ELSE -1
      BY DEF i0, o
    <2> QED
      BY <1>0, <1>2, <2>1, <2>2 DEF NodeInv, TakenPcs, InsertPcs, RemovePcs
  <1>8. CountInv'
    <2>1. Kept' = Kept
      BY <1>0, <1>1 DEF Kept, Table!Valid
    <2> QED
      BY <1>0, <2>1, CountKept
  <1>9. FoundInv'
    <2>1. \A c \in Keys : Seen(c)' = Seen(c)
      BY <1>0, <1>1 DEF Seen, Table!Holds
    <2> QED
      BY <1>0, <2>1, FoundKept
  <1>10. TableTypes'
    BY <1>0, <1>1, <1>8, TypesKept DEF TableInv, TableTypes, InsertPcs
  <1> QED
    BY <1>5, <1>6, <1>7, <1>8, <1>9, <1>10 DEF TableInv

LEMMA StepInsertBucket == ASSUME TableInv, Table!InsertBucket PROVE TableInv'
  <1> USE DEF Table!Goto
  <1> DEFINE o == Table!BucketOf(Code[key])
  <1>0. /\ tpc = "bucket" /\ tpc' = "copy" /\ node' = node /\ key' = key /\ tFreeHead' = tFreeHead
        /\ iItem' = iItem /\ item' = item /\ found' = found
        /\ bucket' = [bucket EXCEPT ![o] = [iCount |-> bucket[o].iCount + 1, iHead |-> node]]
    BY DEF Table!InsertBucket
  <1>2. /\ item[node].fValid /\ item[node].iPrev = -1 /\ key \in Keys /\ item[node].uCode = Code[key]
        /\ item[node].iNext = IF bucket[o].iCount > 0 THEN bucket[o].iHead ELSE -1
    BY <1>0 DEF TableInv, NodeInv, InsertPcs
  <1>a. /\ node \in Table!Item /\ o \in Table!Bucket /\ bucket[o].iCount \in Nat
    BY <1>2, TableFacts DEF TableInv
  <1>b. \A b \in Table!Bucket : Own(b) <=> b = o
    BY <1>2 DEF Own
  <1>c. /\ bucket \in [Table!Bucket -> [iCount : 0 .. Items, iHead : Table!Item \cup {-1}]]
    BY DEF TableInv, TableTypes
  <1> HIDE DEF o
  <1>3. \A b \in Table!Bucket : b # o => bucket'[b] = bucket[b]
    BY <1>0, <1>a, <1>c
  <1>4. bucket'[o].iCount = bucket[o].iCount + 1 /\ bucket'[o].iHead = node
    BY <1>0, <1>a, <1>c
  <1>5. FreeListInv'
    <2>1. FreeItems' = FreeItems
      BY <1>0 DEF FreeItems, TakenPcs
    <2>2. /\ \E cnt \in Nat : List(FreeItems, cnt, tFreeHead, item, -1)
          /\ FreeItems = {} => tFreeHead = -1
      BY <1>0 DEF TableInv, FreeListInv
    <2> QED
      BY <1>0, <2>1, <2>2 DEF FreeListInv
  <1>d. /\ node \notin Members(o)
        /\ List(Members(o), bucket[o].iCount, bucket[o].iHead, item, node)
        /\ Cardinality(Members(o)) = bucket[o].iCount
    <2>1. node \notin Members(o)
      BY <1>0 DEF Members, UnchainedPcs
    <2> QED
      BY <1>0, <1>a, <1>b, <2>1, ChainFacts
  <1>e. List(Members(o) \cup {node}, bucket[o].iCount + 1, node, item, item[node].iPrev)
    BY <1>a, <1>d, <1>2, ListPush DEF o
  <1>f. List(Members(o) \cup {node}, bucket'[o].iCount, bucket'[o].iHead, item, -1)
    BY <1>d, <1>e, <1>4, <1>2
  <1>6. BucketInv'
    <2> SUFFICES ASSUME NEW b \in Table!Bucket
                 PROVE  List(Members(b)', bucket'[b].iCount, bucket'[b].iHead, item, -1)
      BY <1>0 DEF BucketInv
    <2>1. CASE b = o
      <3>1. Members(b)' = {i \in Table!Item : item[i].fValid /\ Table!BucketOf(item[i].uCode) = b}
        BY <1>0 DEF Members, UnchainedPcs
      <3>2. Members(o) = {i \in Table!Item : item[i].fValid /\ Table!BucketOf(item[i].uCode) = o /\ i # node}
        BY <1>0 DEF Members, UnchainedPcs
      <3>3. item[node].fValid /\ Table!BucketOf(item[node].uCode) = o
        BY <1>2 DEF o
      <3>4. Members(b)' = Members(o) \cup {node}
        BY <3>1, <3>2, <3>3, <2>1, <1>a
      <3> QED
        BY <3>4, <2>1, <1>f
    <2>2. CASE b # o
      <3>1. Members(b)' = Members(b)
        BY <1>0, <1>b, <2>2 DEF Members, UnchainedPcs, Own
      <3>2. List(Members(b), bucket[b].iCount, bucket[b].iHead, item, -1)
        BY <1>0, <1>b, <2>2, ChainFacts
      <3> QED
        BY <3>1, <3>2, <1>3, <2>2
    <2> QED
      BY <2>1, <2>2
  <1>7. NodeInv'
    BY <1>0, <1>2 DEF NodeInv, TakenPcs, InsertPcs, RemovePcs
  <1>8. CountInv'
    <2>1. Kept' = Kept
      BY <1>0 DEF Kept, Table!Valid
    <2> QED
      BY <1>0, <2>1, CountKept
  <1>9. FoundInv'
    <2>1. \A c \in Keys : Seen(c)' = Seen(c)
      BY <1>0 DEF Seen, Table!Holds
    <2> QED
      BY <1>0, <2>1, FoundKept
  <1>10. TableTypes'
    <2>1. bucket[o].iCount + 1 \in 0 .. Items
      <3>1. Members(o) \cup {node} \in SUBSET Table!Item /\ bucket[o].iCount + 1 \in Nat
        BY <1>a, MemberFacts
      <3>2. Cardinality(Members(o) \cup {node}) = bucket[o].iCount + 1
        <4> DEFINE P == Members(o) \cup {node}
                   c == bucket[o].iCount + 1
        <4>1. c \in Nat /\ List(P, c, node, item, item[node].iPrev)
          BY <1>e, <3>1
        <4> HIDE DEF P, c
        <4>2. Cardinality(P) = c
          BY <4>1, ListEnds
        <4> QED
          BY <4>2 DEF P, c
      <3> QED
        BY <3>1, <3>2, Countable
    <2>2. bucket' \in [Table!Bucket -> [iCount : 0 .. Items, iHead : Table!Item \cup {-1}]]
      BY <1>0, <1>a, <1>c, <2>1
    <2> QED
      BY <1>0, <1>8, <2>2, TypesKept DEF TableInv, TableTypes, InsertPcs
  <1> QED
    BY <1>5, <1>6, <1>7, <1>8, <1>9, <1>10 DEF TableInv

LEMMA StepInsertCopy == ASSUME TableInv, Table!InsertCopy PROVE TableInv'
  <1> USE DEF Table!Goto
  <1>0. /\ tpc = "copy" /\ tpc' = "idle" /\ node' = node /\ key' = key /\ tFreeHead' = tFreeHead
        /\ iItem' = iItem /\ bucket' = bucket
        /\ item' = [item EXCEPT ![node].data = key]
        /\ found' = [found EXCEPT ![key] = found[key] + 1]
    BY DEF Table!InsertCopy
  <1>2. item[node].fValid /\ key \in Keys /\ item[node].uCode = Code[key]
    BY <1>0 DEF TableInv, NodeInv, InsertPcs
  <1>a. /\ node \in Table!Item /\ item \in [Table!Item -> Entries] /\ found \in [Keys -> Int]
    BY TableFacts DEF TableInv, TableTypes
  <1>1. /\ item' \in [Table!Item -> Entries]
        /\ \A j \in Table!Item : /\ item'[j].fValid = item[j].fValid /\ item'[j].uCode = item[j].uCode
                                 /\ item'[j].iPrev = item[j].iPrev /\ item'[j].iNext = item[j].iNext
                                 /\ item'[j].data = IF j = node THEN key ELSE item[j].data
    BY <1>a, <1>0, <1>2 DEF Entries
  <1>4. FreeItems' = FreeItems /\ FreeItems \subseteq Table!Item
    BY <1>0, <1>1 DEF FreeItems, TakenPcs
  <1>5. FreeListInv'
    <2>1. PICK cnt \in Nat : List(FreeItems, cnt, tFreeHead, item, -1)
      BY <1>0 DEF TableInv, FreeListInv
    <2>2. \A i \in FreeItems : item'[i].iNext = item[i].iNext /\ item'[i].iPrev = item[i].iPrev
      BY <1>1, <1>4
    <2>3. List(FreeItems, cnt, tFreeHead, item', -1)
      BY <2>1, <2>2, ListFrame
    <2>4. FreeItems = {} => tFreeHead = -1
      BY <1>0, FreeFacts
    <2> QED
      BY <1>0, <1>4, <2>3, <2>4 DEF FreeListInv
  <1>6. BucketInv'
    <2> SUFFICES ASSUME NEW b \in Table!Bucket
                 PROVE  List(Members(b)', bucket[b].iCount, bucket[b].iHead, item', -1)
      BY <1>0 DEF BucketInv
    <2>1. Members(b)' = Members(b) /\ Members(b) \subseteq Table!Item
      BY <1>0, <1>1 DEF Members, UnchainedPcs
    <2>2. List(Members(b), bucket[b].iCount, bucket[b].iHead, item, -1) /\ bucket[b].iCount \in Nat
      BY <1>0, ChainFacts
    <2>3. \A i \in Members(b) : item'[i].iNext = item[i].iNext /\ item'[i].iPrev = item[i].iPrev
      BY <1>1, <2>1
    <2> QED
      BY <2>1, <2>2, <2>3, ListFrame
  <1>7. NodeInv'
    BY <1>0 DEF NodeInv, TakenPcs, InsertPcs, RemovePcs
  <1>8. CountInv'
    <2>1. Kept' = Kept
      BY <1>0, <1>1 DEF Kept, Table!Valid
    <2> QED
      BY <1>0, <2>1, CountKept
  <1>9. FoundInv'
    <2> SUFFICES ASSUME NEW c \in Keys PROVE found'[c] = Cardinality(Seen(c)')
      BY DEF FoundInv
    <2>1. found[c] = Cardinality(Seen(c)) /\ Seen(c) \in SUBSET Table!Item /\ node \notin Seen(c)
      BY <1>0 DEF TableInv, FoundInv, Seen
    <2>2. IsFiniteSet(Seen(c)) /\ Cardinality(Seen(c)) \in Nat
      BY <2>1, Countable
    <2>3. \A i \in Table!Item : i # node => (i \in Seen(c)' <=> i \in Seen(c))
      BY <1>0, <1>1 DEF Seen, Table!Holds
    <2>4. node \in Seen(c)' <=> c = key
      BY <1>0, <1>a, <1>1, <1>2 DEF Seen, Table!Holds
    <2>5. Seen(c)' \subseteq Table!Item
      BY DEF Seen
    <2>6. CASE c = key
      <3>1. Seen(c)' = Seen(c) \cup {node}
        BY <2>1, <2>3, <2>4, <2>5, <2>6, <1>a
      <3>2. Cardinality(Seen(c)') = Cardinality(Seen(c)) + 1
        BY <2>1, <2>2, <3>1, FS_AddElement
      <3> QED
        BY <1>0, <1>a, <2>1, <2>6, <3>2
    <2>7. CASE c # key
      <3>1. Seen(c)' = Seen(c)
        BY <2>1, <2>3, <2>4, <2>5, <2>7, <1>a
      <3> QED
        BY <1>0, <1>a, <2>1, <2>7, <3>1
    <2> QED
      BY <2>6, <2>7
  <1>10. TableTypes'
    <2>1. found' \in [Keys -> Int]
      BY <1>0, <1>2, <1>a
    <2> QED
      BY <1>0, <1>1, <1>8, <2>1, TypesKept DEF TableInv, TableTypes
  <1> QED
    BY <1>5, <1>6, <1>7, <1>8, <1>9, <1>10 DEF TableInv
-----------------------------------------------------------------------------
(***************************************************************************)
(* The steps of a removal.                                                 *)
(***************************************************************************)
LEMMA ListNear ==
    ASSUME NEW P, NEW cnt \in Nat, NEW hd, NEW it, List(P, cnt, hd, it, -1), NEW x \in P
    PROVE  it[x].iPrev \in P \cup {-1} /\ it[x].iNext \in P \cup {-1}
  <1>1. PICK f \in Enum(P, cnt) : Forward(f, cnt, it) /\ Backward(f, cnt, it, -1)
    BY DEF List
  <1>2. (\A j \in 1 .. cnt : f[j] \in P) /\ \A i \in P : \E j \in 1 .. cnt : f[j] = i
    BY EnumType
  <1>3. PICK j \in 1 .. cnt : f[j] = x
    BY <1>2
  <1>4. (j # cnt => j + 1 \in 1 .. cnt) /\ (j # 1 => j - 1 \in 1 .. cnt)
    OBVIOUS
  <1> QED
    BY <1>1, <1>2, <1>3, <1>4 DEF Forward, Backward

LEMMA GapNear ==
    ASSUME NEW P, NEW cnt \in Nat, NEW hd, NEW it, NEW x, NEW both, Gap(P, cnt, hd, it, x, both)
    PROVE  /\ it[x].iPrev \in P \cup {-1} /\ it[x].iNext \in P \cup {-1}
           /\ IsFiniteSet(P) /\ Cardinality(P) = cnt
  <1>1. PICK f \in Enum(P, cnt), m \in 1 .. cnt + 1 :
           /\ it[x].iPrev = IF m = 1 THEN -1 ELSE f[m - 1]
           /\ it[x].iNext = IF m = cnt + 1 THEN -1 ELSE f[m]
    BY DEF Gap
  <1>2. \A j \in 1 .. cnt : f[j] \in P
    BY EnumType
  <1>3. (m # cnt + 1 => m \in 1 .. cnt) /\ (m # 1 => m - 1 \in 1 .. cnt)
    OBVIOUS
  <1> QED
    BY <1>1, <1>2, <1>3, EnumCount

\* sht_remove or sht_remove_by_pos of item i.
LEMMA StepRemoveAny ==
    ASSUME TableInv, Table!Goto("idle", "forward"), NEW i \in Table!Item, item[i].fValid, node' = i,
           key' = item[i].data,
           found' = [c \in Keys |-> IF Table!Holds(i, c) THEN found[c] - 1 ELSE found[c]],
           UNCHANGED <<tFreeHead, iItem, item, bucket>>
    PROVE  TableInv'
  <1> USE DEF Table!Goto
  <1>0. /\ tpc = "idle" /\ tpc' = "forward" /\ tFreeHead' = tFreeHead /\ iItem' = iItem
        /\ item' = item /\ bucket' = bucket
    OBVIOUS
  <1>a. item[i].data \in Keys \cup {Table!NoKey} /\ found \in [Keys -> Int]
    BY TableFacts DEF TableInv, TableTypes
  <1>1. FreeListInv'
    <2>1. FreeItems' = FreeItems
      BY <1>0 DEF FreeItems, TakenPcs
    <2> QED
      BY <1>0, <2>1 DEF TableInv, FreeListInv
  <1>2. BucketInv'
    <2> SUFFICES ASSUME NEW b \in Table!Bucket
                 PROVE  List(Members(b)', bucket[b].iCount, bucket[b].iHead, item, -1)
      BY <1>0 DEF BucketInv
    <2>1. Members(b)' = Members(b)
      BY <1>0 DEF Members, UnchainedPcs
    <2> QED
      BY <1>0, <2>1, ChainFacts
  <1>3. NodeInv'
    BY <1>0 DEF NodeInv, TakenPcs, InsertPcs, RemovePcs
  <1>4. CountInv'
    BY <1>0, CountKept DEF Kept, Table!Valid
  <1>5. FoundInv'
    <2> SUFFICES ASSUME NEW c \in Keys PROVE found'[c] = Cardinality(Seen(c)')
      BY DEF FoundInv
    <2>1. found[c] = Cardinality(Seen(c)) /\ Seen(c) \in SUBSET Table!Item
      BY DEF TableInv, FoundInv, Seen
    <2>2. IsFiniteSet(Seen(c)) /\ Cardinality(Seen(c)) \in Nat
      BY <2>1, Countable
    <2>3. i \in Seen(c) <=> Table!Holds(i, c)
      BY <1>0 DEF Seen
    <2>4. Seen(c)' = Seen(c) \ {i}
      BY <1>0 DEF Seen, Table!Holds
    <2>5. Cardinality(Seen(c) \ {i}) = IF i \in Seen(c) THEN Cardinality(Seen(c)) - 1
                                      ELSE Cardinality(Seen(c))
      BY <2>2, FS_RemoveElement
    <2>6. found'[c] = IF Table!Holds(i, c) THEN found[c] - 1 ELSE found[c]
      OBVIOUS
    <2> QED
      BY <2>1, <2>3, <2>4, <2>5, <2>6
  <1>6. TableTypes'
    <2>1. found' \in [Keys -> Int]
      BY <1>a
    <2> QED
      BY <1>0, <1>a, <1>4, <2>1, TypesKept DEF TableInv, TableTypes, RemovePcs
  <1> QED
    BY <1>1, <1>2, <1>3, <1>4, <1>5, <1>6 DEF TableInv

LEMMA StepRemovePos == ASSUME TableInv, NEW i \in Table!Item, Table!RemovePos(i) PROVE TableInv'
  BY StepRemoveAny DEF Table!RemovePos

LEMMA StepRemoveBegin == ASSUME TableInv, NEW k \in Keys, Table!RemoveBegin(k) PROVE TableInv'
  <1>1. tpc = "idle" /\ Table!Find(k) # -1
    BY DEF Table!RemoveBegin, Table!Goto
  <1>2. PICK i \in Table!Item : i = Table!Find(k) /\ Table!Holds(i, k)
    BY <1>1, FindFacts
  <1>3. item[i].fValid /\ item[i].data = k /\ \A c \in Keys : Table!Holds(i, c) <=> c = k
    BY <1>2 DEF Table!Holds
  <1>4. found \in [Keys -> Int] /\ found' = [found EXCEPT ![k] = found[k] - 1]
    BY DEF TableInv, TableTypes, Table!RemoveBegin
  <1>5. found' = [c \in Keys |-> IF Table!Holds(i, c) THEN found[c] - 1 ELSE found[c]]
    BY <1>3, <1>4
  <1> QED
    BY <1>2, <1>3, <1>5, StepRemoveAny DEF Table!RemoveBegin

LEMMA StepRemoveForward == ASSUME TableInv, Table!RemoveForward PROVE TableInv'
  <1> USE DEF Table!Goto
  <1>0. /\ tpc = "forward" /\ tpc' = "backward" /\ node' = node /\ key' = key
        /\ tFreeHead' = tFreeHead /\ iItem' = iItem /\ bucket' = bucket /\ found' = found
    BY DEF Table!RemoveForward
  <1>2. item[node].fValid /\ item[node].data = key
    BY <1>0 DEF TableInv, NodeInv, RemovePcs
  <1>a. /\ node \in Table!Item /\ -1 \notin Table!Item /\ Table!BucketOf(item[node].uCode) \in Table!Bucket
        /\ item[node].iPrev \in Table!Item \cup {-1} /\ item[node].iNext \in Table!Item \cup {-1}
    BY TableFacts, ItemFacts DEF TableInv
  <1>1. /\ item' \in [Table!Item -> Entries]
        /\ \A j \in Table!Item : /\ item'[j].fValid = item[j].fValid /\ item'[j].uCode = item[j].uCode
                                 /\ item'[j].data = item[j].data /\ item'[j].iPrev = item[j].iPrev
                                 /\ item'[j].iNext = IF j = item[node].iPrev THEN item[node].iNext
                                                     ELSE item[j].iNext
    BY <1>a, SetNextIs DEF Table!RemoveForward, TableInv
  <1>b. PICK o \in Table!Bucket : o = Table!BucketOf(item[node].uCode)
    BY <1>a
  <1>c. /\ List(Members(o), bucket[o].iCount, bucket[o].iHead, item, -1)
        /\ bucket[o].iCount \in Nat /\ node \in Members(o)
    <2>1. node \in Members(o)
      BY <1>0, <1>a, <1>b, <1>2 DEF Members, UnchainedPcs
    <2> QED
      BY <1>0, <2>1, ChainFacts
  <1>d. item[node].iPrev \in Members(o) \cup {-1}
    BY <1>c, ListNear
  <1>4. FreeItems' = FreeItems /\ FreeItems \subseteq Table!Item
    BY <1>0, <1>1 DEF FreeItems, TakenPcs
  <1>5. FreeListInv'
    <2>1. PICK cnt \in Nat : List(FreeItems, cnt, tFreeHead, item, -1)
      BY <1>0 DEF TableInv, FreeListInv
    <2>0. item[node].iPrev \notin FreeItems
      BY <1>a, <1>d, MemberFacts DEF FreeItems
    <2>2. \A i \in FreeItems : item'[i].iNext = item[i].iNext /\ item'[i].iPrev = item[i].iPrev
      BY <1>1, <1>4, <2>0
    <2>3. List(FreeItems, cnt, tFreeHead, item', -1)
      BY <2>1, <2>2, ListFrame
    <2>4. FreeItems = {} => tFreeHead = -1
      BY <1>0, FreeFacts
    <2> QED
      BY <1>0, <1>4, <2>3, <2>4 DEF FreeListInv
  <1>6. BucketInv'
    <2>0. \A b \in Table!Bucket : Own(b)' <=> b = o
      BY <1>0, <1>a, <1>b, <1>1 DEF Own
    <2> SUFFICES ASSUME NEW b \in Table!Bucket
                 PROVE  IF b = o
                        THEN /\ bucket[b].iCount > 0
                             /\ Gap(Members(b)', bucket[b].iCount - 1, bucket[b].iHead, item', node, FALSE)
                        ELSE List(Members(b)', bucket[b].iCount, bucket[b].iHead, item', -1)
      BY <1>0, <2>0 DEF BucketInv
    <2>1. Members(b)' = Members(b) \ {node} /\ Members(b) \subseteq Table!Item
      BY <1>0, <1>1 DEF Members, UnchainedPcs
    <2>3. CASE b = o
      <3>1. \A i \in Members(o) :
               /\ item'[i].iPrev = item[i].iPrev
               /\ item'[i].iNext = IF i = item[node].iPrev THEN item[node].iNext ELSE item[i].iNext
        BY <1>1, MemberFacts
      <3>2. /\ bucket[o].iCount > 0
            /\ Gap(Members(o) \ {node}, bucket[o].iCount - 1, bucket[o].iHead, item', node, FALSE)
        <4> DEFINE P == Members(o)
                   c == bucket[o].iCount
                   h == bucket[o].iHead
        <4>1. /\ -1 \notin P /\ c \in Nat /\ List(P, c, h, item, -1) /\ node \in P
              /\ \A i \in P : /\ item'[i].iPrev = item[i].iPrev
                              /\ item'[i].iNext = IF i = item[node].iPrev THEN item[node].iNext
                                                  ELSE item[i].iNext
          BY <1>c, <3>1, MemberFacts
        <4> HIDE DEF P, c, h
        <4>2. c > 0 /\ Gap(P \ {node}, c - 1, h, item', node, FALSE)
          BY <4>1, GapForward
        <4> QED
          BY <4>2 DEF P, c, h
      <3> QED
        BY <2>1, <2>3, <3>2
    <2>4. CASE b # o
      <3>1. node \notin Members(b) /\ item[node].iPrev \notin Members(b)
        BY <1>b, <1>d, <2>4, MemberFacts
      <3>2. \A i \in Members(b) : item'[i].iNext = item[i].iNext /\ item'[i].iPrev = item[i].iPrev
        BY <1>1, <2>1, <3>1
      <3>3. List(Members(b), bucket[b].iCount, bucket[b].iHead, item, -1) /\ bucket[b].iCount \in Nat
        BY <1>0, ChainFacts
      <3>4. List(Members(b), bucket[b].iCount, bucket[b].iHead, item', -1)
        BY <3>2, <3>3, ListFrame
      <3>5. Members(b)' = Members(b)
        BY <2>1, <3>1
      <3> QED
        BY <2>4, <3>4, <3>5
    <2> QED
      BY <2>3, <2>4
  <1>7. NodeInv'
    BY <1>0, <1>a, <1>1, <1>2 DEF NodeInv, TakenPcs, InsertPcs, RemovePcs
  <1>8. CountInv'
    <2>1. Kept' = Kept
      BY <1>0, <1>1 DEF Kept, Table!Valid
    <2> QED
      BY <1>0, <2>1, CountKept
  <1>9. FoundInv'
    <2>1. \A c \in Keys : Seen(c)' = Seen(c)
      BY <1>0, <1>1 DEF Seen, Table!Holds
    <2> QED
      BY <1>0, <2>1, FoundKept
  <1>10. TableTypes'
    BY <1>0, <1>1, <1>8, TypesKept DEF TableInv, TableTypes, RemovePcs
  <1> QED
    BY <1>5, <1>6, <1>7, <1>8, <1>9, <1>10 DEF TableInv

LEMMA StepRemoveBackward == ASSUME TableInv, Table!RemoveBackward PROVE TableInv'
  <1> USE DEF Table!Goto
  <1>0. /\ tpc = "backward" /\ tpc' = "unhead" /\ node' = node /\ key' = key
        /\ tFreeHead' = tFreeHead /\ iItem' = iItem /\ bucket' = bucket /\ found' = found
    BY DEF Table!RemoveBackward
  <1>2. item[node].fValid /\ item[node].data = key
    BY <1>0 DEF TableInv, NodeInv, RemovePcs
  <1>a. /\ node \in Table!Item /\ -1 \notin Table!Item /\ Table!BucketOf(item[node].uCode) \in Table!Bucket
        /\ item[node].iPrev \in Table!Item \cup {-1} /\ item[node].iNext \in Table!Item \cup {-1}
    BY TableFacts, ItemFacts DEF TableInv
  <1>1. /\ item' \in [Table!Item -> Entries]
        /\ \A j \in Table!Item : /\ item'[j].fValid = item[j].fValid /\ item'[j].uCode = item[j].uCode
                                 /\ item'[j].data = item[j].data /\ item'[j].iNext = item[j].iNext
                                 /\ item'[j].iPrev = IF j = item[node].iNext THEN item[node].iPrev
                                                     ELSE item[j].iPrev
    BY <1>a, SetPrevIs DEF Table!RemoveBackward, TableInv
  <1>b. PICK o \in Table!Bucket : o = Table!BucketOf(item[node].uCode)
    BY <1>a
  <1>c. /\ bucket[o].iCount > 0 /\ bucket[o].iCount - 1 \in Nat
        /\ Gap(Members(o), bucket[o].iCount - 1, bucket[o].iHead, item, node, FALSE)
        /\ node \notin Members(o)
    <2>1. node \notin Members(o)
      BY <1>0 DEF Members, UnchainedPcs
    <2>2. /\ bucket[o].iCount > 0
          /\ Gap(Members(o), bucket[o].iCount - 1, bucket[o].iHead, item, node, FALSE)
      BY <1>0, <1>b DEF TableInv, BucketInv, Own
    <2>3. bucket[o].iCount \in Nat
      BY TableFacts DEF TableInv
    <2>4. bucket[o].iCount - 1 \in Nat
      BY <2>2, <2>3
    <2> QED
      BY <2>1, <2>2, <2>4, Zenon
  <1>d. item[node].iNext \in Members(o) \cup {-1}
    BY <1>c, GapNear
  <1>4. FreeItems' = FreeItems /\ FreeItems \subseteq Table!Item
    BY <1>0, <1>1 DEF FreeItems, TakenPcs
  <1>5. FreeListInv'
    <2>1. PICK cnt \in Nat : List(FreeItems, cnt, tFreeHead, item, -1)
      BY <1>0 DEF TableInv, FreeListInv
    <2>0. item[node].iNext \notin FreeItems
      BY <1>a, <1>d, MemberFacts DEF FreeItems
    <2>2. \A i \in FreeItems : item'[i].iNext = item[i].iNext /\ item'[i].iPrev = item[i].iPrev
      BY <1>1, <1>4, <2>0
    <2>3. List(FreeItems, cnt, tFreeHead, item', -1)
      BY <2>1, <2>2, ListFrame
    <2>4. FreeItems = {} => tFreeHead = -1
      BY <1>0, FreeFacts
    <2> QED
      BY <1>0, <1>4, <2>3, <2>4 DEF FreeListInv
  <1>6. BucketInv'
    <2>0. \A b \in Table!Bucket : (Own(b)' <=> b = o) /\ (Own(b) <=> b = o)
      BY <1>0, <1>a, <1>b, <1>1 DEF Own
    <2> SUFFICES ASSUME NEW b \in Table!Bucket
                 PROVE  IF b = o
                        THEN /\ bucket[b].iCount > 0
                             /\ Gap(Members(b)', bucket[b].iCount - 1, bucket[b].iHead, item', node, TRUE)
                        ELSE List(Members(b)', bucket[b].iCount, bucket[b].iHead, item', -1)
      BY <1>0, <2>0 DEF BucketInv
    <2>1. Members(b)' = Members(b) /\ Members(b) \subseteq Table!Item
      BY <1>0, <1>1 DEF Members, UnchainedPcs
    <2>3. CASE b = o
      <3>1. Gap(Members(o), bucket[o].iCount - 1, bucket[o].iHead, item', node, TRUE)
        <4> DEFINE P == Members(o)
                   c == bucket[o].iCount - 1
                   h == bucket[o].iHead
        <4>1. /\ -1 \notin P /\ c \in Nat /\ Gap(P, c, h, item, node, FALSE)
              /\ node \notin P /\ node # -1
              /\ \A i \in P \cup {node} :
                    /\ item'[i].iNext = item[i].iNext
                    /\ item'[i].iPrev = IF i = item[node].iNext THEN item[node].iPrev
                                        ELSE item[i].iPrev
          <5>1. \A i \in P \cup {node} : i \in Table!Item
            BY <1>a, MemberFacts
          <5> QED
            BY <1>a, <1>c, <1>1, <5>1, MemberFacts
        <4> HIDE DEF P, c, h
        <4> QED
          BY <4>1, GapBackward DEF P, c, h
      <3> QED
        BY <1>c, <2>1, <2>3, <3>1
    <2>4. CASE b # o
      <3>1. item[node].iNext \notin Members(b)
        BY <1>b, <1>d, <2>4, MemberFacts
      <3>2. \A i \in Members(b) : item'[i].iNext = item[i].iNext /\ item'[i].iPrev = item[i].iPrev
        BY <1>1, <2>1, <3>1
      <3>3. List(Members(b), bucket[b].iCount, bucket[b].iHead, item, -1) /\ bucket[b].iCount \in Nat
        BY <1>0, <2>0, <2>4, TableFacts DEF TableInv, BucketInv
      <3>4. List(Members(b), bucket[b].iCount, bucket[b].iHead, item', -1)
        BY <3>2, <3>3, ListFrame
      <3> QED
        BY <2>1, <2>4, <3>4
    <2> QED
      BY <2>3, <2>4
  <1>7. NodeInv'
    BY <1>0, <1>a, <1>1, <1>2 DEF NodeInv, TakenPcs, InsertPcs, RemovePcs
  <1>8. CountInv'
    <2>1. Kept' = Kept
      BY <1>0, <1>1 DEF Kept, Table!Valid
    <2> QED
      BY <1>0, <2>1, CountKept
  <1>9. FoundInv'
    <2>1. \A c \in Keys : Seen(c)' = Seen(c)
      BY <1>0, <1>1 DEF Seen, Table!Holds
    <2> QED
      BY <1>0, <2>1, FoundKept
  <1>10. TableTypes'
    BY <1>0, <1>1, <1>8, TypesKept DEF TableInv, TableTypes, RemovePcs
  <1> QED
    BY <1>5, <1>6, <1>7, <1>8, <1>9, <1>10 DEF TableInv

LEMMA StepRemoveBucket == ASSUME TableInv, Table!RemoveBucket PROVE TableInv'
  <1> USE DEF Table!Goto
  <1>0. /\ tpc = "unhead" /\ tpc' = "clear" /\ node' = node /\ key' = key
        /\ tFreeHead' = tFreeHead /\ iItem' = iItem /\ item' = item /\ found' = found
    BY DEF Table!RemoveBucket
  <1>2. item[node].fValid /\ item[node].data = key
    BY <1>0 DEF TableInv, NodeInv, RemovePcs
  <1>a. /\ node \in Table!Item /\ Table!BucketOf(item[node].uCode) \in Table!Bucket
        /\ item[node].iNext \in Table!Item \cup {-1}
        /\ bucket \in [Table!Bucket -> [iCount : 0 .. Items, iHead : Table!Item \cup {-1}]]
    BY TableFacts DEF TableInv, TableTypes
  <1>b. PICK o \in Table!Bucket : o = Table!BucketOf(item[node].uCode)
    BY <1>a
  <1>c. bucket[o].iCount \in 0 .. Items /\ bucket[o].iHead \in Table!Item \cup {-1}
    BY <1>a
  <1>d. bucket' = [bucket EXCEPT ![o] =
                     [iCount |-> bucket[o].iCount - 1,
                      iHead |-> IF bucket[o].iHead = node THEN item[node].iNext ELSE bucket[o].iHead]]
    BY <1>b DEF Table!RemoveBucket
  <1>3. /\ \A b \in Table!Bucket : b # o => bucket'[b] = bucket[b]
        /\ bucket'[o].iCount = bucket[o].iCount - 1
        /\ bucket'[o].iHead = IF bucket[o].iHead = node THEN item[node].iNext ELSE bucket[o].iHead
    BY <1>a, <1>d
  <1>4. \A b \in Table!Bucket : Own(b) <=> b = o
    BY <1>b DEF Own
  <1>e. /\ bucket[o].iCount > 0 /\ bucket[o].iCount - 1 \in Nat
        /\ Gap(Members(o), bucket[o].iCount - 1, bucket[o].iHead, item, node, TRUE)
        /\ node \notin Members(o)
    <2>1. node \notin Members(o)
      BY <1>0 DEF Members, UnchainedPcs
    <2>2. /\ bucket[o].iCount > 0
          /\ Gap(Members(o), bucket[o].iCount - 1, bucket[o].iHead, item, node, TRUE)
      BY <1>0, <1>4 DEF TableInv, BucketInv
    <2>3. bucket[o].iCount \in Nat
      BY TableFacts DEF TableInv
    <2>4. bucket[o].iCount - 1 \in Nat
      BY <2>2, <2>3
    <2> QED
      BY <2>1, <2>2, <2>4, Zenon
  <1>5. FreeListInv'
    <2>1. FreeItems' = FreeItems
      BY <1>0 DEF FreeItems, TakenPcs
    <2>2. /\ \E cnt \in Nat : List(FreeItems, cnt, tFreeHead, item, -1)
          /\ FreeItems = {} => tFreeHead = -1
      BY <1>0 DEF TableInv, FreeListInv
    <2> QED
      BY <1>0, <2>1, <2>2 DEF FreeListInv
  <1>6. BucketInv'
    <2> SUFFICES ASSUME NEW b \in Table!Bucket
                 PROVE  List(Members(b)', bucket'[b].iCount, bucket'[b].iHead, item, -1)
      BY <1>0 DEF BucketInv
    <2>1. Members(b)' = Members(b)
      BY <1>0 DEF Members, UnchainedPcs
    <2>2. CASE b = o
      <3>1. List(Members(o), bucket[o].iCount - 1,
                 IF bucket[o].iHead = node THEN item[node].iNext ELSE bucket[o].iHead, item, -1)
        <4> DEFINE P == Members(o)
                   c == bucket[o].iCount - 1
                   h == bucket[o].iHead
        <4>1. c \in Nat /\ Gap(P, c, h, item, node, TRUE) /\ node \notin P
          BY <1>e
        <4> HIDE DEF P, c, h
        <4>2. List(P, c, IF h = node THEN item[node].iNext ELSE h, item, -1)
          BY <4>1, GapClosed
        <4> QED
          BY <4>2 DEF P, c, h
      <3> QED
        BY <1>3, <2>1, <2>2, <3>1
    <2>3. CASE b # o
      <3>1. List(Members(b), bucket[b].iCount, bucket[b].iHead, item, -1)
        BY <1>0, <1>4, <2>3 DEF TableInv, BucketInv
      <3> QED
        BY <1>3, <2>1, <2>3, <3>1
    <2> QED
      BY <2>2, <2>3
  <1>7. NodeInv'
    BY <1>0, <1>2 DEF NodeInv, TakenPcs, InsertPcs, RemovePcs
  <1>8. CountInv'
    BY <1>0, CountKept DEF Kept, Table!Valid
  <1>9. FoundInv'
    <2>1. \A c \in Keys : Seen(c)' = Seen(c)
      BY <1>0 DEF Seen, Table!Holds
    <2> QED
      BY <1>0, <2>1, FoundKept
  <1>10. TableTypes'
    <2>1. bucket' \in [Table!Bucket -> [iCount : 0 .. Items, iHead : Table!Item \cup {-1}]]
      <3>1. bucket[o].iCount - 1 \in 0 .. Items
        BY <1>c, <1>e, TableAssumption
      <3> QED
        BY <1>a, <1>c, <1>d, <3>1
    <2> QED
      BY <1>0, <1>8, <2>1, TypesKept DEF TableInv, TableTypes, RemovePcs
  <1> QED
    BY <1>5, <1>6, <1>7, <1>8, <1>9, <1>10 DEF TableInv

LEMMA StepRemoveClear == ASSUME TableInv, Table!RemoveClear PROVE TableInv'
  <1> USE DEF Table!Goto
  <1>0. /\ tpc = "clear" /\ tpc' = "freehead" /\ node' = node /\ key' = key /\ tFreeHead' = tFreeHead
        /\ iItem' = iItem /\ bucket' = bucket /\ found' = found
        /\ item' = [item EXCEPT ![node] = [Table!Free(-1) EXCEPT !.data = item[node].data]]
    BY DEF Table!RemoveClear
  <1>2. item[node].fValid /\ item[node].data = key
    BY <1>0 DEF TableInv, NodeInv, RemovePcs
  <1>a. node \in Table!Item /\ item \in [Table!Item -> Entries] /\ item[node].data \in Keys \cup {Table!NoKey}
    BY TableFacts DEF TableInv
  <1>1. /\ item' \in [Table!Item -> Entries]
        /\ \A i \in Table!Item : i # node => item'[i] = item[i]
        /\ ~item'[node].fValid /\ item'[node].iPrev = -1
    <2> DEFINE e == [Table!Free(-1) EXCEPT !.data = item[node].data]
    <2>1. e \in Entries /\ ~e.fValid /\ e.iPrev = -1
      BY <1>a DEF Entries, Table!Free
    <2>2. item' = [item EXCEPT ![node] = e]
      BY <1>0
    <2> HIDE DEF e
    <2> QED
      BY <1>a, <2>1, <2>2
  <1>4. FreeItems' = FreeItems /\ FreeItems \subseteq Table!Item /\ node \notin FreeItems
    BY <1>0, <1>1, <1>2 DEF FreeItems, TakenPcs
  <1>5. FreeListInv'
    <2>1. PICK cnt \in Nat : List(FreeItems, cnt, tFreeHead, item, -1)
      BY <1>0 DEF TableInv, FreeListInv
    <2>2. \A i \in FreeItems : item'[i].iNext = item[i].iNext /\ item'[i].iPrev = item[i].iPrev
      BY <1>1, <1>4
    <2>3. List(FreeItems, cnt, tFreeHead, item', -1)
      BY <2>1, <2>2, ListFrame
    <2>4. FreeItems = {} => tFreeHead = -1
      BY <1>0, FreeFacts
    <2> QED
      BY <1>0, <1>4, <2>3, <2>4 DEF FreeListInv
  <1>6. BucketInv'
    <2> SUFFICES ASSUME NEW b \in Table!Bucket
                 PROVE  List(Members(b)', bucket[b].iCount, bucket[b].iHead, item', -1)
      BY <1>0 DEF BucketInv
    <2>1. Members(b)' = Members(b) /\ node \notin Members(b) /\ Members(b) \subseteq Table!Item
      BY <1>0, <1>1 DEF Members, UnchainedPcs
    <2>2. List(Members(b), bucket[b].iCount, bucket[b].iHead, item, -1) /\ bucket[b].iCount \in Nat
      BY <1>0, ChainFacts
    <2>3. \A i \in Members(b) : item'[i].iNext = item[i].iNext /\ item'[i].iPrev = item[i].iPrev
      BY <1>1, <2>1
    <2> QED
      BY <2>1, <2>2, <2>3, ListFrame
  <1>7. NodeInv'
    BY <1>0, <1>1 DEF NodeInv, TakenPcs, InsertPcs, RemovePcs
  <1>8. CountInv'
    <2>1. Kept' = Kept
      BY <1>0, <1>a, <1>1, <1>2 DEF Kept, Table!Valid
    <2> QED
      BY <1>0, <2>1, CountKept
  <1>9. FoundInv'
    <2>1. \A c \in Keys : Seen(c)' = Seen(c)
      BY <1>0, <1>1 DEF Seen, Table!Holds
    <2> QED
      BY <1>0, <2>1, FoundKept
  <1>10. TableTypes'
    BY <1>0, <1>1, <1>8, TypesKept DEF TableInv, TableTypes, TakenPcs
  <1> QED
    BY <1>5, <1>6, <1>7, <1>8, <1>9, <1>10 DEF TableInv

LEMMA StepRemoveFreeHead == ASSUME TableInv, Table!RemoveFreeHead PROVE TableInv'
  <1> USE DEF Table!Goto
  <1>0. /\ tpc = "freehead" /\ tpc' = "freelink" /\ node' = node /\ key' = key
        /\ tFreeHead' = tFreeHead /\ iItem' = iItem /\ bucket' = bucket /\ found' = found
    BY DEF Table!RemoveFreeHead
  <1>a. node \in Table!Item /\ tFreeHead \in Table!Item \cup {-1}
    BY TableFacts DEF TableInv
  <1>1. /\ item' \in [Table!Item -> Entries]
        /\ \A j \in Table!Item : /\ item'[j].fValid = item[j].fValid /\ item'[j].uCode = item[j].uCode
                                 /\ item'[j].data = item[j].data /\ item'[j].iNext = item[j].iNext
                                 /\ item'[j].iPrev = IF j = tFreeHead THEN node ELSE item[j].iPrev
    BY <1>a, SetPrevIs DEF Table!RemoveFreeHead, TableInv
  <1>2. ~item[node].fValid /\ item[node].iPrev = -1
    BY <1>0 DEF TableInv, NodeInv, TakenPcs
  <1>4. FreeItems' = FreeItems /\ FreeItems \subseteq Table!Item /\ node \notin FreeItems
    BY <1>0, <1>1, <1>2 DEF FreeItems, TakenPcs
  <1>3. (tFreeHead = -1 \/ ~item[tFreeHead].fValid) /\ tFreeHead # node
    BY <1>0, <1>4, <1>a, FreeFacts, ItemFacts
  <1>5. FreeListInv'
    <2>1. PICK cnt \in Nat : List(FreeItems, cnt, tFreeHead, item, -1)
      BY <1>0 DEF TableInv, FreeListInv
    <2>2. \A i \in FreeItems : /\ item'[i].iNext = item[i].iNext
                               /\ item'[i].iPrev = IF i = tFreeHead THEN node ELSE item[i].iPrev
      BY <1>1, <1>4
    <2>3. List(FreeItems, cnt, tFreeHead, item', node)
      BY <2>1, <2>2, ListFirst
    <2>4. FreeItems = {} => tFreeHead = -1
      BY <1>0, FreeFacts
    <2> QED
      BY <1>0, <1>4, <2>3, <2>4 DEF FreeListInv
  <1>6. BucketInv'
    <2> SUFFICES ASSUME NEW b \in Table!Bucket
                 PROVE  List(Members(b)', bucket[b].iCount, bucket[b].iHead, item', -1)
      BY <1>0 DEF BucketInv
    <2>1. Members(b)' = Members(b)
      BY <1>0, <1>1 DEF Members, UnchainedPcs
    <2>2. List(Members(b), bucket[b].iCount, bucket[b].iHead, item, -1) /\ bucket[b].iCount \in Nat
      BY <1>0, ChainFacts
    <2>3. \A i \in Members(b) : item'[i].iNext = item[i].iNext /\ item'[i].iPrev = item[i].iPrev
      BY <1>1, <1>3, MemberFacts
    <2> QED
      BY <2>1, <2>2, <2>3, ListFrame
  <1>7. NodeInv'
    BY <1>0, <1>1, <1>2, <1>a, <1>3 DEF NodeInv, TakenPcs, InsertPcs, RemovePcs
  <1>8. CountInv'
    <2>1. Kept' = Kept
      BY <1>0, <1>1 DEF Kept, Table!Valid
    <2> QED
      BY <1>0, <2>1, CountKept
  <1>9. FoundInv'
    <2>1. \A c \in Keys : Seen(c)' = Seen(c)
      BY <1>0, <1>1 DEF Seen, Table!Holds
    <2> QED
      BY <1>0, <2>1, FoundKept
  <1>10. TableTypes'
    BY <1>0, <1>1, <1>8, TypesKept DEF TableInv, TableTypes, TakenPcs
  <1> QED
    BY <1>5, <1>6, <1>7, <1>8, <1>9, <1>10 DEF TableInv

LEMMA StepRemoveFreeLink == ASSUME TableInv, Table!RemoveFreeLink PROVE TableInv'
  <1> USE DEF Table!Goto
  <1>0. /\ tpc = "freelink" /\ tpc' = "done" /\ node' = node /\ key' = key
        /\ tFreeHead' = tFreeHead /\ iItem' = iItem /\ bucket' = bucket /\ found' = found
        /\ item' = [item EXCEPT ![node].iNext = tFreeHead]
    BY DEF Table!RemoveFreeLink
  <1>a. node \in Table!Item /\ tFreeHead \in Table!Item \cup {-1} /\ item \in [Table!Item -> Entries]
    BY TableFacts DEF TableInv
  <1>1. /\ item' \in [Table!Item -> Entries]
        /\ \A j \in Table!Item : /\ item'[j].fValid = item[j].fValid /\ item'[j].uCode = item[j].uCode
                                 /\ item'[j].data = item[j].data /\ item'[j].iPrev = item[j].iPrev
                                 /\ item'[j].iNext = IF j = node THEN tFreeHead ELSE item[j].iNext
    BY <1>0, <1>a DEF Entries
  <1>2. ~item[node].fValid /\ item[node].iPrev = -1
    BY <1>0 DEF TableInv, NodeInv, TakenPcs
  <1>4. FreeItems' = FreeItems /\ FreeItems \subseteq Table!Item /\ node \notin FreeItems
    BY <1>0, <1>1, <1>2 DEF FreeItems, TakenPcs
  <1>5. FreeListInv'
    <2>1. PICK cnt \in Nat : List(FreeItems, cnt, tFreeHead, item, node)
      BY <1>0 DEF TableInv, FreeListInv
    <2>2. \A i \in FreeItems : item'[i].iNext = item[i].iNext /\ item'[i].iPrev = item[i].iPrev
      BY <1>1, <1>4
    <2>3. List(FreeItems, cnt, tFreeHead, item', node)
      BY <2>1, <2>2, ListFrame
    <2>4. FreeItems = {} => tFreeHead = -1
      BY <1>0, FreeFacts
    <2> QED
      BY <1>0, <1>4, <2>3, <2>4 DEF FreeListInv
  <1>6. BucketInv'
    <2> SUFFICES ASSUME NEW b \in Table!Bucket
                 PROVE  List(Members(b)', bucket[b].iCount, bucket[b].iHead, item', -1)
      BY <1>0 DEF BucketInv
    <2>1. Members(b)' = Members(b) /\ Members(b) \subseteq Table!Item /\ node \notin Members(b)
      BY <1>0, <1>1, <1>2 DEF Members, UnchainedPcs
    <2>2. List(Members(b), bucket[b].iCount, bucket[b].iHead, item, -1) /\ bucket[b].iCount \in Nat
      BY <1>0, ChainFacts
    <2>3. \A i \in Members(b) : item'[i].iNext = item[i].iNext /\ item'[i].iPrev = item[i].iPrev
      BY <1>1, <2>1
    <2> QED
      BY <2>1, <2>2, <2>3, ListFrame
  <1>7. NodeInv'
    BY <1>0, <1>1, <1>2, <1>a DEF NodeInv, TakenPcs, InsertPcs, RemovePcs
  <1>8. CountInv'
    <2>1. Kept' = Kept
      BY <1>0, <1>1 DEF Kept, Table!Valid
    <2> QED
      BY <1>0, <2>1, CountKept
  <1>9. FoundInv'
    <2>1. \A c \in Keys : Seen(c)' = Seen(c)
      BY <1>0, <1>1 DEF Seen, Table!Holds
    <2> QED
      BY <1>0, <2>1, FoundKept
  <1>10. TableTypes'
    BY <1>0, <1>1, <1>8, TypesKept DEF TableInv, TableTypes, TakenPcs
  <1> QED
    BY <1>5, <1>6, <1>7, <1>8, <1>9, <1>10 DEF TableInv

LEMMA StepRemoveDone == ASSUME TableInv, Table!RemoveDone PROVE TableInv'
  <1> USE DEF Table!Goto
  <1>0. /\ tpc = "done" /\ tpc' = "idle" /\ node' = node /\ key' = key
        /\ tFreeHead' = node /\ iItem' = iItem - 1 /\ bucket' = bucket /\ found' = found
        /\ item' = item
    BY DEF Table!RemoveDone
  <1>a. node \in Table!Item
    BY TableFacts DEF TableInv
  <1>2. ~item[node].fValid /\ item[node].iPrev = -1 /\ item[node].iNext = tFreeHead
    BY <1>0 DEF TableInv, NodeInv, TakenPcs
  <1>4. FreeItems' = FreeItems \cup {node} /\ node \notin FreeItems
    <2>1. FreeItems = {i \in Table!Item : ~item[i].fValid /\ i # node}
      BY <1>0 DEF FreeItems, TakenPcs
    <2>2. FreeItems' = {i \in Table!Item : ~item[i].fValid}
      BY <1>0 DEF FreeItems, TakenPcs
    <2> QED
      BY <1>a, <1>2, <2>1, <2>2
  <1>5. FreeListInv'
    <2>1. PICK cnt \in Nat : List(FreeItems, cnt, tFreeHead, item, node)
      BY <1>0 DEF TableInv, FreeListInv
    <2>2. item[node].iNext = IF cnt > 0 THEN tFreeHead ELSE -1
      <3>1. cnt = 0 <=> FreeItems = {}
        BY <2>1, ListEnds
      <3>2. FreeItems = {} => tFreeHead = -1
        BY <1>0, FreeFacts
      <3> QED
        BY <1>2, <3>1, <3>2
    <2>3. List(FreeItems \cup {node}, cnt + 1, node, item, item[node].iPrev)
      BY <1>4, <2>1, <2>2, ListPush
    <2>4. \E c \in Nat : List(FreeItems', c, tFreeHead', item', -1)
      <3>1. cnt + 1 \in Nat
        OBVIOUS
      <3> QED
        BY <1>0, <1>2, <1>4, <2>3, <3>1
    <2>5. FreeItems' # {}
      BY <1>4
    <2> QED
      BY <1>0, <2>4, <2>5 DEF FreeListInv
  <1>6. BucketInv'
    <2> SUFFICES ASSUME NEW b \in Table!Bucket
                 PROVE  List(Members(b)', bucket[b].iCount, bucket[b].iHead, item, -1)
      BY <1>0 DEF BucketInv
    <2>1. Members(b)' = Members(b)
      BY <1>0 DEF Members, UnchainedPcs
    <2> QED
      BY <1>0, <2>1, ChainFacts
  <1>7. NodeInv'
    BY <1>0 DEF NodeInv, TakenPcs, InsertPcs, RemovePcs
  <1>8. CountInv'
    <2>1. Table!Valid' = Table!Valid /\ Table!Valid \in SUBSET Table!Item /\ node \notin Table!Valid
      BY <1>0, <1>2 DEF Table!Valid
    <2>2. iItem = Cardinality(Table!Valid \cup {node})
      BY <1>0 DEF TableInv, CountInv, Kept
    <2>3. Cardinality(Table!Valid \cup {node}) = Cardinality(Table!Valid) + 1 /\ Cardinality(Table!Valid) \in Nat
      BY <2>1, Countable, FS_AddElement
    <2>4. iItem' = Cardinality(Table!Valid)
      BY <1>0, <2>2, <2>3
    <2> QED
      BY <1>0, <2>1, <2>4 DEF CountInv, Kept
  <1>9. FoundInv'
    <2>1. \A c \in Keys : Seen(c)' = Seen(c)
      BY <1>0, <1>2 DEF Seen, Table!Holds
    <2> QED
      BY <1>0, <2>1, FoundKept
  <1>10. TableTypes'
    BY <1>0, <1>a, <1>8, TypesKept DEF TableInv, TableTypes
  <1> QED
    BY <1>5, <1>6, <1>7, <1>8, <1>9, <1>10 DEF TableInv
-----------------------------------------------------------------------------
(***************************************************************************)
(* A death, and the next one's sht_rebuild.                                *)
(***************************************************************************)
LEMMA StepCrash == ASSUME TableInv, Table!Crash PROVE TableInv'
  <1>0. /\ tpc # "down" /\ tpc' = "down" /\ found' = [c \in Keys |-> Table!Count(c)] /\ tFreeHead' = tFreeHead
        /\ iItem' = iItem /\ item' = item /\ bucket' = bucket /\ node' = node /\ key' = key
    BY DEF Table!Crash
  <1>1. FreeListInv' /\ BucketInv' /\ CountInv'
    BY <1>0 DEF FreeListInv, BucketInv, CountInv
  <1>2. NodeInv'
    BY <1>0 DEF NodeInv, TakenPcs, InsertPcs, RemovePcs
  <1>3. \A c \in Keys : Table!Count(c) = Cardinality(Seen(c)') /\ Seen(c)' \in SUBSET Table!Item
    <2> TAKE c \in Keys
    <2>1. Seen(c)' = {i \in Table!Item : Table!Holds(i, c)}
      BY <1>0 DEF Seen, Table!Holds
    <2> QED
      BY <2>1, SameCardinality DEF Table!Count
  <1>4. FoundInv'
    BY <1>0, <1>3 DEF FoundInv
  <1>5. found' \in [Keys -> Int]
    BY <1>0, <1>3, Countable
  <1>6. TableTypes'
    BY <1>0, <1>5 DEF TableInv, TableTypes
  <1> QED
    BY <1>1, <1>2, <1>4, <1>6 DEF TableInv

LEMMA EndsType ==
    ASSUME NEW S \in SUBSET Table!Item
    PROVE  Table!First(S) \in Table!Item \cup {-1} /\ Table!Last(S) \in Table!Item \cup {-1}
  <1>1. PICK f \in Enum(S, Cardinality(S)) :
           \A j, k \in 1 .. Cardinality(S) : j < k => f[j] < f[k]
    BY Sorted
  <1>2. PICK cnt \in Nat : cnt = Cardinality(S)
    BY Countable
  <1>3. f \in Enum(S, cnt) /\ \A j, k \in 1 .. cnt : j < k => f[j] < f[k]
    BY <1>1, <1>2
  <1>4. /\ cnt > 0 => Table!First(S) = f[1] /\ Table!Last(S) = f[cnt]
        /\ S = {} => Table!First(S) = -1 /\ Table!Last(S) = -1
    BY <1>3, Ends
  <1>5. cnt > 0 => f[1] \in S /\ f[cnt] \in S
    BY <1>3, EnumType
  <1>6. cnt = 0 <=> S = {}
    BY <1>2, Countable
  <1> QED
    BY <1>4, <1>5, <1>6

LEMMA StepRebuild == ASSUME TableInv, Table!Rebuild PROVE TableInv'
  <1> DEFINE Chained(b) == {i \in Table!Valid : Table!BucketOf(item[i].uCode) = b}
  <1>0. /\ tpc \in {"down", "idle"} /\ tpc' = "idle" /\ item' = [i \in Table!Item |-> Table!Rebuilt(i)]
        /\ tFreeHead' = Table!First(Table!Item \ Table!Valid) /\ iItem' = Cardinality(Table!Valid)
        /\ node' = node /\ key' = key /\ found' = found
    BY SameCardinality DEF Table!Rebuild
  <1>1. bucket' = [b \in Table!Bucket |-> [iCount |-> Cardinality(Chained(b)), iHead |-> Table!Last(Chained(b))]]
    BY SameCardinality DEF Table!Rebuild
  <1>2. \A S \in SUBSET Table!Item : \A i \in Table!Item :
           Table!First(Above(S, i)) \in Table!Item \cup {-1} /\ Table!Last(Under(S, i)) \in Table!Item \cup {-1}
    <2> TAKE S \in SUBSET Table!Item
    <2> TAKE i \in Table!Item
    <2>1. Above(S, i) \in SUBSET Table!Item /\ Under(S, i) \in SUBSET Table!Item
      BY DEF Above, Under
    <2> QED
      BY <2>1, EndsType
  <1>3. /\ Table!Valid \in SUBSET Table!Item /\ Table!Item \ Table!Valid \in SUBSET Table!Item
        /\ \A b \in Table!Bucket : Chained(b) \in SUBSET Table!Item
    BY DEF Table!Valid
  <1>4. \A i \in Table!Item : item[i] \in Entries /\ Table!BucketOf(item[i].uCode) \in Table!Bucket
    BY TableFacts DEF TableInv
  <1>5. ASSUME NEW i \in Table!Item, item[i].fValid
        PROVE  /\ Table!Rebuilt(i) = [item[i] EXCEPT !.iPrev = Table!First(Above(Chained(Table!BucketOf(item[i].uCode)), i)),
                                                     !.iNext = Table!Last(Under(Chained(Table!BucketOf(item[i].uCode)), i))]
    BY <1>5 DEF Table!Rebuilt, Table!Mates, Above, Under
  <1>6. ASSUME NEW i \in Table!Item, ~item[i].fValid
        PROVE  /\ Table!Rebuilt(i) = [item[i] EXCEPT !.iPrev = Table!Last(Under(Table!Item \ Table!Valid, i)),
                                                     !.iNext = Table!First(Above(Table!Item \ Table!Valid, i))]
    BY <1>6 DEF Table!Rebuilt, Above, Under
  <1> HIDE DEF Chained
  <1>7. ASSUME NEW i \in Table!Item
        PROVE  /\ Table!Rebuilt(i) \in Entries
               /\ Table!Rebuilt(i).fValid = item[i].fValid /\ Table!Rebuilt(i).uCode = item[i].uCode
               /\ Table!Rebuilt(i).data = item[i].data
               /\ item[i].fValid =>
                     /\ Table!Rebuilt(i).iPrev = Table!First(Above(Chained(Table!BucketOf(item[i].uCode)), i))
                     /\ Table!Rebuilt(i).iNext = Table!Last(Under(Chained(Table!BucketOf(item[i].uCode)), i))
               /\ ~item[i].fValid => /\ Table!Rebuilt(i).iPrev = Table!Last(Under(Table!Item \ Table!Valid, i))
                                     /\ Table!Rebuilt(i).iNext = Table!First(Above(Table!Item \ Table!Valid, i))
    <2>1. item[i] \in Entries
      BY <1>4
    <2>3. CASE item[i].fValid
      <3> DEFINE p == Table!First(Above(Chained(Table!BucketOf(item[i].uCode)), i))
                 x == Table!Last(Under(Chained(Table!BucketOf(item[i].uCode)), i))
      <3>1. p \in Table!Item \cup {-1} /\ x \in Table!Item \cup {-1}
        BY <1>2, <1>3, <1>4
      <3>2. Table!Rebuilt(i) = [item[i] EXCEPT !.iPrev = p, !.iNext = x]
        BY <1>5, <2>3
      <3> HIDE DEF p, x
      <3>3. /\ Table!Rebuilt(i) \in Entries /\ Table!Rebuilt(i).iPrev = p /\ Table!Rebuilt(i).iNext = x
            /\ Table!Rebuilt(i).fValid = item[i].fValid /\ Table!Rebuilt(i).uCode = item[i].uCode
            /\ Table!Rebuilt(i).data = item[i].data
        BY <2>1, <3>1, <3>2 DEF Entries
      <3> QED
        BY <2>3, <3>3 DEF p, x
    <2>4. CASE ~item[i].fValid
      <3> DEFINE p == Table!Last(Under(Table!Item \ Table!Valid, i))
                 x == Table!First(Above(Table!Item \ Table!Valid, i))
      <3>1. p \in Table!Item \cup {-1} /\ x \in Table!Item \cup {-1}
        BY <1>2, <1>3
      <3>2. Table!Rebuilt(i) = [item[i] EXCEPT !.iPrev = p, !.iNext = x]
        BY <1>6, <2>4
      <3> HIDE DEF p, x
      <3>3. /\ Table!Rebuilt(i) \in Entries /\ Table!Rebuilt(i).iPrev = p /\ Table!Rebuilt(i).iNext = x
            /\ Table!Rebuilt(i).fValid = item[i].fValid /\ Table!Rebuilt(i).uCode = item[i].uCode
            /\ Table!Rebuilt(i).data = item[i].data
        BY <2>1, <3>1, <3>2 DEF Entries
      <3> QED
        BY <2>4, <3>3 DEF p, x
    <2> QED
      BY <2>3, <2>4, <1>4 DEF Entries
  <1>8. item' \in [Table!Item -> Entries] /\ \A i \in Table!Item : item'[i] = Table!Rebuilt(i)
    BY <1>0, <1>7
  <1>9. FreeListInv'
    <2>1. FreeItems' = Table!Item \ Table!Valid
      BY <1>0, <1>7, <1>8 DEF FreeItems, Table!Valid, TakenPcs
    <2>2. \A i \in Table!Item \ Table!Valid : /\ item'[i].iPrev = Table!Last(Under(Table!Item \ Table!Valid, i))
                                              /\ item'[i].iNext = Table!First(Above(Table!Item \ Table!Valid, i))
      BY <1>7, <1>8 DEF Table!Valid
    <2> DEFINE S == Table!Item \ Table!Valid
    <2>3. S \in SUBSET Table!Item /\ \A i \in S : /\ item'[i].iPrev = Table!Last(Under(S, i))
                                                 /\ item'[i].iNext = Table!First(Above(S, i))
      BY <2>2
    <2> HIDE DEF S
    <2>4. /\ List(S, Cardinality(S), Table!First(S), item', -1) /\ Cardinality(S) \in Nat
          /\ S = {} => Table!First(S) = -1
      BY <2>3, Ascending, Countable
    <2>5. tFreeHead' = Table!First(S) /\ FreeItems' = S
      BY <1>0, <2>1 DEF S
    <2> QED
      BY <1>0, <2>4, <2>5 DEF FreeListInv
  <1>10. BucketInv'
    <2> SUFFICES ASSUME NEW b \in Table!Bucket
                 PROVE  List(Members(b)', bucket'[b].iCount, bucket'[b].iHead, item', -1)
      BY <1>0 DEF BucketInv
    <2>1. Members(b)' = Chained(b)
      BY <1>0, <1>7, <1>8 DEF Members, Chained, Table!Valid, UnchainedPcs
    <2>2. bucket'[b].iCount = Cardinality(Chained(b)) /\ bucket'[b].iHead = Table!Last(Chained(b))
      BY <1>1
    <2>3. \A i \in Chained(b) : i \in Table!Item /\ item[i].fValid /\ Table!BucketOf(item[i].uCode) = b
      BY DEF Chained, Table!Valid
    <2>4. \A i \in Chained(b) : /\ item'[i].iPrev = Table!First(Above(Chained(b), i))
                                /\ item'[i].iNext = Table!Last(Under(Chained(b), i))
      BY <1>7, <1>8, <2>3
    <2>5. List(Chained(b), Cardinality(Chained(b)), Table!Last(Chained(b)), item', -1)
      BY <1>3, <2>4, Descending
    <2> QED
      BY <2>1, <2>2, <2>5
  <1>11. NodeInv'
    BY <1>0 DEF NodeInv, TakenPcs, InsertPcs, RemovePcs
  <1>12. CountInv'
    <2>1. Kept' = Table!Valid
      BY <1>0, <1>7, <1>8 DEF Kept, Table!Valid
    <2> QED
      BY <1>0, <2>1 DEF CountInv
  <1>13. FoundInv'
    <2>1. \A c \in Keys : Seen(c)' = Seen(c)
      BY <1>0, <1>7, <1>8 DEF Seen, Table!Holds
    <2> QED
      BY <1>0, <2>1, FoundKept
  <1>14. TableTypes'
    <2>1. bucket' \in [Table!Bucket -> [iCount : 0 .. Items, iHead : Table!Item \cup {-1}]]
      <3>1. \A b \in Table!Bucket : /\ Cardinality(Chained(b)) \in 0 .. Items
                                    /\ Table!Last(Chained(b)) \in Table!Item \cup {-1}
        BY <1>3, Countable, EndsType
      <3> QED
        BY <1>1, <3>1
    <2>2. tFreeHead' \in Table!Item \cup {-1}
      BY <1>0, <1>3, EndsType
    <2> QED
      BY <1>0, <1>8, <1>12, <2>1, <2>2, TypesKept DEF TableInv, TableTypes
  <1> QED
    BY <1>9, <1>10, <1>11, <1>12, <1>13, <1>14 DEF TableInv

LEMMA TableStep == TableInv /\ [Table!Next]_Table!vars => TableInv'
  <1> SUFFICES ASSUME TableInv, [Table!Next]_Table!vars PROVE TableInv'
    OBVIOUS
  <1>1. CASE Table!Next
    BY <1>1, StepInsertBegin, StepRemoveBegin, StepInsertAlloc, StepInsertNewHead, StepInsertLink,
       StepInsertBack, StepInsertBucket, StepInsertCopy, StepRemovePos, StepRemoveForward,
       StepRemoveBackward, StepRemoveBucket, StepRemoveClear, StepRemoveFreeHead,
       StepRemoveFreeLink, StepRemoveDone, StepCrash, StepRebuild DEF Table!Next
  <1>2. CASE UNCHANGED Table!vars
    <2>1. UNCHANGED <<tFreeHead, iItem, item, bucket, tpc, node, key, found>>
      BY <1>2 DEF Table!vars
    <2>2. Table!Valid' = Table!Valid /\ FreeItems' = FreeItems
      BY <2>1 DEF Table!Valid, FreeItems
    <2>3. \A b \in Table!Bucket : Members(b)' = Members(b) /\ Own(b)' = Own(b)
      BY <2>1 DEF Members, Own
    <2>4. TableTypes' /\ FreeListInv'
      BY <2>1, <2>2 DEF TableInv, TableTypes, FreeListInv
    <2>5. BucketInv'
      BY <2>1, <2>3 DEF TableInv, BucketInv
    <2>6. NodeInv'
      BY <2>1, <2>2 DEF TableInv, NodeInv
    <2>7. CountInv'
      BY <2>1, <2>2 DEF TableInv, CountInv, Kept
    <2>8. FoundInv'
      BY <2>1, <2>2 DEF TableInv, FoundInv, Seen, Table!Holds
    <2> QED
      BY <2>4, <2>5, <2>6, <2>7, <2>8 DEF TableInv
  <1> QED
    BY <1>1, <1>2

LEMMA TableInvImplies == TableInv => Table!TypeOK /\ Table!ChainInv /\ Table!FindsAll
  <1> SUFFICES ASSUME TableInv PROVE Table!TypeOK /\ Table!ChainInv /\ Table!FindsAll
    OBVIOUS
  <1>1. Table!TypeOK
    BY DEF Table!TypeOK, TableInv, TableTypes, Entries
  <1>2. ASSUME NEW P, NEW cnt \in Nat, NEW hd, List(P, cnt, hd, item, -1)
        PROVE  Table!IsList(P, hd) /\ Cardinality(P) = cnt
    <2>1. PICK f \in Enum(P, cnt) : (cnt > 0 => hd = f[1]) /\ Forward(f, cnt, item) /\ Backward(f, cnt, item, -1)
      BY <1>2 DEF List
    <2>2. Cardinality(P) = cnt /\ f \in [1 .. cnt -> P] /\ \A i \in P : \E j \in 1 .. cnt : f[j] = i
      BY EnumCount, EnumType
    <2> QED
      BY <2>1, <2>2, SameCardinality DEF Table!IsList, Forward, Backward
  <1>3. Table!ChainInv
    <2> SUFFICES ASSUME tpc = "idle"
                 PROVE  /\ Table!IsList(Table!Item \ Table!Valid, tFreeHead) /\ (Table!Valid = Table!Item => tFreeHead = -1)
                        /\ iItem = Cardinality(Table!Valid)
                        /\ \A b \in Table!Bucket :
                              LET V == {i \in Table!Valid : Table!BucketOf(item[i].uCode) = b}
                              IN  bucket[b].iCount = Cardinality(V) /\ Table!IsList(V, bucket[b].iHead)
      BY SameCardinality DEF Table!ChainInv
    <2>1. FreeItems = Table!Item \ Table!Valid
      BY DEF FreeItems, Table!Valid, TakenPcs
    <2>2. PICK cnt \in Nat : List(Table!Item \ Table!Valid, cnt, tFreeHead, item, -1)
      BY <2>1 DEF TableInv, FreeListInv
    <2>3. Table!IsList(Table!Item \ Table!Valid, tFreeHead)
      BY <1>2, <2>2
    <2>4. Table!Valid = Table!Item => tFreeHead = -1
      BY <2>1, FreeFacts
    <2>5. iItem = Cardinality(Table!Valid)
      BY DEF TableInv, CountInv, Kept
    <2>6. ASSUME NEW b \in Table!Bucket
          PROVE  LET V == {i \in Table!Valid : Table!BucketOf(item[i].uCode) = b}
                 IN  bucket[b].iCount = Cardinality(V) /\ Table!IsList(V, bucket[b].iHead)
      <3>1. Members(b) = {i \in Table!Valid : Table!BucketOf(item[i].uCode) = b}
        BY DEF Members, Table!Valid, UnchainedPcs
      <3>2. List(Members(b), bucket[b].iCount, bucket[b].iHead, item, -1) /\ bucket[b].iCount \in Nat
        BY ChainFacts
      <3>3. Table!IsList(Members(b), bucket[b].iHead) /\ Cardinality(Members(b)) = bucket[b].iCount
        BY <1>2, <3>2
      <3> QED
        BY <3>1, <3>3
    <2> QED
      BY <2>3, <2>4, <2>5, <2>6
  <1>4. Table!FindsAll
    <2> SUFFICES ASSUME tpc = "idle", NEW k \in Keys
                 PROVE  found[k] = Table!Count(k) /\ (Table!Find(k) # -1 <=> found[k] > 0)
      BY DEF Table!FindsAll
    <2>1. Seen(k) = {i \in Table!Item : Table!Holds(i, k)} /\ Seen(k) \in SUBSET Table!Item
      BY DEF Seen
    <2>2. found[k] = Cardinality(Seen(k)) /\ Table!Count(k) = Cardinality(Seen(k))
      BY <2>1, SameCardinality DEF TableInv, FoundInv, Table!Count
    <2>3. Cardinality(Seen(k)) \in Nat /\ (Cardinality(Seen(k)) = 0 <=> Seen(k) = {})
      BY <2>1, Countable
    <2>4. Table!Find(k) # -1 <=> Seen(k) # {}
      BY <2>1, FindFacts
    <2> QED
      BY <2>2, <2>3, <2>4
  <1> QED
    BY <1>1, <1>3, <1>4

\* A death counts what is there again: the item in hand may be new.
LEMMA CrashCounts ==
    ASSUME TableInv, Table!Crash, NEW k \in Keys
    PROVE  /\ found'[k] >= found[k]
           /\ found'[k] > found[k] => Code[k] \in {0, Code[key]}
  <1> DEFINE H == {i \in Table!Item : Table!Holds(i, k)}
  <1>1. tpc # "down" /\ found'[k] = Cardinality(H)
    BY SameCardinality DEF Table!Crash, Table!Count
  <1>2. found[k] = Cardinality(Seen(k)) /\ Seen(k) \in SUBSET H /\ H \in SUBSET Table!Item
    BY DEF TableInv, FoundInv, Seen
  <1>3. IsFiniteSet(H) /\ Cardinality(H) \in Nat /\ Cardinality(Seen(k)) \in Nat
    BY <1>2, Countable
  <1>4. Cardinality(Seen(k)) <= Cardinality(H)
    BY <1>2, <1>3, FS_Subset
  <1>5. ASSUME Cardinality(H) > Cardinality(Seen(k)) PROVE Code[k] \in {0, Code[key]}
    <2>1. H # Seen(k)
      <3>1. Cardinality(H) # Cardinality(Seen(k))
        BY <1>3, <1>5
      <3> QED
        BY <3>1
    <2>2. tpc # "idle" /\ node \in Table!Item /\ Table!Holds(node, k)
      <3>1. PICK i \in H : i \notin Seen(k)
        BY <1>2, <2>1
      <3> QED
        BY <3>1 DEF Seen
    <2>3. item[node].fValid /\ item[node].uCode = Code[k] /\ item[node].data = k
      BY <2>2 DEF Table!Holds
    <2>4. tpc \in InsertPcs \cup RemovePcs \cup TakenPcs
      BY <1>1, <2>2 DEF TableInv, TableTypes
    <2>5. tpc \notin TakenPcs
      BY <2>3 DEF TableInv, NodeInv
    <2>6. CASE tpc \in {"newhead", "link"}
      BY <2>3, <2>6 DEF TableInv, NodeInv
    <2>7. CASE tpc \in {"back", "bucket", "copy"}
      BY <2>3, <2>7 DEF TableInv, NodeInv
    <2>8. CASE tpc \in RemovePcs
      BY <2>3, <2>8 DEF TableInv, NodeInv
    <2> QED
      BY <2>4, <2>5, <2>6, <2>7, <2>8 DEF InsertPcs, TakenPcs
  <1> HIDE DEF H
  <1> QED
    BY <1>1, <1>2, <1>3, <1>4, <1>5

\* The table keeps its types, and between two calls its lists are whole and every key
\* that is in it is found.
THEOREM TableSafe == Table!Spec => [](Table!TypeOK /\ Table!ChainInv /\ Table!FindsAll)
  BY TableInit, TableStep, TableInvImplies, PTL DEF Table!Spec
-----------------------------------------------------------------------------
(***************************************************************************)
(* The log file.  The files of a stamp hold its messages in the order of   *)
(* their numbers, from the number behind the one in use to that one.       *)
(***************************************************************************)
\* What a file may hold when m messages were written.
Content(m) == [msgs : SUBSET (0 .. m - 1), size : Nat, mtime : 0 .. clock]

\* Bounded, for one size.
Fits(z) == z = 0 \/ \E k \in Messages : z <= k.size \/ z <= conf.limit + (k.size - k.counted)

Mapping(f) == f = [x \in DOMAIN f |-> f[x]]

\* Files named as the device says, under stamps up to s, with messages of their stamp.
Sound(f, s, m, b) ==
    /\ Mapping(f)
    /\ \A x \in DOMAIN f :
          /\ x \in Nat \X Nat /\ x[1] <= s /\ (x[2] = 0 \/ x[2] < conf.max)
          /\ f[x] \in Content(m) /\ Fits(f[x].size)
          /\ \A k \in f[x].msgs : b[k].stamp = x[1]

\* File r of stamp s was written last of the stamp's.
Newest(f, s, r) ==
    /\ <<s, r>> \in DOMAIN f
    /\ \A q \in Nat : <<s, q>> \in DOMAIN f => f[<<s, q>>].mtime <= f[<<s, r>>].mtime

\* The age of number q when r is the number in use: the numbers behind r first.
Rank(q, r) == IF q <= r THEN q + conf.max ELSE q

Behind(q, p, r) == IF conf.stick THEN p < q ELSE Rank(q, r) < Rank(p, r)

\* The stamp's files hold its messages in the order of the numbers.
Ordered(f, s, r) ==
    \A q, p \in Nat :
        <<s, q>> \in DOMAIN f /\ <<s, p>> \in DOMAIN f /\ Behind(q, p, r) =>
            \A a \in f[<<s, q>>].msgs, k \in f[<<s, p>>].msgs : a < k

\* OldestGo, for files f, m messages with the stamps in b, and the lost ones l.
OldGo(f, m, b, l) ==
    \A x \in DOMAIN f : \A a \in f[x].msgs : \A k \in 0 .. m - 1 :
        a < k /\ b[a].stamp = b[k].stamp => k \in l \/ \E y \in DOMAIN f : k \in f[y].msgs

\* The stamp of the m-th period.
PeriodStamp(m) == (m * conf.period) \div conf.unit

LogTypes ==
    /\ conf \in Devices /\ clock \in 0 .. MaxSecond /\ n \in 0 .. MaxMsg
    /\ iTail \in Nat /\ tLastMsg \in 0 .. clock /\ lost \subseteq 0 .. n - 1
    /\ born \in [0 .. n - 1 -> [at : Int, stamp : Int]]
    /\ iCurRotate = rotate /\ rotate \in Nat /\ (rotate = 0 \/ rotate < conf.max)
    /\ (conf.stick => rotate = 0)
    /\ \/ stamp = -1 /\ ~up /\ file = [x \in {} |-> Log!Empty]
       \/ stamp \in Nat /\ stamp <= Log!Stamp(clock) /\ Newest(file, stamp, rotate)

OpenInv == up =>
    LET open == file[<<stamp, rotate>>]
    IN  /\ iTail = open.size /\ synced \in Content(n) /\ Fits(synced.size)
        /\ synced.msgs \subseteq open.msgs /\ synced.mtime = open.mtime

PeriodInv ==
    conf.period > 0 =>
      /\ Log!PeriodLag
      /\ up => LET d == tLastMsg \div conf.period
               IN  /\ stamp \in {PeriodStamp(d), PeriodStamp(d + 1)}
                   /\ tLastMsg = d * conf.period => stamp = PeriodStamp(d)

LogInv ==
    /\ LogTypes /\ Sound(file, stamp, n, born) /\ OpenInv /\ PeriodInv
    /\ ~tied => Ordered(file, stamp, rotate) /\ OldGo(file, n, born, lost)
-----------------------------------------------------------------------------
(***************************************************************************)
(* Times and numbers.                                                      *)
(***************************************************************************)
LEMMA Greatest ==
    ASSUME NEW P \in SUBSET Nat, P # {}, NEW B \in Nat, \A y \in P : y <= B
    PROVE  \E x \in P : \A y \in P : y <= x
  <1> DEFINE Q == {B - y : y \in P}
  <1>0. \A y \in P : y \in Nat /\ y <= B
    OBVIOUS
  <1>1. Q \in SUBSET Nat /\ Q # {}
    <2>1. Q \in SUBSET Nat
      BY <1>0
    <2>2. PICK y \in P : TRUE
      OBVIOUS
    <2>3. B - y \in Q
      OBVIOUS
    <2> QED
      BY <2>1, <2>3
  <1>2. \A y \in P : B - y \in Q
    OBVIOUS
  <1>3. \A q \in Q : \E x \in P : q = B - x
    OBVIOUS
  <1> HIDE DEF Q
  <1>4. PICK q \in Q : \A y \in Q : q <= y
    BY <1>1, Smallest
  <1>5. PICK x \in P : q = B - x
    BY <1>3
  <1>6. \A y \in P : B - x <= B - y
    BY <1>2, <1>4, <1>5
  <1> QED
    BY <1>6
LEMMA ConfType ==
    ASSUME conf \in Devices
    PROVE  /\ conf.max \in Nat /\ conf.stick \in BOOLEAN /\ conf.period \in Nat
           /\ conf.limit \in Nat /\ conf.unit \in Nat /\ conf.unit > 0
  BY LogAssumption

LEMMA DivBounds ==
    ASSUME NEW x \in Int, NEW u \in Nat, u > 0
    PROVE  /\ x \div u \in Int
           /\ (x \div u) * u <= x /\ x < (x \div u) * u + u
  OBVIOUS

LEMMA DivIs ==
    ASSUME NEW x \in Int, NEW u \in Nat, u > 0, NEW d \in Int, d * u <= x, x < (d + 1) * u
    PROVE  x \div u = d
  OBVIOUS

LEMMA DivMono ==
    ASSUME NEW x \in Int, NEW y \in Int, NEW u \in Nat, u > 0, x <= y
    PROVE  x \div u <= y \div u
  OBVIOUS

LEMMA ModSmall ==
    ASSUME NEW x \in Nat, NEW u \in Nat, x < u
    PROVE  x % u = x
  OBVIOUS

LEMMA ModWraps == ASSUME NEW u \in Nat, u > 0 PROVE u % u = 0
  OBVIOUS

LEMMA MulMono ==
    ASSUME NEW x \in Int, NEW y \in Int, NEW u \in Nat, x <= y
    PROVE  x * u \in Int /\ y * u \in Int /\ x * u <= y * u
  <1>1. (y - x) * u >= 0
    OBVIOUS
  <1> QED
    BY <1>1

\* A time on the border of a period has the period's stamp, any other the next one's.
LEMMA StampOf ==
    ASSUME conf \in Devices, conf.period > 0, NEW t \in Int, NEW d \in Int, d = t \div conf.period
    PROVE  Log!Stamp(t) = PeriodStamp(IF t = d * conf.period THEN d ELSE d + 1)
  <1> DEFINE p == conf.period
             c == (t + p - 1) \div p
  <1>1. p \in Nat /\ p > 0
    BY ConfType
  <1>2. d \in Int /\ d * p <= t /\ t < d * p + p
    BY <1>1, DivBounds DEF p
  <1>3. Log!Stamp(t) = (c * p) \div conf.unit
    BY DEF Log!Stamp
  <1>4. (d + 1) * p = d * p + p /\ (d + 2) * p = d * p + p + p /\ d * p \in Int
    BY <1>1, <1>2
  <1> HIDE DEF p
  <1>5. CASE t = d * p
    <2>1. d * p <= t + p - 1 /\ t + p - 1 < (d + 1) * p /\ t + p - 1 \in Int
      BY <1>1, <1>2, <1>4, <1>5
    <2>2. c = d
      BY <1>1, <1>2, <2>1, DivIs
    <2> QED
      BY <1>3, <1>5, <2>2 DEF PeriodStamp, p
  <1>6. CASE t # d * p
    <2>1. (d + 1) * p <= t + p - 1 /\ t + p - 1 < (d + 1 + 1) * p
      BY <1>1, <1>2, <1>4, <1>6
    <2>2. c = d + 1
      BY <1>1, <1>2, <2>1, DivIs
    <2> QED
      BY <1>3, <1>6, <2>2 DEF PeriodStamp, p
  <1> QED
    BY <1>5, <1>6

LEMMA StampMono ==
    ASSUME conf \in Devices, NEW t \in Int, NEW w \in Int, t <= w
    PROVE  Log!Stamp(t) \in Int /\ Log!Stamp(t) <= Log!Stamp(w)
  <1> DEFINE p == conf.period
             Round(x) == IF p > 0 THEN ((x + p - 1) \div p) * p ELSE x
  <1>1. p \in Nat /\ conf.unit \in Nat /\ conf.unit > 0
    BY ConfType
  <1>2. Round(t) \in Int /\ Round(w) \in Int /\ Round(t) <= Round(w)
    <2>1. CASE p > 0
      <3> DEFINE a == (t + p - 1) \div p
                 b == (w + p - 1) \div p
      <3>1. a <= b /\ a \in Int /\ b \in Int
        BY <1>1, <2>1, DivMono
      <3> HIDE DEF a, b
      <3>2. a * p \in Int /\ b * p \in Int /\ a * p <= b * p
        BY <1>1, <3>1, MulMono
      <3> QED
        BY <2>1, <3>2 DEF a, b
    <2>2. CASE ~ (p > 0)
      BY <2>2
    <2> QED
      BY <2>1, <2>2
  <1>3. Log!Stamp(t) = Round(t) \div conf.unit /\ Log!Stamp(w) = Round(w) \div conf.unit
    BY DEF Log!Stamp
  <1> HIDE DEF Round
  <1> QED
    BY <1>1, <1>2, <1>3, DivMono, DivBounds

LEMMA StampType ==
    ASSUME conf \in Devices, NEW t \in 0 .. MaxSecond
    PROVE  Log!Stamp(t) \in 0 .. MaxSecond + conf.period
  <1> DEFINE p == conf.period
             Round(x) == IF p > 0 THEN ((x + p - 1) \div p) * p ELSE x
             z == Round(t)
  <1>1. p \in Nat /\ conf.unit \in Nat /\ conf.unit > 0 /\ MaxSecond \in Nat
    BY ConfType, LogAssumption
  <1>2. z \in Int /\ 0 <= z /\ z <= MaxSecond + p
    <2>1. CASE p > 0
      <3> DEFINE a == (t + p - 1) \div p
      <3>1. a \in Int /\ a * p <= t + p - 1
        BY <1>1, <2>1, DivBounds
      <3>2. a >= 0
        BY <1>1, <2>1
      <3> HIDE DEF a
      <3>3. a * p >= 0 /\ a * p \in Int
        BY <1>1, <3>1, <3>2
      <3> QED
        BY <1>1, <2>1, <3>1, <3>3 DEF a
    <2>2. CASE ~ (p > 0)
      BY <1>1, <2>2
    <2> QED
      BY <2>1, <2>2
  <1>3. Log!Stamp(t) = z \div conf.unit
    BY DEF Log!Stamp
  <1> HIDE DEF z
  <1> DEFINE u == conf.unit
             e == z \div u
  <1>4. e \in Int /\ e * u <= z
    BY <1>1, <1>2, DivBounds
  <1>5. e >= 0
    BY <1>1, <1>2
  <1> HIDE DEF e, u
  <1>6. u \in Nat /\ u > 0
    BY <1>1 DEF u
  <1>7. e * u >= e
    <2>1. e * (u - 1) >= 0 /\ e * (u - 1) \in Int
      BY <1>4, <1>5, <1>6
    <2>2. e * u = e * (u - 1) + e
      BY <1>4, <1>6
    <2> QED
      BY <1>4, <2>1, <2>2
  <1> QED
    BY <1>1, <1>2, <1>3, <1>4, <1>5, <1>7 DEF e, u
-----------------------------------------------------------------------------
(***************************************************************************)
(* What one operation on the files keeps.                                  *)
(***************************************************************************)
LEMMA PutFacts ==
    ASSUME NEW f, NEW name, NEW c
    PROVE  /\ DOMAIN Log!Put(f, name, c) = DOMAIN f \cup {name}
           /\ Log!Put(f, name, c)[name] = c
           /\ \A x \in DOMAIN f : x # name => Log!Put(f, name, c)[x] = f[x]
           /\ Mapping(Log!Put(f, name, c))
  BY DEF Log!Put, Mapping

\* A file is added or changed, under the latest stamp.
LEMMA PutSound ==
    ASSUME NEW f, NEW s \in Int, NEW m \in Nat, NEW b, Sound(f, s, m, b),
           NEW t \in Nat, s <= t, NEW q \in Nat, q = 0 \/ q < conf.max,
           NEW c \in Content(m), Fits(c.size), \A k \in c.msgs : b[k].stamp = t
    PROVE  Sound(Log!Put(f, <<t, q>>, c), t, m, b)
  <1> DEFINE name == <<t, q>>
             g == Log!Put(f, name, c)
  <1>1. /\ DOMAIN g = DOMAIN f \cup {name} /\ g[name] = c
        /\ \A x \in DOMAIN f : x # name => g[x] = f[x]
        /\ Mapping(g)
    BY DEF Log!Put, Mapping
  <1>2. name \in Nat \X Nat /\ name[1] = t /\ name[2] = q
    OBVIOUS
  <1> HIDE DEF g, name
  <1>3. ASSUME NEW x \in DOMAIN g
        PROVE  /\ x \in Nat \X Nat /\ x[1] <= t /\ (x[2] = 0 \/ x[2] < conf.max)
               /\ g[x] \in Content(m) /\ Fits(g[x].size)
               /\ \A k \in g[x].msgs : b[k].stamp = x[1]
    <2>1. CASE x = name
      BY <1>1, <1>2, <2>1
    <2>2. CASE x # name
      <3>1. x \in DOMAIN f /\ g[x] = f[x]
        BY <1>1, <2>2
      <3>2. /\ x \in Nat \X Nat /\ x[1] <= s /\ (x[2] = 0 \/ x[2] < conf.max)
            /\ f[x] \in Content(m) /\ Fits(f[x].size)
            /\ \A k \in f[x].msgs : b[k].stamp = x[1]
        BY <3>1 DEF Sound
      <3>3. x[1] \in Nat
        BY <3>2
      <3> QED
        BY <3>1, <3>2, <3>3
    <2> QED
      BY <2>1, <2>2
  <1> QED
    BY <1>1, <1>3 DEF Sound, g, name

\* One more message is known.
LEMMA GrowSound ==
    ASSUME NEW f, NEW s, NEW m \in Nat, NEW b, Sound(f, s, m, b),
           DOMAIN b = 0 .. m - 1, NEW e
    PROVE  Sound(f, s, m + 1, Log!Put(b, m, e))
  <1> DEFINE b1 == Log!Put(b, m, e)
  <1>1. \A k \in 0 .. m - 1 : b1[k] = b[k]
    BY DEF Log!Put
  <1>2. Content(m) \subseteq Content(m + 1)
    <2>1. 0 .. m - 1 \subseteq 0 .. m + 1 - 1
      OBVIOUS
    <2> QED
      BY <2>1 DEF Content
  <1>3. \A c \in Content(m) : c.msgs \subseteq 0 .. m - 1
    BY DEF Content
  <1> HIDE DEF b1
  <1>4. ASSUME NEW x \in DOMAIN f
        PROVE  f[x] \in Content(m + 1) /\ \A k \in f[x].msgs : b1[k].stamp = x[1]
    BY <1>1, <1>2, <1>3 DEF Sound
  <1>5. Sound(f, s, m + 1, b1)
    BY <1>4 DEF Sound
  <1> QED
    BY <1>5 DEF b1

LEMMA SoundFile ==
    ASSUME NEW f, NEW s, NEW m \in Nat, NEW b, Sound(f, s, m, b), NEW x \in DOMAIN f
    PROVE  /\ f[x].msgs \subseteq 0 .. m - 1 /\ f[x].size \in Nat /\ f[x].mtime \in 0 .. clock
           /\ Fits(f[x].size) /\ \A k \in f[x].msgs : b[k].stamp = x[1]
           /\ x \in Nat \X Nat /\ x = <<x[1], x[2]>> /\ x[1] \in Nat /\ x[2] \in Nat /\ x[1] <= s
           /\ (x[2] = 0 \/ x[2] < conf.max)
  <1>1. /\ f[x] \in Content(m) /\ Fits(f[x].size) /\ x \in Nat \X Nat
        /\ \A k \in f[x].msgs : b[k].stamp = x[1]
        /\ x[1] <= s /\ (x[2] = 0 \/ x[2] < conf.max)
    BY DEF Sound
  <1>2. f[x] \in [msgs : SUBSET (0 .. m - 1), size : Nat, mtime : 0 .. clock]
    BY <1>1 DEF Content
  <1>3. /\ f[x].msgs \subseteq 0 .. m - 1 /\ f[x].size \in Nat /\ f[x].mtime \in 0 .. clock
    BY <1>2
  <1>4. x = <<x[1], x[2]>> /\ x[1] \in Nat /\ x[2] \in Nat
    BY <1>1
  <1> QED
    BY <1>1, <1>3, <1>4

LEMMA SoundNumber ==
    ASSUME NEW f, NEW s, NEW m \in Nat, NEW b, Sound(f, s, m, b), NEW t, NEW q, <<t, q>> \in DOMAIN f
    PROVE  q \in Nat /\ (q = 0 \/ q < conf.max)
  <1> DEFINE x == <<t, q>>
  <1>1. x \in DOMAIN f /\ x[2] = q
    OBVIOUS
  <1> HIDE DEF x
  <1>2. x[2] \in Nat /\ (x[2] = 0 \/ x[2] < conf.max)
    BY <1>1, SoundFile
  <1> QED
    BY <1>1, <1>2

\* A file begins anew: what goes is older than all that is left of the stamp.
LEMMA ClearOldGo ==
    ASSUME NEW f, NEW s \in Int, NEW m \in Nat, NEW b, NEW l, Sound(f, s, m, b), OldGo(f, m, b, l),
           NEW name, NEW c, c.msgs = {},
           name \in DOMAIN f => \A x \in DOMAIN f : x # name /\ x[1] = name[1] =>
                                   \A k \in f[name].msgs, a \in f[x].msgs : k < a
    PROVE  OldGo(Log!Put(f, name, c), m, b, l)
  <1> DEFINE g == Log!Put(f, name, c)
  <1>1. /\ DOMAIN g = DOMAIN f \cup {name} /\ g[name] = c
        /\ \A x \in DOMAIN f : x # name => g[x] = f[x]
    BY DEF Log!Put
  <1> HIDE DEF g
  <1>2. ASSUME NEW x \in DOMAIN g, NEW a \in g[x].msgs, NEW k \in 0 .. m - 1,
               a < k, b[a].stamp = b[k].stamp
        PROVE  k \in l \/ \E y \in DOMAIN g : k \in g[y].msgs
    <2>1. x # name /\ x \in DOMAIN f /\ g[x] = f[x]
      BY <1>1, <1>2
    <2>2. k \in l \/ \E y \in DOMAIN f : k \in f[y].msgs
      BY <1>2, <2>1 DEF OldGo
    <2>3. ASSUME NEW y \in DOMAIN f, k \in f[y].msgs
          PROVE  \E z \in DOMAIN g : k \in g[z].msgs
      <3>1. CASE y = name
        <4>1. b[a].stamp = x[1] /\ b[k].stamp = name[1]
          BY <2>1, <2>3, <3>1 DEF Sound
        <4>2. k < a
          BY <1>2, <2>1, <2>3, <3>1, <4>1
        <4>3. a \in 0 .. m - 1
          BY <2>1, SoundFile
        <4> QED
          BY <1>2, <4>2, <4>3
      <3>2. CASE y # name
        BY <1>1, <2>3, <3>2
      <3> QED
        BY <3>1, <3>2
    <2> QED
      BY <2>2, <2>3
  <1>3. OldGo(g, m, b, l)
    BY <1>2 DEF OldGo
  <1> QED
    BY <1>3 DEF g

\* A message is added.
LEMMA RecordOldGo ==
    ASSUME NEW f, NEW s \in Int, NEW m \in Nat, NEW b, NEW l, Sound(f, s, m, b), OldGo(f, m, b, l),
           DOMAIN b = 0 .. m - 1, NEW e,
           NEW name \in DOMAIN f, NEW c, c.msgs = f[name].msgs \cup {m}
    PROVE  OldGo(Log!Put(f, name, c), m + 1, Log!Put(b, m, e), l)
  <1> DEFINE g == Log!Put(f, name, c)
             b1 == Log!Put(b, m, e)
  <1>1. /\ DOMAIN g = DOMAIN f \cup {name} /\ g[name] = c
        /\ \A x \in DOMAIN f : x # name => g[x] = f[x]
    BY DEF Log!Put
  <1>2. \A k \in 0 .. m - 1 : b1[k] = b[k]
    BY DEF Log!Put
  <1> HIDE DEF g, b1
  <1>3. \A x \in DOMAIN f : f[x].msgs \subseteq g[x].msgs
    BY <1>1
  <1>4. DOMAIN g = DOMAIN f
    BY <1>1
  <1>5. \A x \in DOMAIN g : \A a \in g[x].msgs : a \in f[x].msgs \/ a = m
    BY <1>1
  <1>6. ASSUME NEW x \in DOMAIN g, NEW a \in g[x].msgs, NEW k \in 0 .. m,
               a < k, b1[a].stamp = b1[k].stamp
        PROVE  k \in l \/ \E y \in DOMAIN g : k \in g[y].msgs
    <2>1. CASE k = m
      BY <1>1, <2>1
    <2>2. CASE k # m
      <3>1. k \in 0 .. m - 1 /\ a # m
        BY <1>6, <2>2
      <3>2. a \in f[x].msgs /\ x \in DOMAIN f
        BY <1>4, <1>5, <3>1
      <3>3. a \in 0 .. m - 1
        BY <3>2, SoundFile
      <3>4. b[a].stamp = b[k].stamp
        BY <1>2, <1>6, <3>1, <3>3
      <3>5. k \in l \/ \E y \in DOMAIN f : k \in f[y].msgs
        BY <1>6, <3>1, <3>2, <3>4 DEF OldGo
      <3> QED
        BY <1>3, <1>4, <3>5
    <2> QED
      BY <2>1, <2>2
  <1>7. m + 1 - 1 = m
    OBVIOUS
  <1>8. OldGo(g, m + 1, b1, l)
    BY <1>6, <1>7 DEF OldGo
  <1> QED
    BY <1>8 DEF g, b1

\* The file in use is in front of no other.
LEMMA RecordOrdered ==
    ASSUME conf \in Devices, NEW f, NEW s \in Nat, NEW m \in Nat, NEW b, Sound(f, s, m, b),
           NEW r \in Nat, Ordered(f, s, r), <<s, r>> \in DOMAIN f, conf.stick => r = 0,
           NEW c, c.msgs = f[<<s, r>>].msgs \cup {m}
    PROVE  Ordered(Log!Put(f, <<s, r>>, c), s, r)
  <1> DEFINE name == <<s, r>>
             g == Log!Put(f, name, c)
  <1>1. /\ DOMAIN g = DOMAIN f /\ g[name] = c
        /\ \A x \in DOMAIN f : x # name => g[x] = f[x]
    BY DEF Log!Put
  <1>3. \A x \in DOMAIN f : f[x].msgs \subseteq 0 .. m - 1
    BY SoundFile
  <1>4. \A x \in DOMAIN g : g[x].msgs \subseteq Int
    BY <1>1, <1>3
  <1> HIDE DEF g
  <1>5. ASSUME NEW q \in Nat, NEW p \in Nat, <<s, q>> \in DOMAIN g, <<s, p>> \in DOMAIN g,
               Behind(q, p, r), NEW a \in g[<<s, q>>].msgs, NEW k \in g[<<s, p>>].msgs
        PROVE  a < k
    <2>1. q # r
      <3>1. SUFFICES ASSUME q = r PROVE FALSE
        OBVIOUS
      <3>2. conf.max \in Nat /\ (p < conf.max \/ p = 0)
        <4>1. <<s, p>> \in DOMAIN f
          BY <1>1, <1>5
        <4> QED
          BY <4>1, SoundNumber, ConfType
      <3>3. CASE conf.stick
        BY <1>5, <3>1, <3>3 DEF Behind
      <3>4. CASE ~conf.stick
        <4>1. Rank(r, r) = r + conf.max /\ Rank(r, r) < Rank(p, r)
          BY <1>5, <3>1, <3>4 DEF Behind, Rank
        <4>2. Rank(p, r) \in Int /\ Rank(p, r) <= r + conf.max
          BY <3>2 DEF Rank
        <4> QED
          BY <3>2, <4>1, <4>2
      <3> QED
        BY <3>3, <3>4
    <2>2. a \in f[<<s, q>>].msgs
      BY <1>1, <1>5, <2>1
    <2>3. a \in 0 .. m - 1
      BY <1>1, <1>3, <1>5, <2>2
    <2>4. CASE k = m
      BY <2>3, <2>4
    <2>5. CASE k # m
      <3>1. k \in f[<<s, p>>].msgs
        BY <1>1, <1>5, <2>5
      <3> QED
        BY <1>1, <1>5, <2>2, <3>1 DEF Ordered
    <2> QED
      BY <2>4, <2>5
  <1>6. Ordered(g, s, r)
    BY <1>5 DEF Ordered
  <1> QED
    BY <1>6 DEF g

\* The number after the last one in a ring is the oldest.
LEMMA ClearRing ==
    ASSUME conf \in Devices, NEW f, NEW s \in Nat, NEW m \in Nat, NEW b, Sound(f, s, m, b),
           NEW r \in Nat, Ordered(f, s, r), r = 0 \/ r < conf.max,
           conf.stick => conf.max <= 1, NEW c, c.msgs = {},
           NEW r1 \in Nat, r1 = IF r + 1 < conf.max THEN r + 1 ELSE 0
    PROVE  /\ Ordered(Log!Put(f, <<s, r1>>, c), s, r1)
           /\ <<s, r1>> \in DOMAIN f => \A x \in DOMAIN f : x # <<s, r1>> /\ x[1] = s =>
                 \A k \in f[<<s, r1>>].msgs, a \in f[x].msgs : k < a
  <1> DEFINE name == <<s, r1>>
             g == Log!Put(f, name, c)
  <1>0. conf.max \in Nat
    BY ConfType
  <1>1. /\ DOMAIN g = DOMAIN f \cup {name} /\ g[name] = c
        /\ \A x \in DOMAIN f : x # name => g[x] = f[x]
    BY DEF Log!Put
  <1>2. \A q \in Nat : <<s, q>> \in DOMAIN f => q = 0 \/ q < conf.max
    BY SoundNumber
  <1> HIDE DEF g
  <1>3. \A q \in Nat : <<s, q>> \in DOMAIN f /\ q # r1 => conf.max > 1 /\ ~conf.stick /\ r < conf.max
    BY <1>0, <1>2
  <1>4. ASSUME NEW q \in Nat, NEW p \in Nat, <<s, q>> \in DOMAIN g, <<s, p>> \in DOMAIN g,
               Behind(q, p, r1), NEW a \in g[<<s, q>>].msgs, NEW k \in g[<<s, p>>].msgs
        PROVE  a < k
    <2>1. q # r1 /\ p # r1
      BY <1>1, <1>4
    <2>2. <<s, q>> \in DOMAIN f /\ <<s, p>> \in DOMAIN f /\ a \in f[<<s, q>>].msgs
          /\ k \in f[<<s, p>>].msgs
      BY <1>1, <1>4, <2>1
    <2>3. Behind(q, p, r)
      BY <1>0, <1>2, <1>3, <1>4, <2>1, <2>2 DEF Behind, Rank
    <2> QED
      BY <2>2, <2>3 DEF Ordered
  <1>5. Ordered(g, s, r1)
    BY <1>4 DEF Ordered
  <1>6. ASSUME name \in DOMAIN f, NEW x \in DOMAIN f, x # name, x[1] = s,
               NEW k \in f[name].msgs, NEW a \in f[x].msgs
        PROVE  k < a
    <2>1. x = <<s, x[2]>> /\ x[2] \in Nat /\ x[2] # r1
      BY <1>6, SoundFile
    <2>2. Behind(r1, x[2], r)
      BY <1>0, <1>2, <1>3, <2>1 DEF Behind, Rank
    <2> QED
      BY <1>6, <2>1, <2>2 DEF Ordered
  <1> QED
    BY <1>5, <1>6 DEF g

\* The numbers that move up.
Moved(f, s) == {q \in 0 .. conf.max - 2 : <<s, q>> \in DOMAIN f}

\* Where the files of h come from, when those of period s have been moved.
MovedFrom(h, f, s) ==
    \A x \in DOMAIN h :
        \/ x[1] # s /\ x \in DOMAIN f /\ h[x] = f[x]
        \/ \E q \in Moved(f, s) : x = <<s, q + 1>> /\ h[x] = f[<<s, q>>]
        \/ /\ x = <<s, conf.max - 1>> /\ x \in DOMAIN f /\ h[x] = f[x]
           /\ conf.max - 2 \notin Moved(f, s)

\* Where the files of period s in f have gone in h.
MovedTo(f, h, s) ==
    \A x \in DOMAIN f : x[1] = s =>
        \/ \E q \in Moved(f, s) : x = <<s, q>>
        \/ /\ x = <<s, conf.max - 1>>
           /\ conf.max - 2 \notin Moved(f, s) => x \in DOMAIN h /\ h[x] = f[x]

\* What the shifted files are, and where the files go.
LEMMA ShiftedFacts ==
    ASSUME conf \in Devices, NEW f, NEW s \in Nat, NEW m \in Nat, NEW b, Sound(f, s, m, b),
           conf.max > 1
    PROVE  /\ Mapping(Log!Shifted(f, s))
           /\ MovedFrom(Log!Shifted(f, s), f, s)
           /\ \A x \in DOMAIN f : x[1] # s =>
                x \in DOMAIN Log!Shifted(f, s) /\ Log!Shifted(f, s)[x] = f[x]
           /\ \A q \in Moved(f, s) :
                <<s, q + 1>> \in DOMAIN Log!Shifted(f, s) /\ Log!Shifted(f, s)[<<s, q + 1>>] = f[<<s, q>>]
           /\ MovedTo(f, Log!Shifted(f, s), s)
  <1> DEFINE moved == {q \in 0 .. conf.max - 2 : <<s, q>> \in DOMAIN f}
             names == (DOMAIN f \ {<<s, q>> : q \in moved}) \cup {<<s, q + 1>> : q \in moved}
             g == [x \in names |-> IF x[1] = s /\ x[2] - 1 \in moved THEN f[<<s, x[2] - 1>>]
                                   ELSE f[x]]
  <1>0. conf.max \in Nat
    BY ConfType
  <1>1. Log!Shifted(f, s) = g /\ DOMAIN g = names
    BY DEF Log!Shifted
  <1>2. \A x \in DOMAIN f : x = <<x[1], x[2]>> /\ x[1] \in Nat /\ x[2] \in Nat
                            /\ (x[2] = 0 \/ x[2] < conf.max)
    BY SoundFile
  <1>3. \A q \in moved : q \in Nat /\ q <= conf.max - 2 /\ <<s, q>> \in DOMAIN f
    BY <1>0
  <1>4. \A x \in DOMAIN f : x[1] # s => x \in names /\ g[x] = f[x]
    BY <1>2
  <1>5. \A q \in moved : <<s, q + 1>> \in names /\ g[<<s, q + 1>>] = f[<<s, q>>]
    <2> SUFFICES ASSUME NEW q \in moved
                 PROVE  <<s, q + 1>> \in names /\ g[<<s, q + 1>>] = f[<<s, q>>]
      OBVIOUS
    <2> DEFINE x == <<s, q + 1>>
    <2>1. x \in names /\ x[1] = s /\ x[2] - 1 = q
      BY <1>3
    <2> HIDE DEF x, moved, names
    <2>2. g[x] = f[<<s, q>>]
      BY <2>1
    <2> QED
      BY <2>1, <2>2 DEF x
  <1>6. ASSUME NEW x \in DOMAIN f, x[1] = s, \A q \in moved : x # <<s, q>>
        PROVE  x = <<s, conf.max - 1>> /\ x \in names /\ x[2] = conf.max - 1
    <2>1. x = <<s, x[2]>> /\ x[2] \in Nat /\ (x[2] = 0 \/ x[2] < conf.max)
      BY <1>2, <1>6
    <2>2. x[2] \notin moved
      BY <1>6, <2>1
    <2>3. ~ (x[2] \in 0 .. conf.max - 2)
      BY <1>6, <2>1, <2>2
    <2>4. x[2] = conf.max - 1
      BY <1>0, <2>1, <2>3
    <2> HIDE DEF moved
    <2> QED
      BY <1>6, <2>1, <2>4
  <1>7. \A x \in DOMAIN f : x[1] = s =>
          \/ \E q \in moved : x = <<s, q>>
          \/ x = <<s, conf.max - 1>> /\ (conf.max - 2 \notin moved => x \in names /\ g[x] = f[x])
    <2> SUFFICES ASSUME NEW x \in DOMAIN f, x[1] = s, \A q \in moved : x # <<s, q>>
                 PROVE  x = <<s, conf.max - 1>> /\ (conf.max - 2 \notin moved =>
                                                       x \in names /\ g[x] = f[x])
      OBVIOUS
    <2>1. x = <<s, conf.max - 1>> /\ x \in names /\ x[2] = conf.max - 1
      BY <1>6
    <2>2. x[2] - 1 = conf.max - 2
      BY <1>0, <2>1
    <2>3. conf.max - 2 \notin moved => g[x] = f[x]
      BY <2>1, <2>2
    <2> QED
      BY <2>1, <2>3
  <1>8. ASSUME NEW x \in names
        PROVE  \/ x[1] # s /\ x \in DOMAIN f /\ g[x] = f[x]
               \/ \E q \in moved : x = <<s, q + 1>> /\ g[x] = f[<<s, q>>]
               \/ /\ x = <<s, conf.max - 1>> /\ x \in DOMAIN f /\ g[x] = f[x]
                  /\ conf.max - 2 \notin moved
    <2>1. CASE \E q \in moved : x = <<s, q + 1>>
      BY <1>5, <2>1
    <2>2. CASE ~ \E q \in moved : x = <<s, q + 1>>
      <3>1. x \in DOMAIN f /\ \A q \in moved : x # <<s, q>>
        BY <2>2
      <3>2. CASE x[1] # s
        BY <1>4, <3>1, <3>2
      <3>3. CASE x[1] = s
        <4>1. x = <<s, conf.max - 1>>
          BY <1>6, <3>1, <3>3
        <4>2. conf.max - 2 \notin moved
          <5>1. conf.max - 1 = (conf.max - 2) + 1
            BY <1>0
          <5> QED
            BY <2>2, <4>1, <5>1
        <4>3. g[x] = f[x]
          BY <1>7, <3>1, <3>3, <4>2
        <4> QED
          BY <3>1, <4>1, <4>2, <4>3
      <3> QED
        BY <3>2, <3>3
    <2> QED
      BY <2>1, <2>2
  <1>9. Mapping(g)
    BY DEF Mapping
  <1>10. moved = Moved(f, s)
    BY DEF Moved
  <1> HIDE DEF g, names, moved
  <1>11. DOMAIN g = names
    BY <1>1
  <1>12. MovedFrom(g, f, s)
    BY <1>8, <1>10, <1>11 DEF MovedFrom
  <1>13. MovedTo(f, g, s)
    BY <1>7, <1>10, <1>11 DEF MovedTo
  <1> QED
    BY <1>1, <1>4, <1>5, <1>9, <1>10, <1>11, <1>12, <1>13

\* The files move up: the last one goes, if there is no gap.
LEMMA ShiftSound ==
    ASSUME conf \in Devices, NEW f, NEW s \in Nat, NEW m \in Nat, NEW b, Sound(f, s, m, b),
           conf.max > 1
    PROVE  Sound(Log!Shifted(f, s), s, m, b)
  <1> DEFINE g == Log!Shifted(f, s)
             moved == Moved(f, s)
  <1>0. conf.max \in Nat
    BY ConfType
  <1>1. \A x \in DOMAIN Log!Shifted(f, s) :
          \/ x[1] # s /\ x \in DOMAIN f /\ Log!Shifted(f, s)[x] = f[x]
          \/ \E q \in Moved(f, s) : x = <<s, q + 1>> /\ Log!Shifted(f, s)[x] = f[<<s, q>>]
          \/ /\ x = <<s, conf.max - 1>> /\ x \in DOMAIN f /\ Log!Shifted(f, s)[x] = f[x]
             /\ conf.max - 2 \notin Moved(f, s)
    <2>1. MovedFrom(Log!Shifted(f, s), f, s)
      BY ShiftedFacts
    <2> QED
      BY <2>1 DEF MovedFrom
  <1>5. Mapping(g)
    BY ShiftedFacts
  <1>2. \A q \in moved : q + 1 \in Nat /\ q + 1 < conf.max /\ <<s, q>> \in DOMAIN f
    BY <1>0 DEF Moved
  <1> HIDE DEF g, moved
  <1>3. ASSUME NEW x \in DOMAIN g
        PROVE  /\ x \in Nat \X Nat /\ x[1] <= s /\ (x[2] = 0 \/ x[2] < conf.max)
               /\ g[x] \in Content(m) /\ Fits(g[x].size)
               /\ \A k \in g[x].msgs : b[k].stamp = x[1]
    <2>1. CASE x \in DOMAIN f /\ g[x] = f[x]
      BY <2>1 DEF Sound
    <2>2. ASSUME NEW q \in moved, x = <<s, q + 1>>, g[x] = f[<<s, q>>]
          PROVE  /\ x \in Nat \X Nat /\ x[1] <= s /\ (x[2] = 0 \/ x[2] < conf.max)
                 /\ g[x] \in Content(m) /\ Fits(g[x].size)
                 /\ \A k \in g[x].msgs : b[k].stamp = x[1]
      <3> DEFINE y == <<s, q>>
      <3>1. x \in Nat \X Nat /\ x[1] = s /\ x[2] = q + 1 /\ x[2] < conf.max
        BY <1>2, <2>2
      <3>2. y \in DOMAIN f /\ y[1] = s
        BY <1>2
      <3> HIDE DEF y
      <3>3. f[y] \in Content(m) /\ Fits(f[y].size) /\ \A k \in f[y].msgs : b[k].stamp = s
        BY <3>2 DEF Sound
      <3>4. g[x] = f[y]
        BY <2>2 DEF y
      <3> QED
        BY <3>1, <3>3, <3>4
    <2> QED
      BY <1>1, <2>1, <2>2 DEF g, moved
  <1>4. Sound(g, s, m, b)
    BY <1>3, <1>5 DEF Sound
  <1> QED
    BY <1>4 DEF g

LEMMA ShiftOrdered ==
    ASSUME conf \in Devices, NEW f, NEW s \in Nat, NEW m \in Nat, NEW b, Sound(f, s, m, b),
           conf.max > 1, conf.stick, Ordered(f, s, 0), NEW c, c.msgs = {}
    PROVE  Ordered(Log!Put(Log!Shifted(f, s), <<s, 0>>, c), s, 0)
  <1> DEFINE h == Log!Shifted(f, s)
             g == Log!Put(h, <<s, 0>>, c)
             moved == Moved(f, s)
  <1>0. conf.max \in Nat
    BY ConfType
  <1>1. \A x \in DOMAIN Log!Shifted(f, s) :
          \/ x[1] # s /\ x \in DOMAIN f /\ Log!Shifted(f, s)[x] = f[x]
          \/ \E q \in Moved(f, s) : x = <<s, q + 1>> /\ Log!Shifted(f, s)[x] = f[<<s, q>>]
          \/ /\ x = <<s, conf.max - 1>> /\ x \in DOMAIN f /\ Log!Shifted(f, s)[x] = f[x]
             /\ conf.max - 2 \notin Moved(f, s)
    <2>1. MovedFrom(Log!Shifted(f, s), f, s)
      BY ShiftedFacts
    <2> QED
      BY <2>1 DEF MovedFrom
  <1>2. \A q \in moved : q \in Nat /\ q < conf.max - 1 /\ <<s, q>> \in DOMAIN f
    BY <1>0 DEF Moved
  <1>3. /\ DOMAIN g = DOMAIN h \cup {<<s, 0>>} /\ g[<<s, 0>>] = c
        /\ \A x \in DOMAIN h : x # <<s, 0>> => g[x] = h[x]
    BY DEF Log!Put
  <1> HIDE DEF h, g, moved
  <1>4. ASSUME NEW q \in Nat, <<s, q>> \in DOMAIN g, g[<<s, q>>].msgs # {}
        PROVE  \E p \in Nat : /\ (p = q - 1 /\ q < conf.max) \/ (p = q /\ q = conf.max - 1)
                              /\ <<s, p>> \in DOMAIN f /\ g[<<s, q>>] = f[<<s, p>>]
    <2> DEFINE x == <<s, q>>
    <2>0. x[1] = s /\ x[2] = q
      OBVIOUS
    <2>1. x \in DOMAIN h /\ g[x] = h[x]
      BY <1>3, <1>4
    <2>2. CASE x = <<s, conf.max - 1>> /\ x \in DOMAIN f /\ h[x] = f[x]
      BY <2>1, <2>2
    <2>3. ASSUME NEW p \in moved, x = <<s, p + 1>>, h[x] = f[<<s, p>>]
          PROVE  /\ p = q - 1 /\ q < conf.max
                 /\ p \in Nat /\ <<s, p>> \in DOMAIN f /\ g[<<s, q>>] = f[<<s, p>>]
      <3>1. q = p + 1 /\ p \in Nat /\ p < conf.max - 1 /\ <<s, p>> \in DOMAIN f
        BY <1>2, <2>3
      <3>2. p = q - 1 /\ q < conf.max
        BY <1>0, <3>1
      <3> QED
        BY <2>1, <2>3, <3>1, <3>2
    <2>4. \/ \E p \in moved : x = <<s, p + 1>> /\ h[x] = f[<<s, p>>]
          \/ x = <<s, conf.max - 1>> /\ x \in DOMAIN f /\ h[x] = f[x]
      BY <1>1, <2>0, <2>1 DEF h, moved
    <2> QED
      BY <2>2, <2>3, <2>4
  <1>5. ASSUME NEW q \in Nat, NEW p \in Nat, <<s, q>> \in DOMAIN g, <<s, p>> \in DOMAIN g,
               Behind(q, p, 0), NEW a \in g[<<s, q>>].msgs, NEW k \in g[<<s, p>>].msgs
        PROVE  a < k
    <2>1. p < q
      BY <1>5 DEF Behind
    <2>2. PICK q1 \in Nat : /\ (q1 = q - 1 /\ q < conf.max) \/ (q1 = q /\ q = conf.max - 1)
                            /\ <<s, q1>> \in DOMAIN f /\ g[<<s, q>>] = f[<<s, q1>>]
      BY <1>4, <1>5
    <2>3. PICK p1 \in Nat : /\ (p1 = p - 1 /\ p < conf.max) \/ (p1 = p /\ p = conf.max - 1)
                            /\ <<s, p1>> \in DOMAIN f /\ g[<<s, p>>] = f[<<s, p1>>]
      BY <1>4, <1>5
    <2>4. p1 < q1
      BY <1>0, <2>1, <2>2, <2>3
    <2>5. Behind(q1, p1, 0)
      BY <2>4 DEF Behind
    <2> QED
      BY <1>5, <2>2, <2>3, <2>5 DEF Ordered
  <1>6. Ordered(g, s, 0)
    BY <1>5 DEF Ordered
  <1> QED
    BY <1>6 DEF g, h

LEMMA ShiftOldGo ==
    ASSUME conf \in Devices, NEW f, NEW s \in Nat, NEW m \in Nat, NEW b, Sound(f, s, m, b),
           conf.max > 1, conf.stick, Ordered(f, s, 0), NEW l, OldGo(f, m, b, l),
           NEW c, c.msgs = {}
    PROVE  OldGo(Log!Put(Log!Shifted(f, s), <<s, 0>>, c), m, b, l)
  <1> DEFINE h == Log!Shifted(f, s)
             g == Log!Put(h, <<s, 0>>, c)
             moved == Moved(f, s)
             last == <<s, conf.max - 1>>
  <1>0. conf.max \in Nat
    BY ConfType
  <1>1. \A x \in DOMAIN Log!Shifted(f, s) :
          \/ x[1] # s /\ x \in DOMAIN f /\ Log!Shifted(f, s)[x] = f[x]
          \/ \E q \in Moved(f, s) : x = <<s, q + 1>> /\ Log!Shifted(f, s)[x] = f[<<s, q>>]
          \/ /\ x = <<s, conf.max - 1>> /\ x \in DOMAIN f /\ Log!Shifted(f, s)[x] = f[x]
             /\ conf.max - 2 \notin Moved(f, s)
    <2>1. MovedFrom(Log!Shifted(f, s), f, s)
      BY ShiftedFacts
    <2> QED
      BY <2>1 DEF MovedFrom
  <1>11. \A x \in DOMAIN f : x[1] # s => x \in DOMAIN Log!Shifted(f, s) /\ Log!Shifted(f, s)[x] = f[x]
    BY ShiftedFacts
  <1>12. \A q \in Moved(f, s) :
          <<s, q + 1>> \in DOMAIN Log!Shifted(f, s) /\ Log!Shifted(f, s)[<<s, q + 1>>] = f[<<s, q>>]
    BY ShiftedFacts
  <1>13. \A x \in DOMAIN f : x[1] = s =>
          \/ \E q \in Moved(f, s) : x = <<s, q>>
          \/ /\ x = <<s, conf.max - 1>>
             /\ conf.max - 2 \notin Moved(f, s) =>
                  x \in DOMAIN Log!Shifted(f, s) /\ Log!Shifted(f, s)[x] = f[x]
    <2>1. MovedTo(f, Log!Shifted(f, s), s)
      BY ShiftedFacts
    <2> QED
      BY <2>1 DEF MovedTo
  <1>2. \A q \in moved : q \in Nat /\ q < conf.max - 1 /\ <<s, q>> \in DOMAIN f
    BY <1>0 DEF Moved
  <1>3. /\ DOMAIN g = DOMAIN h \cup {<<s, 0>>} /\ g[<<s, 0>>] = c
        /\ \A x \in DOMAIN h : x # <<s, 0>> => g[x] = h[x]
    BY DEF Log!Put
  <1>9. \A q \in moved : <<s, q + 1>> # <<s, 0>>
    <2> SUFFICES ASSUME NEW q \in moved PROVE <<s, q + 1>> # <<s, 0>>
      OBVIOUS
    <2>0. q \in Nat
      BY <1>2
    <2>1. q + 1 # 0
      BY <2>0
    <2> QED
      BY <2>1
  <1>10. last # <<s, 0>>
    BY <1>0
  <1> HIDE DEF h, g, moved
  \* Where a message of g was,
  <1>4. ASSUME NEW x \in DOMAIN g, NEW a \in g[x].msgs
        PROVE  \E y \in DOMAIN f : a \in f[y].msgs /\ (y = last => conf.max - 2 \notin moved)
    <2>1. x \in DOMAIN h /\ g[x] = h[x]
      BY <1>3, <1>4
    <2>2. CASE x[1] # s /\ x \in DOMAIN f /\ h[x] = f[x]
      <3>1. x # last
        BY <2>2
      <3> QED
        BY <1>4, <2>1, <2>2, <3>1
    <2>3. ASSUME NEW q \in moved, x = <<s, q + 1>>, h[x] = f[<<s, q>>]
          PROVE  \E y \in DOMAIN f : a \in f[y].msgs /\ (y = last => conf.max - 2 \notin moved)
      <3>1. <<s, q>> # last /\ <<s, q>> \in DOMAIN f
        BY <1>0, <1>2
      <3> QED
        BY <1>4, <2>1, <2>3, <3>1
    <2>4. CASE x = last /\ x \in DOMAIN f /\ h[x] = f[x] /\ conf.max - 2 \notin moved
      BY <1>4, <2>1, <2>4
    <2> QED
      BY <1>1, <2>1, <2>2, <2>3, <2>4 DEF h, moved
  \* and where one of f is.
  <1>5. ASSUME NEW y \in DOMAIN f, NEW k \in f[y].msgs, y = last => conf.max - 2 \notin moved
        PROVE  \E x \in DOMAIN g : k \in g[x].msgs
    <2>1. CASE y[1] # s
      <3>1. y \in DOMAIN h /\ h[y] = f[y] /\ y # <<s, 0>>
        BY <1>11, <2>1 DEF h
      <3> QED
        BY <1>3, <1>5, <3>1
    <2>2. ASSUME NEW q \in moved, y = <<s, q>>
          PROVE  \E x \in DOMAIN g : k \in g[x].msgs
      <3>1. <<s, q + 1>> \in DOMAIN g /\ g[<<s, q + 1>>] = f[y]
        BY <1>12, <1>3, <1>9, <2>2 DEF h, moved
      <3> QED
        BY <1>5, <3>1
    <2>3. CASE y = last /\ y \in DOMAIN h /\ h[y] = f[y]
      BY <1>3, <1>5, <1>10, <2>3
    <2> QED
      BY <1>13, <1>5, <2>1, <2>2, <2>3 DEF h, moved
  <1>6. ASSUME NEW x \in DOMAIN g, NEW a \in g[x].msgs, NEW k \in 0 .. m - 1,
               a < k, b[a].stamp = b[k].stamp
        PROVE  k \in l \/ \E y \in DOMAIN g : k \in g[y].msgs
    <2>1. PICK z \in DOMAIN f : a \in f[z].msgs /\ (z = last => conf.max - 2 \notin moved)
      BY <1>4
    <2>2. k \in l \/ \E y \in DOMAIN f : k \in f[y].msgs
      BY <1>6, <2>1 DEF OldGo
    <2>3. ASSUME NEW y \in DOMAIN f, k \in f[y].msgs
          PROVE  \E x1 \in DOMAIN g : k \in g[x1].msgs
      <3>1. CASE y = last => conf.max - 2 \notin moved
        BY <1>5, <2>3, <3>1
      <3>2. CASE y = last /\ conf.max - 2 \in moved
        <4>1. z # last /\ b[a].stamp = z[1] /\ b[k].stamp = s
          BY <2>1, <2>3, <3>2 DEF Sound
        <4>2. z[1] = s
          BY <1>6, <4>1
        <4>3. PICK q \in moved : z = <<s, q>>
          BY <1>13, <4>1, <4>2 DEF moved
        <4>4. q \in Nat /\ conf.max - 1 \in Nat /\ q < conf.max - 1
          BY <1>0, <1>2, <4>3
        <4>5. Behind(conf.max - 1, q, 0)
          BY <4>4 DEF Behind
        <4>6. k < a
          BY <2>1, <2>3, <3>2, <4>3, <4>4, <4>5 DEF Ordered
        <4>7. a \in 0 .. m - 1
          BY <2>1, SoundFile
        <4> QED
          BY <1>6, <4>6, <4>7
      <3> QED
        BY <3>1, <3>2
    <2> QED
      BY <2>2, <2>3
  <1>7. OldGo(g, m, b, l)
    BY <1>6 DEF OldGo
  <1> QED
    BY <1>7 DEF g, h

\* Files that lose no messages but to l1.
LEMMA FewerMsgs ==
    ASSUME NEW f, NEW g, DOMAIN g = DOMAIN f, \A x \in DOMAIN f : g[x].msgs \subseteq f[x].msgs,
           NEW l, NEW l1, l \subseteq l1, \A x \in DOMAIN f : f[x].msgs \subseteq g[x].msgs \cup l1,
           NEW s, NEW r, NEW m, NEW b
    PROVE  /\ Ordered(f, s, r) => Ordered(g, s, r)
           /\ OldGo(f, m, b, l) => OldGo(g, m, b, l1)
  <1>1. Ordered(f, s, r) => Ordered(g, s, r)
    BY DEF Ordered
  <1>2. ASSUME OldGo(f, m, b, l), NEW x \in DOMAIN g, NEW a \in g[x].msgs, NEW k \in 0 .. m - 1,
               a < k, b[a].stamp = b[k].stamp
        PROVE  k \in l1 \/ \E y \in DOMAIN g : k \in g[y].msgs
    <2>1. k \in l \/ \E y \in DOMAIN f : k \in f[y].msgs
      BY <1>2 DEF OldGo
    <2> QED
      BY <2>1
  <1> QED
    BY <1>1, <1>2 DEF OldGo

\* What is written now is written last.
LEMMA NewestNow ==
    ASSUME NEW f, NEW s \in Nat, NEW m \in Nat, NEW b, Sound(f, s, m, b), clock \in Nat,
           NEW r \in Nat, NEW c, c.mtime = clock
    PROVE  Newest(Log!Put(f, <<s, r>>, c), s, r)
  <1> DEFINE g == Log!Put(f, <<s, r>>, c)
  <1>1. /\ DOMAIN g = DOMAIN f \cup {<<s, r>>} /\ g[<<s, r>>] = c
        /\ \A x \in DOMAIN f : x # <<s, r>> => g[x] = f[x]
    BY DEF Log!Put
  <1>2. \A x \in DOMAIN f : f[x].mtime \in 0 .. clock
    BY SoundFile
  <1> HIDE DEF g
  <1>3. Newest(g, s, r)
    BY <1>1, <1>2 DEF Newest
  <1> QED
    BY <1>3 DEF g

LEMMA KeptNewest ==
    ASSUME NEW f, NEW s \in Nat, NEW r \in Nat, Newest(f, s, r), NEW c,
           c.mtime = f[<<s, r>>].mtime
    PROVE  Newest(Log!Put(f, <<s, r>>, c), s, r)
  BY DEF Newest, Log!Put

\* The message is in the file in use.
LEMMA RecordKeeps ==
    ASSUME conf \in Devices, clock \in Nat, n \in Nat, DOMAIN born = 0 .. n - 1, NEW kind \in Messages,
           NEW f, NEW s \in Nat, NEW r \in Nat, r = 0 \/ r < conf.max, conf.stick => r = 0,
           Sound(f, s, n, born), Newest(f, s, r),
           ~tied => Ordered(f, s, r) /\ OldGo(f, n, born, lost),
           NEW before \in Content(n), Fits(before.size),
           before.msgs \subseteq f[<<s, r>>].msgs, before.mtime = f[<<s, r>>].mtime,
           Fits(f[<<s, r>>].size + kind.size),
           Log!Record(kind, f, <<s, r>>, before)
    PROVE  /\ Sound(file', s, n', born') /\ Newest(file', s, r)
           /\ ~tied' => Ordered(file', s, r) /\ OldGo(file', n', born', lost')
           /\ synced' \in Content(n') /\ Fits(synced'.size)
           /\ synced'.msgs \subseteq file'[<<s, r>>].msgs
           /\ synced'.mtime = file'[<<s, r>>].mtime
           /\ file'[<<s, r>>].size = f[<<s, r>>].size + kind.size
           /\ n' = n + 1 /\ born' = Log!Put(born, n, [at |-> clock, stamp |-> s])
           /\ UNCHANGED <<conf, clock, up, lost, tied>> /\ tLastMsg' = clock /\ n < MaxMsg /\ up
  <1> DEFINE name == <<s, r>>
             e == [at |-> clock, stamp |-> s]
  <1>1. PICK flush \in BOOLEAN :
          LET content == [msgs  |-> f[name].msgs \cup {n},
                          size  |-> f[name].size + kind.size,
                          mtime |-> IF flush THEN clock ELSE f[name].mtime]
          IN  /\ file' = Log!Put(f, name, content)
              /\ synced' = IF flush THEN content ELSE before
    BY DEF Log!Record
  <1> DEFINE c == [msgs  |-> f[name].msgs \cup {n},
                   size  |-> f[name].size + kind.size,
                   mtime |-> IF flush THEN clock ELSE f[name].mtime]
  <1>2. file' = Log!Put(f, name, c) /\ synced' = IF flush THEN c ELSE before
    BY <1>1
  <1>3. /\ n' = n + 1 /\ born' = Log!Put(born, n, e) /\ UNCHANGED <<conf, clock, up, lost, tied>>
        /\ tLastMsg' = clock /\ n < MaxMsg /\ up
    BY DEF Log!Record
  <1>4. name \in DOMAIN f
    BY DEF Newest
  <1>5. /\ f[name].msgs \subseteq 0 .. n - 1 /\ f[name].size \in Nat
        /\ f[name].mtime \in 0 .. clock /\ \A k \in f[name].msgs : born[k].stamp = s
    <2>1. name[1] = s
      OBVIOUS
    <2> HIDE DEF name
    <2>2. f[name].msgs \subseteq 0 .. n - 1 /\ f[name].size \in Nat /\ f[name].mtime \in 0 .. clock
      BY <1>4, SoundFile
    <2>3. \A k \in f[name].msgs : born[k].stamp = name[1]
      BY <1>4, SoundFile
    <2> QED
      BY <2>1, <2>2, <2>3
  <1>6. /\ Sound(f, s, n + 1, born') /\ \A k \in 0 .. n - 1 : born'[k] = born[k]
        /\ born'[n].stamp = s
    <2>1. Sound(f, s, n + 1, Log!Put(born, n, e))
      BY GrowSound
    <2> QED
      BY <1>3, <2>1 DEF Log!Put
  <1>7. /\ c.msgs = f[name].msgs \cup {n} /\ c.size = f[name].size + kind.size
        /\ c.mtime = IF flush THEN clock ELSE f[name].mtime
    OBVIOUS
  <1>8. c \in Content(n + 1) /\ Fits(c.size) /\ \A k \in c.msgs : born'[k].stamp = s
    <2>0. kind.size \in Nat /\ f[name].size \in Nat
      BY <1>5, LogAssumption
    <2>1. f[name].size + kind.size \in Nat /\ f[name].msgs \cup {n} \subseteq 0 .. n + 1 - 1
      BY <1>5, <2>0
    <2>2. c.mtime \in 0 .. clock
      BY <1>5
    <2>3. c \in Content(n + 1)
      BY <2>1, <2>2 DEF Content
    <2>4. Fits(c.size)
      BY <1>5, <1>6, <1>7
    <2>5. \A k \in c.msgs : born'[k].stamp = s
      BY <1>5, <1>6, <1>7
    <2> QED
      BY <2>3, <2>4, <2>5
  <1>9. before \in Content(n + 1)
    <2>1. 0 .. n - 1 \subseteq 0 .. n + 1 - 1
      OBVIOUS
    <2> QED
      BY <2>1 DEF Content
  <1>10. file'[name] = c
    BY <1>2 DEF Log!Put
  <1> HIDE DEF c, name, e
  <1>11. Sound(file', s, n', born')
    BY <1>2, <1>3, <1>6, <1>8, PutSound DEF name
  <1>12. Newest(file', s, r)
    <2>1. CASE flush
      <3>1. c.mtime = clock
        BY <1>7, <2>1
      <3>2. Newest(Log!Put(f, <<s, r>>, c), s, r)
        BY <3>1, NewestNow
      <3> QED
        BY <1>2, <3>2 DEF name
    <2>2. CASE ~flush
      <3>1. c.mtime = f[<<s, r>>].mtime
        BY <1>7, <2>2 DEF name
      <3>2. Newest(Log!Put(f, <<s, r>>, c), s, r)
        BY <3>1, KeptNewest
      <3> QED
        BY <1>2, <3>2 DEF name
    <2> QED
      BY <2>1, <2>2
  <1>13. ASSUME ~tied
         PROVE  Ordered(file', s, r) /\ OldGo(file', n', born', lost')
    <2>1. Ordered(f, s, r) /\ OldGo(f, n, born, lost)
      BY <1>13
    <2>2. c.msgs = f[<<s, r>>].msgs \cup {n} /\ <<s, r>> \in DOMAIN f
      BY <1>4, <1>7 DEF name
    <2>3. Ordered(Log!Put(f, <<s, r>>, c), s, r)
      BY <2>1, <2>2, RecordOrdered
    <2>4. OldGo(Log!Put(f, <<s, r>>, c), n + 1, Log!Put(born, n, e), lost)
      BY <2>1, <2>2, RecordOldGo
    <2> QED
      BY <1>2, <1>3, <2>3, <2>4 DEF name
  <1>14. /\ synced' \in Content(n') /\ Fits(synced'.size)
         /\ synced'.msgs \subseteq file'[name].msgs /\ synced'.mtime = file'[name].mtime
    <2>1. CASE flush
      BY <1>2, <1>3, <1>8, <1>10, <2>1
    <2>2. CASE ~flush
      <3>1. synced' = before
        BY <1>2, <2>2
      <3>2. file'[name].msgs = f[name].msgs \cup {n} /\ file'[name].mtime = f[name].mtime
        BY <1>7, <1>10, <2>2
      <3> QED
        BY <1>3, <1>9, <3>1, <3>2 DEF name
    <2> QED
      BY <2>1, <2>2
  <1> QED
    BY <1>3, <1>7, <1>10, <1>11, <1>12, <1>13, <1>14 DEF name, e

\* There is a latest file,
LEMMA LatestFacts ==
    ASSUME conf \in Devices, clock \in Nat, n \in Nat, NEW s \in Nat, NEW s1,
           Sound(file, s1, n, born), Log!Numbers(s) # {}
    PROVE  /\ Log!Latest(s) \in Log!Numbers(s)
           /\ \A q \in Log!Numbers(s) :
                 \/ file[<<s, q>>].mtime < file[<<s, Log!Latest(s)>>].mtime
                 \/ file[<<s, q>>].mtime = file[<<s, Log!Latest(s)>>].mtime /\ q <= Log!Latest(s)
  <1> DEFINE Time(q) == file[<<s, q>>].mtime
             M == {Time(q) : q \in Log!Numbers(s)}
  <1>0. conf.max \in Nat
    BY ConfType
  <1>1. \A q \in Log!Numbers(s) : q \in Nat /\ q <= conf.max /\ <<s, q>> \in DOMAIN file
    BY <1>0 DEF Log!Numbers, Log!Exists
  <1>2. \A x \in DOMAIN file : file[x].mtime \in 0 .. clock
    BY SoundFile
  <1>3. \A q \in Log!Numbers(s) : Time(q) \in 0 .. clock
    BY <1>1, <1>2
  <1> HIDE DEF Time
  <1>4. M \in SUBSET Nat /\ M # {} /\ \A y \in M : y <= clock
    BY <1>3
  <1>5. PICK t \in M : \A y \in M : y <= t
    BY <1>4, Greatest
  <1> DEFINE R == {q \in Log!Numbers(s) : Time(q) = t}
  <1>6. R \in SUBSET Nat /\ R # {} /\ \A y \in R : y <= conf.max
    BY <1>1, <1>5
  <1>7. PICK r \in R : \A y \in R : y <= r
    BY <1>0, <1>6, Greatest
  <1>8. r \in Log!Numbers(s) /\ Time(r) = t
    BY <1>7
  <1>9. ASSUME NEW q \in Log!Numbers(s)
        PROVE  Time(q) < Time(r) \/ (Time(q) = Time(r) /\ q <= r)
    <2>1. Time(q) <= t /\ Time(q) \in Nat /\ t \in Nat
      BY <1>3, <1>4, <1>5
    <2>2. CASE Time(q) = t
      BY <1>7, <1>8, <2>2
    <2>3. CASE Time(q) # t
      BY <1>8, <2>1, <2>3
    <2> QED
      BY <2>2, <2>3
  <1> DEFINE P(x) == \A q \in Log!Numbers(s) : \/ file[<<s, q>>].mtime < file[<<s, x>>].mtime
                                               \/ file[<<s, q>>].mtime = file[<<s, x>>].mtime /\ q <= x
  <1>10. \E x \in Log!Numbers(s) : P(x)
    BY <1>8, <1>9 DEF Time
  <1>11. Log!Latest(s) = CHOOSE x \in Log!Numbers(s) : P(x)
    BY DEF Log!Latest
  <1> HIDE DEF P
  <1>12. Log!Latest(s) \in Log!Numbers(s) /\ P(Log!Latest(s))
    BY <1>10, <1>11
  <1> QED
    BY <1>12 DEF P

\* and unless it is not the only one of its time it is the one written last.
LEMMA LatestIsNewest ==
    ASSUME conf \in Devices, clock \in Nat, n \in Nat, NEW s \in Nat, NEW s1,
           Sound(file, s1, n, born), NEW r \in Nat, Newest(file, s, r), r < conf.max
    PROVE  /\ Log!Numbers(s) # {} /\ Log!Latest(s) \in Nat /\ Log!Latest(s) < conf.max
           /\ Newest(file, s, Log!Latest(s))
           /\ ~Log!Ambiguous(s, Log!Latest(s)) => Log!Latest(s) = r
  <1>0. conf.max \in Nat
    BY ConfType
  <1>1. r \in Log!Numbers(s)
    BY <1>0 DEF Newest, Log!Numbers, Log!Exists
  <1>2. /\ Log!Latest(s) \in Log!Numbers(s)
        /\ \A q \in Log!Numbers(s) :
                 \/ file[<<s, q>>].mtime < file[<<s, Log!Latest(s)>>].mtime
                 \/ file[<<s, q>>].mtime = file[<<s, Log!Latest(s)>>].mtime /\ q <= Log!Latest(s)
    BY <1>1, LatestFacts
  <1>3. Log!Latest(s) \in Nat /\ Log!Latest(s) < conf.max /\ <<s, Log!Latest(s)>> \in DOMAIN file
    BY <1>0, <1>2 DEF Log!Numbers, Log!Exists
  <1>4. \A x \in DOMAIN file : file[x].mtime \in 0 .. clock
    BY SoundFile
  <1>5. file[<<s, r>>].mtime \in Nat /\ file[<<s, Log!Latest(s)>>].mtime \in Nat
    BY <1>3, <1>4 DEF Newest
  <1>6. file[<<s, r>>].mtime = file[<<s, Log!Latest(s)>>].mtime
    BY <1>1, <1>2, <1>3, <1>5 DEF Newest
  <1>7. Newest(file, s, Log!Latest(s))
    BY <1>3, <1>6 DEF Newest
  <1>8. ~Log!Ambiguous(s, Log!Latest(s)) => Log!Latest(s) = r
    BY <1>1, <1>6 DEF Log!Ambiguous
  <1> QED
    BY <1>1, <1>3, <1>7, <1>8
-----------------------------------------------------------------------------
(***************************************************************************)
(* The steps.                                                              *)
(***************************************************************************)
LEMMA LogInit == Log!Init => LogInv
  <1> SUFFICES ASSUME Log!Init PROVE LogInv
    OBVIOUS
  <1>1. /\ conf \in Devices /\ clock = 0 /\ n = 0 /\ iTail = 0 /\ tLastMsg = 0 /\ lost = {}
        /\ iCurRotate = 0 /\ rotate = 0 /\ stamp = -1 /\ ~up /\ file = [x \in {} |-> Log!Empty]
        /\ born = [k \in {} |-> 0]
    BY DEF Log!Init
  <1>2. DOMAIN file = {} /\ DOMAIN born = {} /\ 0 .. 0 - 1 = {}
    BY <1>1
  <1>3. born \in [0 .. n - 1 -> [at : Int, stamp : Int]]
    BY <1>1, <1>2
  <1>4. Sound(file, stamp, n, born)
    BY <1>1, <1>2 DEF Sound, Mapping
  <1>5. Ordered(file, stamp, rotate) /\ OldGo(file, n, born, lost)
    BY <1>1, <1>2 DEF Ordered, OldGo
  <1>6. OpenInv /\ PeriodInv
    BY <1>1, <1>2 DEF OpenInv, PeriodInv, Log!PeriodLag
  <1>7. LogTypes
    BY <1>1, <1>3, LogAssumption DEF LogTypes
  <1> QED
    BY <1>4, <1>5, <1>6, <1>7 DEF LogInv

\* What holds of a process that runs.
LEMMA Running ==
    ASSUME LogInv, up
    PROVE  /\ conf \in Devices /\ clock \in Nat /\ n \in Nat /\ DOMAIN born = 0 .. n - 1
           /\ stamp \in Nat /\ rotate \in Nat /\ (rotate = 0 \/ rotate < conf.max)
           /\ (conf.stick => rotate = 0)
           /\ iCurRotate = rotate /\ Sound(file, stamp, n, born) /\ Newest(file, stamp, rotate)
           /\ ~tied => Ordered(file, stamp, rotate) /\ OldGo(file, n, born, lost)
           /\ synced \in Content(n) /\ Fits(synced.size)
           /\ synced.msgs \subseteq file[<<stamp, rotate>>].msgs
           /\ synced.mtime = file[<<stamp, rotate>>].mtime
           /\ iTail = file[<<stamp, rotate>>].size /\ iTail \in Nat
           /\ <<stamp, rotate>> \in DOMAIN file
           /\ stamp <= Log!Stamp(clock) /\ Log!Stamp(clock) \in Nat
  <1>1. /\ conf \in Devices /\ clock \in 0 .. MaxSecond /\ n \in 0 .. MaxMsg /\ iTail \in Nat
        /\ DOMAIN born = 0 .. n - 1 /\ iCurRotate = rotate /\ rotate \in Nat
        /\ (rotate = 0 \/ rotate < conf.max)
        /\ (conf.stick => rotate = 0)
    BY DEF LogInv, LogTypes
  <1>2. stamp \in Nat /\ stamp <= Log!Stamp(clock) /\ Newest(file, stamp, rotate)
    BY DEF LogInv, LogTypes
  <1>3. Log!Stamp(clock) \in Nat
    <2>1. Log!Stamp(clock) \in 0 .. MaxSecond + conf.period
      BY <1>1, StampType
    <2> QED
      BY <2>1
  <1> QED
    BY <1>1, <1>2, <1>3 DEF LogInv, OpenInv, Newest

\* The files, once the open one is flushed.
LEMMA FlushKeeps ==
    ASSUME LogInv, up
    PROVE  /\ Sound(Log!Flushed, stamp, n, born) /\ DOMAIN Log!Flushed = DOMAIN file
           /\ \A x \in DOMAIN file : Log!Flushed[x].msgs = file[x].msgs
           /\ Newest(Log!Flushed, stamp, rotate)
           /\ ~tied => Ordered(Log!Flushed, stamp, rotate) /\ OldGo(Log!Flushed, n, born, lost)
  <1> DEFINE name == <<stamp, rotate>>
             c == [file[name] EXCEPT !.mtime = clock]
             g == Log!Put(file, name, c)
  <1>0. /\ conf \in Devices /\ clock \in Nat /\ n \in Nat /\ stamp \in Nat /\ rotate \in Nat
        /\ (rotate = 0 \/ rotate < conf.max) /\ Sound(file, stamp, n, born)
        /\ Newest(file, stamp, rotate) /\ name \in DOMAIN file
        /\ ~tied => Ordered(file, stamp, rotate) /\ OldGo(file, n, born, lost)
    BY Running
  <1>1. CASE Log!Flushed = file
    BY <1>0, <1>1
  <1>2. CASE Log!Flushed # file
    <2>1. file[name] \in Content(n) /\ Fits(file[name].size)
          /\ \A k \in file[name].msgs : born[k].stamp = name[1]
      BY <1>0 DEF Sound
    <2>2. name[1] = stamp
      OBVIOUS
    <2>3. Log!Flushed = g
      <3>1. Log!Flushed = [file EXCEPT ![name].mtime = clock]
        BY <1>2 DEF Log!Flushed
      <3>2. DOMAIN Log!Flushed = DOMAIN file /\ DOMAIN g = DOMAIN file
        BY <1>0, <3>1 DEF Log!Put
      <3>3. \A x \in DOMAIN file : Log!Flushed[x] = g[x]
        BY <1>0, <3>1 DEF Log!Put
      <3>4. Mapping(Log!Flushed) /\ Mapping(g)
        BY <3>1 DEF Log!Put, Mapping
      <3> HIDE DEF g, c, name
      <3> QED
        BY <3>2, <3>3, <3>4 DEF Mapping
    <2>4. /\ c.msgs = file[name].msgs /\ c.size = file[name].size /\ c.mtime = clock
          /\ c \in Content(n)
      BY <1>0, <2>1 DEF Content
    <2> HIDE DEF c
    <2>5. DOMAIN g = DOMAIN file /\ \A x \in DOMAIN file : g[x].msgs = file[x].msgs
      BY <1>0, <2>4 DEF Log!Put
    <2> HIDE DEF g
    <2>6. Fits(c.size) /\ \A k \in c.msgs : born[k].stamp = stamp
      BY <2>1, <2>2, <2>4
    <2>7. Sound(g, stamp, n, born)
      BY <1>0, <2>4, <2>6, PutSound DEF g
    <2>8. Newest(g, stamp, rotate)
      BY <1>0, <2>4, NewestNow DEF g
    <2>9. ~tied => Ordered(g, stamp, rotate) /\ OldGo(g, n, born, lost)
      BY <1>0, <2>5, FewerMsgs
    <2> QED
      BY <2>3, <2>5, <2>7, <2>8, <2>9
  <1> QED
    BY <1>1, <1>2

\* The parts of the invariant after a step that takes no time.
LEMMA LogInvNext ==
    ASSUME conf \in Devices, clock \in 0 .. MaxSecond, conf' = conf, clock' = clock,
           n' \in 0 .. MaxMsg, iTail' \in Nat, tLastMsg' \in 0 .. clock, lost' \subseteq 0 .. n' - 1,
           born' \in [0 .. n' - 1 -> [at : Int, stamp : Int]],
           iCurRotate' = rotate', rotate' \in Nat, rotate' = 0 \/ rotate' < conf.max,
           conf.stick => rotate' = 0, stamp' \in Nat, stamp' <= Log!Stamp(clock),
           Newest(file', stamp', rotate'), Sound(file', stamp', n', born'),
           ~tied' => Ordered(file', stamp', rotate') /\ OldGo(file', n', born', lost'),
           up' => /\ iTail' = file'[<<stamp', rotate'>>].size
                  /\ synced' \in Content(n') /\ Fits(synced'.size)
                  /\ synced'.msgs \subseteq file'[<<stamp', rotate'>>].msgs
                  /\ synced'.mtime = file'[<<stamp', rotate'>>].mtime,
           PeriodInv'
    PROVE  LogInv'
  <1>1. Log!Stamp(clock)' = Log!Stamp(clock)
    BY DEF Log!Stamp
  <1>2. Newest(file, stamp, rotate)'
    BY DEF Newest
  <1>3. LogTypes'
    BY <1>1, <1>2 DEF LogTypes
  <1>4. Content(n)' = Content(n') /\ Fits(synced.size)' = Fits(synced'.size)
    BY DEF Content, Fits
  <1>5. OpenInv'
    BY <1>4 DEF OpenInv
  <1>6. Sound(file, stamp, n, born)'
    BY DEF Sound, Content, Fits
  <1>7. ASSUME ~tied'
        PROVE  Ordered(file, stamp, rotate)' /\ OldGo(file, n, born, lost)'
    <2>1. Ordered(file', stamp', rotate') /\ OldGo(file', n', born', lost')
      BY <1>7
    <2>2. \A q, p : Behind(q, p, rotate)' <=> Behind(q, p, rotate')
      BY DEF Behind, Rank
    <2>3. Ordered(file, stamp, rotate)'
      BY <2>1, <2>2 DEF Ordered
    <2> QED
      BY <2>1, <2>3 DEF OldGo
  <1> QED
    BY <1>3, <1>5, <1>6, <1>7 DEF LogInv

LEMMA PeriodNext ==
    ASSUME conf' = conf, PeriodInv, up' => up, born' = born, stamp' = stamp, tLastMsg' = tLastMsg
    PROVE  PeriodInv'
  <1>1. \A t : Log!Stamp(t)' = Log!Stamp(t)
    BY DEF Log!Stamp
  <1>2. \A m : PeriodStamp(m)' = PeriodStamp(m)
    BY DEF PeriodStamp
  <1> QED
    BY <1>1, <1>2 DEF PeriodInv, Log!PeriodLag

\* The stamp was made of the time,
LEMMA PeriodFresh ==
    ASSUME conf \in Devices, conf' = conf, clock \in Nat, PeriodInv, stamp' = Log!Stamp(clock),
           tLastMsg' = clock,
           born' = born \/ born' = Log!Put(born, n, [at |-> clock, stamp |-> stamp'])
    PROVE  PeriodInv'
  <1>0. SUFFICES ASSUME conf.period > 0 PROVE PeriodInv'
    BY DEF PeriodInv
  <1>1. \A t : Log!Stamp(t)' = Log!Stamp(t)
    BY DEF Log!Stamp
  <1>2. \A m : PeriodStamp(m)' = PeriodStamp(m)
    BY DEF PeriodStamp
  <1>3. \A k \in DOMAIN born :
            born[k].stamp \in {Log!Stamp(born[k].at), Log!Stamp(born[k].at - conf.period)}
    BY <1>0 DEF PeriodInv, Log!PeriodLag
  <1>4. Log!PeriodLag'
    <2>1. CASE born' = born
      BY <1>1, <1>3, <2>1 DEF Log!PeriodLag
    <2>2. CASE born' = Log!Put(born, n, [at |-> clock, stamp |-> stamp'])
      <3>1. /\ DOMAIN born' = DOMAIN born \cup {n}
            /\ born'[n].at = clock /\ born'[n].stamp = Log!Stamp(clock)
            /\ \A k \in DOMAIN born : k # n => born'[k] = born[k]
        BY <2>2 DEF Log!Put
      <3> QED
        BY <1>1, <1>3, <3>1 DEF Log!PeriodLag
    <2> QED
      BY <2>1, <2>2
  <1> DEFINE d == clock \div conf.period
  <1>5. Log!Stamp(clock) = PeriodStamp(IF clock = d * conf.period THEN d ELSE d + 1)
    <2>1. d \in Int
      BY <1>0, ConfType
    <2> QED
      BY <1>0, <2>1, StampOf
  <1> HIDE DEF d
  <1>6. /\ stamp' \in {PeriodStamp(d), PeriodStamp(d + 1)}
        /\ clock = d * conf.period => stamp' = PeriodStamp(d)
    BY <1>5
  <1> QED
    BY <1>2, <1>4, <1>6 DEF PeriodInv, d

\* or the time is in the period of the last message.
LEMMA PeriodSame ==
    ASSUME conf \in Devices, conf' = conf, clock \in Nat, PeriodInv, up, tLastMsg \in 0 .. clock,
           conf.period > 0 => clock \div conf.period = tLastMsg \div conf.period,
           stamp' = stamp, tLastMsg' = clock, born' = Log!Put(born, n, [at |-> clock, stamp |-> stamp])
    PROVE  PeriodInv'
  <1>0. SUFFICES ASSUME conf.period > 0 PROVE PeriodInv'
    BY DEF PeriodInv
  <1>1. \A t : Log!Stamp(t)' = Log!Stamp(t)
    BY DEF Log!Stamp
  <1>2. \A m : PeriodStamp(m)' = PeriodStamp(m)
    BY DEF PeriodStamp
  <1>3. \A k \in DOMAIN born :
            born[k].stamp \in {Log!Stamp(born[k].at), Log!Stamp(born[k].at - conf.period)}
    BY <1>0 DEF PeriodInv, Log!PeriodLag
  <1> DEFINE p == conf.period
             d == clock \div p
  <1>4. p \in Nat /\ p > 0
    BY <1>0, ConfType
  <1>5. d \in Int /\ d * p <= clock /\ clock < d * p + p /\ d * p \in Int
    BY <1>4
  <1>6. d = tLastMsg \div p /\ d * p <= tLastMsg
    BY <1>4, <1>5
  <1>7. Log!Stamp(clock) = PeriodStamp(IF clock = d * p THEN d ELSE d + 1)
    BY <1>0, <1>5, StampOf
  <1>8. (clock - p) \div p = d - 1 /\ (d - 1) * p = d * p - p
    <2>1. (d - 1) * p = d * p - p /\ (d - 1 + 1) * p = d * p
      BY <1>4, <1>5
    <2>2. (d - 1) * p <= clock - p /\ clock - p < (d - 1 + 1) * p /\ clock - p \in Int /\ d - 1 \in Int
      BY <1>4, <1>5, <2>1
    <2> QED
      BY <1>4, <2>1, <2>2, DivIs
  <1>9. Log!Stamp(clock - p) = PeriodStamp(IF clock = d * p THEN d - 1 ELSE d)
    <2>1. Log!Stamp(clock - p) = PeriodStamp(IF clock - p = (d - 1) * p THEN d - 1 ELSE d - 1 + 1)
      <3>1. clock - p \in Int /\ d - 1 \in Int /\ d - 1 = (clock - p) \div p
        BY <1>4, <1>5, <1>8
      <3> HIDE DEF d
      <3> QED
        BY <1>0, <3>1, StampOf
    <2>2. clock - p = (d - 1) * p <=> clock = d * p
      BY <1>4, <1>5, <1>8
    <2>3. d - 1 + 1 = d
      BY <1>5
    <2> QED
      BY <2>1, <2>2, <2>3
  <1>10. /\ stamp \in {PeriodStamp(d), PeriodStamp(d + 1)}
         /\ tLastMsg = d * p => stamp = PeriodStamp(d)
    BY <1>0, <1>6 DEF PeriodInv
  <1> HIDE DEF d
  <1>11. /\ stamp' \in {PeriodStamp(d), PeriodStamp(d + 1)}
         /\ clock = d * p => stamp' = PeriodStamp(d)
    <2>1. clock = d * p => tLastMsg = d * p
      BY <1>5, <1>6
    <2> QED
      BY <1>10, <2>1
  <1>12. stamp \in {Log!Stamp(clock), Log!Stamp(clock - p)}
    BY <1>7, <1>9, <1>11
  <1>13. Log!PeriodLag'
    <2>1. /\ DOMAIN born' = DOMAIN born \cup {n}
          /\ born'[n].at = clock /\ born'[n].stamp = stamp
          /\ \A k \in DOMAIN born : k # n => born'[k] = born[k]
      BY DEF Log!Put
    <2> QED
      BY <1>1, <1>3, <1>12, <2>1 DEF Log!PeriodLag
  <1> QED
    BY <1>2, <1>11, <1>13 DEF PeriodInv, d

LEMMA LogTick ==
    ASSUME LogInv, Log!Tick
    PROVE  LogInv'
  <1>1. /\ clock' = clock + 1 /\ clock < MaxSecond
        /\ UNCHANGED <<conf, file, stamp, rotate, iCurRotate, iTail, tLastMsg, up, synced, n, lost, born, tied>>
    BY DEF Log!Tick, Log!inst
  <1>2. LogTypes /\ conf \in Devices /\ clock \in 0 .. MaxSecond /\ clock' \in 0 .. MaxSecond /\ MaxSecond \in Nat
        /\ 0 .. clock \subseteq 0 .. clock' /\ clock \in Int /\ clock' \in Int /\ clock <= clock'
    <2>1. MaxSecond \in Nat
      BY LogAssumption
    <2> QED
      BY <1>1, <2>1 DEF LogInv, LogTypes
  <1>3. Log!Stamp(clock)' = Log!Stamp(clock') /\ Log!Stamp(clock) <= Log!Stamp(clock') /\ Log!Stamp(clock) \in Int
        /\ Log!Stamp(clock') \in Int
    BY <1>1, <1>2, StampMono DEF Log!Stamp
  <1>4. \A m : Content(m) \subseteq Content(m)'
    BY <1>1, <1>2 DEF Content
  <1>5. \A z : Fits(z) <=> Fits(z)'
    BY <1>1 DEF Fits
  <1>6. LogTypes'
    <2>1. tLastMsg' \in 0 .. clock'
      BY <1>1, <1>2 DEF LogTypes
    <2>2. \/ stamp = -1 /\ ~up /\ file = [x \in {} |-> Log!Empty]
          \/ stamp \in Nat /\ stamp <= Log!Stamp(clock) /\ Newest(file, stamp, rotate)
      BY <1>2 DEF LogTypes
    <2>3. CASE stamp = -1 /\ ~up /\ file = [x \in {} |-> Log!Empty]
      <3>1. [x \in {} |-> Log!Empty] = [x \in {} |-> Log!Empty']
        OBVIOUS
      <3> QED
        BY <1>1, <1>2, <2>1, <2>3, <3>1 DEF LogTypes
    <2>4. CASE stamp \in Nat /\ stamp <= Log!Stamp(clock) /\ Newest(file, stamp, rotate)
      <3>1. stamp' <= Log!Stamp(clock)' /\ Newest(file, stamp, rotate)'
        BY <1>1, <1>3, <2>4 DEF Newest
      <3> QED
        BY <1>1, <1>2, <2>1, <2>4, <3>1 DEF LogTypes
    <2> QED
      BY <2>2, <2>3, <2>4
  <1>7. Sound(file, stamp, n, born)'
    BY <1>1, <1>4, <1>5 DEF LogInv, Sound, Mapping
  <1>8. OpenInv'
    BY <1>1, <1>4, <1>5 DEF LogInv, OpenInv
  <1>9. PeriodInv'
    BY <1>1, PeriodNext DEF LogInv
  <1>10. ASSUME ~tied'
         PROVE  Ordered(file, stamp, rotate)' /\ OldGo(file, n, born, lost)'
    <2>1. Ordered(file, stamp, rotate) /\ OldGo(file, n, born, lost)
      BY <1>1, <1>10 DEF LogInv
    <2>2. \A q, p : Behind(q, p, rotate)' <=> Behind(q, p, rotate)
      BY <1>1 DEF Behind, Rank
    <2> QED
      BY <1>1, <2>1, <2>2 DEF Ordered, OldGo
  <1> QED
    BY <1>6, <1>7, <1>8, <1>9, <1>10 DEF LogInv

LEMMA LogStop ==
    ASSUME LogInv, Log!Stop
    PROVE  LogInv'
  <1>1. /\ up /\ ~up' /\ file' = Log!Flushed
        /\ UNCHANGED <<conf, clock, stamp, rotate, iCurRotate, iTail, tLastMsg, synced, n,
                       lost, born, tied>>
    BY DEF Log!Stop
  <1>2. /\ Sound(Log!Flushed, stamp, n, born) /\ Newest(Log!Flushed, stamp, rotate)
        /\ ~tied => Ordered(Log!Flushed, stamp, rotate) /\ OldGo(Log!Flushed, n, born, lost)
    BY <1>1, FlushKeeps
  <1>3. PeriodInv'
    BY <1>1, PeriodNext DEF LogInv
  <1>4. /\ conf \in Devices /\ clock \in 0 .. MaxSecond /\ n \in 0 .. MaxMsg /\ iTail \in Nat
        /\ tLastMsg \in 0 .. clock /\ lost \subseteq 0 .. n - 1
        /\ born \in [0 .. n - 1 -> [at : Int, stamp : Int]]
        /\ iCurRotate = rotate /\ rotate \in Nat /\ (rotate = 0 \/ rotate < conf.max)
        /\ (conf.stick => rotate = 0)
    BY DEF LogInv, LogTypes
  <1>5. stamp \in Nat /\ stamp <= Log!Stamp(clock)
    BY <1>1, Running
  <1> QED
    BY <1>1, <1>2, <1>3, <1>4, <1>5, LogInvNext

LEMMA LogDie ==
    ASSUME LogInv, Log!Die
    PROVE  LogInv'
  <1> DEFINE name == <<stamp, rotate>>
             g == Log!Put(file, name, synced)
             l1 == lost \cup (file[name].msgs \ synced.msgs)
  <1>1. /\ up /\ ~up' /\ file' = [file EXCEPT ![name] = synced] /\ lost' = l1
        /\ UNCHANGED <<conf, clock, stamp, rotate, iCurRotate, iTail, tLastMsg, synced, n, born,
                       tied>>
    BY DEF Log!Die
  <1>2. /\ conf \in Devices /\ clock \in Nat /\ n \in Nat
        /\ stamp \in Nat /\ rotate \in Nat /\ (rotate = 0 \/ rotate < conf.max)
        /\ Sound(file, stamp, n, born) /\ Newest(file, stamp, rotate)
        /\ ~tied => Ordered(file, stamp, rotate) /\ OldGo(file, n, born, lost)
        /\ synced \in Content(n) /\ Fits(synced.size)
        /\ synced.msgs \subseteq file[name].msgs
        /\ synced.mtime = file[name].mtime
        /\ name \in DOMAIN file /\ stamp <= Log!Stamp(clock)
    BY <1>1, Running
  <1>3. PeriodInv'
    BY <1>1, PeriodNext DEF LogInv
  <1>4. /\ conf \in Devices /\ clock \in 0 .. MaxSecond /\ n \in 0 .. MaxMsg /\ iTail \in Nat
        /\ tLastMsg \in 0 .. clock /\ lost \subseteq 0 .. n - 1
        /\ born \in [0 .. n - 1 -> [at : Int, stamp : Int]]
        /\ iCurRotate = rotate /\ (conf.stick => rotate = 0)
    BY DEF LogInv, LogTypes
  <1>5. file' = g
    <2>1. Mapping(file') /\ Mapping(g) /\ DOMAIN file' = DOMAIN file /\ DOMAIN g = DOMAIN file
      BY <1>1, <1>2 DEF Log!Put, Mapping
    <2>2. \A x \in DOMAIN file : file'[x] = g[x]
      BY <1>1, <1>2 DEF Log!Put
    <2> HIDE DEF g
    <2> QED
      BY <2>1, <2>2 DEF Mapping
  <1>6. name[1] = stamp
    OBVIOUS
  <1>7. \A k \in synced.msgs : born[k].stamp = stamp
    BY <1>2, <1>6 DEF Sound
  <1>8. Sound(g, stamp, n, born)
    BY <1>2, <1>7, PutSound
  <1>9. Newest(g, stamp, rotate)
    BY <1>2, KeptNewest
  <1>10. ~tied => Ordered(g, stamp, rotate) /\ OldGo(g, n, born, l1)
    <2>1. /\ DOMAIN g = DOMAIN file /\ \A x \in DOMAIN file : g[x].msgs \subseteq file[x].msgs
          /\ lost \subseteq l1 /\ \A x \in DOMAIN file : file[x].msgs \subseteq g[x].msgs \cup l1
      BY <1>2 DEF Log!Put
    <2> HIDE DEF g, l1
    <2> QED
      BY <1>2, <2>1, FewerMsgs
  <1>11. l1 \subseteq 0 .. n - 1
    <2>1. file[name].msgs \subseteq 0 .. n - 1
      BY <1>2, SoundFile
    <2> QED
      BY <1>4, <2>1
  <1> HIDE DEF g, l1
  <1>12. /\ Sound(file', stamp', n', born') /\ Newest(file', stamp', rotate')
         /\ ~tied' => Ordered(file', stamp', rotate') /\ OldGo(file', n', born', lost')
         /\ lost' \subseteq 0 .. n' - 1
    BY <1>1, <1>5, <1>8, <1>9, <1>10, <1>11
  <1> QED
    BY <1>1, <1>2, <1>3, <1>4, <1>12, LogInvNext

LEMMA EmptyFile ==
    ASSUME clock \in Nat, NEW m \in Nat
    PROVE  /\ Log!Empty \in Content(m) /\ Fits(Log!Empty.size) /\ Log!Empty.msgs = {} /\ Log!Empty.mtime = clock
           /\ Log!Empty.size = 0
  BY DEF Log!Empty, Content, Fits

\* tlogfile_init finds the file in use or begins with the first one of a new stamp.
LEMMA LogStart ==
    ASSUME LogInv, Log!Start
    PROVE  LogInv'
  <1> DEFINE s == Log!Stamp(clock)
             seek  == ~conf.stick /\ Log!Numbers(s) # {}
             r     == IF seek THEN Log!Latest(s) ELSE 0
             name  == <<s, r>>
             there == IF Log!Exists(s, r) THEN file[name] ELSE Log!Empty
             g     == Log!Put(file, name, there)
  <1>1. /\ ~up /\ stamp' = s /\ rotate' = r /\ iCurRotate' = r /\ file' = g
        /\ iTail' = there.size /\ synced' = there /\ tLastMsg' = clock
        /\ (tied' <=> (tied \/ (seek /\ Log!Ambiguous(s, r))))
        /\ UNCHANGED <<conf, clock, n, lost, born>>
    BY DEF Log!Start
  <1>2. /\ conf \in Devices /\ clock \in 0 .. MaxSecond /\ clock \in Nat /\ n \in 0 .. MaxMsg /\ n \in Nat
        /\ lost \subseteq 0 .. n - 1 /\ born \in [0 .. n - 1 -> [at : Int, stamp : Int]]
        /\ rotate \in Nat /\ (rotate = 0 \/ rotate < conf.max)
        /\ (conf.stick => rotate = 0)
    BY DEF LogInv, LogTypes
  <1>3. /\ Sound(file, stamp, n, born)
        /\ ~tied => Ordered(file, stamp, rotate) /\ OldGo(file, n, born, lost)
    BY DEF LogInv
  <1>4. PeriodInv'
    <2>1. PeriodInv
      BY DEF LogInv
    <2> QED
      BY <1>1, <1>2, <2>1, PeriodFresh
  <1>5. s \in Nat
    <2>1. Log!Stamp(clock) \in 0 .. MaxSecond + conf.period
      BY <1>2, StampType
    <2> QED
      BY <2>1
  <1>6. conf.max \in Nat
    BY <1>2, ConfType
  <1>7. \/ stamp = -1 /\ file = [x \in {} |-> Log!Empty]
        \/ stamp \in Nat /\ stamp <= s /\ Newest(file, stamp, rotate)
    BY DEF LogInv, LogTypes
  <1>8. stamp \in Int /\ stamp <= s
    BY <1>5, <1>7
  \* A new stamp has no files.
  <1>9. ASSUME stamp # s
        PROVE  /\ r = 0 /\ there = Log!Empty /\ name \notin DOMAIN file
               /\ \A q \in Nat : <<s, q>> \notin DOMAIN file
    <2>1. \A q \in Nat : <<s, q>> \notin DOMAIN file
      <3> SUFFICES ASSUME NEW q \in Nat, <<s, q>> \in DOMAIN file PROVE FALSE
        OBVIOUS
      <3> DEFINE x == <<s, q>>
      <3>1. x[1] = s /\ x \in DOMAIN file
        OBVIOUS
      <3> HIDE DEF x, s
      <3>2. x[1] <= stamp
        BY <1>3, <3>1 DEF Sound
      <3> QED
        BY <1>5, <1>8, <1>9, <3>1, <3>2
    <2>2. Log!Numbers(s) = {}
      BY <1>6, <2>1 DEF Log!Numbers, Log!Exists
    <2> QED
      BY <2>1, <2>2 DEF Log!Exists
  \* A stamp in use has the file that was in use.
  <1>10. ASSUME stamp = s
         PROVE  /\ r \in Nat /\ (r = 0 \/ r < conf.max) /\ Newest(file, s, r) /\ name \in DOMAIN file
                /\ there = file[name] /\ (conf.stick => r = 0)
                /\ ~tied' => r = rotate
    <2>1. Newest(file, s, rotate)
      BY <1>5, <1>7, <1>10
    <2>2. CASE conf.stick \/ conf.max = 0
      <3>1. rotate = 0
        BY <1>2, <1>6, <2>2
      <3>2. ~seek
        <4>1. conf.max = 0 => Log!Numbers(s) = {}
          BY DEF Log!Numbers
        <4> QED
          BY <2>2, <4>1
      <3>3. r = 0
        BY <3>2
      <3> HIDE DEF r
      <3> QED
        BY <2>1, <3>1, <3>3 DEF Newest, Log!Exists
    <2>3. CASE ~conf.stick /\ conf.max # 0
      <3>1. rotate < conf.max
        BY <1>2, <1>6, <2>3
      <3>2. /\ Log!Numbers(s) # {} /\ Log!Latest(s) \in Nat /\ Log!Latest(s) < conf.max
            /\ Newest(file, s, Log!Latest(s))
            /\ ~Log!Ambiguous(s, Log!Latest(s)) => Log!Latest(s) = rotate
        BY <1>2, <1>3, <1>5, <2>1, <3>1, LatestIsNewest
      <3>3. seek /\ r = Log!Latest(s)
        BY <2>3, <3>2
      <3>4. ~tied' => r = rotate
        BY <1>1, <3>2, <3>3
      <3> HIDE DEF r, seek
      <3> QED
        BY <2>3, <3>2, <3>3, <3>4 DEF Newest, Log!Exists
    <2> QED
      BY <2>2, <2>3
  <1> HIDE DEF r, seek, s
  <1>11. there \in Content(n) /\ Fits(there.size) /\ \A k \in there.msgs : born[k].stamp = s
    <2>1. CASE stamp # s
      <3>1. there = Log!Empty
        BY <1>9, <2>1
      <3> QED
        BY <1>2, <3>1, EmptyFile
    <2>2. CASE stamp = s
      <3>1. name[1] = s /\ name \in DOMAIN file /\ there = file[name]
        BY <1>10, <2>2
      <3> HIDE DEF name, there
      <3>2. file[name] \in Content(n) /\ Fits(file[name].size)
            /\ \A k \in file[name].msgs : born[k].stamp = name[1]
        BY <1>3, <3>1 DEF Sound
      <3> QED
        BY <3>1, <3>2
    <2> QED
      BY <2>1, <2>2
  <1>12. /\ r \in Nat /\ (r = 0 \/ r < conf.max) /\ (conf.stick => r = 0)
    BY <1>9, <1>10
  <1>13. g[name] = there
    BY DEF Log!Put
  <1>14. there.size \in Nat
    BY <1>11 DEF Content
  <1> HIDE DEF there
  <1>15. Sound(g, s, n, born)
    BY <1>2, <1>3, <1>5, <1>8, <1>11, <1>12, PutSound
  <1>16. Newest(g, s, r)
    <2>1. CASE stamp # s
      <3>1. there.mtime = clock
        BY <1>2, <1>9, <2>1, EmptyFile
      <3>2. \A q \in Nat : <<s, q>> \in DOMAIN g => q = r
        BY <1>9, <2>1 DEF Log!Put
      <3>3. name \in DOMAIN g
        BY DEF Log!Put
      <3> HIDE DEF g
      <3> QED
        BY <1>11, <1>12, <1>13, <3>1, <3>2, <3>3 DEF Newest, Content
    <2>2. CASE stamp = s
      BY <1>5, <1>10, <1>12, <2>2, KeptNewest
    <2> QED
      BY <2>1, <2>2
  <1>17. ASSUME ~tied'
         PROVE  Ordered(g, s, r) /\ OldGo(g, n, born, lost)
    <2>0. Ordered(file, stamp, rotate) /\ OldGo(file, n, born, lost)
      BY <1>1, <1>3, <1>17
    <2>1. CASE stamp # s
      <3>1. there.msgs = {} /\ name \notin DOMAIN file
        BY <1>2, <1>9, <2>1, EmptyFile
      <3>2. OldGo(g, n, born, lost)
        BY <1>2, <1>3, <1>8, <2>0, <3>1, ClearOldGo
      <3>3. \A q \in Nat : <<s, q>> \in DOMAIN g => q = r
        BY <1>9, <2>1 DEF Log!Put
      <3>4. g[name].msgs = {}
        BY <1>13, <3>1
      <3> HIDE DEF g
      <3>5. Ordered(g, s, r)
        BY <3>3, <3>4 DEF Ordered
      <3> QED
        BY <3>2, <3>5
    <2>2. CASE stamp = s
      <3>1. DOMAIN g = DOMAIN file /\ \A x \in DOMAIN file : g[x].msgs = file[x].msgs
        BY <1>10, <2>2 DEF Log!Put
      <3> HIDE DEF g
      <3>2. Ordered(g, stamp, rotate) /\ OldGo(g, n, born, lost)
        BY <2>0, <3>1, FewerMsgs
      <3> QED
        BY <1>10, <1>17, <2>2, <3>2
    <2> QED
      BY <2>1, <2>2
  <1> HIDE DEF g
  <1>18. /\ Sound(file', stamp', n', born') /\ Newest(file', stamp', rotate')
         /\ ~tied' => Ordered(file', stamp', rotate') /\ OldGo(file', n', born', lost')
    BY <1>1, <1>15, <1>16, <1>17
  <1>19. /\ iTail' = file'[<<stamp', rotate'>>].size /\ iTail' \in Nat
         /\ synced' \in Content(n') /\ Fits(synced'.size)
         /\ synced'.msgs \subseteq file'[<<stamp', rotate'>>].msgs
         /\ synced'.mtime = file'[<<stamp', rotate'>>].mtime
    BY <1>1, <1>11, <1>13, <1>14
  <1>20. /\ stamp' \in Nat /\ stamp' <= Log!Stamp(clock) /\ rotate' \in Nat
         /\ (rotate' = 0 \/ rotate' < conf.max) /\ (conf.stick => rotate' = 0)
         /\ iCurRotate' = rotate' /\ tLastMsg' \in 0 .. clock
         /\ n' \in 0 .. MaxMsg /\ lost' \subseteq 0 .. n' - 1
         /\ born' \in [0 .. n' - 1 -> [at : Int, stamp : Int]] /\ conf' = conf /\ clock' = clock
    BY <1>1, <1>2, <1>5, <1>12 DEF s
  <1> QED
    BY <1>2, <1>4, <1>18, <1>19, <1>20, LogInvNext

\* A message that finds room.
LEMMA RoomFits ==
    ASSUME conf \in Devices, NEW kind \in Messages, iTail \in Nat, ~Log!Full(kind)
    PROVE  Fits(iTail + kind.size)
  <1>1. kind.size \in Nat /\ kind.counted \in Nat /\ conf.limit \in Nat
    BY LogAssumption
  <1>2. iTail + kind.size <= conf.limit + (kind.size - kind.counted)
    BY <1>1 DEF Log!Full
  <1> QED
    BY <1>2 DEF Fits

\* What a message leaves, once the file it goes to is there.
LEMMA RecordStep ==
    ASSUME LogInv, NEW kind \in Messages, NEW f, NEW s, s = Log!Stamp(clock) \/ s = stamp,
           NEW r \in Nat, r = 0 \/ r < conf.max, conf.stick => r = 0,
           Sound(f, s, n, born), Newest(f, s, r),
           ~tied => Ordered(f, s, r) /\ OldGo(f, n, born, lost),
           NEW before \in Content(n), Fits(before.size),
           before.msgs \subseteq f[<<s, r>>].msgs, before.mtime = f[<<s, r>>].mtime,
           Fits(f[<<s, r>>].size + kind.size), f[<<s, r>>].size \in Nat,
           Log!Record(kind, f, <<s, r>>, before),
           stamp' = s, rotate' = r, iCurRotate' = r, iTail' = f[<<s, r>>].size + kind.size,
           s = Log!Stamp(clock) \/ Log!SameFile(kind)
    PROVE  LogInv'
  <1>0. up
    BY DEF Log!Record
  <1>1. /\ conf \in Devices /\ clock \in Nat /\ n \in Nat /\ DOMAIN born = 0 .. n - 1
        /\ s \in Nat /\ s <= Log!Stamp(clock) /\ stamp \in Nat
    BY <1>0, Running
  <1>2. /\ Sound(file', s, n', born') /\ Newest(file', s, r)
        /\ ~tied' => Ordered(file', s, r) /\ OldGo(file', n', born', lost')
        /\ synced' \in Content(n') /\ Fits(synced'.size)
        /\ synced'.msgs \subseteq file'[<<s, r>>].msgs
        /\ synced'.mtime = file'[<<s, r>>].mtime
        /\ file'[<<s, r>>].size = f[<<s, r>>].size + kind.size
        /\ n' = n + 1 /\ born' = Log!Put(born, n, [at |-> clock, stamp |-> s])
        /\ UNCHANGED <<conf, clock, up, lost, tied>> /\ tLastMsg' = clock /\ n < MaxMsg /\ up
    BY <1>1, RecordKeeps
  <1>3. /\ clock \in 0 .. MaxSecond /\ n \in 0 .. MaxMsg /\ lost \subseteq 0 .. n - 1
        /\ born \in [0 .. n - 1 -> [at : Int, stamp : Int]] /\ tLastMsg \in 0 .. clock
        /\ MaxMsg \in Nat
    BY LogAssumption DEF LogInv, LogTypes
  <1>4. /\ n' \in 0 .. MaxMsg /\ lost' \subseteq 0 .. n' - 1
        /\ born' \in [0 .. n' - 1 -> [at : Int, stamp : Int]]
    <2>1. n' \in 0 .. MaxMsg /\ n' - 1 = n
      BY <1>2, <1>3
    <2>2. lost' \subseteq 0 .. n' - 1
      BY <1>2, <1>3, <2>1
    <2>3. DOMAIN born' = 0 .. n /\ 0 .. n = (0 .. n - 1) \cup {n}
      BY <1>1, <1>2 DEF Log!Put
    <2>4. [at |-> clock, stamp |-> s] \in [at : Int, stamp : Int]
      BY <1>1
    <2>5. \A k \in 0 .. n : born'[k] \in [at : Int, stamp : Int]
      BY <1>2, <1>3, <2>3, <2>4 DEF Log!Put
    <2>6. Mapping(born')
      BY <1>2 DEF Log!Put, Mapping
    <2> QED
      BY <2>1, <2>2, <2>3, <2>5, <2>6 DEF Mapping
  <1>5. PeriodInv'
    <2>0. PeriodInv
      BY DEF LogInv
    <2>1. CASE s = Log!Stamp(clock)
      BY <1>1, <1>2, <2>0, <2>1, PeriodFresh
    <2>2. CASE s # Log!Stamp(clock)
      <3>1. Log!SameFile(kind) /\ s = stamp
        BY <2>2
      <3>2. conf.period > 0 => clock \div conf.period = tLastMsg \div conf.period
        BY <1>1, <3>1, ConfType DEF Log!SameFile
      <3> QED
        BY <1>1, <1>2, <1>3, <2>0, <3>1, <3>2, PeriodSame
    <2> QED
      BY <2>1, <2>2
  <1>6. iTail' \in Nat
    BY LogAssumption
  <1>7. /\ Sound(file', stamp', n', born') /\ Newest(file', stamp', rotate')
        /\ ~tied' => Ordered(file', stamp', rotate') /\ OldGo(file', n', born', lost')
        /\ iTail' = file'[<<stamp', rotate'>>].size
        /\ synced' \in Content(n') /\ Fits(synced'.size)
        /\ synced'.msgs \subseteq file'[<<stamp', rotate'>>].msgs
        /\ synced'.mtime = file'[<<stamp', rotate'>>].mtime
    BY <1>2
  <1>8. /\ stamp' \in Nat /\ stamp' <= Log!Stamp(clock) /\ rotate' \in Nat
        /\ (rotate' = 0 \/ rotate' < conf.max) /\ (conf.stick => rotate' = 0)
        /\ iCurRotate' = rotate' /\ tLastMsg' \in 0 .. clock /\ conf' = conf /\ clock' = clock
    BY <1>1, <1>2
  <1> QED
    BY <1>1, <1>3, <1>4, <1>5, <1>6, <1>7, <1>8, LogInvNext

LEMMA LogWriteOn ==
    ASSUME LogInv, NEW kind \in Messages, Log!WriteOn(kind)
    PROVE  LogInv'
  <1>0. up
    BY DEF Log!WriteOn, Log!Record
  <1> DEFINE name == <<stamp, rotate>>
  <1>1. /\ conf \in Devices /\ rotate \in Nat /\ (rotate = 0 \/ rotate < conf.max)
        /\ (conf.stick => rotate = 0)
        /\ iCurRotate = rotate /\ Sound(file, stamp, n, born) /\ Newest(file, stamp, rotate)
        /\ ~tied => Ordered(file, stamp, rotate) /\ OldGo(file, n, born, lost)
        /\ synced \in Content(n) /\ Fits(synced.size)
        /\ synced.msgs \subseteq file[name].msgs /\ synced.mtime = file[name].mtime
        /\ iTail = file[name].size /\ iTail \in Nat
    BY <1>0, Running
  <1>2. /\ Log!SameFile(kind) /\ Log!Record(kind, file, name, synced) /\ iTail' = iTail + kind.size
        /\ stamp' = stamp /\ rotate' = rotate /\ iCurRotate' = rotate
    BY <1>1 DEF Log!WriteOn
  <1>3. Fits(file[name].size + kind.size)
    BY <1>1, <1>2, RoomFits DEF Log!SameFile
  <1> QED
    BY <1>1, <1>2, <1>3, RecordStep

\* A file that begins anew.
LEMMA FreshStep ==
    ASSUME LogInv, up, NEW kind \in Messages, NEW base, NEW s \in Nat, s = Log!Stamp(clock),
           NEW r \in Nat, r = 0 \/ r < conf.max, conf.stick => r = 0,
           NEW t \in Int, t <= s, Sound(base, t, n, born),
           ~tied => /\ Ordered(Log!Put(base, <<s, r>>, Log!Empty), s, r)
                    /\ OldGo(Log!Put(base, <<s, r>>, Log!Empty), n, born, lost),
           Log!Record(kind, Log!Put(base, <<s, r>>, Log!Empty), <<s, r>>, Log!Empty),
           stamp' = s, rotate' = r, iCurRotate' = r, iTail' = kind.size
    PROVE  LogInv'
  <1> DEFINE f == Log!Put(base, <<s, r>>, Log!Empty)
  <1>1. conf \in Devices /\ clock \in Nat /\ n \in Nat
    BY Running
  <1>2. /\ Log!Empty \in Content(n) /\ Fits(Log!Empty.size) /\ Log!Empty.msgs = {} /\ Log!Empty.mtime = clock
        /\ Log!Empty.size = 0
    BY <1>1, EmptyFile
  <1>3. Sound(f, s, n, born)
    BY <1>1, <1>2, PutSound
  <1>4. f[<<s, r>>] = Log!Empty
    BY DEF Log!Put
  <1>5. Newest(f, s, r)
    <2>1. Newest(Log!Put(f, <<s, r>>, Log!Empty), s, r)
      BY <1>1, <1>2, <1>3, NewestNow
    <2>2. DOMAIN Log!Put(f, <<s, r>>, Log!Empty) = DOMAIN f
      BY DEF Log!Put
    <2>3. \A x \in DOMAIN f : Log!Put(f, <<s, r>>, Log!Empty)[x] = f[x]
      BY DEF Log!Put
    <2> HIDE DEF f
    <2> QED
      BY <2>1, <2>2, <2>3 DEF Newest
  <1>6. kind.size \in Nat /\ Fits(kind.size)
    BY LogAssumption DEF Fits
  <1>7. Fits(f[<<s, r>>].size + kind.size) /\ f[<<s, r>>].size + kind.size = kind.size
        /\ f[<<s, r>>].size \in Nat
    BY <1>2, <1>4, <1>6
  <1> HIDE DEF f
  <1>8. Log!Empty.msgs \subseteq f[<<s, r>>].msgs /\ Log!Empty.mtime = f[<<s, r>>].mtime
    BY <1>4
  <1>9. Log!Record(kind, f, <<s, r>>, Log!Empty) /\ (~tied => Ordered(f, s, r) /\ OldGo(f, n, born, lost))
    BY DEF f
  <1> QED
    BY <1>2, <1>3, <1>5, <1>7, <1>8, <1>9, RecordStep

\* The number after rotate, if the file is full.
LEMMA NextNumber ==
    ASSUME conf \in Devices, NEW kind \in Messages, rotate \in Nat, rotate = 0 \/ rotate < conf.max,
           iCurRotate = rotate
    PROVE  /\ Log!Numbered(stamp, Log!Rotated(kind)) =
                 IF Log!Full(kind) THEN IF rotate + 1 < conf.max THEN rotate + 1 ELSE 0 ELSE rotate
           /\ \A s : s # stamp => Log!Numbered(s, Log!Rotated(kind)) = 0
  <1>0. conf.max \in Nat
    BY ConfType
  <1>1. \A s : s # stamp => Log!Numbered(s, Log!Rotated(kind)) = 0
    BY DEF Log!Numbered
  <1>2. CASE conf.max = 0
    BY <1>0, <1>1, <1>2 DEF Log!Numbered
  <1>3. CASE conf.max > 0
    <2>1. Log!Numbered(stamp, Log!Rotated(kind)) = Log!Rotated(kind) % conf.max
      BY <1>0, <1>3 DEF Log!Numbered
    <2>2. rotate % conf.max = rotate /\ 0 % conf.max = 0 /\ rotate < conf.max
      BY <1>0, <1>3, ModSmall
    <2>3. (rotate + 1) % conf.max = IF rotate + 1 < conf.max THEN rotate + 1 ELSE 0
      <3>1. CASE rotate + 1 < conf.max
        BY <1>0, <3>1, ModSmall
      <3>2. CASE ~ (rotate + 1 < conf.max)
        <4>1. rotate + 1 = conf.max
          BY <1>0, <2>2, <3>2
        <4> QED
          BY <1>0, <1>3, <3>2, <4>1, ModWraps
      <3> QED
        BY <3>1, <3>2
    <2>4. CASE Log!Full(kind)
      <3>1. Log!Rotated(kind) = IF rotate + 1 < conf.max THEN rotate + 1 ELSE 0
        BY <1>3, <2>3, <2>4 DEF Log!Rotated
      <3>2. Log!Rotated(kind) \in Nat /\ Log!Rotated(kind) < conf.max
        BY <1>0, <1>3, <3>1
      <3>3. Log!Rotated(kind) % conf.max = Log!Rotated(kind)
        BY <1>0, <3>2, ModSmall
      <3> QED
        BY <1>1, <2>1, <2>4, <3>1, <3>3
    <2>5. CASE ~Log!Full(kind)
      BY <1>1, <2>1, <2>2, <2>5 DEF Log!Rotated
    <2> QED
      BY <2>4, <2>5
  <1> QED
    BY <1>0, <1>2, <1>3

LEMMA LogWriteOther ==
    ASSUME LogInv, NEW kind \in Messages, Log!WriteOther(kind)
    PROVE  LogInv'
  <1> DEFINE s    == Log!Stamp(clock)
             r    == Log!Numbered(s, Log!Rotated(kind))
             same == s = stamp /\ r = rotate
             keep == same /\ ~Log!Full(kind)
             pile == ~same /\ conf.stick /\ r > 0
             name == <<s, IF pile THEN 0 ELSE r>>
             base == IF pile THEN Log!Shifted(Log!Flushed, s) ELSE Log!Flushed
  <1>1. /\ ~Log!SameFile(kind)
        /\ IF keep THEN Log!Record(kind, file, name, synced)
           ELSE Log!Record(kind, Log!Put(base, name, Log!Empty), name, Log!Empty)
        /\ iTail' = kind.size + (IF keep THEN iTail ELSE 0)
        /\ stamp' = s /\ iCurRotate' = name[2] /\ rotate' = name[2]
    BY DEF Log!WriteOther
  <1>2. up
    BY <1>1 DEF Log!Record
  <1>3. /\ conf \in Devices /\ clock \in Nat /\ n \in Nat
        /\ stamp \in Nat /\ rotate \in Nat /\ (rotate = 0 \/ rotate < conf.max)
        /\ (conf.stick => rotate = 0) /\ iCurRotate = rotate
        /\ Sound(file, stamp, n, born) /\ Newest(file, stamp, rotate)
        /\ ~tied => Ordered(file, stamp, rotate) /\ OldGo(file, n, born, lost)
        /\ synced \in Content(n) /\ Fits(synced.size)
        /\ synced.msgs \subseteq file[<<stamp, rotate>>].msgs
        /\ synced.mtime = file[<<stamp, rotate>>].mtime
        /\ iTail = file[<<stamp, rotate>>].size /\ iTail \in Nat
        /\ stamp <= s /\ s \in Nat
    BY <1>2, Running
  <1>4. kind.size \in Nat /\ conf.max \in Nat
    BY <1>3, LogAssumption, ConfType
  <1>5. /\ s = stamp => r = IF Log!Full(kind) THEN IF rotate + 1 < conf.max THEN rotate + 1 ELSE 0
                            ELSE rotate
        /\ s # stamp => r = 0
    BY <1>3, NextNumber
  <1>6. /\ Sound(Log!Flushed, stamp, n, born) /\ DOMAIN Log!Flushed = DOMAIN file
        /\ ~tied => Ordered(Log!Flushed, stamp, rotate) /\ OldGo(Log!Flushed, n, born, lost)
    BY <1>2, FlushKeeps
  <1>7. s = Log!Stamp(clock)
    OBVIOUS
  <1>8. r \in Nat /\ (r = 0 \/ r < conf.max) /\ iTail + kind.size = kind.size + iTail
    BY <1>3, <1>4, <1>5
  <1> HIDE DEF s, r
  \* The file stays open: the period is over, the stamp is the same.
  <1>9. CASE keep
    <2>1. s = stamp /\ r = rotate /\ ~Log!Full(kind) /\ name = <<stamp, rotate>>
      BY <1>9
    <2>2. /\ Log!Record(kind, file, <<stamp, rotate>>, synced)
          /\ iTail' = file[<<stamp, rotate>>].size + kind.size
          /\ stamp' = stamp /\ iCurRotate' = rotate /\ rotate' = rotate
      BY <1>1, <1>3, <1>8, <1>9, <2>1
    <2>3. Fits(file[<<stamp, rotate>>].size + kind.size)
      BY <1>3, <2>1, RoomFits
    <2>4. stamp = Log!Stamp(clock)
      BY <1>7, <2>1
    <2> QED
      BY <1>3, <2>2, <2>3, <2>4, RecordStep
  \* The first file of a new stamp.
  <1>10. CASE s # stamp
    <2>1. r = 0 /\ ~keep /\ ~pile /\ name = <<s, 0>> /\ base = Log!Flushed
      BY <1>5, <1>10
    <2> HIDE DEF keep, pile, name, base
    <2>2. /\ Log!Record(kind, Log!Put(Log!Flushed, <<s, 0>>, Log!Empty), <<s, 0>>, Log!Empty) /\ iTail' = kind.size
          /\ stamp' = s /\ iCurRotate' = 0 /\ rotate' = 0
      BY <1>1, <1>4, <2>1
    <2>3. \A q \in Nat : <<s, q>> \notin DOMAIN Log!Flushed
      <3> SUFFICES ASSUME NEW q \in Nat, <<s, q>> \in DOMAIN Log!Flushed PROVE FALSE
        OBVIOUS
      <3> DEFINE x == <<s, q>>
      <3>1. x[1] = s /\ x \in DOMAIN Log!Flushed
        OBVIOUS
      <3> HIDE DEF x
      <3>2. x[1] <= stamp
        BY <1>6, <3>1 DEF Sound
      <3> QED
        BY <1>3, <1>10, <3>1, <3>2
    <2>4. Log!Empty.msgs = {}
      BY <1>3, EmptyFile
    <2>5. ~tied => /\ Ordered(Log!Put(Log!Flushed, <<s, 0>>, Log!Empty), s, 0)
                   /\ OldGo(Log!Put(Log!Flushed, <<s, 0>>, Log!Empty), n, born, lost)
      <3> SUFFICES ASSUME ~tied
                   PROVE  /\ Ordered(Log!Put(Log!Flushed, <<s, 0>>, Log!Empty), s, 0)
                          /\ OldGo(Log!Put(Log!Flushed, <<s, 0>>, Log!Empty), n, born, lost)
        OBVIOUS
      <3> DEFINE g == Log!Put(Log!Flushed, <<s, 0>>, Log!Empty)
      <3>1. OldGo(g, n, born, lost)
        BY <1>3, <1>6, <2>3, <2>4, ClearOldGo
      <3>2. /\ \A q \in Nat : <<s, q>> \in DOMAIN g => q = 0
            /\ g[<<s, 0>>].msgs = {}
        BY <2>3, <2>4 DEF Log!Put
      <3> HIDE DEF g
      <3>3. Ordered(g, s, 0)
        BY <3>2 DEF Ordered
      <3> QED
        BY <3>1, <3>3 DEF g
    <2> QED
      BY <1>2, <1>3, <1>6, <1>7, <2>2, <2>5, FreshStep
  \* The next number in the ring; or the only file begins anew.
  <1>11. CASE s = stamp /\ ~keep /\ ~pile
    <2>1. Log!Full(kind) /\ r = IF rotate + 1 < conf.max THEN rotate + 1 ELSE 0
      BY <1>5, <1>11
    <2>2. name = <<s, r>> /\ base = Log!Flushed
      BY <1>11
    <2>3. conf.stick => conf.max <= 1 /\ r = 0
      <3>1. ASSUME conf.stick, conf.max > 1 PROVE FALSE
        <4>1. rotate = 0 /\ r = 1 /\ r # rotate /\ r > 0
          BY <1>3, <1>4, <2>1, <3>1
        <4> QED
          BY <1>11, <3>1, <4>1
      <3> QED
        BY <1>3, <1>4, <2>1, <3>1
    <2> HIDE DEF keep, pile, name, base
    <2>4. /\ Log!Record(kind, Log!Put(Log!Flushed, <<s, r>>, Log!Empty), <<s, r>>, Log!Empty) /\ iTail' = kind.size
          /\ stamp' = s /\ iCurRotate' = r /\ rotate' = r
      BY <1>1, <1>4, <1>11, <2>2
    <2>5. Log!Empty.msgs = {}
      BY <1>3, EmptyFile
    <2>6. ~tied => /\ Ordered(Log!Put(Log!Flushed, <<s, r>>, Log!Empty), s, r)
                   /\ OldGo(Log!Put(Log!Flushed, <<s, r>>, Log!Empty), n, born, lost)
      <3> SUFFICES ASSUME ~tied
                   PROVE  /\ Ordered(Log!Put(Log!Flushed, <<s, r>>, Log!Empty), s, r)
                          /\ OldGo(Log!Put(Log!Flushed, <<s, r>>, Log!Empty), n, born, lost)
        OBVIOUS
      <3>1. Ordered(Log!Flushed, s, rotate) /\ OldGo(Log!Flushed, n, born, lost) /\ Sound(Log!Flushed, s, n, born)
        BY <1>6, <1>11
      <3>2. /\ Ordered(Log!Put(Log!Flushed, <<s, r>>, Log!Empty), s, r)
            /\ <<s, r>> \in DOMAIN Log!Flushed => \A x \in DOMAIN Log!Flushed : x # <<s, r>> /\ x[1] = s =>
                 \A k \in Log!Flushed[<<s, r>>].msgs, a \in Log!Flushed[x].msgs : k < a
        BY <1>3, <1>8, <2>1, <2>3, <2>5, <3>1, ClearRing
      <3>3. <<s, r>>[1] = s
        OBVIOUS
      <3>4. OldGo(Log!Put(Log!Flushed, <<s, r>>, Log!Empty), n, born, lost)
        BY <1>3, <2>5, <3>1, <3>2, <3>3, ClearOldGo
      <3> QED
        BY <3>2, <3>4
    <2> QED
      BY <1>2, <1>3, <1>6, <1>7, <1>8, <2>3, <2>4, <2>6, FreshStep
  \* All files of the stamp move up.
  <1>12. CASE s = stamp /\ pile
    <2>1. conf.stick /\ r > 0 /\ ~keep /\ name = <<s, 0>> /\ base = Log!Shifted(Log!Flushed, s) /\ rotate = 0
      BY <1>3, <1>12
    <2>2. conf.max > 1
      BY <1>4, <1>8, <2>1
    <2> HIDE DEF keep, pile, name, base
    <2>3. /\ Log!Record(kind, Log!Put(Log!Shifted(Log!Flushed, s), <<s, 0>>, Log!Empty), <<s, 0>>, Log!Empty)
          /\ iTail' = kind.size /\ stamp' = s /\ iCurRotate' = 0 /\ rotate' = 0
      BY <1>1, <1>4, <2>1
    <2>4. Log!Empty.msgs = {}
      BY <1>3, EmptyFile
    <2>5. Sound(Log!Flushed, s, n, born)
      BY <1>6, <1>12
    <2>6. Sound(Log!Shifted(Log!Flushed, s), s, n, born)
      BY <1>3, <2>2, <2>5, ShiftSound
    <2>7. ~tied => /\ Ordered(Log!Put(Log!Shifted(Log!Flushed, s), <<s, 0>>, Log!Empty), s, 0)
                   /\ OldGo(Log!Put(Log!Shifted(Log!Flushed, s), <<s, 0>>, Log!Empty), n, born, lost)
      <3> SUFFICES ASSUME ~tied
                   PROVE  /\ Ordered(Log!Put(Log!Shifted(Log!Flushed, s), <<s, 0>>, Log!Empty), s, 0)
                          /\ OldGo(Log!Put(Log!Shifted(Log!Flushed, s), <<s, 0>>, Log!Empty), n, born, lost)
        OBVIOUS
      <3>1. Ordered(Log!Flushed, s, 0) /\ OldGo(Log!Flushed, n, born, lost)
        BY <1>6, <1>12, <2>1
      <3>2. Ordered(Log!Put(Log!Shifted(Log!Flushed, s), <<s, 0>>, Log!Empty), s, 0)
        BY <1>3, <2>1, <2>2, <2>4, <2>5, <3>1, ShiftOrdered
      <3>3. OldGo(Log!Put(Log!Shifted(Log!Flushed, s), <<s, 0>>, Log!Empty), n, born, lost)
        BY <1>3, <2>1, <2>2, <2>4, <2>5, <3>1, ShiftOldGo
      <3> QED
        BY <3>2, <3>3
    <2> QED
      BY <1>2, <1>3, <1>7, <2>3, <2>6, <2>7, FreshStep
  <1> QED
    BY <1>9, <1>10, <1>11, <1>12

LEMMA LogStutter ==
    ASSUME LogInv, UNCHANGED Log!vars
    PROVE  LogInv'
  <1>1. UNCHANGED <<conf, clock, file, stamp, rotate, iCurRotate, iTail, tLastMsg, up, synced, n,
                    lost, born, tied>>
    BY DEF Log!vars
  <1>2. LogTypes'
    <2>1. [x \in {} |-> Log!Empty] = [x \in {} |-> Log!Empty']
      OBVIOUS
    <2> QED
      BY <1>1, <2>1 DEF LogInv, LogTypes, Newest, Log!Stamp
  <1>3. \A m : Content(m)' = Content(m)
    BY <1>1 DEF Content
  <1>4. \A z : Fits(z)' <=> Fits(z)
    BY <1>1 DEF Fits
  <1>5. Sound(file, stamp, n, born)'
    BY <1>1, <1>3, <1>4 DEF LogInv, Sound, Mapping
  <1>6. OpenInv'
    BY <1>1, <1>3, <1>4 DEF LogInv, OpenInv
  <1>7. PeriodInv'
    BY <1>1, PeriodNext DEF LogInv
  <1>8. ASSUME ~tied'
        PROVE  Ordered(file, stamp, rotate)' /\ OldGo(file, n, born, lost)'
    <2>1. Ordered(file, stamp, rotate) /\ OldGo(file, n, born, lost)
      BY <1>1, <1>8 DEF LogInv
    <2>2. \A q, p : Behind(q, p, rotate)' <=> Behind(q, p, rotate)
      BY <1>1 DEF Behind, Rank
    <2> QED
      BY <1>1, <2>1, <2>2 DEF Ordered, OldGo
  <1> QED
    BY <1>2, <1>5, <1>6, <1>7, <1>8 DEF LogInv

LEMMA LogStep == LogInv /\ [Log!Next]_Log!vars => LogInv'
  <1> SUFFICES ASSUME LogInv, [Log!Next]_Log!vars PROVE LogInv'
    OBVIOUS
  <1>1. CASE UNCHANGED Log!vars
    BY <1>1, LogStutter
  <1>2. CASE Log!Next
    BY <1>2, LogStart, LogStop, LogDie, LogTick, LogWriteOn, LogWriteOther DEF Log!Next
  <1> QED
    BY <1>1, <1>2

LEMMA LogInvImplies ==
    ASSUME LogInv
    PROVE  Log!TypeOK /\ Log!OldestGo /\ Log!Bounded /\ Log!PeriodLag
  <1>1. /\ conf \in Devices /\ clock \in 0 .. MaxSecond /\ n \in 0 .. MaxMsg /\ n \in Nat
        /\ tLastMsg \in 0 .. clock /\ lost \subseteq 0 .. n - 1 /\ DOMAIN born = 0 .. n - 1
        /\ iCurRotate = rotate /\ Sound(file, stamp, n, born)
    BY DEF LogInv, LogTypes
  <1>2. ASSUME NEW x \in DOMAIN file
        PROVE  /\ file[x].msgs \subseteq 0 .. n - 1 /\ file[x].size \in Nat /\ file[x].mtime \in 0 .. clock
               /\ Fits(file[x].size) /\ x = <<x[1], x[2]>> /\ x[1] \in Nat /\ x[2] \in Nat
               /\ (x[2] = 0 \/ x[2] < conf.max) /\ x[1] <= stamp
    BY <1>1, SoundFile
  <1>3. Log!TypeOK
    <2>1. conf.max \in Nat /\ MaxSecond + conf.period \in Int
      BY <1>1, ConfType, LogAssumption
    <2>2. DOMAIN file \subseteq (0 .. MaxSecond + conf.period) \X (0 .. conf.max)
      <3> SUFFICES ASSUME NEW x \in DOMAIN file
                   PROVE  x \in (0 .. MaxSecond + conf.period) \X (0 .. conf.max)
        OBVIOUS
      <3>1. stamp \in Nat /\ stamp <= Log!Stamp(clock)
        <4>1. DOMAIN file # {}
          OBVIOUS
        <4> QED
          BY <4>1 DEF LogInv, LogTypes
      <3>2. Log!Stamp(clock) \in 0 .. MaxSecond + conf.period
        BY <1>1, StampType
      <3>3. x[1] \in 0 .. MaxSecond + conf.period /\ x[2] \in 0 .. conf.max /\ x = <<x[1], x[2]>>
        BY <1>2, <2>1, <3>1, <3>2
      <3> QED
        BY <3>3
    <2>3. up => Log!Exists(stamp, rotate) /\ iTail = file[<<stamp, rotate>>].size
      BY Running DEF Log!Exists
    <2> QED
      BY <1>1, <1>2, <2>2, <2>3 DEF Log!TypeOK
  <1>4. Log!OldestGo
    <2> SUFFICES ASSUME ~tied, NEW a \in Log!Kept, NEW b \in 0 .. n - 1, a < b, born[a].stamp = born[b].stamp
                 PROVE  b \in Log!Kept \cup lost
      BY DEF Log!OldestGo
    <2>1. PICK x \in DOMAIN file : a \in file[x].msgs
      BY DEF Log!Kept
    <2>2. b \in lost \/ \E y \in DOMAIN file : b \in file[y].msgs
      BY <2>1 DEF LogInv, OldGo
    <2> QED
      BY <2>2 DEF Log!Kept
  <1>5. Log!Bounded
    BY <1>2 DEF Log!Bounded, Fits
  <1>6. Log!PeriodLag
    BY DEF LogInv, PeriodInv, Log!PeriodLag
  <1> QED
    BY <1>3, <1>4, <1>5, <1>6

\* Log files keep their bounds, and rotation takes the oldest messages of a stamp.
THEOREM LogSafe == Log!Spec => [](Log!TypeOK /\ Log!OldestGo /\ Log!Bounded /\ Log!PeriodLag)
  <1>1. LogInv => Log!TypeOK /\ Log!OldestGo /\ Log!Bounded /\ Log!PeriodLag
    BY LogInvImplies
  <1> QED
    BY <1>1, LogInit, LogStep, PTL DEF Log!Spec
-----------------------------------------------------------------------------
(***************************************************************************)
(* The parts together: a step of Library is a step of the part sys names   *)
(* and leaves the variables of the others alone.                           *)
(***************************************************************************)
libVars == <<sys, poolVars, tableVars, logVars, appVars>>

LifeP == INSTANCE TappLifeProofs
         WITH clock <- aClock, stamp <- aStamp, conf <- aConf, Proc <- Daemons,
              None <- Nobody, BadVers <- {}, MaxVer <- 1, MaxTime <- 0, MaxCmd <- 1,
              MaxCrash <- 1

ReloadP == INSTANCE TappLifeProofs
           WITH clock <- aClock, stamp <- aStamp, conf <- aConf, Proc <- {1},
                None <- Nobody, BadVers <- BadEdits, MaxVer <- MaxEdit, MaxTime <- MaxSecond,
                MaxCrash <- 0

LEMMA LibParts ==
    /\ LibInit => Init /\ Table!Init /\ Log!Init
    /\ [LibNext]_libVars => [Next]_vars /\ [Table!Next]_Table!vars /\ [Log!Next]_Log!vars
  <1>1. LibInit => Init /\ Table!Init /\ Log!Init
    BY DEF LibInit
  <1>2. ASSUME [LibNext]_libVars
        PROVE  [Next]_vars /\ [Table!Next]_Table!vars /\ [Log!Next]_Log!vars
    <2> DEFINE others == UNCHANGED <<tableVars, logVars>>
    <2>1. Table!vars = tableVars /\ Log!vars = logVars /\ poolVars = vars
      BY DEF Table!vars, Log!vars, tableVars, logVars, poolVars
    <2>2. [Next]_vars
      BY <1>2 DEF LibNext, libVars, poolVars
    <2>3. [Table!Next]_tableVars /\ [Log!Next]_logVars
      BY <1>2 DEF LibNext, libVars
    <2>4. (tableVars' = tableVars => Table!vars' = Table!vars) /\ (logVars' = logVars => Log!vars' = Log!vars)
      BY DEF Table!vars, Log!vars, tableVars, logVars
    <2> QED
      BY <2>2, <2>3, <2>4
  <1> QED
    BY <1>1, <1>2

LEMMA LifeSame ==
    /\ Life!Init => LifeP!Init
    /\ Life!Next => LifeP!Next
    /\ appVars' = appVars => LifeP!vars' = LifeP!vars
    /\ LifeP!TypeOK => Life!TypeOK
    /\ LifeP!Named => Life!Named
  <1>1. Life!Init => LifeP!Init
    BY DEF Life!Init, LifeP!Init
  <1>2. Life!Next => LifeP!Next
    BY DEF Life!file, Life!flags, Life!count, Life!Claiming, Life!InLoop, Life!Running,
           Life!Alive, Life!Goto, Life!Start, Life!StartParse, Life!StartStat, Life!KillRead,
           Life!KillSignal, Life!Waited, Life!TimedOut, Life!PidOpen, Life!PidWrite,
           Life!AppInit, Life!LoopTop, Life!LoopReload, Life!ReloadStat, Life!ReloadParse,
           Life!LoopProc, Life!Fini, Life!Edit, Life!Tick, Life!Command, Life!Signal,
           Life!Crash, Life!Step, Life!Next, LifeP!file, LifeP!flags, LifeP!count,
           LifeP!Claiming, LifeP!InLoop, LifeP!Running, LifeP!Alive, LifeP!Goto, LifeP!Start,
           LifeP!StartParse, LifeP!StartStat, LifeP!KillRead, LifeP!KillSignal, LifeP!Waited,
           LifeP!TimedOut, LifeP!PidOpen, LifeP!PidWrite, LifeP!AppInit, LifeP!LoopTop,
           LifeP!LoopReload, LifeP!ReloadStat, LifeP!ReloadParse, LifeP!LoopProc, LifeP!Fini,
           LifeP!Edit, LifeP!Tick, LifeP!Command, LifeP!Signal, LifeP!Crash, LifeP!Step,
           LifeP!Next
  <1>3. appVars' = appVars => LifeP!vars' = LifeP!vars
    BY DEF appVars, LifeP!vars
  <1>4. LifeP!TypeOK => Life!TypeOK
    BY DEF LifeP!TypeOK, Life!TypeOK, LifeP!Places, Life!Places, LifeP!Claiming, Life!Claiming,
           LifeP!Running, Life!Running, LifeP!InLoop, Life!InLoop
  <1>5. LifeP!Named => Life!Named
    BY DEF LifeP!Named, Life!Named, LifeP!Running, Life!Running, LifeP!InLoop, Life!InLoop
  <1> QED
    BY <1>1, <1>2, <1>3, <1>4, <1>5

LEMMA ReloadSame ==
    /\ Reload!Init => ReloadP!Init
    /\ Reload!Next => ReloadP!Next
    /\ appVars' = appVars => ReloadP!vars' = ReloadP!vars
    /\ ReloadP!TypeOK => Reload!TypeOK
    /\ ReloadP!ReloadTakes => Reload!ReloadTakes
  <1>1. Reload!Init => ReloadP!Init
    BY DEF Reload!Init, ReloadP!Init
  <1>2. Reload!Next => ReloadP!Next
    BY DEF Reload!file, Reload!flags, Reload!count, Reload!Claiming, Reload!InLoop,
           Reload!Running, Reload!Alive, Reload!Goto, Reload!Start, Reload!StartParse,
           Reload!StartStat, Reload!KillRead, Reload!KillSignal, Reload!Waited,
           Reload!TimedOut, Reload!PidOpen, Reload!PidWrite, Reload!AppInit, Reload!LoopTop,
           Reload!LoopReload, Reload!ReloadStat, Reload!ReloadParse, Reload!LoopProc,
           Reload!Fini, Reload!Edit, Reload!Tick, Reload!Command, Reload!Signal,
           Reload!Crash, Reload!Step, Reload!Next, ReloadP!file, ReloadP!flags,
           ReloadP!count, ReloadP!Claiming, ReloadP!InLoop, ReloadP!Running, ReloadP!Alive,
           ReloadP!Goto, ReloadP!Start, ReloadP!StartParse, ReloadP!StartStat,
           ReloadP!KillRead, ReloadP!KillSignal, ReloadP!Waited, ReloadP!TimedOut,
           ReloadP!PidOpen, ReloadP!PidWrite, ReloadP!AppInit, ReloadP!LoopTop,
           ReloadP!LoopReload, ReloadP!ReloadStat, ReloadP!ReloadParse, ReloadP!LoopProc,
           ReloadP!Fini, ReloadP!Edit, ReloadP!Tick, ReloadP!Command, ReloadP!Signal,
           ReloadP!Crash, ReloadP!Step, ReloadP!Next
  <1>3. appVars' = appVars => ReloadP!vars' = ReloadP!vars
    BY DEF appVars, ReloadP!vars
  <1>4. ReloadP!TypeOK => Reload!TypeOK
    BY DEF ReloadP!TypeOK, Reload!TypeOK, ReloadP!Places, Reload!Places, ReloadP!Claiming,
           Reload!Claiming, ReloadP!Running, Reload!Running, ReloadP!InLoop, Reload!InLoop
  <1>5. ReloadP!ReloadTakes => Reload!ReloadTakes
    BY DEF ReloadP!ReloadTakes, Reload!ReloadTakes
  <1> QED
    BY <1>1, <1>2, <1>3, <1>4, <1>5

\* The life of a process, in a behaviour that is about it.
LEMMA LibLife == LibSpec => [](sys = "life" => Life!TypeOK /\ Life!Named)
  <1>1. LifeP!LifeConstants
    BY AppAssumption DEF LifeP!LifeConstants
  <1>2. (LifeP!Spec => []LifeP!TypeOK) /\ (LifeP!Spec => []LifeP!Named)
    BY <1>1, LifeP!LifeTypeCorrect, LifeP!OneRuns
  <1>3. LibInit /\ sys = "life" => LifeP!Init
    BY LifeSame DEF LibInit
  <1>4. sys = "life" /\ [LibNext]_libVars => (sys = "life")' /\ [LifeP!Next]_LifeP!vars
    BY LifeSame DEF LibNext, libVars
  <1>5. ~ (sys = "life") /\ [LibNext]_libVars => ~ (sys = "life")'
    BY DEF LibNext, libVars
  <1>6. LifeP!TypeOK /\ LifeP!Named => Life!TypeOK /\ Life!Named
    BY LifeSame
  <1> QED
    BY <1>2, <1>3, <1>4, <1>5, <1>6, PTL DEF LibSpec, libVars, LifeP!Spec

LEMMA LibReload == LibSpec => [](sys = "reload" => Reload!TypeOK /\ Reload!ReloadTakes)
  <1>1. ReloadP!LifeConstants
    BY AppAssumption, LogAssumption DEF ReloadP!LifeConstants
  <1>2. (ReloadP!Spec => []ReloadP!TypeOK) /\ (ReloadP!Spec => []ReloadP!ReloadTakes)
    BY <1>1, ReloadP!LifeTypeCorrect, ReloadP!ReloadCorrect
  <1>3. LibInit /\ sys = "reload" => ReloadP!Init
    BY ReloadSame DEF LibInit
  <1>4. sys = "reload" /\ [LibNext]_libVars => (sys = "reload")' /\ [ReloadP!Next]_ReloadP!vars
    BY ReloadSame DEF LibNext, libVars
  <1>5. ~ (sys = "reload") /\ [LibNext]_libVars => ~ (sys = "reload")'
    BY DEF LibNext, libVars
  <1>6. ReloadP!TypeOK /\ ReloadP!ReloadTakes => Reload!TypeOK /\ Reload!ReloadTakes
    BY ReloadSame
  <1> QED
    BY <1>2, <1>3, <1>4, <1>5, <1>6, PTL DEF LibSpec, libVars, ReloadP!Spec

\* The invariants of the three parts that do not depend on how they are named.
LibInv == IInv /\ TableInv /\ LogInv

LEMMA LibInvariant == LibSpec => []LibInv
  <1>1. LibInit => LibInv
    BY LibParts, InitIInv, TableInit, LogInit DEF LibInv
  <1>2. LibInv /\ [LibNext]_libVars => LibInv'
    BY LibParts, StepIInv, TableStep, LogStep DEF LibInv
  <1> QED
    BY <1>1, <1>2, PTL DEF LibSpec, libVars

\* Every part keeps its types: the words of a pool and a table in shared memory, the
\* sizes and times of log files, the flags and the pid file of a process.
THEOREM LibTypeCorrect == LibSpec => []LibTypeOK
  <1>1. LibInv => TypeOK /\ Table!TypeOK /\ Log!TypeOK
    BY InvariantShows, TableInvImplies, LogInvImplies DEF LibInv
  <1>2. /\ TypeOK /\ Table!TypeOK /\ Log!TypeOK
        /\ sys = "life" => Life!TypeOK /\ Life!Named
        /\ sys = "reload" => Reload!TypeOK /\ Reload!ReloadTakes
        => LibTypeOK
    BY DEF LibTypeOK
  <1> QED
    BY <1>1, <1>2, LibInvariant, LibLife, LibReload, PTL

\* Between two calls the list of free blocks is that of the abstract pool, link by
\* link, or, after a death inside a call, the one tmempool_fix makes.
THEOREM LibListCorrect == LibSpec => []ListInv
  <1>1. LibInv => ListInv
    BY InvariantShows DEF LibInv
  <1> QED
    BY <1>1, LibInvariant, PTL

\* tmempool.c gives what tmempool.h promises: each alloc and free is one step of
\* HandlePoolSpec, a call that is cut short has no effect on the pool's value, and
\* after it the pool gives and takes nothing.
THEOREM LibPoolRefines == LibSpec => PoolSpec
  <1>1. [LibNext]_libVars => [Next]_vars
    BY LibParts
  <1>2. LibInit => Init
    BY LibParts
  <1>3. LibSpec => Spec
    BY <1>1, <1>2, PTL DEF LibSpec, libVars, Spec
  <1> QED
    BY <1>3, PoolRefines

\* A walk with tmempool_find_used returns every handle that is in use from its
\* beginning to its end, whatever is allocated and freed between its steps.
THEOREM LibWalkComplete == LibSpec => WalkComplete
  <1>1. LibSpec => Spec
    <2>1. ([LibNext]_libVars => [Next]_vars) /\ (LibInit => Init)
      BY LibParts
    <2> QED
      BY <2>1, PTL DEF LibSpec, libVars, Spec
  <1> QED
    BY <1>1, WalkReturns

\* Between two calls the free items and the chain of every bucket are lists both
\* ways, without an item twice, their counters are right, and sht_find finds a key as
\* long as it was inserted oftener than removed -- after any calls, and after a
\* death inside one and the repair.
THEOREM LibFindsAll == LibSpec => []FindsAll
  <1>1. LibInv => FindsAll
    BY TableInvImplies DEF LibInv, FindsAll
  <1> QED
    BY <1>1, LibInvariant, PTL

\* A death takes no key from the table, and the key of the call is the only one it
\* may add.
THEOREM LibCrashKeeps == LibSpec => CrashKeeps
  <1>1. LibInv /\ [LibNext]_libVars => [Table!Next]_Table!vars
    BY LibParts
  <1>2. LibInv => TableInv
    BY DEF LibInv
  <1>3. TableInv => [Table!Crash => \A k \in Keys :
                                        /\ found'[k] >= found[k]
                                        /\ found'[k] > found[k] => Code[k] \in {0, Code[key]}]_Table!vars
    BY CrashCounts
  <1> QED
    BY <1>1, <1>2, <1>3, LibInvariant, PTL DEF CrashKeeps, Table!CrashKeeps, LibSpec

\* Rotation throws away the oldest messages of a stamp only.
THEOREM LibOldestGo == LibSpec => []OldestGo
  <1>1. LibInv => OldestGo
    BY LogInvImplies DEF LibInv, OldestGo
  <1> QED
    BY <1>1, LibInvariant, PTL

\* No log file grows over its limit but for one message, no stamp has more files
\* than iMaxRotate, and a message is in the file of its period or the one before.
THEOREM LibBounded == LibSpec => []Bounded
  <1>1. LibInv => Bounded
    BY LogInvImplies DEF LibInv, Bounded
  <1> QED
    BY <1>1, LibInvariant, PTL

\* The pid file names the process that runs, unless two starts overlapped.
THEOREM LibNamed == LibSpec => []Named
  <1>1. (sys = "life" => Life!TypeOK /\ Life!Named) => Named
    BY DEF Named
  <1> QED
    BY <1>1, LibLife, PTL

\* A process that was asked to reload and is through with it was offered what the
\* file was then or something newer.
THEOREM LibReloadTakes == LibSpec => []ReloadTakes
  <1>1. (sys = "reload" => Reload!TypeOK /\ Reload!ReloadTakes) => ReloadTakes
    BY DEF ReloadTakes
  <1> QED
    BY <1>1, LibReload, PTL
=============================================================================
