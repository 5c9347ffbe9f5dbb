---------------------------- MODULE TbusLockProofs ----------------------------
(***************************************************************************)
(* Proofs about TbusLock: as long as nobody dies, a writer is alone in the *)
(* map, for any number of processes, if the time-out is as long as all the *)
(* others can hold the lock together, or if nobody runs into it.           *)
(***************************************************************************)
EXTENDS TbusLock, FiniteSetTheorems, TLAPS

\* The time-out is no shorter than all the others together can be inside.
Patient ==
    /\ MaxAsks # 0
    /\ Tries >= (Cardinality(Proc) - 1) * (MaxAsks * (MaxHold + 1))

\* Nobody is inside while somebody takes the lock by force.
Forcing     == {"force", "forced"}
ForcedAlone == \A p, q \in Proc : pc[p] \in Forcing => (p = q \/ pc[q] # "inside")

\* While nobody has died the lock in memory says who is inside.
HoldInv == crashes = 0 => Exclusive /\ Accounted

\* What the others can be found at: a call of theirs and for how long they have been inside;
\* and what of it is over.
Cells(p) == (Proc \ {p}) \X ((1 .. MaxAsks) \X (0 .. MaxHold))
Over(q, k, h) == \/ k < asks[q]
                 \/ k = asks[q] /\ (pc[q] = "idle" \/ (pc[q] = "inside" /\ h < held[q]))
Past(p) == {c \in Cells(p) : Over(c[1], c[2][1], c[2][2])}

\* Who still tries has sleeps left, who takes the lock by force has none.
CountInv ==
    \A p \in Proc : /\ pc[p] = "try" => waited[p] < Tries
                    /\ pc[p] \in Forcing => waited[p] = Tries

\* Every try that failed met somebody at a cell, and with the next step of time that cell
\* is over.
CallInv ==
    \A p \in Proc : /\ asks[p] \in 0 .. MaxAsks
                    /\ pc[p] # "idle" => asks[p] \in 1 .. MaxAsks
Waits(p) ==
    /\ pc[p] \in {"try"} \cup Forcing => waited[p] <= Cardinality(Past(p))
    /\ pc[p] = "sleep" => \/ waited[p] <= Cardinality(Past(p))
                          \/ /\ waited[p] <= Cardinality(Past(p)) + 1
                             /\ \E q \in Proc \ {p} : pc[q] = "inside"
WaitInv == \A p \in Proc : Waits(p)

\* The inductive invariants: of every lock, and of a patient one.
HeldInv == TypeOK /\ CountInv /\ HoldInv
IInv    == HeldInv /\ (crashes = 0 => CallInv /\ WaitInv)
-----------------------------------------------------------------------------
\* Of two sets of cells the smaller has fewer.
LEMMA Smaller ==
    ASSUME NEW p \in Proc, NEW S \in SUBSET Cells(p), NEW T \in SUBSET Cells(p), S \subseteq T
    PROVE  /\ Cardinality(S) \in Nat /\ Cardinality(T) \in Nat
           /\ Cardinality(S) <= Cardinality(T)
           /\ S # T => Cardinality(S) + 1 <= Cardinality(T)
  <1>1. IsFiniteSet(Cells(p))
    <2>1. IsFiniteSet(Proc \ {p}) /\ IsFiniteSet(1 .. MaxAsks) /\ IsFiniteSet(0 .. MaxHold)
      BY LockAssumption, FS_Interval, FS_RemoveElement
    <2>2. IsFiniteSet((1 .. MaxAsks) \X (0 .. MaxHold))
      BY <2>1, FS_Product
    <2> QED
      BY <2>1, <2>2, FS_Product DEF Cells
  <1>2. IsFiniteSet(S) /\ IsFiniteSet(T)
    BY <1>1, FS_Subset
  <1>3. Cardinality(S) \in Nat /\ Cardinality(T) \in Nat
    BY <1>2, FS_CardinalityType
  <1>4. Cardinality(S) <= Cardinality(T) /\ (Cardinality(T) = Cardinality(S) => T = S)
    BY <1>2, FS_Subset
  <1> QED
    BY <1>3, <1>4

\* There are as many cells as Patient says.
LEMMA HowMany ==
    ASSUME NEW p \in Proc
    PROVE  Cardinality(Cells(p)) = (Cardinality(Proc) - 1) * (MaxAsks * (MaxHold + 1))
  <1> DEFINE A == 1 .. MaxAsks  B == 0 .. MaxHold
  <1>1. IsFiniteSet(Proc) /\ MaxAsks \in Nat /\ MaxHold \in Nat
    BY LockAssumption
  <1>2. IsFiniteSet(Proc \ {p}) /\ Cardinality(Proc \ {p}) = Cardinality(Proc) - 1
    BY <1>1, FS_RemoveElement
  <1>3. IsFiniteSet(A) /\ Cardinality(A) = MaxAsks
    BY <1>1, FS_Interval
  <1>4. IsFiniteSet(B) /\ Cardinality(B) = MaxHold + 1
    BY <1>1, FS_Interval
  <1> HIDE DEF A, B
  <1>5. IsFiniteSet(A \X B) /\ Cardinality(A \X B) = MaxAsks * (MaxHold + 1)
    BY <1>3, <1>4, FS_Product
  <1>6. Cardinality((Proc \ {p}) \X (A \X B))
            = (Cardinality(Proc) - 1) * (MaxAsks * (MaxHold + 1))
    BY <1>2, <1>5, FS_Product
  <1> QED
    BY <1>6 DEF Cells, A, B

\* The cell a process is inside at is not over.
LEMMA Here ==
    ASSUME TypeOK, CallInv, NEW p \in Proc, NEW q \in Proc \ {p}, pc[q] = "inside"
    PROVE  /\ <<q, <<asks[q], held[q]>>>> \in Cells(p)
           /\ <<q, <<asks[q], held[q]>>>> \notin Past(p)
  <1>1. asks[q] \in 1 .. MaxAsks /\ held[q] \in 0 .. MaxHold
    BY DEF TypeOK, CallInv
  <1>2. ~ Over(q, asks[q], held[q])
    BY <1>1 DEF Over
  <1> QED
    BY <1>1, <1>2 DEF Cells, Past

\* Who takes the lock by force has outlasted all the others.
LEMMA ForceIsAlone ==
    ASSUME Patient, TypeOK, CountInv, CallInv, WaitInv
    PROVE  ForcedAlone
  <1> SUFFICES ASSUME NEW p \in Proc, NEW q \in Proc, pc[p] \in Forcing, p # q,
                      pc[q] = "inside"
               PROVE  FALSE
    BY DEF ForcedAlone
  <1>1. Cardinality(Cells(p)) <= Tries /\ Tries = waited[p]
    BY HowMany DEF Patient, CountInv
  <1>2. Past(p) \in SUBSET Cells(p)
    BY DEF Past
  <1>3. /\ Cardinality(Past(p)) \in Nat /\ Cardinality(Cells(p)) \in Nat
        /\ Past(p) # Cells(p) => Cardinality(Past(p)) + 1 <= Cardinality(Cells(p))
    BY <1>2, Smaller
  <1>4. waited[p] <= Cardinality(Past(p)) /\ Tries \in Nat
    BY LockAssumption DEF WaitInv, Waits
  <1>5. Past(p) = Cells(p)
    BY <1>1, <1>3, <1>4
  <1> QED
    BY <1>5, Here

\* The readers inside are finitely many.
LEMMA ReadersInside ==
    ASSUME NEW S \in SUBSET Proc
    PROVE  /\ IsFiniteSet(S) /\ Cardinality(S) \in Nat /\ (Cardinality(S) = 0 <=> S = {})
           /\ \A p : /\ p \notin S => Cardinality(S \cup {p}) = Cardinality(S) + 1
                     /\ p \in S => Cardinality(S \ {p}) = Cardinality(S) - 1
  <1>1. IsFiniteSet(S)
    BY LockAssumption, FS_Subset
  <1> QED
    BY <1>1, FS_CardinalityType, FS_EmptySet, FS_AddElement, FS_RemoveElement
-----------------------------------------------------------------------------
\* A step keeps the types and the counts of sleeps.
LEMMA TypeStep == ASSUME TypeOK, CountInv, Next PROVE TypeOK' /\ CountInv'
  <1> USE LockAssumption DEF TypeOK, CountInv, Goto, Forcing
  <1>0. /\ [lock EXCEPT !.writer = TRUE] \in [writer : BOOLEAN, readers : Int]
        /\ [lock EXCEPT !.writer = FALSE] \in [writer : BOOLEAN, readers : Int]
        /\ [lock EXCEPT !.readers = @ + 1] \in [writer : BOOLEAN, readers : Int]
        /\ [lock EXCEPT !.readers = @ - 1] \in [writer : BOOLEAN, readers : Int]
    <2>1. lock.readers + 1 \in Int /\ lock.readers - 1 \in Int
      OBVIOUS
    <2>2. \A n \in Int : [lock EXCEPT !.readers = n] \in [writer : BOOLEAN, readers : Int]
      OBVIOUS
    <2>3. \A b \in BOOLEAN : [lock EXCEPT !.writer = b] \in [writer : BOOLEAN, readers : Int]
      BY Zenon
    <2> QED
      BY <2>1, <2>2, <2>3
  <1>1. ASSUME NEW p \in Proc, TryLock(p) PROVE TypeOK' /\ CountInv'
    <2>1. waited[p] + 1 \in 0 .. Tries
      BY <1>1 DEF TryLock
    <2>2. Locked(mode[p]) \in [writer : BOOLEAN, readers : Int]
      BY <1>0 DEF Locked
    <2> QED
      BY <1>1, <2>1, <2>2 DEF TryLock
  <1>2. ASSUME NEW p \in Proc, ForceInit(p) PROVE TypeOK' /\ CountInv'
    BY <1>2 DEF ForceInit, Free
  <1>3. ASSUME NEW p \in Proc, ForceLock(p) PROVE TypeOK' /\ CountInv'
    <2>1. lock' \in [writer : BOOLEAN, readers : Int]
      BY <1>0, <1>3 DEF ForceLock, Locked
    <2> QED
      BY <1>3, <2>1 DEF ForceLock
  <1>4. ASSUME NEW p \in Proc, Unlock(p) PROVE TypeOK' /\ CountInv'
    <2>1. lock' \in [writer : BOOLEAN, readers : Int]
      BY <1>0, <1>4 DEF Unlock, Unlocked
    <2> QED
      BY <1>4, <2>1 DEF Unlock
  <1>5. ASSUME NEW p \in Proc, Crash(p) PROVE TypeOK' /\ CountInv'
    BY <1>5 DEF Crash
  <1>6. ASSUME NEW p \in Proc, NEW m \in Modes, Ask(p, m) PROVE TypeOK' /\ CountInv'
    BY <1>6 DEF Ask
  <1>7. ASSUME Tick PROVE TypeOK' /\ CountInv'
    BY <1>7 DEF Tick, AfterSleep
  <1> QED
    BY <1>1, <1>2, <1>3, <1>4, <1>5, <1>6, <1>7 DEF Next, Step


\* As long as nobody takes the lock by force while somebody is inside, a step keeps it
\* in agreement with who is.
LEMMA HoldStep == ASSUME TypeOK, HoldInv, ForcedAlone, Next PROVE HoldInv'
  <1> USE DEF TypeOK, Goto
  <1> DEFINE Readers == {p \in Inside : ~ Writes(p)}
  <1> SUFFICES ASSUME crashes' = 0 PROVE Exclusive' /\ Accounted'
    BY DEF HoldInv
  <1>0. crashes = 0
    BY DEF Next, Step, TryLock, ForceInit, ForceLock, Unlock, Crash, Ask, Tick
  <1>a. /\ \A p, q \in Inside : p # q => ~ Writes(p)
        /\ lock.writer = \E p \in Inside : Writes(p)
        /\ lock.readers = Cardinality(Readers)
        /\ Inside \in SUBSET Proc /\ Readers \in SUBSET Proc
    BY <1>0 DEF HoldInv, Exclusive, Accounted, Inside
  \* Somebody who got the lock goes in.
  <1>e. ASSUME NEW p \in Proc, pc[p] # "inside", Available(mode[p]), lock' = Locked(mode[p]),
               Inside' = Inside \cup {p}, mode' = mode
        PROVE  Exclusive' /\ Accounted'
    <2>1. \A q \in Inside : ~ Writes(q)
      BY <1>a, <1>e DEF Available
    <2>2. CASE mode[p] = "r"
      <3>1. Readers' = Readers \cup {p} /\ p \notin Readers
        BY <1>e, <2>2 DEF Writes, Inside
      <3>2. Cardinality(Readers') = Cardinality(Readers) + 1
        <4>1. PICK R \in SUBSET Proc : R = Readers
          BY <1>a
        <4>2. p \notin R /\ Readers' = R \cup {p}
          BY <3>1, <4>1
        <4>3. Cardinality(R \cup {p}) = Cardinality(R) + 1
          BY <4>2, ReadersInside
        <4> HIDE DEF Readers
        <4> QED
          BY <4>1, <4>2, <4>3
      <3>3. lock'.readers = lock.readers + 1 /\ lock'.writer = FALSE
        <4>1. lock' = [lock EXCEPT !.readers = @ + 1]
          BY <1>e, <2>2 DEF Locked
        <4>2. lock'.writer = lock.writer
          BY <4>1, Zenon
        <4>3. lock'.readers = lock.readers + 1
          BY <4>1
        <4>4. lock.writer = FALSE
          BY <1>e, Zenon DEF Available
        <4> QED
          BY <4>2, <4>3, <4>4, Zenon
      <3>4. \A q \in Inside' : ~ Writes(q)'
        BY <1>e, <2>1, <2>2 DEF Writes
      <3> QED
        BY <1>a, <3>2, <3>3, <3>4 DEF Exclusive, Accounted
    <2>3. CASE mode[p] # "r"
      <3>1. Readers = {}
        BY <1>a, <1>e, <2>3, ReadersInside DEF Available
      <3>2. Inside = {}
        BY <2>1, <3>1
      <3>3. Inside' = {p} /\ Writes(p)' /\ Readers' = {}
        BY <1>e, <2>3, <3>2 DEF Writes
      <3>4. lock'.readers = 0 /\ lock'.writer = TRUE
        BY <1>e, <2>3 DEF Locked, Available
      <3>5. Cardinality(Readers') = 0
        BY <3>3, FS_EmptySet
      <3> QED
        BY <3>3, <3>4, <3>5 DEF Exclusive, Accounted
    <2> QED
      BY <2>2, <2>3
  \* Nobody goes in or out.
  <1>s. ASSUME Inside' = Inside, lock' = lock, \A q \in Inside : mode'[q] = mode[q]
        PROVE  Exclusive' /\ Accounted'
    <2>1. Readers' = Readers /\ \A q \in Inside : Writes(q)' <=> Writes(q)
      BY <1>s DEF Writes
    <2> QED
      BY <1>a, <1>s, <2>1 DEF Exclusive, Accounted
  <1>1. ASSUME NEW p \in Proc, TryLock(p) PROVE Exclusive' /\ Accounted'
    <2>1. CASE Available(mode[p])
      <3>1. Inside' = Inside \cup {p}
        BY <1>1, <2>1 DEF TryLock, Inside
      <3> QED
        BY <1>1, <2>1, <3>1, <1>e DEF TryLock
    <2>2. CASE ~ Available(mode[p])
      <3>1. Inside' = Inside
        BY <1>1, <2>2 DEF TryLock, Inside
      <3> QED
        BY <1>1, <2>2, <3>1, <1>s DEF TryLock
    <2> QED
      BY <2>1, <2>2
  <1>2. ASSUME NEW p \in Proc, pc[p] \in Forcing PROVE Inside = {} /\ lock = Free
    <2>1. Inside = {}
      BY <1>2 DEF ForcedAlone, Inside, Forcing
    <2>2. lock.writer = FALSE /\ lock.readers = 0
      BY <1>a, <2>1, FS_EmptySet
    <2> QED
      BY <2>1, <2>2 DEF Free
  <1>3. ASSUME NEW p \in Proc, ForceInit(p) PROVE Exclusive' /\ Accounted'
    <2>1. lock' = lock /\ Inside' = Inside /\ mode' = mode
      BY <1>2, <1>3 DEF ForceInit, Inside, Forcing
    <2> QED
      BY <2>1, <1>s
  <1>4. ASSUME NEW p \in Proc, ForceLock(p) PROVE Exclusive' /\ Accounted'
    <2>1. pc[p] # "inside" /\ lock = Free
      BY <1>2, <1>4 DEF ForceLock, Forcing
    <2>2. Available(mode[p])
      BY <2>1 DEF Available, Free
    <2>3. Inside' = Inside \cup {p}
      BY <1>4 DEF ForceLock, Inside
    <2> QED
      BY <1>4, <2>1, <2>2, <2>3, <1>e DEF ForceLock
  <1>5. ASSUME NEW p \in Proc, Unlock(p) PROVE Exclusive' /\ Accounted'
    <2>1. p \in Inside /\ Inside' = Inside \ {p} /\ mode' = mode
      BY <1>5 DEF Unlock, Inside
    <2>2. \A q \in Inside' : ~ Writes(q)'
      BY <1>a, <2>1 DEF Writes
    <2>3. CASE Writes(p)
      <3>1. lock.writer = TRUE /\ Readers = {} /\ Inside' = {}
        BY <1>a, <2>1, <2>3
      <3>2. lock' = [lock EXCEPT !.writer = FALSE]
        BY <1>5, <3>1 DEF Unlock, Unlocked
      <3>3. lock'.writer = FALSE /\ lock'.readers = 0 /\ Readers' = {}
        BY <1>a, <3>1, <3>2, FS_EmptySet
      <3> QED
        BY <3>1, <3>3, FS_EmptySet DEF Exclusive, Accounted
    <2>4. CASE ~ Writes(p)
      <3>1. p \in Readers /\ lock.writer = FALSE
        BY <1>a, <2>1, <2>4
      <3>2. lock.readers # 0
        BY <1>a, <3>1, ReadersInside
      <3>3. lock' = [lock EXCEPT !.readers = @ - 1]
        BY <1>5, <3>1, <3>2 DEF Unlock, Unlocked
      <3>4. Readers' = Readers \ {p}
        BY <2>1, <2>4 DEF Writes
      <3>5. Cardinality(Readers') = Cardinality(Readers) - 1
        <4>1. PICK R \in SUBSET Proc : R = Readers
          BY <1>a
        <4>2. p \in R /\ Readers' = R \ {p}
          BY <3>1, <3>4, <4>1
        <4>3. Cardinality(R \ {p}) = Cardinality(R) - 1
          BY <4>2, ReadersInside
        <4> HIDE DEF Readers
        <4> QED
          BY <4>1, <4>2, <4>3
      <3>6. lock'.readers = Cardinality(Readers') /\ lock'.writer = FALSE
        BY <1>a, <3>1, <3>3, <3>5
      <3> QED
        BY <2>2, <3>6 DEF Exclusive, Accounted
    <2> QED
      BY <2>3, <2>4
  <1>6. ASSUME NEW p \in Proc, NEW m \in Modes, Ask(p, m) PROVE Exclusive' /\ Accounted'
    <2>1. Inside' = Inside /\ p \notin Inside
      BY <1>6 DEF Ask, Inside
    <2> QED
      BY <1>6, <2>1, <1>s DEF Ask, Inside
  <1>7. CASE Tick
    <2>1. Inside' = Inside
      BY <1>7 DEF Tick, AfterSleep, Inside
    <2> QED
      BY <1>7, <2>1, <1>s DEF Tick
  <1>8. ASSUME NEW p \in Proc, Crash(p) PROVE FALSE
    BY <1>0, <1>8 DEF Crash
  <1> QED
    BY <1>1, <1>3, <1>4, <1>5, <1>6, <1>7, <1>8 DEF Next, Step

\* As long as nobody dies what is over stays over.
LEMMA OverGrows ==
    ASSUME TypeOK, CallInv, Next, crashes' = 0, NEW p \in Proc
    PROVE  Past(p) \subseteq Past(p)'
  <1> USE DEF TypeOK, Goto
  <1> SUFFICES ASSUME NEW q \in Proc, NEW k \in 1 .. MaxAsks, NEW h \in 0 .. MaxHold,
                      Over(q, k, h)
               PROVE  Over(q, k, h)'
    BY DEF Past, Cells
  <1>0. /\ k \in Int /\ h \in Int /\ asks[q] \in Int /\ held[q] \in Int
        /\ k < asks[q] \/ (k = asks[q] /\ (pc[q] = "idle" \/ (pc[q] = "inside" /\ h < held[q])))
    BY LockAssumption DEF Over
  <1>1. ASSUME NEW r \in Proc, TryLock(r) \/ ForceInit(r) \/ ForceLock(r)
        PROVE  Over(q, k, h)'
    <2>1. /\ asks' = asks /\ held' = held
          /\ pc[q] \in {"idle", "inside"} => pc'[q] = pc[q]
      BY <1>1 DEF TryLock, ForceInit, ForceLock
    <2> QED
      BY <1>0, <2>1 DEF Over
  <1>2. ASSUME NEW r \in Proc, Unlock(r) PROVE Over(q, k, h)'
    <2>1. asks' = asks /\ held' = held /\ (pc'[q] = pc[q] \/ pc'[q] = "idle")
      BY <1>2 DEF Unlock
    <2> QED
      BY <1>0, <2>1 DEF Over
  <1>3. ASSUME NEW r \in Proc, NEW m \in Modes, Ask(r, m) PROVE Over(q, k, h)'
    <2>1. CASE q = r
      <3>1. asks'[q] = asks[q] + 1
        BY <1>3, <2>1, LockAssumption DEF Ask, CallInv
      <3> QED
        BY <1>0, <3>1 DEF Over
    <2>2. CASE q # r
      BY <1>0, <1>3, <2>2 DEF Ask, Over
    <2> QED
      BY <2>1, <2>2
  <1>4. ASSUME Tick PROVE Over(q, k, h)'
    <2>1. /\ asks' = asks
          /\ pc[q] \in {"idle", "inside"} => pc'[q] = pc[q]
          /\ pc[q] = "inside" => held'[q] = held[q] + 1
      BY <1>4 DEF Tick, AfterSleep
    <2> QED
      BY <1>0, <2>1 DEF Over
  <1>5. ASSUME NEW r \in Proc, Crash(r) PROVE FALSE
    BY <1>5 DEF Crash
  <1> QED
    BY <1>1, <1>2, <1>3, <1>4, <1>5 DEF Next, Step

\* If somebody who was inside has moved on, there is more that is over.
LEMMA OneMore ==
    ASSUME TypeOK, CallInv, TypeOK', Next, crashes' = 0, NEW p \in Proc,
           NEW q \in Proc \ {p}, pc[q] = "inside",
           asks' = asks, pc'[q] = "idle" \/ (pc'[q] = "inside" /\ held'[q] = held[q] + 1)
    PROVE  Cardinality(Past(p)) + 1 <= Cardinality(Past(p)')
  <1>1. PICK k \in Int, h \in Int : k = asks[q] /\ h = held[q]
    BY LockAssumption DEF TypeOK
  <1> DEFINE c == <<q, <<k, h>>>>
  <1>2. c \in Cells(p) /\ c \notin Past(p)
    BY <1>1, Here
  <1>3. c \in Past(p)'
    <2>1. Over(q, k, h)'
      BY <1>1 DEF Over
    <2> QED
      BY <1>2, <2>1 DEF Past, Cells
  <1>4. Past(p) \subseteq Past(p)' /\ Past(p) # Past(p)'
    BY <1>2, <1>3, OverGrows
  <1>5. Past(p) \in SUBSET Cells(p) /\ Past(p)' \in SUBSET Cells(p)
    BY DEF Past, Cells
  <1> QED
    BY <1>4, <1>5, Smaller

\* Nobody who takes part in a call gets more calls than MaxAsks.
LEMMA CallStep == ASSUME MaxAsks # 0, TypeOK, CallInv, Next PROVE CallInv'
  <1> USE LockAssumption DEF TypeOK, CallInv, Goto
  <1>1. ASSUME NEW p \in Proc, Step(p) PROVE CallInv'
    BY <1>1 DEF Step, TryLock, ForceInit, ForceLock, Unlock
  <1>2. ASSUME NEW p \in Proc, Crash(p) PROVE CallInv'
    BY <1>2 DEF Crash
  <1>3. ASSUME NEW p \in Proc, NEW m \in Modes, Ask(p, m) PROVE CallInv'
    BY <1>3 DEF Ask
  <1>4. CASE Tick
    BY <1>4 DEF Tick, AfterSleep
  <1> QED
    BY <1>1, <1>2, <1>3, <1>4 DEF Next

\* A wait never outgrows what is over of the others' calls.
LEMMA WaitStep ==
    ASSUME HeldInv, CallInv, WaitInv, Next, crashes' = 0, TypeOK'
    PROVE  WaitInv'
  <1> USE DEF Goto, Forcing
  <1>0. TypeOK /\ HoldInv /\ crashes = 0 /\ (\A p \in Proc : waited[p] \in Nat)
    BY LockAssumption
       DEF HeldInv, TypeOK, Next, Step, TryLock, ForceInit, ForceLock, Unlock, Crash, Ask, Tick
  <1> SUFFICES ASSUME NEW p \in Proc PROVE Waits(p)'
    BY DEF WaitInv
  <1> DEFINE n == Cardinality(Past(p))  n1 == Cardinality(Past(p)')
  <1>a. n \in Nat /\ n1 \in Nat /\ n <= n1
    <2>1. Past(p) \subseteq Past(p)' /\ Past(p) \in SUBSET Cells(p) /\ Past(p)' \in SUBSET Cells(p)
      BY <1>0, OverGrows DEF Past, Cells
    <2> QED
      BY <2>1, Smaller
  <1>b. /\ pc[p] \in {"try"} \cup Forcing => waited[p] <= n
        /\ pc[p] = "sleep" => \/ waited[p] <= n
                              \/ (waited[p] <= n + 1 /\ \E q \in Proc \ {p} : pc[q] = "inside")
    BY DEF WaitInv, Waits
  <1> HIDE DEF n, n1
  <1> DEFINE Goal == /\ pc'[p] \in {"try"} \cup Forcing => waited'[p] <= n1
                     /\ pc'[p] = "sleep" =>
                            \/ waited'[p] <= n1
                            \/ (waited'[p] <= n1 + 1 /\ \E q \in Proc \ {p} : pc'[q] = "inside")
  <1>c. Goal
    <2> USE DEF TypeOK
    \* Somebody else does something that leaves everybody inside where he is.
    <2>s. ASSUME pc'[p] = pc[p] \/ (pc[p] \in Forcing /\ pc'[p] \in Forcing \cup {"inside"}),
                 waited'[p] = waited[p],
                 \A q \in Proc : pc[q] = "inside" => pc'[q] = "inside"
          PROVE  Goal
      BY <1>0, <1>a, <1>b, <2>s
    <2>1. ASSUME NEW r \in Proc, TryLock(r) PROVE Goal
      <3>1. CASE r = p /\ ~ Available(mode[p]) /\ mode[p] # "try"
        <4>1. PICK q \in Inside : TRUE
          <5>1. lock.writer \/ lock.readers # 0
            BY <3>1 DEF Available
          <5>2. lock.writer = (\E q \in Inside : Writes(q))
                /\ lock.readers = Cardinality({q \in Inside : ~ Writes(q)})
            BY <1>0 DEF HoldInv, Accounted
          <5>3. Inside # {}
            BY <5>1, <5>2, FS_EmptySet
          <5> QED
            BY <5>3
        <4>2. q \in Proc \ {p} /\ pc'[q] = "inside" /\ waited'[p] = waited[p] + 1
          BY <1>0, <2>1, <3>1 DEF TryLock, Inside
        <4>3. waited[p] <= n /\ pc'[p] = "sleep"
          BY <1>0, <1>b, <2>1, <3>1 DEF TryLock
        <4> QED
          BY <1>0, <1>a, <4>2, <4>3
      <3>2. CASE r = p /\ (Available(mode[p]) \/ mode[p] = "try")
        <4>1. pc'[p] \in {"inside", "idle"}
          BY <1>0, <2>1, <3>2 DEF TryLock
        <4> QED
          BY <4>1
      <3>3. CASE r # p
        <4>1. /\ pc'[p] = pc[p] /\ waited'[p] = waited[p]
              /\ \A q \in Proc : pc[q] = "inside" => pc'[q] = "inside"
          BY <1>0, <2>1, <3>3 DEF TryLock
        <4> QED
          BY <4>1, <2>s
      <3> QED
        BY <3>1, <3>2, <3>3
    <2>2. ASSUME NEW r \in Proc, ForceInit(r) \/ ForceLock(r) PROVE Goal
      <3>1. /\ pc'[p] = pc[p] \/ (pc[p] \in Forcing /\ pc'[p] \in Forcing \cup {"inside"})
            /\ waited'[p] = waited[p]
            /\ \A q \in Proc : pc[q] = "inside" => pc'[q] = "inside"
        BY <1>0, <2>2 DEF ForceInit, ForceLock
      <3> QED
        BY <3>1, <2>s
    <2>3. ASSUME NEW r \in Proc, Unlock(r) PROVE Goal
      <3>1. /\ waited' = waited /\ asks' = asks /\ held' = held /\ pc[r] = "inside"
            /\ pc' = [pc EXCEPT ![r] = "idle"]
        BY <2>3 DEF Unlock
      <3>2. CASE r = p
        BY <1>0, <3>1, <3>2
      <3>3. CASE r # p
        <4>1. n + 1 <= n1
          BY <1>0, <3>1, <3>3, OneMore DEF n, n1
        <4> QED
          BY <1>0, <1>a, <1>b, <3>1, <3>3, <4>1
      <3> QED
        BY <3>2, <3>3
    <2>4. ASSUME NEW r \in Proc, NEW m \in Modes, Ask(r, m) PROVE Goal
      <3>1. CASE r = p
        <4>1. waited'[p] = 0 /\ pc'[p] = "try"
          BY <1>0, <2>4, <3>1 DEF Ask
        <4> QED
          BY <1>a, <4>1
      <3>2. CASE r # p
        <4>1. /\ pc'[p] = pc[p] /\ waited'[p] = waited[p]
              /\ \A q \in Proc : pc[q] = "inside" => pc'[q] = "inside"
          BY <1>0, <2>4, <3>2 DEF Ask
        <4> QED
          BY <4>1, <2>s
      <3> QED
        BY <3>1, <3>2
    <2>5. CASE Tick
      <3>1. /\ waited' = waited /\ asks' = asks
            /\ pc[p] # "sleep" => pc'[p] = pc[p]
            /\ pc'[p] # "sleep"
            /\ \A q \in Proc : pc[q] = "inside" => pc'[q] = "inside" /\ held'[q] = held[q] + 1
        BY <1>0, <2>5 DEF Tick, AfterSleep
      <3>2. CASE pc[p] = "sleep" /\ ~ (waited[p] <= n)
        <4>1. PICK q \in Proc \ {p} : waited[p] <= n + 1 /\ pc[q] = "inside"
          BY <1>b, <3>2
        <4>2. n + 1 <= n1
          BY <1>0, <3>1, <4>1, OneMore DEF n, n1
        <4> QED
          BY <1>0, <1>a, <3>1, <4>1, <4>2
      <3>3. CASE ~ (pc[p] = "sleep" /\ ~ (waited[p] <= n))
        BY <1>0, <1>a, <1>b, <3>1, <3>3
      <3> QED
        BY <3>2, <3>3
    <2>6. ASSUME NEW r \in Proc, Crash(r) PROVE FALSE
      BY <1>0, <2>6 DEF Crash
    <2> QED
      BY <2>1, <2>2, <2>3, <2>4, <2>5, <2>6 DEF Next, Step
  <1> QED
    BY <1>c DEF n, n1, Waits
-----------------------------------------------------------------------------
\* Both invariants hold at the start and are kept.
LEMMA InitHeld == Init => HeldInv /\ (MaxAsks # 0 => CallInv /\ WaitInv)
  <1> SUFFICES ASSUME Init PROVE HeldInv /\ (MaxAsks # 0 => CallInv /\ WaitInv)
    OBVIOUS
  <1>1. TypeOK /\ CountInv
    BY LockAssumption DEF Init, TypeOK, CountInv, Free, Forcing
  <1>2. Exclusive /\ Accounted
    <2>1. Inside = {} /\ lock.writer = FALSE /\ lock.readers = 0
      BY DEF Init, Inside, Free
    <2> QED
      BY <2>1, FS_EmptySet DEF Exclusive, Accounted
  <1>3. MaxAsks # 0 => CallInv /\ WaitInv
    BY LockAssumption DEF Init, CallInv, WaitInv, Waits, Forcing
  <1> QED
    BY <1>1, <1>2, <1>3 DEF HeldInv, HoldInv

LEMMA HeldStep == HeldInv /\ ForcedAlone /\ [Next]_vars => HeldInv'
  <1> SUFFICES ASSUME HeldInv, ForcedAlone, [Next]_vars PROVE HeldInv'
    OBVIOUS
  <1>1. CASE Next
    BY <1>1, TypeStep, HoldStep DEF HeldInv
  <1>2. CASE UNCHANGED vars
    <2> USE <1>2 DEF vars
    <2>1. TypeOK' /\ CountInv'
      BY DEF HeldInv, TypeOK, CountInv
    <2>2. HoldInv'
      BY DEF HeldInv, HoldInv, Exclusive, Accounted, Inside, Writes
    <2> QED
      BY <2>1, <2>2 DEF HeldInv
  <1> QED
    BY <1>1, <1>2

LEMMA CountStep == TypeOK /\ CountInv /\ [Next]_vars => TypeOK' /\ CountInv'
  <1>1. ASSUME TypeOK, CountInv, UNCHANGED vars PROVE TypeOK' /\ CountInv'
    BY <1>1 DEF vars, TypeOK, CountInv
  <1> QED
    BY <1>1, TypeStep

LEMMA PatientStep == ASSUME Patient PROVE IInv /\ [Next]_vars => IInv'
  <1> SUFFICES ASSUME IInv, [Next]_vars PROVE IInv'
    OBVIOUS
  <1>0. TypeOK /\ CountInv /\ HeldInv /\ MaxAsks # 0 /\ TypeOK' /\ CountInv'
    BY CountStep DEF IInv, HeldInv, Patient
  <1>1. CASE crashes' # 0
    BY <1>0, <1>1 DEF IInv, HeldInv, HoldInv
  <1>2. CASE crashes' = 0
    <2>1. crashes = 0
      BY <1>2 DEF Next, Step, TryLock, ForceInit, ForceLock, Unlock, Crash, Ask, Tick, vars,
                  IInv, HeldInv, TypeOK
    <2>2. CallInv /\ WaitInv
      BY <2>1 DEF IInv
    <2>3. HeldInv'
      BY <1>0, <2>2, ForceIsAlone, HeldStep
    <2>4. CASE Next
      BY <1>0, <1>2, <2>2, <2>3, <2>4, CallStep, WaitStep DEF IInv
    <2>5. CASE UNCHANGED vars
      <3> USE <2>5 DEF vars
      <3>1. \A p \in Proc : Past(p)' = Past(p)
        BY DEF Past, Cells, Over
      <3>2. CallInv' /\ WaitInv'
        BY <2>2, <3>1 DEF CallInv, WaitInv, Waits
      <3> QED
        BY <2>3, <3>2 DEF IInv
    <2> QED
      BY <2>4, <2>5
  <1> QED
    BY <1>1, <1>2

LEMMA HeldShows == HeldInv => ExclusiveAlive /\ Accounted
  BY DEF HeldInv, HoldInv, ExclusiveAlive, Accounted
-----------------------------------------------------------------------------
\* The lock, its callers and their counts of sleeps keep their types: nobody sleeps more
\* than TBUS_RWLOCK_TIMEOUT.
THEOREM LockTypeCorrect == Spec => []TypeOK
  <1>1. Init => TypeOK /\ CountInv
    BY InitHeld DEF HeldInv
  <1> QED
    BY <1>1, CountStep, PTL DEF Spec

\* tbus_wrlock and tbus_rdlock keep a writer alone, and the lock in agreement with who is
\* inside, until somebody dies or takes the lock by force from somebody alive.
THEOREM AloneUnforced == Spec => ([]ForcedAlone => [](ExclusiveAlive /\ Accounted))
  <1>1. Init => HeldInv
    BY InitHeld
  <1> QED
    BY <1>1, HeldStep, HeldShows, PTL DEF Spec

\* Nobody takes the lock from somebody alive if TBUS_RWLOCK_TIMEOUT is no shorter than
\* all the calls of all the others together: then a writer is alone until somebody dies.
THEOREM AlonePatient == ASSUME Patient PROVE Spec => [](ExclusiveAlive /\ Accounted)
  <1>1. Init => IInv
    BY InitHeld DEF Patient, IInv
  <1>2. IInv /\ [Next]_vars => IInv'
    BY PatientStep
  <1>3. IInv => ExclusiveAlive /\ Accounted
    BY HeldShows DEF IInv
  <1> QED
    BY <1>1, <1>2, <1>3, PTL DEF Spec
=============================================================================
