-------------------------------- MODULE TbusLock --------------------------------
(***************************************************************************)
(* The lock of the global channel map (tbus_config_mng.c: tbus_wrlock,     *)
(* tbus_rdlock, tbus_unlock), a pthread rwlock in shared memory that every *)
(* process of a machine uses.  pthread releases nothing when its holder    *)
(* dies, so a process that has waited TBUS_RWLOCK_TIMEOUT initializes the  *)
(* lock again and goes on as its owner.                                    *)
(*                                                                         *)
(* Time passes in steps of TBUS_SLEEP_PRELOOP, the sleep between two tries.*)
(***************************************************************************)
EXTENDS Integers, FiniteSets

CONSTANTS
    Proc,
    Modes,      \* which of "r" (tbus_rdlock), "w" (tbus_wrlock), "try"
                \* (the single trywrlock of tbus_refresh_handle) are called
    Tries,      \* TBUS_RWLOCK_TIMEOUT / TBUS_SLEEP_PRELOOP
    MaxHold,    \* a live process holds the lock for at most MaxHold time steps
    MaxAsks,    \* bound: calls of each process (0: no bound)
    MaxCrash    \* bound: crashes

ASSUME LockAssumption ==
    /\ IsFiniteSet(Proc) /\ Modes \subseteq {"r", "w", "try"}
    /\ Tries \in Nat \ {0} /\ MaxHold \in Nat /\ MaxAsks \in Nat /\ MaxCrash \in Nat

VARIABLES
    lock,    \* the pthread rwlock: is it held by a writer, by how many readers
    pc,      \* by process: where it is
    mode,    \* by process: what it asked for
    waited,  \* by process: iTimeCount, in sleeps
    held,    \* by process: for how long it has been inside
    asks, crashes

vars == <<lock, pc, mode, waited, held, asks, crashes>>

Free == [writer |-> FALSE, readers |-> 0]

Init ==
    /\ lock = Free
    /\ pc = [p \in Proc |-> "idle"]
    /\ mode = [p \in Proc |-> "w"]
    /\ waited = [p \in Proc |-> 0]
    /\ held = [p \in Proc |-> 0]
    /\ asks = [p \in Proc |-> 0]
    /\ crashes = 0
-----------------------------------------------------------------------------
\* pthread_rwlock_tryrdlock, pthread_rwlock_trywrlock: can the call succeed?
Available(m) == ~lock.writer /\ (m = "r" \/ lock.readers = 0)
Locked(m) == IF m = "r" THEN [lock EXCEPT !.readers = @ + 1] ELSE [lock EXCEPT !.writer = TRUE]

\* pthread_rwlock_unlock.  It does not check who calls: what it does to a lock
\* nobody holds is undefined, and glibc counts one reader too few.
Unlocked ==
    IF lock.writer THEN {[lock EXCEPT !.writer = FALSE]}
    ELSE IF lock.readers # 0 THEN {[lock EXCEPT !.readers = @ - 1]}
    ELSE {lock, [lock EXCEPT !.readers = @ - 1]}

Goto(p, place) == pc' = [pc EXCEPT ![p] = place]

Ask(p, m) ==
    /\ pc[p] = "idle" /\ (MaxAsks = 0 \/ asks[p] < MaxAsks)
    /\ Goto(p, "try") /\ mode' = [mode EXCEPT ![p] = m]
    /\ waited' = [waited EXCEPT ![p] = 0] /\ held' = [held EXCEPT ![p] = 0]
    /\ asks' = [asks EXCEPT ![p] = IF MaxAsks = 0 THEN 0 ELSE @ + 1]
    /\ UNCHANGED <<lock, crashes>>

\* Faults: the result of the try is not looked at; a failed try is not counted.
TryRegardless(p) ==
    /\ pc[p] = "try"
    /\ Goto(p, "inside") /\ lock' = IF Available(mode[p]) THEN Locked(mode[p]) ELSE lock
    /\ UNCHANGED <<mode, waited, held, asks, crashes>>

TryNotCounted(p) ==
    /\ pc[p] = "try"
    /\ IF Available(mode[p])
       THEN Goto(p, "inside") /\ lock' = Locked(mode[p])
       ELSE Goto(p, IF mode[p] = "try" THEN "idle" ELSE "sleep") /\ UNCHANGED lock
    /\ UNCHANGED <<mode, waited, held, asks, crashes>>

\* One round of the loop: the lock, or a sleep; the call of
\* tbus_refresh_handle gives up instead.
TryLock(p) ==
    /\ pc[p] = "try"
    /\ IF Available(mode[p])
       THEN Goto(p, "inside") /\ lock' = Locked(mode[p]) /\ UNCHANGED waited
       ELSE /\ Goto(p, IF mode[p] = "try" THEN "idle" ELSE "sleep")
            /\ waited' = [waited EXCEPT ![p] = @ + 1] /\ UNCHANGED lock
    /\ UNCHANGED <<mode, held, asks, crashes>>

\* After the last sleep: pthread_rwlock_init ...
ForceInit(p) ==
    /\ pc[p] = "force"
    /\ Goto(p, "forced") /\ lock' = Free
    /\ UNCHANGED <<mode, waited, held, asks, crashes>>

\* ... and a try whose result nobody looks at.
ForceLock(p) ==
    /\ pc[p] = "forced"
    /\ Goto(p, "inside")
    /\ lock' = IF Available(mode[p]) THEN Locked(mode[p]) ELSE lock
    /\ UNCHANGED <<mode, waited, held, asks, crashes>>

\* Fault: the caller that only tries returns without unlocking.
UnlockNotTried(p) ==
    /\ pc[p] = "inside"
    /\ Goto(p, "idle") /\ lock' \in IF mode[p] = "try" THEN {lock} ELSE Unlocked
    /\ UNCHANGED <<mode, waited, held, asks, crashes>>

\* tbus_unlock
Unlock(p) ==
    /\ pc[p] = "inside"
    /\ Goto(p, "idle") /\ lock' \in Unlocked
    /\ UNCHANGED <<mode, waited, held, asks, crashes>>

\* The process dies and may be started again: the lock stays as it is.
Crash(p) ==
    /\ pc[p] # "idle" /\ crashes < MaxCrash
    /\ Goto(p, "idle") /\ crashes' = crashes + 1
    /\ UNCHANGED <<lock, mode, waited, held, asks>>

\* Where the loop goes on after a sleep.
AfterSleep(p) == IF waited[p] < Tries THEN "try" ELSE "force"

\* Time passes: sleeps end, and who is inside has been so for longer.
Tick ==
    /\ \E p \in Proc : pc[p] \in {"sleep", "inside"}
    /\ \A p \in Proc : pc[p] = "inside" => held[p] < MaxHold
    /\ pc' = [p \in Proc |-> IF pc[p] = "sleep" THEN AfterSleep(p) ELSE pc[p]]
    /\ held' = [p \in Proc |-> IF pc[p] = "inside" THEN held[p] + 1 ELSE held[p]]
    /\ UNCHANGED <<lock, mode, waited, asks, crashes>>

Step(p) == TryLock(p) \/ ForceInit(p) \/ ForceLock(p) \/ Unlock(p)

Next ==
    \/ \E p \in Proc : Step(p) \/ Crash(p) \/ \E m \in Modes : Ask(p, m)
    \/ Tick

\* Processes run, leave the critical section and wake from sleep.
Spec == Init /\ [][Next]_vars /\ WF_vars(Tick) /\ \A p \in Proc : WF_vars(Step(p))
-----------------------------------------------------------------------------
Inside == {p \in Proc : pc[p] = "inside"}
Writes(p) == mode[p] # "r"

TypeOK ==
    /\ lock \in [writer : BOOLEAN, readers : Int]
    /\ pc \in [Proc -> {"idle", "try", "sleep", "force", "forced", "inside"}]
    /\ mode \in [Proc -> {"r", "w", "try"}]
    /\ waited \in [Proc -> 0 .. Tries] /\ held \in [Proc -> 0 .. MaxHold]
    /\ asks \in [Proc -> Nat] /\ crashes \in Nat

\* Who changes the map is alone with it: the callers read entries, create
\* segments and rewrite the array without any other protection.
Exclusive == \A p, q \in Inside : p # q => ~Writes(p)

\* That holds until somebody dies, if the time-out is longer than all others
\* together can hold the lock.
ExclusiveAlive == crashes = 0 => Exclusive

\* Until then the lock in memory says who is inside: nobody finds it free while
\* it is taken, and it is free again when the last one has left.
Accounted == crashes = 0 =>
    /\ lock.writer = \E p \in Inside : Writes(p)
    /\ lock.readers = Cardinality({p \in Inside : ~Writes(p)})

\* A process that asks gets in, whoever died with the lock.
Recovers == \A p \in Proc :
    (pc[p] = "try" /\ mode[p] # "try") ~> (pc[p] \in {"inside", "idle"})
=============================================================================
