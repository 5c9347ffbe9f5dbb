----------------------------- MODULE TappLifeProofs -----------------------------
(***************************************************************************)
(* Proofs about TappLife: for any processes, versions of the configuration *)
(* file, commands and deaths, a process that runs is the one the pid file  *)
(* names as long as no two starts overlap, and a reload takes what was     *)
(* asked for.                                                              *)
(***************************************************************************)
EXTENDS TappLife, TLAPS

\* What is assumed of the constants.
LifeConstants ==
    /\ Proc \subseteq Nat /\ None \notin Proc
    /\ MaxVer \in Nat \ {0} /\ MaxTime \in Nat /\ MaxCmd \in Nat /\ MaxCrash \in Nat
    /\ 0 \notin BadVers

\* Between reading the pid file and writing it.
Mid == {"check", "wait", "pidopen", "pidwrite"}

\* As long as no two starts overlapped there is one of them at a time, what it read
\* from the pid file is what is there, and none runs when it writes the file.
OneStart  == \A p, q \in Proc : st[p] \in Mid /\ st[q] \in Mid => p = q
PrevRead  == \A p \in Proc : st[p] \in {"check", "wait"} => prev[p] = pidfile
NoneRuns  == \A p, q \in Proc : st[p] \in {"pidopen", "pidwrite"} => st[q] \notin Running
ClaimInv  == ~overlap => /\ OneStart /\ PrevRead /\ NoneRuns
                         /\ \A p \in Proc : st[p] \in Running => pidfile = p

\* Only a process that wrote the pid file is named there, or in a command, or has been
\* asked to reload.
Begun    == Running \cup {"gone"}
ReachInv ==
    /\ \A p \in Proc : pidfile = p => st[p] \in Begun
    /\ cmd # None => \A p \in Proc : cmd.to = p => st[p] \in Begun
    /\ \A p \in Proc : asked[p] # 0 => st[p] \in Begun

\* The times of the versions never decrease.
StampInv == \A v, w \in 1 .. ver : v <= w => stamp[v] <= stamp[w]

Shared(a)     == \E v \in 1 .. ver : v # a /\ stamp[v] = stamp[a]
Offered(p, w) == conf[p] >= w \/ skipped[p] >= w

\* tConfMod is the time of a version the process was offered, but while it is about to
\* parse that version.
ModInv ==
    \A p \in Proc :
        /\ st[p] \in Claiming \cup Running => \E w \in 1 .. ver : mod[p] = stamp[w]
        /\ st[p] \in (Claiming \cup Running) \ {"parse"} =>
              \E w \in 1 .. ver : mod[p] = stamp[w] /\ Offered(p, w)

\* A reload that is asked for waits as a flag, or is under way, or is done.
TakeInv ==
    \A p \in Proc :
        st[p] \in Running \ {"stat", "parse"} /\ ~reload[p] /\ asked[p] # 0 =>
            Offered(p, asked[p]) \/ Shared(asked[p])

\* The inductive invariant.
IInv == TypeOK /\ ClaimInv /\ ReachInv /\ StampInv /\ ModInv /\ TakeInv
-----------------------------------------------------------------------------

\* A step keeps the types; an edit and the clock only widen the ranges.
LEMMA TypeStep ==
    ASSUME LifeConstants, IInv, Next
    PROVE  TypeOK'
  <1> USE DEF LifeConstants, Goto, flags, count, Claiming, InLoop, Running, Mid, Begun
  <1>0. TypeOK
    BY DEF IInv
  <1> USE <1>0
  <1>1. ASSUME NEW p \in Proc, Start(p) PROVE TypeOK'
    BY <1>1 DEF Start, file, TypeOK, Places
  <1>2. ASSUME NEW p \in Proc, StartParse(p) PROVE TypeOK'
    <2>1. conf' \in [Proc -> (0 .. ver) \ BadVers]
      BY <1>2 DEF StartParse, TypeOK
    <2>2. st' \in [Proc -> Places]
      BY <1>2 DEF StartParse, TypeOK, Places
    <2> QED
      BY <1>2, <2>1, <2>2 DEF StartParse, TypeOK, file
  <1>3. ASSUME NEW p \in Proc, StartStat(p) PROVE TypeOK'
    <2>1. mod' \in [Proc -> -1 .. clock]
      BY <1>3 DEF StartStat, TypeOK
    <2>2. skipped' \in [Proc -> 0 .. ver]
      BY <1>3 DEF StartStat, TypeOK
    <2>3. st' \in [Proc -> Places]
      BY <1>3 DEF StartStat, TypeOK, Places
    <2> QED
      BY <1>3, <2>1, <2>2, <2>3 DEF StartStat, TypeOK, file
  <1>4. ASSUME NEW p \in Proc, KillRead(p) PROVE TypeOK'
    BY <1>4 DEF KillRead, file, TypeOK, Places
  <1>5. ASSUME NEW p \in Proc, KillSignal(p) PROVE TypeOK'
    BY <1>5 DEF KillSignal, file, TypeOK, Places
  <1>6. ASSUME NEW p \in Proc, Waited(p) PROVE TypeOK'
    BY <1>6 DEF Waited, file, TypeOK, Places
  <1>7. ASSUME NEW p \in Proc, TimedOut(p) PROVE TypeOK'
    BY <1>7 DEF TimedOut, file, TypeOK, Places
  <1>8. ASSUME NEW p \in Proc, PidOpen(p) PROVE TypeOK'
    BY <1>8 DEF PidOpen, file, TypeOK, Places
  <1>9. ASSUME NEW p \in Proc, PidWrite(p) PROVE TypeOK'
    BY <1>9 DEF PidWrite, file, TypeOK, Places
  <1>10. ASSUME NEW p \in Proc, AppInit(p) PROVE TypeOK'
    BY <1>10 DEF AppInit, file, TypeOK, Places
  <1>11. ASSUME NEW p \in Proc, LoopTop(p) PROVE TypeOK'
    BY <1>11 DEF LoopTop, file, TypeOK, Places
  <1>12. ASSUME NEW p \in Proc, LoopReload(p) PROVE TypeOK'
    BY <1>12 DEF LoopReload, file, TypeOK, Places
  <1>13. ASSUME NEW p \in Proc, ReloadStat(p) PROVE TypeOK'
    <2>1. mod' \in [Proc -> -1 .. clock]
      BY <1>13 DEF ReloadStat, TypeOK
    <2>2. st' \in [Proc -> Places]
      BY <1>13 DEF ReloadStat, TypeOK, Places
    <2> QED
      BY <1>13, <2>1, <2>2 DEF ReloadStat, TypeOK, file
  <1>14. ASSUME NEW p \in Proc, ReloadParse(p) PROVE TypeOK'
    <2>1. conf' \in [Proc -> (0 .. ver) \ BadVers]
      BY <1>14 DEF ReloadParse, TypeOK
    <2>2. skipped' \in [Proc -> 0 .. ver]
      BY <1>14 DEF ReloadParse, TypeOK
    <2>3. st' \in [Proc -> Places]
      BY <1>14 DEF ReloadParse, TypeOK, Places
    <2> QED
      BY <1>14, <2>1, <2>2, <2>3 DEF ReloadParse, TypeOK, file
  <1>15. ASSUME NEW p \in Proc, LoopProc(p) PROVE TypeOK'
    BY <1>15 DEF LoopProc, file, TypeOK, Places
  <1>16. ASSUME NEW p \in Proc, Fini(p) PROVE TypeOK'
    BY <1>16 DEF Fini, file, TypeOK, Places
  <1>17. ASSUME NEW p \in Proc, Crash(p) PROVE TypeOK'
    <2>1. crashes' \in 0 .. MaxCrash
      BY <1>17 DEF Crash, TypeOK
    <2>2. st' \in [Proc -> Places]
      BY <1>17 DEF Crash, TypeOK, Places
    <2> QED
      BY <1>17, <2>1, <2>2 DEF Crash, TypeOK, file
  <1>18. CASE Edit
    <2>1. ver' \in 1 .. MaxVer /\ 0 .. ver \subseteq 0 .. ver' /\ clock' = clock /\ mtime' = clock
      BY <1>18 DEF Edit, TypeOK
    <2>2. stamp' \in [1 .. ver' -> 0 .. clock] /\ stamp'[ver'] = clock
      BY <1>18 DEF Edit, TypeOK
    <2>3. conf' \in [Proc -> (0 .. ver') \ BadVers]
      BY <1>18, <2>1 DEF Edit, TypeOK
    <2>4. asked' \in [Proc -> 0 .. ver'] /\ skipped' \in [Proc -> 0 .. ver']
      BY <1>18, <2>1 DEF Edit, TypeOK
    <2>5. clock \in 0 .. MaxTime
      BY DEF TypeOK
    <2>6. mtime' \in 0 .. clock'
      BY <2>1, <2>5
    <2> QED
      BY <1>18, <2>1, <2>2, <2>3, <2>4, <2>5, <2>6 DEF Edit, TypeOK
  <1>19. CASE Tick
    <2>1. clock' \in 0 .. MaxTime /\ 0 .. clock \subseteq 0 .. clock' /\ -1 .. clock \subseteq -1 .. clock'
      BY <1>19 DEF Tick, TypeOK
    <2>2. stamp' \in [1 .. ver -> 0 .. clock'] /\ mtime' \in 0 .. clock' /\ ver' = ver
      BY <1>19, <2>1 DEF Tick, TypeOK
    <2>3. mod' \in [Proc -> -1 .. clock']
      BY <1>19, <2>1 DEF Tick, TypeOK
    <2> QED
      BY <1>19, <2>1, <2>2, <2>3 DEF Tick, TypeOK
  <1>20. CASE Signal
    <2>1. isExit' \in [Proc -> {"no", "stop", "quit"}]
      BY <1>20 DEF Signal, TypeOK
    <2>2. reload' \in [Proc -> BOOLEAN]
      BY <1>20 DEF Signal, TypeOK
    <2>3. ver \in 0 .. ver
      BY DEF TypeOK
    <2>4. asked' \in [Proc -> 0 .. ver]
      BY <1>20, <2>3 DEF Signal, TypeOK
    <2> QED
      BY <1>20, <2>1, <2>2, <2>4 DEF Signal, TypeOK, file
  <1>21. ASSUME NEW sig \in {"stop", "reload", "quit"}, Command(sig) PROVE TypeOK'
    BY <1>21, SMTT(30) DEF Command, file, TypeOK, Places
  <1> QED
    BY <1>1, <1>2, <1>3, <1>4, <1>5, <1>6, <1>7, <1>8, <1>9, <1>10, <1>11, <1>12,
       <1>13, <1>14, <1>15, <1>16, <1>17, <1>18, <1>19, <1>20, <1>21
    DEF Next, Step

\* A step keeps what the pid file says of who is starting and who runs.
LEMMA ClaimStep ==
    ASSUME LifeConstants, IInv, Next
    PROVE  ClaimInv'
  <1> USE DEF LifeConstants, Goto, flags, count, Claiming, InLoop, Running, Mid, Begun
  <1>0. TypeOK /\ ClaimInv
    BY DEF IInv
  <1> USE <1>0
  <1>1. ASSUME NEW p \in Proc, Start(p) PROVE ClaimInv'
    BY <1>1 DEF Start, file, ClaimInv, OneStart, PrevRead, NoneRuns, Alive, TypeOK, Places
  <1>2. ASSUME NEW p \in Proc, StartParse(p) PROVE ClaimInv'
    BY <1>2 DEF StartParse, file, ClaimInv, OneStart, PrevRead, NoneRuns, Alive, TypeOK, Places
  <1>3. ASSUME NEW p \in Proc, StartStat(p) PROVE ClaimInv'
    BY <1>3 DEF StartStat, file, ClaimInv, OneStart, PrevRead, NoneRuns, Alive, TypeOK, Places
  <1>4. ASSUME NEW p \in Proc, KillRead(p) PROVE ClaimInv'
    <2>1. /\ st' = [st EXCEPT ![p] = "check"] /\ prev' = [prev EXCEPT ![p] = pidfile]
          /\ pidfile' = pidfile /\ st[p] = "kill"
      BY <1>4 DEF KillRead
    <2> SUFFICES ASSUME ~overlap'
                 PROVE  /\ OneStart' /\ PrevRead' /\ NoneRuns'
                        /\ \A q \in Proc : st'[q] \in Running => pidfile' = q
      BY <2>1 DEF ClaimInv
    <2>2. ~overlap /\ \A q \in Proc : q # p => st[q] \notin Mid
      BY <1>4 DEF KillRead
    <2>3. \A q \in Proc : st'[q] \in Mid => q = p
      BY <2>1, <2>2 DEF TypeOK
    <2>4. OneStart' /\ NoneRuns'
      BY <2>1, <2>3 DEF OneStart, NoneRuns, TypeOK
    <2>5. PrevRead'
      BY <2>1, <2>3 DEF PrevRead, TypeOK
    <2>6. \A q \in Proc : st'[q] \in Running => pidfile' = q
      BY <2>1, <2>2 DEF ClaimInv, TypeOK
    <2> QED
      BY <2>4, <2>5, <2>6
  <1>5. ASSUME NEW p \in Proc, KillSignal(p) PROVE ClaimInv'
    <2> SUFFICES ASSUME ~overlap'
                 PROVE  /\ OneStart' /\ PrevRead' /\ NoneRuns'
                        /\ \A q \in Proc : st'[q] \in Running => pidfile' = q
      BY DEF ClaimInv
    <2>1. /\ st[p] = "check" /\ pidfile' = pidfile /\ prev' = prev /\ ~overlap
          /\ st' = [st EXCEPT ![p] = "wait"] \/ st' = [st EXCEPT ![p] = "pidopen"]
      BY <1>5 DEF KillSignal
    <2>2. OneStart /\ PrevRead /\ NoneRuns /\ \A q \in Proc : st[q] \in Running => pidfile = q
      BY <2>1 DEF ClaimInv
    <2>3. \A q \in Proc : st'[q] \in Mid => q = p
      BY <2>1, <2>2 DEF OneStart, TypeOK
    <2>4. OneStart' /\ \A q \in Proc : st'[q] \in Running => pidfile' = q
      BY <2>1, <2>2, <2>3 DEF OneStart, TypeOK
    <2>5. PrevRead'
      BY <2>1, <2>2, <2>3 DEF PrevRead, TypeOK
    <2>6. NoneRuns'
      <3>1. CASE st' = [st EXCEPT ![p] = "wait"]
        BY <2>3, <3>1 DEF NoneRuns, TypeOK
      <3>2. CASE st' = [st EXCEPT ![p] = "pidopen"]
        <4>1. ~ (prev[p] # None /\ prev[p] # p /\ Alive(prev[p]))
          BY <1>5, <3>2 DEF KillSignal, TypeOK
        <4>2. prev[p] = pidfile
          BY <2>1, <2>2 DEF PrevRead
        <4>3. ASSUME NEW q \in Proc, st[q] \in Running PROVE FALSE
          BY <2>1, <2>2, <4>1, <4>2, <4>3 DEF Alive
        <4> QED
          BY <2>3, <3>2, <4>3 DEF NoneRuns, TypeOK
      <3> QED
        BY <2>1, <3>1, <3>2
    <2> QED
      BY <2>4, <2>5, <2>6
  <1>6. ASSUME NEW p \in Proc, Waited(p) PROVE ClaimInv'
    BY <1>6 DEF Waited, file, ClaimInv, OneStart, PrevRead, NoneRuns, Alive, TypeOK, Places
  <1>7. ASSUME NEW p \in Proc, TimedOut(p) PROVE ClaimInv'
    BY <1>7 DEF TimedOut, file, ClaimInv, OneStart, PrevRead, NoneRuns, Alive, TypeOK, Places
  <1>8. ASSUME NEW p \in Proc, PidOpen(p) PROVE ClaimInv'
    BY <1>8 DEF PidOpen, file, ClaimInv, OneStart, PrevRead, NoneRuns, Alive, TypeOK, Places
  <1>9. ASSUME NEW p \in Proc, PidWrite(p) PROVE ClaimInv'
    BY <1>9 DEF PidWrite, file, ClaimInv, OneStart, PrevRead, NoneRuns, Alive, TypeOK, Places
  <1>10. ASSUME NEW p \in Proc, AppInit(p) PROVE ClaimInv'
    BY <1>10 DEF AppInit, file, ClaimInv, OneStart, PrevRead, NoneRuns, Alive, TypeOK, Places
  <1>11. ASSUME NEW p \in Proc, LoopTop(p) PROVE ClaimInv'
    BY <1>11 DEF LoopTop, file, ClaimInv, OneStart, PrevRead, NoneRuns, Alive, TypeOK, Places
  <1>12. ASSUME NEW p \in Proc, LoopReload(p) PROVE ClaimInv'
    BY <1>12 DEF LoopReload, file, ClaimInv, OneStart, PrevRead, NoneRuns, Alive, TypeOK, Places
  <1>13. ASSUME NEW p \in Proc, ReloadStat(p) PROVE ClaimInv'
    BY <1>13 DEF ReloadStat, file, ClaimInv, OneStart, PrevRead, NoneRuns, Alive, TypeOK, Places
  <1>14. ASSUME NEW p \in Proc, ReloadParse(p) PROVE ClaimInv'
    BY <1>14 DEF ReloadParse, file, ClaimInv, OneStart, PrevRead, NoneRuns, Alive, TypeOK, Places
  <1>15. ASSUME NEW p \in Proc, LoopProc(p) PROVE ClaimInv'
    BY <1>15 DEF LoopProc, file, ClaimInv, OneStart, PrevRead, NoneRuns, Alive, TypeOK, Places
  <1>16. ASSUME NEW p \in Proc, Fini(p) PROVE ClaimInv'
    BY <1>16 DEF Fini, file, ClaimInv, OneStart, PrevRead, NoneRuns, Alive, TypeOK, Places
  <1>17. ASSUME NEW p \in Proc, Crash(p) PROVE ClaimInv'
    BY <1>17, SMTT(30) DEF Crash, file, ClaimInv, OneStart, PrevRead, NoneRuns, Alive, TypeOK, Places
  <1>18. CASE Edit
    BY <1>18 DEF Edit, file, ClaimInv, OneStart, PrevRead, NoneRuns, Alive, TypeOK, Places
  <1>19. CASE Tick
    BY <1>19 DEF Tick, file, ClaimInv, OneStart, PrevRead, NoneRuns, Alive, TypeOK, Places
  <1>20. CASE Signal
    BY <1>20 DEF Signal, file, ClaimInv, OneStart, PrevRead, NoneRuns, Alive, TypeOK, Places
  <1>21. ASSUME NEW sig \in {"stop", "reload", "quit"}, Command(sig) PROVE ClaimInv'
    BY <1>21 DEF Command, file, ClaimInv, OneStart, PrevRead, NoneRuns, Alive, TypeOK, Places
  <1> QED
    BY <1>1, <1>2, <1>3, <1>4, <1>5, <1>6, <1>7, <1>8, <1>9, <1>10, <1>11, <1>12,
       <1>13, <1>14, <1>15, <1>16, <1>17, <1>18, <1>19, <1>20, <1>21
    DEF Next, Step

\* A step that names a process, in the pid file or in a command, names one that began.
LEMMA ReachStep ==
    ASSUME LifeConstants, IInv, Next
    PROVE  ReachInv'
  <1> USE DEF LifeConstants, Goto, flags, count, Claiming, InLoop, Running, Mid, Begun
  <1>0. TypeOK /\ ReachInv
    BY DEF IInv
  <1> USE <1>0
  <1>1. ASSUME NEW p \in Proc, Start(p) PROVE ReachInv'
    BY <1>1 DEF Start, file, ReachInv, TypeOK, Places, Alive
  <1>2. ASSUME NEW p \in Proc, StartParse(p) PROVE ReachInv'
    BY <1>2 DEF StartParse, file, ReachInv, TypeOK, Places, Alive
  <1>3. ASSUME NEW p \in Proc, StartStat(p) PROVE ReachInv'
    BY <1>3 DEF StartStat, file, ReachInv, TypeOK, Places, Alive
  <1>4. ASSUME NEW p \in Proc, KillRead(p) PROVE ReachInv'
    BY <1>4 DEF KillRead, file, ReachInv, TypeOK, Places, Alive
  <1>5. ASSUME NEW p \in Proc, KillSignal(p) PROVE ReachInv'
    BY <1>5 DEF KillSignal, file, ReachInv, TypeOK, Places, Alive
  <1>6. ASSUME NEW p \in Proc, Waited(p) PROVE ReachInv'
    BY <1>6 DEF Waited, file, ReachInv, TypeOK, Places, Alive
  <1>7. ASSUME NEW p \in Proc, TimedOut(p) PROVE ReachInv'
    BY <1>7 DEF TimedOut, file, ReachInv, TypeOK, Places, Alive
  <1>8. ASSUME NEW p \in Proc, PidOpen(p) PROVE ReachInv'
    BY <1>8 DEF PidOpen, file, ReachInv, TypeOK, Places, Alive
  <1>9. ASSUME NEW p \in Proc, PidWrite(p) PROVE ReachInv'
    BY <1>9 DEF PidWrite, file, ReachInv, TypeOK, Places, Alive
  <1>10. ASSUME NEW p \in Proc, AppInit(p) PROVE ReachInv'
    BY <1>10 DEF AppInit, file, ReachInv, TypeOK, Places, Alive
  <1>11. ASSUME NEW p \in Proc, LoopTop(p) PROVE ReachInv'
    BY <1>11 DEF LoopTop, file, ReachInv, TypeOK, Places, Alive
  <1>12. ASSUME NEW p \in Proc, LoopReload(p) PROVE ReachInv'
    BY <1>12 DEF LoopReload, file, ReachInv, TypeOK, Places, Alive
  <1>13. ASSUME NEW p \in Proc, ReloadStat(p) PROVE ReachInv'
    BY <1>13 DEF ReloadStat, file, ReachInv, TypeOK, Places, Alive
  <1>14. ASSUME NEW p \in Proc, ReloadParse(p) PROVE ReachInv'
    BY <1>14 DEF ReloadParse, file, ReachInv, TypeOK, Places, Alive
  <1>15. ASSUME NEW p \in Proc, LoopProc(p) PROVE ReachInv'
    BY <1>15 DEF LoopProc, file, ReachInv, TypeOK, Places, Alive
  <1>16. ASSUME NEW p \in Proc, Fini(p) PROVE ReachInv'
    BY <1>16 DEF Fini, file, ReachInv, TypeOK, Places, Alive
  <1>17. ASSUME NEW p \in Proc, Crash(p) PROVE ReachInv'
    BY <1>17 DEF Crash, file, ReachInv, TypeOK, Places, Alive
  <1>18. CASE Edit
    BY <1>18 DEF Edit, file, ReachInv, TypeOK, Places, Alive
  <1>19. CASE Tick
    BY <1>19 DEF Tick, file, ReachInv, TypeOK, Places, Alive
  <1>20. CASE Signal
    BY <1>20 DEF Signal, file, ReachInv, TypeOK, Places, Alive
  <1>21. ASSUME NEW sig \in {"stop", "reload", "quit"}, Command(sig) PROVE ReachInv'
    BY <1>21 DEF Command, file, ReachInv, TypeOK, Places, Alive
  <1> QED
    BY <1>1, <1>2, <1>3, <1>4, <1>5, <1>6, <1>7, <1>8, <1>9, <1>10, <1>11, <1>12,
       <1>13, <1>14, <1>15, <1>16, <1>17, <1>18, <1>19, <1>20, <1>21
    DEF Next, Step

\* An edit stamps the new version with the present, which no older one exceeds.
LEMMA StampStep ==
    ASSUME LifeConstants, IInv, Next
    PROVE  StampInv'
  <1> USE DEF LifeConstants, Goto, flags, count, Claiming, InLoop, Running, Mid, Begun
  <1>0. TypeOK /\ StampInv
    BY DEF IInv
  <1> USE <1>0
  <1>1. ASSUME NEW p \in Proc, Start(p) PROVE StampInv'
    BY <1>1 DEF Start, file, StampInv, TypeOK
  <1>2. ASSUME NEW p \in Proc, StartParse(p) PROVE StampInv'
    BY <1>2 DEF StartParse, file, StampInv, TypeOK
  <1>3. ASSUME NEW p \in Proc, StartStat(p) PROVE StampInv'
    BY <1>3 DEF StartStat, file, StampInv, TypeOK
  <1>4. ASSUME NEW p \in Proc, KillRead(p) PROVE StampInv'
    BY <1>4 DEF KillRead, file, StampInv, TypeOK
  <1>5. ASSUME NEW p \in Proc, KillSignal(p) PROVE StampInv'
    BY <1>5 DEF KillSignal, file, StampInv, TypeOK
  <1>6. ASSUME NEW p \in Proc, Waited(p) PROVE StampInv'
    BY <1>6 DEF Waited, file, StampInv, TypeOK
  <1>7. ASSUME NEW p \in Proc, TimedOut(p) PROVE StampInv'
    BY <1>7 DEF TimedOut, file, StampInv, TypeOK
  <1>8. ASSUME NEW p \in Proc, PidOpen(p) PROVE StampInv'
    BY <1>8 DEF PidOpen, file, StampInv, TypeOK
  <1>9. ASSUME NEW p \in Proc, PidWrite(p) PROVE StampInv'
    BY <1>9 DEF PidWrite, file, StampInv, TypeOK
  <1>10. ASSUME NEW p \in Proc, AppInit(p) PROVE StampInv'
    BY <1>10 DEF AppInit, file, StampInv, TypeOK
  <1>11. ASSUME NEW p \in Proc, LoopTop(p) PROVE StampInv'
    BY <1>11 DEF LoopTop, file, StampInv, TypeOK
  <1>12. ASSUME NEW p \in Proc, LoopReload(p) PROVE StampInv'
    BY <1>12 DEF LoopReload, file, StampInv, TypeOK
  <1>13. ASSUME NEW p \in Proc, ReloadStat(p) PROVE StampInv'
    BY <1>13 DEF ReloadStat, file, StampInv, TypeOK
  <1>14. ASSUME NEW p \in Proc, ReloadParse(p) PROVE StampInv'
    BY <1>14 DEF ReloadParse, file, StampInv, TypeOK
  <1>15. ASSUME NEW p \in Proc, LoopProc(p) PROVE StampInv'
    BY <1>15 DEF LoopProc, file, StampInv, TypeOK
  <1>16. ASSUME NEW p \in Proc, Fini(p) PROVE StampInv'
    BY <1>16 DEF Fini, file, StampInv, TypeOK
  <1>17. ASSUME NEW p \in Proc, Crash(p) PROVE StampInv'
    BY <1>17 DEF Crash, file, StampInv, TypeOK
  <1>18. CASE Edit
    <2>1. /\ ver' = ver + 1 /\ ver \in Nat /\ clock \in Nat
          /\ stamp' = [v \in 1 .. ver + 1 |-> IF v = ver + 1 THEN clock ELSE stamp[v]]
      BY <1>18 DEF Edit, TypeOK
    <2>2. \A v \in 1 .. ver : stamp[v] \in Int /\ stamp[v] <= clock
      BY <2>1 DEF TypeOK
    <2> QED
      BY <2>1, <2>2 DEF StampInv
  <1>19. CASE Tick
    BY <1>19 DEF Tick, file, StampInv, TypeOK
  <1>20. CASE Signal
    BY <1>20 DEF Signal, file, StampInv, TypeOK
  <1>21. ASSUME NEW sig \in {"stop", "reload", "quit"}, Command(sig) PROVE StampInv'
    BY <1>21 DEF Command, file, StampInv, TypeOK
  <1> QED
    BY <1>1, <1>2, <1>3, <1>4, <1>5, <1>6, <1>7, <1>8, <1>9, <1>10, <1>11, <1>12,
       <1>13, <1>14, <1>15, <1>16, <1>17, <1>18, <1>19, <1>20, <1>21
    DEF Next, Step

\* tConfMod is always the time of a version, and of one the process has or tried.
LEMMA ModStep ==
    ASSUME LifeConstants, IInv, Next
    PROVE  ModInv'
  <1> USE DEF LifeConstants, Goto, flags, count, Claiming, InLoop, Running, Mid, Begun
  <1>0. TypeOK /\ ModInv
    BY DEF IInv
  <1> USE <1>0
  <1>1. ASSUME NEW p \in Proc, Start(p) PROVE ModInv'
    BY <1>1 DEF Start, file, ModInv, Offered, TypeOK, Places
  <1>2. ASSUME NEW p \in Proc, StartParse(p) PROVE ModInv'
    <2> SUFFICES ASSUME NEW q \in Proc
                 PROVE  /\ st'[q] \in Claiming \cup Running => \E w \in 1 .. ver' : mod'[q] = stamp'[w]
                        /\ st'[q] \in (Claiming \cup Running) \ {"parse"} =>
                              \E w \in 1 .. ver' : mod'[q] = stamp'[w] /\ Offered(q, w)'
      BY DEF ModInv
    <2>1. CASE q = p
      BY <1>2, <2>1 DEF StartParse, TypeOK, Places
    <2>2. CASE q # p
      BY <1>2, <2>2 DEF StartParse, file, ModInv, Offered, TypeOK, Places
    <2> QED
      BY <2>1, <2>2
  <1>3. ASSUME NEW p \in Proc, StartStat(p) PROVE ModInv'
    <2> SUFFICES ASSUME NEW q \in Proc
                 PROVE  /\ st'[q] \in Claiming \cup Running => \E w \in 1 .. ver' : mod'[q] = stamp'[w]
                        /\ st'[q] \in (Claiming \cup Running) \ {"parse"} =>
                              \E w \in 1 .. ver' : mod'[q] = stamp'[w] /\ Offered(q, w)'
      BY DEF ModInv
    <2>1. CASE q = p
      <3>1. /\ mod'[p] = stamp[ver] /\ ver \in 1 .. ver /\ ver' = ver /\ stamp' = stamp
            /\ skipped'[p] = ver \/ conf'[p] = ver
        BY <1>3 DEF StartStat, file, TypeOK
      <3> QED
        BY <2>1, <3>1 DEF Offered, TypeOK
    <2>2. CASE q # p
      BY <1>3, <2>2 DEF StartStat, file, ModInv, Offered, TypeOK, Places
    <2> QED
      BY <2>1, <2>2
  <1>4. ASSUME NEW p \in Proc, KillRead(p) PROVE ModInv'
    BY <1>4 DEF KillRead, file, ModInv, Offered, TypeOK, Places
  <1>5. ASSUME NEW p \in Proc, KillSignal(p) PROVE ModInv'
    BY <1>5 DEF KillSignal, file, ModInv, Offered, TypeOK, Places
  <1>6. ASSUME NEW p \in Proc, Waited(p) PROVE ModInv'
    BY <1>6 DEF Waited, file, ModInv, Offered, TypeOK, Places
  <1>7. ASSUME NEW p \in Proc, TimedOut(p) PROVE ModInv'
    BY <1>7 DEF TimedOut, file, ModInv, Offered, TypeOK, Places
  <1>8. ASSUME NEW p \in Proc, PidOpen(p) PROVE ModInv'
    BY <1>8 DEF PidOpen, file, ModInv, Offered, TypeOK, Places
  <1>9. ASSUME NEW p \in Proc, PidWrite(p) PROVE ModInv'
    BY <1>9 DEF PidWrite, file, ModInv, Offered, TypeOK, Places
  <1>10. ASSUME NEW p \in Proc, AppInit(p) PROVE ModInv'
    BY <1>10 DEF AppInit, file, ModInv, Offered, TypeOK, Places
  <1>11. ASSUME NEW p \in Proc, LoopTop(p) PROVE ModInv'
    BY <1>11 DEF LoopTop, file, ModInv, Offered, TypeOK, Places
  <1>12. ASSUME NEW p \in Proc, LoopReload(p) PROVE ModInv'
    BY <1>12 DEF LoopReload, file, ModInv, Offered, TypeOK, Places
  <1>13. ASSUME NEW p \in Proc, ReloadStat(p) PROVE ModInv'
    <2> SUFFICES ASSUME NEW q \in Proc
                 PROVE  /\ st'[q] \in Claiming \cup Running => \E w \in 1 .. ver' : mod'[q] = stamp'[w]
                        /\ st'[q] \in (Claiming \cup Running) \ {"parse"} =>
                              \E w \in 1 .. ver' : mod'[q] = stamp'[w] /\ Offered(q, w)'
      BY DEF ModInv
    <2>1. CASE q = p
      <3>1. /\ mod'[p] = stamp[ver] /\ ver \in 1 .. ver /\ ver' = ver /\ stamp' = stamp
            /\ conf' = conf /\ skipped' = skipped
            /\ st'[p] = IF mod[p] = mtime THEN "proc" ELSE "parse"
        BY <1>13 DEF ReloadStat, file, TypeOK
      <3>2. CASE mod[p] = mtime
        <4>1. \E w \in 1 .. ver : mod[p] = stamp[w] /\ Offered(p, w)
          BY <1>13 DEF ReloadStat, ModInv
        <4>2. mod'[p] = mod[p]
          BY <3>1, <3>2 DEF TypeOK
        <4> QED
          BY <2>1, <3>1, <4>1, <4>2 DEF Offered
      <3>3. CASE mod[p] # mtime
        BY <2>1, <3>1, <3>3
      <3> QED
        BY <3>2, <3>3
    <2>2. CASE q # p
      BY <1>13, <2>2 DEF ReloadStat, file, ModInv, Offered, TypeOK, Places
    <2> QED
      BY <2>1, <2>2
  <1>14. ASSUME NEW p \in Proc, ReloadParse(p) PROVE ModInv'
    <2> SUFFICES ASSUME NEW q \in Proc
                 PROVE  /\ st'[q] \in Claiming \cup Running => \E w \in 1 .. ver' : mod'[q] = stamp'[w]
                        /\ st'[q] \in (Claiming \cup Running) \ {"parse"} =>
                              \E w \in 1 .. ver' : mod'[q] = stamp'[w] /\ Offered(q, w)'
      BY DEF ModInv
    <2>1. CASE q = p
      <3>1. /\ mod' = mod /\ ver' = ver /\ stamp' = stamp
            /\ skipped'[p] = ver \/ conf'[p] = ver
        BY <1>14 DEF ReloadParse, file, TypeOK
      <3>2. PICK w \in 1 .. ver : mod[p] = stamp[w]
        BY <1>14 DEF ReloadParse, ModInv
      <3>3. w <= ver
        BY DEF TypeOK
      <3> QED
        BY <2>1, <3>1, <3>2, <3>3 DEF Offered
    <2>2. CASE q # p
      BY <1>14, <2>2 DEF ReloadParse, file, ModInv, Offered, TypeOK, Places
    <2> QED
      BY <2>1, <2>2
  <1>15. ASSUME NEW p \in Proc, LoopProc(p) PROVE ModInv'
    BY <1>15 DEF LoopProc, file, ModInv, Offered, TypeOK, Places
  <1>16. ASSUME NEW p \in Proc, Fini(p) PROVE ModInv'
    BY <1>16 DEF Fini, file, ModInv, Offered, TypeOK, Places
  <1>17. ASSUME NEW p \in Proc, Crash(p) PROVE ModInv'
    BY <1>17 DEF Crash, file, ModInv, Offered, TypeOK, Places
  <1>18. CASE Edit
    <2> SUFFICES ASSUME NEW q \in Proc
                 PROVE  /\ st'[q] \in Claiming \cup Running => \E w \in 1 .. ver' : mod'[q] = stamp'[w]
                        /\ st'[q] \in (Claiming \cup Running) \ {"parse"} =>
                              \E w \in 1 .. ver' : mod'[q] = stamp'[w] /\ Offered(q, w)'
      BY DEF ModInv
    <2>1. /\ \A w \in 1 .. ver : w \in 1 .. ver' /\ stamp'[w] = stamp[w]
          /\ st' = st /\ mod' = mod /\ conf' = conf /\ skipped' = skipped
      BY <1>18 DEF Edit, TypeOK
    <2> QED
      BY <2>1 DEF ModInv, Offered
  <1>19. CASE Tick
    BY <1>19 DEF Tick, file, ModInv, Offered, TypeOK, Places
  <1>20. CASE Signal
    BY <1>20 DEF Signal, file, ModInv, Offered, TypeOK, Places
  <1>21. ASSUME NEW sig \in {"stop", "reload", "quit"}, Command(sig) PROVE ModInv'
    BY <1>21 DEF Command, file, ModInv, Offered, TypeOK, Places
  <1> QED
    BY <1>1, <1>2, <1>3, <1>4, <1>5, <1>6, <1>7, <1>8, <1>9, <1>10, <1>11, <1>12,
       <1>13, <1>14, <1>15, <1>16, <1>17, <1>18, <1>19, <1>20, <1>21
    DEF Next, Step

\* A step keeps what is known of a reload that was asked for and is not done.
LEMMA TakeStep ==
    ASSUME LifeConstants, IInv, Next
    PROVE  TakeInv'
  <1> USE DEF LifeConstants, Goto, flags, count, Claiming, InLoop, Running, Mid, Begun
  <1>0. TypeOK /\ ReachInv /\ StampInv /\ ModInv /\ TakeInv
    BY DEF IInv
  <1> USE <1>0
  <1>1. ASSUME NEW p \in Proc, Start(p) PROVE TakeInv'
    BY <1>1 DEF Start, file, TakeInv, Offered, Shared, TypeOK, Places
  <1>2. ASSUME NEW p \in Proc, StartParse(p) PROVE TakeInv'
    BY <1>2 DEF StartParse, file, TakeInv, Offered, Shared, TypeOK, Places
  <1>3. ASSUME NEW p \in Proc, StartStat(p) PROVE TakeInv'
    BY <1>3 DEF StartStat, file, TakeInv, Offered, Shared, TypeOK, Places
  <1>4. ASSUME NEW p \in Proc, KillRead(p) PROVE TakeInv'
    BY <1>4 DEF KillRead, file, TakeInv, Offered, Shared, TypeOK, Places
  <1>5. ASSUME NEW p \in Proc, KillSignal(p) PROVE TakeInv'
    BY <1>5 DEF KillSignal, file, TakeInv, Offered, Shared, TypeOK, Places
  <1>6. ASSUME NEW p \in Proc, Waited(p) PROVE TakeInv'
    BY <1>6 DEF Waited, file, TakeInv, Offered, Shared, TypeOK, Places
  <1>7. ASSUME NEW p \in Proc, TimedOut(p) PROVE TakeInv'
    BY <1>7 DEF TimedOut, file, TakeInv, Offered, Shared, TypeOK, Places
  <1>8. ASSUME NEW p \in Proc, PidOpen(p) PROVE TakeInv'
    BY <1>8 DEF PidOpen, file, TakeInv, Offered, Shared, TypeOK, Places
  <1>9. ASSUME NEW p \in Proc, PidWrite(p) PROVE TakeInv'
    <2> SUFFICES ASSUME NEW q \in Proc, st'[q] \in Running \ {"stat", "parse"},
                        ~reload'[q], asked'[q] # 0
                 PROVE  Offered(q, asked[q])' \/ Shared(asked[q])'
      BY DEF TakeInv
    <2>1. q # p
      BY <1>9 DEF PidWrite, ReachInv, TypeOK
    <2> QED
      BY <1>9, <2>1 DEF PidWrite, file, TakeInv, Offered, Shared, TypeOK, Places
  <1>10. ASSUME NEW p \in Proc, AppInit(p) PROVE TakeInv'
    BY <1>10 DEF AppInit, file, TakeInv, Offered, Shared, TypeOK, Places
  <1>11. ASSUME NEW p \in Proc, LoopTop(p) PROVE TakeInv'
    BY <1>11 DEF LoopTop, file, TakeInv, Offered, Shared, TypeOK, Places
  <1>12. ASSUME NEW p \in Proc, LoopReload(p) PROVE TakeInv'
    BY <1>12 DEF LoopReload, file, TakeInv, Offered, Shared, TypeOK, Places
  <1>13. ASSUME NEW p \in Proc, ReloadStat(p) PROVE TakeInv'
    <2> SUFFICES ASSUME NEW q \in Proc, st'[q] \in Running \ {"stat", "parse"},
                        ~reload'[q], asked'[q] # 0
                 PROVE  Offered(q, asked[q])' \/ Shared(asked[q])'
      BY DEF TakeInv
    <2>0. /\ ver' = ver /\ stamp' = stamp /\ asked' = asked /\ reload' = reload
          /\ conf' = conf /\ skipped' = skipped
      BY <1>13 DEF ReloadStat, file, flags
    <2>1. CASE q = p
      <3>1. mod[p] = stamp[ver]
        BY <1>13, <2>1 DEF ReloadStat, TypeOK
      <3>2. PICK w \in 1 .. ver : mod[p] = stamp[w] /\ Offered(p, w)
        BY <1>13 DEF ReloadStat, ModInv
      <3>3. asked[p] \in 1 .. ver /\ ver \in 1 .. ver
        BY <2>0, <2>1 DEF TypeOK
      <3>4. CASE asked[p] <= w
        BY <2>0, <2>1, <3>2, <3>3, <3>4 DEF Offered, TypeOK
      <3>5. CASE ~ (asked[p] <= w)
        <4>1. w <= asked[p] /\ asked[p] <= ver /\ w # asked[p]
          <5>1. ver \in Int /\ asked[p] \in Int /\ w \in Int /\ asked[p] <= ver
            BY <3>3 DEF TypeOK
          <5> QED
            BY <3>5, <5>1
        <4>2. stamp[w] <= stamp[asked[p]] /\ stamp[asked[p]] <= stamp[ver]
          BY <3>3, <4>1 DEF StampInv
        <4>3. stamp[w] = stamp[asked[p]]
          <5>1. \A v \in 1 .. ver : stamp[v] \in Int
            BY DEF TypeOK
          <5> QED
            BY <3>1, <3>2, <3>3, <4>2, <5>1
        <4> QED
          BY <2>0, <2>1, <4>1, <4>3 DEF Shared
      <3> QED
        BY <3>4, <3>5
    <2>2. CASE q # p
      BY <1>13, <2>0, <2>2 DEF ReloadStat, TakeInv, Offered, Shared, TypeOK, Places
    <2> QED
      BY <2>1, <2>2
  <1>14. ASSUME NEW p \in Proc, ReloadParse(p) PROVE TakeInv'
    <2> SUFFICES ASSUME NEW q \in Proc, st'[q] \in Running \ {"stat", "parse"},
                        ~reload'[q], asked'[q] # 0
                 PROVE  Offered(q, asked[q])' \/ Shared(asked[q])'
      BY DEF TakeInv
    <2>1. CASE q = p
      <3>1. /\ asked' = asked /\ asked[p] <= ver
            /\ skipped'[p] = ver \/ conf'[p] = ver
        BY <1>14 DEF ReloadParse, TypeOK
      <3> QED
        BY <2>1, <3>1 DEF Offered
    <2>2. CASE q # p
      BY <1>14, <2>2 DEF ReloadParse, file, TakeInv, Offered, Shared, TypeOK, Places
    <2> QED
      BY <2>1, <2>2
  <1>15. ASSUME NEW p \in Proc, LoopProc(p) PROVE TakeInv'
    BY <1>15 DEF LoopProc, file, TakeInv, Offered, Shared, TypeOK, Places
  <1>16. ASSUME NEW p \in Proc, Fini(p) PROVE TakeInv'
    BY <1>16 DEF Fini, file, TakeInv, Offered, Shared, TypeOK, Places
  <1>17. ASSUME NEW p \in Proc, Crash(p) PROVE TakeInv'
    BY <1>17 DEF Crash, file, TakeInv, Offered, Shared, TypeOK, Places
  <1>18. CASE Edit
    <2> SUFFICES ASSUME NEW q \in Proc, st'[q] \in Running \ {"stat", "parse"},
                        ~reload'[q], asked'[q] # 0
                 PROVE  Offered(q, asked[q])' \/ Shared(asked[q])'
      BY DEF TakeInv
    <2>1. /\ \A w \in 1 .. ver : w \in 1 .. ver' /\ stamp'[w] = stamp[w]
          /\ st' = st /\ reload' = reload /\ asked' = asked /\ conf' = conf
          /\ skipped' = skipped /\ asked[q] \in 0 .. ver /\ ver \in Nat
      BY <1>18 DEF Edit, flags, TypeOK
    <2>2. Offered(q, asked[q]) \/ Shared(asked[q])
      BY <2>1 DEF TakeInv
    <2>3. asked[q] \in 1 .. ver
      BY <2>1
    <2> QED
      BY <2>1, <2>2, <2>3 DEF Offered, Shared
  <1>19. CASE Tick
    BY <1>19 DEF Tick, file, TakeInv, Offered, Shared, TypeOK, Places
  <1>20. CASE Signal
    <2> SUFFICES ASSUME NEW q \in Proc, st'[q] \in Running \ {"stat", "parse"},
                        ~reload'[q], asked'[q] # 0
                 PROVE  Offered(q, asked[q])' \/ Shared(asked[q])'
      BY DEF TakeInv
    <2>1. /\ UNCHANGED <<ver, stamp, st, conf, skipped>>
          /\ asked'[q] = asked[q] /\ ~reload[q]
      BY <1>20 DEF Signal, file, TypeOK
    <2> QED
      BY <2>1 DEF TakeInv, Offered, Shared
  <1>21. ASSUME NEW sig \in {"stop", "reload", "quit"}, Command(sig) PROVE TakeInv'
    BY <1>21 DEF Command, file, TakeInv, Offered, Shared, TypeOK, Places
  <1> QED
    BY <1>1, <1>2, <1>3, <1>4, <1>5, <1>6, <1>7, <1>8, <1>9, <1>10, <1>11, <1>12,
       <1>13, <1>14, <1>15, <1>16, <1>17, <1>18, <1>19, <1>20, <1>21
    DEF Next, Step

LEMMA InitIInv == LifeConstants /\ Init => IInv
  <1> SUFFICES ASSUME LifeConstants, Init PROVE IInv
    OBVIOUS
  <1> USE DEF LifeConstants, Init, Claiming, InLoop, Running, Mid, Begun
  <1>1. TypeOK
    <2>1. 1 .. 1 = {1} /\ 0 \in 0 .. MaxTime /\ 0 \in 0 .. MaxCmd /\ 0 \in 0 .. MaxCrash
          /\ 1 \in 1 .. MaxVer /\ 0 \in (0 .. 1) \ BadVers /\ -1 \in -1 .. 0
      OBVIOUS
    <2>2. stamp \in [1 .. ver -> 0 .. clock] /\ mtime = stamp[ver]
      BY <2>1
    <2> QED
      BY <2>1, <2>2 DEF TypeOK, Places
  <1>2. ClaimInv /\ ReachInv
    BY DEF ClaimInv, OneStart, PrevRead, NoneRuns, ReachInv
  <1>3. StampInv /\ ModInv /\ TakeInv
    BY DEF StampInv, ModInv, TakeInv
  <1> QED
    BY <1>1, <1>2, <1>3 DEF IInv

LEMMA StepIInv == LifeConstants /\ IInv /\ [Next]_vars => IInv'
  <1> SUFFICES ASSUME LifeConstants, IInv, [Next]_vars PROVE IInv'
    OBVIOUS
  <1>1. CASE Next
    BY <1>1, TypeStep, ClaimStep, ReachStep, StampStep, ModStep, TakeStep DEF IInv
  <1>2. CASE UNCHANGED vars
    BY <1>2 DEF vars, IInv, TypeOK, ClaimInv, OneStart, PrevRead, NoneRuns, ReachInv, StampInv,
                ModInv, TakeInv, Offered, Shared
  <1> QED
    BY <1>1, <1>2

\* The invariant gives the properties of the runs.
LEMMA IInvShows == LifeConstants /\ IInv => TypeOK /\ Named /\ ReloadTakes
  <1> SUFFICES ASSUME LifeConstants, IInv PROVE TypeOK /\ Named /\ ReloadTakes
    OBVIOUS
  <1>1. TypeOK /\ Named
    BY DEF IInv, ClaimInv, Named
  <1>2. ReloadTakes
    BY <1>1 DEF IInv, TakeInv, ReloadTakes, Offered, Shared, TypeOK, Running, InLoop
  <1> QED
    BY <1>1, <1>2

\* The invariant holds in every state.
LEMMA Invariance == ASSUME LifeConstants PROVE Spec => []IInv
  <1>1. Init => IInv
    BY InitIInv
  <1>2. IInv /\ [Next]_vars => IInv'
    BY StepIInv
  <1> QED
    BY <1>1, <1>2, PTL DEF Spec
-----------------------------------------------------------------------------
\* The flags, times and versions of every process keep their types: a process never
\* holds a version that does not parse.
THEOREM LifeTypeCorrect == ASSUME LifeConstants PROVE Spec => []TypeOK
  <1>1. IInv => TypeOK
    BY IInvShows
  <1> QED
    BY <1>1, Invariance, PTL

\* tos_kill_prev and tos_write_pid leave one process running, and the pid file names
\* it, as long as no two starts overlap: whatever dies, times out, or is signalled.
THEOREM OneRuns == ASSUME LifeConstants PROVE Spec => []Named
  <1>1. IInv => Named
    BY IInvShows
  <1> QED
    BY <1>1, Invariance, PTL

\* tapp_reload_conf takes what was in the file when the reload was asked for, or
\* something newer, but for the ways out that ReloadTakes names.
THEOREM ReloadCorrect == ASSUME LifeConstants PROVE Spec => []ReloadTakes
  <1>1. IInv => ReloadTakes
    BY IInvShows
  <1> QED
    BY <1>1, Invariance, PTL
=============================================================================
