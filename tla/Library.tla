-------------------------------- MODULE Library --------------------------------
(***************************************************************************)
(* The parts of the framework every application is built on, side by side: *)
(* the memory pool, the hash table, the log file, the life of a process.   *)
(* They share no state, so a behaviour is one of the part sys names, while *)
(* the others stay as they began.                                          *)
(*                                                                         *)
(* Tmempool is extended, the others are instances.  TappLife is there      *)
(* twice: three processes that never reload (Life), and one that does      *)
(* (Reload).                                                               *)
(***************************************************************************)
EXTENDS Tmempool

CONSTANTS
    Keys, Code, Items, Buckets,           \* Shtable
    Devices, Messages, MaxSecond, MaxMsg, \* TlogFile
    Daemons, Nobody,                      \* TappLife
    MaxEdit, BadEdits, MaxCmd

ASSUME TableAssumption ==
    /\ Keys # {} /\ "none" \notin Keys /\ Code \in [Keys -> Nat]
    /\ {Items, Buckets} \subseteq Nat \ {0}

ASSUME LogAssumption ==
    /\ Devices # {}
    /\ Devices \subseteq [max : Nat, stick : BOOLEAN, period : Nat, limit : Nat, unit : Nat \ {0}]
    /\ Messages \subseteq [size : Nat, counted : Nat]
    /\ {MaxSecond, MaxMsg} \subseteq Nat

ASSUME AppAssumption ==
    /\ Daemons \subseteq Nat /\ Nobody \notin Daemons \cup {1}
    /\ MaxEdit \in Nat \ {0} /\ MaxCmd \in Nat /\ 0 \notin BadEdits

VARIABLES
    sys,
    tFreeHead, iItem, item, bucket, tpc, node, key, found,
    conf, clock, file, stamp, rotate, iCurRotate, iTail, tLastMsg, up, synced, n, lost,
    born, tied,
    aClock, ver, mtime, aStamp, pidfile, st, prev, isExit, reload, exitLoop, aConf, mod,
    cmd, cmds, crashes, asked, skipped, overlap

poolVars  == vars
tableVars == <<tFreeHead, iItem, item, bucket, tpc, node, key, found>>
logVars   == <<conf, clock, file, stamp, rotate, iCurRotate, iTail, tLastMsg, up, synced,
               n, lost, born, tied>>
appVars   == <<aClock, ver, mtime, aStamp, pidfile, st, prev, isExit, reload, exitLoop, aConf,
               mod, cmd, cmds, crashes, asked, skipped, overlap>>
-----------------------------------------------------------------------------
Table == INSTANCE Shtable
         WITH iFreeHead <- tFreeHead, pc <- tpc, Key <- Keys, Cap <- Items

Log == INSTANCE TlogFile WITH Confs <- Devices, Kinds <- Messages, MaxTime <- MaxSecond

Life == INSTANCE TappLife
        WITH clock <- aClock, stamp <- aStamp, conf <- aConf, Proc <- Daemons,
             None <- Nobody, BadVers <- {}, MaxVer <- 1, MaxTime <- 0, MaxCmd <- 1,
             MaxCrash <- 1

Reload == INSTANCE TappLife
          WITH clock <- aClock, stamp <- aStamp, conf <- aConf, Proc <- {1},
               None <- Nobody, BadVers <- BadEdits, MaxVer <- MaxEdit, MaxTime <- MaxSecond,
               MaxCrash <- 0
-----------------------------------------------------------------------------
LibInit ==
    /\ sys \in {"pool", "table", "log", "life", "reload"}
    /\ Init /\ Table!Init /\ Log!Init
    /\ sys # "table" => key = CHOOSE k \in Keys : TRUE
    /\ sys # "log" => conf = CHOOSE c \in Devices : TRUE
    /\ IF sys = "reload" THEN Reload!Init ELSE Life!Init

LibNext ==
    /\ UNCHANGED sys
    /\ \/ sys = "pool" /\ Next /\ UNCHANGED <<tableVars, logVars, appVars>>
       \/ sys = "table" /\ Table!Next /\ UNCHANGED <<poolVars, logVars, appVars>>
       \/ sys = "log" /\ Log!Next /\ UNCHANGED <<poolVars, tableVars, appVars>>
       \/ sys = "life" /\ Life!Next /\ UNCHANGED <<poolVars, tableVars, logVars>>
       \/ sys = "reload" /\ Reload!Next /\ UNCHANGED <<poolVars, tableVars, logVars>>

LibSpec == LibInit /\ [][LibNext]_<<sys, poolVars, tableVars, logVars, appVars>>
-----------------------------------------------------------------------------
\* The properties of the instances, under the names they have there.
LibTypeOK ==
    /\ sys = "pool" => TypeOK
    /\ sys = "table" => Table!TypeOK
    /\ sys = "log" => Log!TypeOK
    /\ sys = "life" => Life!TypeOK
    /\ sys = "reload" => Reload!TypeOK

FindsAll    == sys = "table" => Table!ChainInv /\ Table!FindsAll
CrashKeeps  == Table!CrashKeeps
OldestGo    == sys = "log" => Log!OldestGo
Bounded     == sys = "log" => Log!Bounded /\ Log!PeriodLag
Named       == sys = "life" => Life!Named
ReloadTakes == sys = "reload" => Reload!ReloadTakes
=============================================================================
