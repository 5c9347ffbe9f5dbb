-------------------------------- MODULE TappLife --------------------------------
(***************************************************************************)
(* The processes of one tapp application (tapp.c, pal/tos.c): start, main  *)
(* loop, signals, reload, and the pid file through which a process that    *)
(* starts ends the one before it and the commands stop, reload and kill    *)
(* find it.  Everything happens while the operator edits the configuration *)
(* file and any process may die.                                           *)
(*                                                                         *)
(* Of the three files a reload looks at (application, log, timers) there   *)
(* is one: all are read the same way.  What pfnReload takes from           *)
(* stConfPrepareData is its own affair, so conf is what it is offered; the *)
(* copy of the old configuration is left out.  Process ids are not reused. *)
(***************************************************************************)
EXTENDS Integers, FiniteSets

CONSTANTS
    Proc,      \* process ids, in the order of the starts
    None,
    BadVers,   \* versions of the configuration file that do not parse
    MaxVer,    \* bound: versions of the file
    MaxTime,   \* bound: seconds
    MaxCmd,    \* bound: commands of the operator
    MaxCrash   \* bound: deaths that are not an exit

VARIABLES
    clock, ver, mtime,   \* the configuration file: version and st_mtime
    stamp,               \* history: the st_mtime of each version
    pidfile,             \* the process named in the pid file, None if it is empty or absent
    st,                  \* where each process is
    prev,                \* tos_kill_prev: what it read from the pid file
    isExit, reload, exitLoop, \* gs_iIsExit, gs_iReload, gs_iExitMainloop
    conf, mod,           \* version parsed last, tConfMod
    cmd,                 \* the running command: its signal, the process it found
    cmds, crashes,       \* counters for the bounds
    asked,               \* history: the version in the file at the last reload signal
    skipped,             \* history: the newest version that did not parse, or that came
                         \* between the parsing and the stat of the start
    overlap              \* history: two starts at the same time

file  == <<clock, ver, mtime, stamp>>
flags == <<isExit, reload, exitLoop>>
count == <<cmds, crashes>>
vars  == <<clock, ver, mtime, stamp, pidfile, st, prev, isExit, reload, exitLoop, conf, mod,
           cmd, cmds, crashes, asked, skipped, overlap>>

\* From tos_kill_prev on a process has its handlers.
Claiming == {"kill", "check", "wait", "pidopen", "pidwrite"}
InLoop   == {"top", "reload", "stat", "parse", "proc"}
Running  == {"init"} \cup InLoop \cup {"fini"}
Places   == {"out", "conf", "confstat"} \cup Claiming \cup Running \cup {"gone"}

Alive(p) == st[p] \notin {"out", "gone"}

Init ==
    /\ clock = 0 /\ ver = 1 /\ mtime = 0 /\ stamp = [v \in {1} |-> 0]
    /\ pidfile = None
    /\ st = [p \in Proc |-> "out"] /\ prev = [p \in Proc |-> None]
    /\ isExit = [p \in Proc |-> "no"]
    /\ reload = [p \in Proc |-> FALSE] /\ exitLoop = [p \in Proc |-> FALSE]
    /\ conf = [p \in Proc |-> 0] /\ mod = [p \in Proc |-> -1]
    /\ cmd = None /\ cmds = 0 /\ crashes = 0
    /\ asked = [p \in Proc |-> 0] /\ skipped = [p \in Proc |-> 0]
    /\ overlap = FALSE

Goto(p, from, to) == st[p] = from /\ st' = [st EXCEPT ![p] = to]
-----------------------------------------------------------------------------
(***************************************************************************)
(* tapp_def_init                                                           *)
(***************************************************************************)
Start(p) ==
    /\ Goto(p, "out", "conf")
    /\ \A q \in Proc : q < p => st[q] # "out"
    /\ UNCHANGED <<file, pidfile, prev, flags, conf, mod, cmd, count, asked, skipped, overlap>>

\* tapp_init_data parses the file and then asks for its time; the process ends if the
\* file does not parse.
StartParse(p) ==
    /\ Goto(p, "conf", IF ver \in BadVers THEN "gone" ELSE "confstat")
    /\ conf' = [conf EXCEPT ![p] = IF ver \in BadVers THEN 0 ELSE ver]
    /\ UNCHANGED <<file, pidfile, prev, flags, mod, cmd, count, asked, skipped, overlap>>

StartStat(p) ==
    /\ Goto(p, "confstat", "kill")
    /\ mod' = [mod EXCEPT ![p] = mtime]
    /\ skipped' = IF ver = conf[p] THEN skipped ELSE [skipped EXCEPT ![p] = ver]
    /\ UNCHANGED <<file, pidfile, prev, flags, conf, cmd, count, asked, overlap>>

\* tos_kill_prev: tos_read_pid ...
KillRead(p) ==
    /\ Goto(p, "kill", "check")
    /\ prev' = [prev EXCEPT ![p] = pidfile]
    /\ overlap' = (overlap \/ \E q \in Proc \ {p} : st[q] \in Claiming \ {"kill"})
    /\ UNCHANGED <<file, pidfile, flags, conf, mod, cmd, count, asked, skipped>>

\* ... tos_check_pid and SIGQUIT, if there is a process of this application, ...
KillSignal(p) ==
    LET there == prev[p] # None /\ prev[p] # p /\ Alive(prev[p])
    IN  /\ Goto(p, "check", IF there THEN "wait" ELSE "pidopen")
        /\ isExit' = IF there THEN [isExit EXCEPT ![prev[p]] = "quit"] ELSE isExit
        /\ UNCHANGED <<file, pidfile, prev, reload, exitLoop, conf, mod, cmd, count, asked,
                       skipped, overlap>>

\* Mutant of Waited: the process before need not be gone.
WaitedNot(p) ==
    /\ Goto(p, "wait", "pidopen")
    /\ UNCHANGED <<file, pidfile, prev, flags, conf, mod, cmd, count, asked, skipped, overlap>>

\* ... and tos_timed_wait until it is gone.
Waited(p) ==
    /\ Goto(p, "wait", "pidopen")
    /\ ~Alive(prev[p])
    /\ UNCHANGED <<file, pidfile, prev, flags, conf, mod, cmd, count, asked, skipped, overlap>>

TimedOut(p) ==
    /\ Goto(p, "wait", "gone")
    /\ UNCHANGED <<file, pidfile, prev, flags, conf, mod, cmd, count, asked, skipped, overlap>>

\* tos_write_pid: fopen truncates the file.
PidOpen(p) ==
    /\ Goto(p, "pidopen", "pidwrite")
    /\ pidfile' = None
    /\ UNCHANGED <<file, prev, flags, conf, mod, cmd, count, asked, skipped, overlap>>

PidWrite(p) ==
    /\ Goto(p, "pidwrite", "init")
    /\ pidfile' = p
    /\ UNCHANGED <<file, prev, flags, conf, mod, cmd, count, asked, skipped, overlap>>

\* pfnInit succeeds, and the main loop begins, or the process ends.
AppInit(p) ==
    /\ \E to \in {"top", "gone"} : Goto(p, "init", to)
    /\ UNCHANGED <<file, pidfile, prev, flags, conf, mod, cmd, count, asked, skipped, overlap>>
-----------------------------------------------------------------------------
(***************************************************************************)
(* tapp_def_mainloop                                                       *)
(***************************************************************************)

\* pfnStop or pfnQuit may still refuse; the rest of the iteration follows anyway.
LoopTop(p) ==
    /\ Goto(p, "top", "reload")
    /\ \/ exitLoop' = exitLoop
       \/ isExit[p] # "no" /\ exitLoop' = [exitLoop EXCEPT ![p] = TRUE]
    /\ UNCHANGED <<file, pidfile, prev, isExit, reload, conf, mod, cmd, count, asked, skipped,
                   overlap>>

LoopReload(p) ==
    /\ Goto(p, "reload", IF reload[p] THEN "stat" ELSE "proc")
    /\ reload' = [reload EXCEPT ![p] = FALSE]
    /\ UNCHANGED <<file, pidfile, prev, isExit, exitLoop, conf, mod, cmd, count, asked, skipped,
                   overlap>>

\* tapp_reload_conf: the time of the file is kept before the file is read.
ReloadStat(p) ==
    /\ Goto(p, "stat", IF mod[p] = mtime THEN "proc" ELSE "parse")
    /\ mod' = [mod EXCEPT ![p] = mtime]
    /\ UNCHANGED <<file, pidfile, prev, flags, conf, cmd, count, asked, skipped, overlap>>

ReloadParse(p) ==
    /\ Goto(p, "parse", "proc")
    /\ conf' = [conf EXCEPT ![p] = IF ver \in BadVers THEN @ ELSE ver]
    /\ skipped' = [skipped EXCEPT ![p] = IF ver \in BadVers THEN ver ELSE @]
    /\ UNCHANGED <<file, pidfile, prev, flags, mod, cmd, count, asked, overlap>>

\* Mutant of LoopProc: the flag is cleared at the end of the iteration.
LoopProcClear(p) ==
    /\ Goto(p, "proc", IF exitLoop[p] THEN "fini" ELSE "top")
    /\ reload' = [reload EXCEPT ![p] = FALSE]
    /\ UNCHANGED <<file, pidfile, prev, isExit, exitLoop, conf, mod, cmd, count, asked, skipped,
                   overlap>>

\* pfnProc, idling and the tick.
LoopProc(p) ==
    /\ Goto(p, "proc", IF exitLoop[p] THEN "fini" ELSE "top")
    /\ UNCHANGED <<file, pidfile, prev, flags, conf, mod, cmd, count, asked, skipped, overlap>>

\* tapp_def_fini; the pid file stays.
Fini(p) ==
    /\ Goto(p, "fini", "gone")
    /\ UNCHANGED <<file, pidfile, prev, flags, conf, mod, cmd, count, asked, skipped, overlap>>
-----------------------------------------------------------------------------
(***************************************************************************)
(* The operator                                                            *)
(***************************************************************************)
Edit ==
    /\ ver < MaxVer /\ ver' = ver + 1 /\ mtime' = clock
    /\ stamp' = [v \in 1 .. ver + 1 |-> IF v = ver + 1 THEN clock ELSE stamp[v]]
    /\ UNCHANGED <<clock, pidfile, st, prev, flags, conf, mod, cmd, count, asked, skipped, overlap>>

Tick ==
    /\ clock < MaxTime /\ clock' = clock + 1
    /\ UNCHANGED <<ver, mtime, stamp, pidfile, st, prev, flags, conf, mod, cmd, count, asked,
                   skipped, overlap>>

\* "<app> stop|reload|kill": tos_send_signal and tos_kill_prev read the pid file ...
Command(sig) ==
    /\ cmd = None /\ cmds < MaxCmd /\ cmds' = cmds + 1
    /\ cmd' = [sig |-> sig, to |-> pidfile]
    /\ UNCHANGED <<file, pidfile, st, prev, flags, conf, mod, crashes, asked, skipped, overlap>>

\* ... and send the signal to the process, if there still is one.
Signal ==
    /\ cmd # None /\ cmd' = None
    /\ IF cmd.to # None /\ Alive(cmd.to)
       THEN IF cmd.sig = "reload"
            THEN /\ reload' = [reload EXCEPT ![cmd.to] = TRUE]
                 /\ asked' = [asked EXCEPT ![cmd.to] = ver]
                 /\ UNCHANGED isExit
            ELSE isExit' = [isExit EXCEPT ![cmd.to] = cmd.sig] /\ UNCHANGED <<reload, asked>>
       ELSE UNCHANGED <<isExit, reload, asked>>
    /\ UNCHANGED <<file, pidfile, st, prev, exitLoop, conf, mod, count, skipped, overlap>>

Crash(p) ==
    /\ Alive(p) /\ crashes < MaxCrash /\ crashes' = crashes + 1
    /\ st' = [st EXCEPT ![p] = "gone"]
    /\ UNCHANGED <<file, pidfile, prev, flags, conf, mod, cmd, cmds, asked, skipped, overlap>>
-----------------------------------------------------------------------------
Step(p) ==
    \/ StartParse(p) \/ StartStat(p)
    \/ KillRead(p) \/ KillSignal(p) \/ Waited(p) \/ TimedOut(p)
    \/ PidOpen(p) \/ PidWrite(p) \/ AppInit(p)
    \/ LoopTop(p) \/ LoopReload(p) \/ ReloadStat(p) \/ ReloadParse(p) \/ LoopProc(p)
    \/ Fini(p)

Next ==
    \/ \E p \in Proc : Start(p) \/ Step(p) \/ Crash(p)
    \/ Edit \/ Tick \/ Signal
    \/ \E sig \in {"stop", "reload", "quit"} : Command(sig)

Spec == Init /\ [][Next]_vars
-----------------------------------------------------------------------------
TypeOK ==
    /\ clock \in 0 .. MaxTime /\ ver \in 1 .. MaxVer /\ mtime \in 0 .. clock
    /\ stamp \in [1 .. ver -> 0 .. clock] /\ mtime = stamp[ver]
    /\ pidfile \in Proc \cup {None}
    /\ st \in [Proc -> Places] /\ prev \in [Proc -> Proc \cup {None}]
    /\ isExit \in [Proc -> {"no", "stop", "quit"}]
    /\ reload \in [Proc -> BOOLEAN] /\ exitLoop \in [Proc -> BOOLEAN]
    /\ conf \in [Proc -> (0 .. ver) \ BadVers] /\ mod \in [Proc -> -1 .. clock]
    /\ cmd \in [sig : {"stop", "reload", "quit"}, to : Proc \cup {None}] \cup {None}
    /\ cmds \in 0 .. MaxCmd /\ crashes \in 0 .. MaxCrash
    /\ asked \in [Proc -> 0 .. ver] /\ skipped \in [Proc -> 0 .. ver] /\ overlap \in BOOLEAN

\* Whoever runs is named by the pid file, so that there is only one, the commands
\* reach it and the next start ends it -- unless two starts went on at the same
\* time, for nothing locks the pid file.
Named == ~overlap => \A p \in Proc : st[p] \in Running => pidfile = p

\* A process that was asked to reload and is through with it has been offered what
\* the file was when it was asked, or something newer: the flag is cleared before
\* the file is looked at, and the time is taken before the file is read.  The ways out:
\* the version does not parse, or came between parsing and stat at the start
\* (tConfMod then is its time), or has its time in common with another.
ReloadTakes ==
    \A p \in Proc :
        st[p] \in {"top", "proc"} /\ ~reload[p] /\ asked[p] # 0 =>
            \/ conf[p] >= asked[p]
            \/ skipped[p] >= asked[p]
            \/ \E v \in 1 .. ver : v # asked[p] /\ stamp[v] = stamp[asked[p]]
=============================================================================
