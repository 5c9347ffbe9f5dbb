-------------------------------- MODULE TlogFile --------------------------------
(***************************************************************************)
(* A log file device of tlog (tlogfile.c): the file's name has a stamp,    *)
(* the time rounded up to iPrecision, and a number.  A file that is full   *)
(* is followed by the one with the next number (or, with iRotateStick, all *)
(* files move up by one and the log goes on in number 0), which begins     *)
(* anew; a process that starts looks for the latest file and goes on in    *)
(* it.  A process that dies loses what it has not flushed; a file has the  *)
(* time of the last flush.                                                 *)
(*                                                                         *)
(* The stamp stands for the text strftime makes of it; messages are        *)
(* numbered.  Sizes are in any unit.                                       *)
(***************************************************************************)
EXTENDS Integers

CONSTANTS
    Confs,     \* records [max, stick, period, limit, unit]: iMaxRotate, iRotateStick,
               \* iPrecision, iSizeLimit of a device; the time unit in its szPattern
    Kinds,     \* records [size, counted]: what a message has and what
               \* tlogfile_writev takes it for
    MaxTime,   \* bound: the last second
    MaxMsg     \* bound: number of messages

VARIABLES
    conf,      \* the device
    clock,
    file,      \* the files that exist, by stamp and number: messages, size, mtime
    stamp, rotate, \* szPath: the stamp and the number in it
    iCurRotate, iTail, tLastMsg,
    up,        \* is the process alive, its file open?
    synced,    \* what of the open file is flushed
    n,         \* messages written so far
    lost,      \* history: messages a crash has taken
    born,      \* history: the time and the stamp of each message
    tied       \* history: a start found two latest files

inst == <<stamp, rotate, iCurRotate, iTail, tLastMsg, up>>
vars == <<conf, clock, file, stamp, rotate, iCurRotate, iTail, tLastMsg, up, synced, n,
          lost, born, tied>>

\* tlogfile_make_path_i: the stamp of a time, rounded up to the next period.
Stamp(t) ==
    LET p == conf.period
    IN  (IF p > 0 THEN ((t + p - 1) \div p) * p ELSE t) \div conf.unit

\* ... and the number in the name: 0 under a new stamp.
Numbered(s, r) ==
    IF s # stamp \/ conf.max <= 0 THEN 0 ELSE r % conf.max

Empty == [msgs |-> {}, size |-> 0, mtime |-> clock]

Exists(s, r) == <<s, r>> \in DOMAIN file

Put(f, name, content) ==
    [x \in DOMAIN f \cup {name} |-> IF x = name THEN content ELSE f[x]]

\* The files once the open one is flushed.
Flushed ==
    IF file[<<stamp, rotate>>] = synced THEN file
    ELSE [file EXCEPT ![<<stamp, rotate>>].mtime = clock]

Init ==
    /\ conf \in Confs
    /\ clock = 0
    /\ file = [x \in {} |-> Empty]
    /\ stamp = -1 /\ rotate = 0 /\ iCurRotate = 0 /\ iTail = 0 /\ tLastMsg = 0
    /\ up = FALSE /\ synced = Empty
    /\ n = 0 /\ lost = {} /\ born = [k \in {} |-> 0] /\ tied = FALSE
-----------------------------------------------------------------------------
(***************************************************************************)
(* tlogfile_init                                                           *)
(***************************************************************************)

\* The numbers tlogfile_find_latest_i finds a file under.
Numbers(s) == {r \in 0 .. conf.max - 1 : Exists(s, r)}

\* Mutant of Latest: the first file found is taken.
LatestFirst(s) == CHOOSE r \in Numbers(s) : \A q \in Numbers(s) : r <= q

\* The one written last; of two written in the same second the higher number.
Latest(s) ==
    CHOOSE r \in Numbers(s) : \A q \in Numbers(s) :
        \/ file[<<s, q>>].mtime < file[<<s, r>>].mtime
        \/ file[<<s, q>>].mtime = file[<<s, r>>].mtime /\ q <= r

Ambiguous(s, r) ==
    \E q \in Numbers(s) : q # r /\ file[<<s, q>>].mtime = file[<<s, r>>].mtime

Start ==
    LET s     == Stamp(clock)
        seek  == ~conf.stick /\ Numbers(s) # {}
        r     == IF seek THEN Latest(s) ELSE 0
        there == IF Exists(s, r) THEN file[<<s, r>>] ELSE Empty
    IN  /\ ~up /\ up' = TRUE
        /\ stamp' = s /\ rotate' = r /\ iCurRotate' = r
        /\ file' = Put(file, <<s, r>>, there)
        /\ iTail' = there.size /\ synced' = there /\ tLastMsg' = clock
        /\ tied' = (tied \/ (seek /\ Ambiguous(s, r)))
        /\ UNCHANGED <<conf, clock, n, lost, born>>
-----------------------------------------------------------------------------
(***************************************************************************)
(* tlogfile_writev: tlogfile_check_file_i decides on the file, then the    *)
(* message is written and the file flushed from time to time.              *)
(***************************************************************************)
Full(kind) == kind.counted > conf.limit - iTail

\* The number after the rotation of a full file.
Rotated(kind) ==
    IF ~Full(kind) THEN iCurRotate
    ELSE IF conf.max > 0 THEN (iCurRotate + 1) % conf.max
    ELSE iCurRotate + 1

\* The file stays open: not full, and the time is in the same period.
SameFile(kind) ==
    ~Full(kind) /\ IF conf.period = 0 THEN TRUE
                    ELSE clock \div conf.period = tLastMsg \div conf.period

\* tlogfile_stick_path_i: every file of f but the last gets the next number, the last
\* first; a gap is not filled.
Shifted(f, s) ==
    LET moved == {q \in 0 .. conf.max - 2 : <<s, q>> \in DOMAIN f}
        names == (DOMAIN f \ {<<s, q>> : q \in moved}) \cup {<<s, q + 1>> : q \in moved}
    IN  [x \in names |-> IF x[1] = s /\ x[2] - 1 \in moved THEN f[<<s, x[2] - 1>>]
                         ELSE f[x]]

\* The message goes to the file name of f, of which before was flushed.  fflush is
\* called from time to time, and stdio writes its buffer when that is full.
Record(kind, f, name, before) ==
    /\ up /\ n < MaxMsg /\ n' = n + 1
    /\ born' = Put(born, n, [at |-> clock, stamp |-> name[1]])
    /\ \E flush \in BOOLEAN :
          LET content == [msgs  |-> f[name].msgs \cup {n},
                          size  |-> f[name].size + kind.size,
                          mtime |-> IF flush THEN clock ELSE f[name].mtime]
          IN  /\ file' = Put(f, name, content)
              /\ synced' = IF flush THEN content ELSE before
    /\ tLastMsg' = clock
    /\ UNCHANGED <<conf, clock, up, lost, tied>>

\* Mutant of WriteOn: what is written does not count.
WriteOnFree(kind) ==
    /\ SameFile(kind)
    /\ Record(kind, file, <<stamp, rotate>>, synced)
    /\ UNCHANGED <<stamp, rotate, iCurRotate, iTail>>

WriteOn(kind) ==
    /\ SameFile(kind)
    /\ Record(kind, file, <<stamp, rotate>>, synced)
    /\ iTail' = iTail + kind.size
    /\ UNCHANGED <<stamp, rotate, iCurRotate>>

\* The file is full or the period over: the name is made again.  A file under the
\* same name that was not full stays open; otherwise it is closed and the other one
\* begins empty ("wb+").
WriteOther(kind) ==
    LET s    == Stamp(clock)
        r    == Numbered(s, Rotated(kind))
        same == s = stamp /\ r = rotate
        keep == same /\ ~Full(kind)
        pile == ~same /\ conf.stick /\ r > 0
        name == <<s, IF pile THEN 0 ELSE r>>
        base == IF pile THEN Shifted(Flushed, s) ELSE Flushed
    IN  /\ ~SameFile(kind)
        /\ IF keep THEN Record(kind, file, name, synced)
           ELSE Record(kind, Put(base, name, Empty), name, Empty)
        /\ iTail' = kind.size + (IF keep THEN iTail ELSE 0)
        /\ stamp' = s /\ iCurRotate' = name[2] /\ rotate' = name[2]
-----------------------------------------------------------------------------
Tick ==
    /\ clock < MaxTime /\ clock' = clock + 1
    /\ UNCHANGED <<conf, file, inst, synced, n, lost, born, tied>>

\* tlogfile_fini flushes the file,
Stop ==
    /\ up /\ up' = FALSE
    /\ file' = Flushed
    /\ UNCHANGED <<conf, clock, stamp, rotate, iCurRotate, iTail, tLastMsg, synced, n,
                   lost, born, tied>>

\* a death does not.
Die ==
    /\ up /\ up' = FALSE
    /\ file' = [file EXCEPT ![<<stamp, rotate>>] = synced]
    /\ lost' = lost \cup (file[<<stamp, rotate>>].msgs \ synced.msgs)
    /\ UNCHANGED <<conf, clock, stamp, rotate, iCurRotate, iTail, tLastMsg, synced, n, born,
                   tied>>

Next ==
    \/ Start \/ Stop \/ Die \/ Tick
    \/ \E kind \in Kinds : WriteOn(kind) \/ WriteOther(kind)

Spec == Init /\ [][Next]_vars
-----------------------------------------------------------------------------
TypeOK ==
    /\ conf \in Confs /\ clock \in 0 .. MaxTime
    /\ DOMAIN file \subseteq (0 .. MaxTime + conf.period) \X (0 .. conf.max)
    /\ \A x \in DOMAIN file :
          /\ file[x].msgs \subseteq 0 .. n - 1 /\ file[x].size \in Nat
          /\ file[x].mtime \in 0 .. clock
    /\ up => Exists(stamp, rotate) /\ iTail = file[<<stamp, rotate>>].size
    /\ iCurRotate = rotate /\ tLastMsg \in 0 .. clock
    /\ n \in 0 .. MaxMsg /\ lost \subseteq 0 .. n - 1 /\ DOMAIN born = 0 .. n - 1

Kept == UNION {file[x].msgs : x \in DOMAIN file}

\* Rotation throws away the oldest messages only: if one is still there, so are
\* all later ones of the same stamp, but for those a death took -- across starts,
\* too, as long as the latest file was the only one of its second.
OldestGo ==
    ~tied => \A a \in Kept, b \in 0 .. n - 1 :
                a < b /\ born[a].stamp = born[b].stamp => b \in Kept \cup lost

\* No file is longer than iSizeLimit, but for a single message and for the part of a
\* message in two pieces that tlogfile_writev does not count; and no stamp has more
\* than iMaxRotate files.
Bounded ==
    \A x \in DOMAIN file :
        /\ file[x].size = 0 \/ \E k \in Kinds : file[x].size <= k.size
                               \/ file[x].size <= conf.limit + (k.size - k.counted)
        /\ x[2] = 0 \/ x[2] < conf.max

\* A message is in the file of its period or, after a message in the very second
\* a period begins, in the file of the one before (the period is rounded up for
\* the name and down for the comparison).
PeriodLag ==
    conf.period > 0 => \A k \in DOMAIN born :
        born[k].stamp \in {Stamp(born[k].at), Stamp(born[k].at - conf.period)}
=============================================================================
