# TLA+ models of tsf4j

tsf4j is a C framework for server processes. Its heart is **tbus**, a message
bus between the processes of one machine: every channel is a pair of ring
buffers in System V shared memory, written and read without locks, and a map of
all channels, in shared memory too, is kept by a manager under a lock of its own
making. Around it are a daemon frame (tapp), a connection server (tconnd), logs
(tlog), data descriptions (tdr) and containers in shared memory (comm).

This directory holds TLA+ modules for tbus, tconnd, and the parts of tapp, tlog and comm
that keep state across processes, TLC configurations for them, and proofs checked by the
TLA+ proof system. `PROJECT.json` has, for every
definition, the source lines it stands for; for every run, what it asks; for
every property, a fault of the code that breaks it.

    tlc -config Channel.cfg MCTbusChannel     check one run
    tlapm TbusChannelProofs.tla               check the proofs

The sources are GBK encoded; quotations in `PROJECT.json` are in UTF-8.

## 1. The system

| part | state | operations | what makes it hard | correct when |
|---|---|---|---|---|
| channel (`tbus_channel.c`) | per direction dwHead, dwTail, iSeq, dwSize and the bytes; in shared memory | push; peek, get, delete | two processes and no lock; messages that do not fit at the end; either side dies anywhere | messages arrive in order, whole, at least once; nothing unread is overwritten; a full ring becomes usable again |
| handle, receiving (`tbus.c`) | channels attached, position, count, flags; in the process | recv, peek, delete, peer_ctrl, connect, refresh | the position is an index into a set that changes; peers send at any moment | no channel is starved; no channel is attached twice; the set follows the map |
| handle, routing (`tbus.c`, `tbus_misc.c`) | the header last received, one saved header | send, forward, backward, recv, save and restore a header, set a route | one header per handle is all that is remembered of a request; broadcasts fail in part | an answer comes back to who asked; dye flags survive; a failed call has sent nothing |
| lock of the map (`tbus_config_mng.c`) | a pthread rwlock | rdlock, wrlock, unlock | processes die with the lock; time-outs; forced take-over | a writer is alone; who asks gets in |
| map of channels, GCIM (`tbus_config_mng.c`) | entries, segment ids, alignment, version | set_gcim, delete by index; bind, refresh and exit of processes | removal only when nobody has a segment mapped; two grace periods with clocks of their own; partial failure | no segment is removed in use; both ends use the same one; none is forgotten |
| relay map (GRM) | table of relays | set_grm | | not modelled |
| addresses (`tbus_addr_templet.c`) | | text to and from 32 bits by a template | boundary values | planned |
| tapp (`tapp.c`, `tos.c`) | flags of a running daemon, its pid file, the time of its configuration file | start, loop, reload, stop, commands | signals at any moment; other copies that start; a file that is edited while it is read | the pid file names the process that runs; a reload takes what was asked for |
| tconnd (`tconnd.c`) | a pool of connections, a wait queue linked through it, counters; the server's sessions | accept, log in, wait, admit, relay, forward, time out, close, reserve | late frames for closed connections, reuse of places, everything may close at any point of the log-in | no frame reaches a successor; admission in order and within the limit; nothing is leaked |
| tlog (`tlogfile.c`) | log files with their times, the current one | write, rotate, start | rotation by size, number and period; a start has to find where the last process stopped | only the oldest messages are thrown away; files are bounded |
| comm: tmempool | a list of free blocks through an array in shared memory, counters | alloc, free, get, walk, attach, repair | a process dies between two writes and the next one attaches | a live handle is given out once; the free list is what is not in use |
| comm: shtable | chains of items by bucket, a list of free ones, in shared memory | insert, remove, find, walk, attach, rebuild | the same | what was inserted is found, also after a death elsewhere in the table |
| tdr, pal, sec, tsec, taa, obus, tools, ResConvert, deps | | | | not modelled (see 7) |

How they interact. The manager (tbus_mgr) writes the map and creates the
segments. A process calls tbus_init, tbus_new and tbus_bind, which attach the
segments of all channels its addresses are an end of; then it sends into them
and polls them, and calls tbus_refresh_handle from time to time to follow the
map. The map's version number is the only notification. Processes share nothing
but the map and the channels; inside a process tbus has one thread.

## 2. The modules

**TbusFifo** is what one direction of a channel promises: sent messages are shown
in order, and removed only after they were shown. LossySpec is the weaker promise
to a receiver that discards what it has not looked at.

**TbusChannel** is the ring itself, one step per access to a shared word. The bytes
are abstracted to what starts at each position (a message, a counterfeit mark, or
bytes that do not decode); lengths are in units of the alignment. The writer's
steps are those of tbus_push_channel_pkgv: room, mark, dwTail = 0, second room,
copy, dwTail += length, iSeq++. The reader's are those of peek, get and delete,
with both reads of dwTail that delete makes, and the clearing of the queue on every
error. Both processes may die between any two steps and attach again. `FifoSpec`
says that the ring implements TbusFifo; `sent`, `taken`, `out` are history variables
that make the mapping the identity.

**TbusChannelProofs** proves it for every size, every mark length and every set of
message lengths (section 5), and for a receiver that deletes without looking that the ring
implements the weaker promise.

**TbusRecv** is the receive side of a handle: the loop of tbus_recv and tbus_peek_msg,
one step per channel looked at, while messages arrive; tbus_peer_ctrl; and
tbus_refresh_handle: a step per overdue channel looked at and closed, the last one taking
its place, then the new channels of the map, with the failure of an
attachment in the middle and the retry. Channels are reduced to their lengths
(TbusFifo says that is enough). **TbusRecvProofs** proves its safety properties.

**TbusRoute** puts several processes together. Channels are the queues of TbusFifo; each
call is a step, since a call touches only its own handle and one end of each queue. A
message is its header (source, destination, dye, route) and, for the properties, the
process its request came from.

**TbusLock** is the lock of the map, in time steps of one sleep. **TbusGcim** is what is
done inside it: the map, the segments and what every process has attached, one
step per critical section. That a writer is alone in the lock is what makes those
sections steps; when a live owner loses the lock to a time-out that is not so, and then
nothing TbusGcim says is guaranteed. **TbusGcimProofs** proves TbusGcim's properties (section 5).

**TbusLockProofs** and **TbusRouteProofs** prove the properties of those two modules.

**HandlePool** is the arithmetic of a pool of handles (position, generation, LIFO or FIFO
order of reuse); **HandlePoolSpec** what a pool promises. **Tmempool** is the pool in
shared memory, one step per word written, with a death between any two, attachment and
repair; `PoolSpec` says that it implements HandlePoolSpec.
**TconndConn** uses HandlePool for both of its pools.

**TconndConn** is tconnd with its clients, the two directions of a bus channel and a game
server (the `tserver.c` of tconnd's tests with a kick-off added). tconnd is one thread,
so a handler is a step, with all the handler calls; admission is a loop in the code and
takes a step per connection. Each record of a connection has the fields of TCONNINST the
code looks at; the wait queue is linked through iQueuePrev and iQueueNext as in the code.
**TconndConnProofs** proves all its safety properties (section 5).

**Shtable** is the hash table with the chains of its buckets and of its free items,
one step per item, bucket or word of the head written; `sht_check` and `sht_rebuild` run at
attachment. The history variable `found` counts, for each key, insertions that ended less
removals that began; `Find` walks a chain no further than the count in its bucket, as
sht_find_i does.

**TlogFile** is the rotation of log files: names by number, by period, or both, messages of
one or two pieces, starts, ends and deaths of the writing process. A file has the set of its
messages, its size and the time it was last flushed; `synced` is what of the open one was
flushed, which is what a death leaves.

**TappLife** is the life of a daemon: parsing the configuration, killing the process
before, the pid file, the main loop with its flags, the commands an operator sends by
signal, reload and stop. Processes, versions of the file and commands come in any
order. **TappLifeProofs** proves its two properties.

**Library** puts these four parts, on which every application is built, side by side. They
share no state, so a behaviour is about one of them: its variable `sys` says which, and the
others rest. Tmempool is extended, the others are instances; TappLife is there twice, as three
processes that never reload and as one that does. A property of one part is stated for the
whole, as in `LibTypeOK`. **LibraryProofs** proves all of them.

The `MC...` modules give the constants their values for TLC.

## 3. What the runs show

Runs that pass:

| run | shows | bounds |
|---|---|---|
| channel | the inductive invariant of the proof, order, no loss, no overwriting, sequence numbers, with a crash at any point; every message is received; a refused sender gets through, even with a message of nearly the size of the ring | ring of 6, lengths 2 and 5, mark of 1, 5 messages, one crash |
| channel_bare | the same with a receiver that deletes without peeking: order is kept, loss is possible | ring of 7, lengths 2 and 3, 4 messages, one crash |
| recv_handle | while a message waits, each other channel gets at most TBUS_MAX_RECV_CNT messages through; no channel is attached twice; a recorded version means that the set is that of the map | 3 channels of two local addresses, limit 2, one message at a time in a queue, one peer disabled and enabled, three configurations |
| recv_loop | every channel is served for ever | 3 channels, no refresh |
| route | an answer that is sent back comes to the sender of the request, and has a channel for every step; a request for dye is honoured when messages are relayed; with headers saved and restored, broadcasts, full channels, a route set by hand and a buffer too small | three processes in a line, routes of 2 |
| lock | as long as nobody has died, and with a time-out no shorter than all the others hold the lock, a writer is alone and the lock says who is inside; whoever asks gets in, also after a death | 3 processes, one call each, one crash; the time-out is the shortest for which the theorem holds |
| gcim | no segment is removed in use, the map names no dead segment and none twice, a channel put back in time keeps its segment | 2 processes, a channel between them that comes and goes and one more, 3 segments, grace period of 1 tick, two alignments and one not normalized, entries deleted by index |
| tconnd | the counters are what is in the pool (but for what reserve_connection does not count), the wait queue is linked in both directions and in order, never more are inside than the limit, clients are admitted in the order they came, and a frame for a closed connection changes nothing for its successor | 3 clients, 4 places with that of the listener, 2 sessions at the server, limit 2, 2 admissions at a time, one reservation |
| tconnd_live | a client that is gone frees its place; the server learns of the end of its session unless a frame was lost to a full channel or the seat was taken over | 2 clients, one who passes by the queue, one who talks, one kick by the server, idle time-out, channels of 2 frames |
| library | pool: the free list is what is not in use, handles are given out once, walks are complete. table: what was inserted is found, a death takes no more than it may. log: only the oldest messages are thrown away, files are bounded. tapp: the pid file names the process that runs, a reload takes what was asked for | pool of 3 blocks, handles up to 5; 3 items, 2 buckets, two keys with one code and a third in their bucket; 4 messages in 3 seconds, four kinds of rotation; 3 processes, or 1 process and 4 versions of its file of which one does not parse |

Runs that end with a counterexample, each a disagreement between the code and what
the repository says of it (quotations in `PROJECT.json`):

| run | what happens |
|---|---|
| recv_refresh_loop | a refresh disables or closes the channel at the receive position: the position stands at, or behind, a channel that takes no part, the rest is not looked at, and a channel with messages starves |
| gcim_split | a channel deleted while mapped and configured again: its two ends use different segments |

Two more disagreements show when a constant is changed:

* Route.cfg with `SendFlags = {"none", "start"}`: `DyeKept` is violated. tbus_send sets the
  dye of the header it writes; TBUS_SET_LAST_ROUTE (tbus_kernel.h:242) then assigns the whole
  of bFlag, so the dye that tbus.h:512 describes is lost.
* Lock.cfg with `Tries = 5`: `ExclusiveAlive` is violated. The count of tries
  (tbus_config_mng.c:1212) is of the whole wait, not of one owner's stay, so a waiter
  takes the lock from a live owner that is quick.

Met while modelling, and not stated as runs. They are described here because a
reader who changes the code would want to know them. Of tbus:

* A process that only calls tbus_open_channel has no counterfeit message
  (`MarkLen = 0`): after the ring wraps its reader decodes what an earlier message left
  at the end. The proofs assume a mark.
* tbus_delete_msg on a queue that was empty when it looked first may discard
  what was published since (channel_bare allows the loss; tbus.c's users
  delete only what they peeked).
* tbus_peer_ctrl on the peer at the receive position has the effect recv_refresh_loop
  shows, and so has a poll of one source with an open destination that
  found its only channel empty.
* Forwarding inherits the dye only with TBUS_FLAG_KEEP_DYE_MSG (tbus.h:709 says it does by
  default); an answer leaves by the first channel to the peer, not from the
  address the message came to; a receive that fails for its buffer has replaced the
  header an answer is built from; a broadcast whose last channel fails returns the error
  though others took the message; the entry behind a full route is written
  before packing refuses it.
* When a lock's owner has died, two waiters that time out together both take it.
* A segment that is mapped when its entry is deleted stays when its last user is gone,
  and nothing names it; after a change of the alignment the channels that have
  segments cannot be attached any more; a refused configuration leaves its alignment,
  not normalized, in the map.
* A refresh unmaps a channel while the application may hold a pointer from
  tbus_peek_msg; addresses beyond TBUS_MAX_BIND_ADDR_NUM_PREHANDLE are bound but not
  recorded, so a refresh drops their channels; every change of the map starts the time
  of a disabled channel anew; a manager that dies between creating a segment and
  counting its entry leaves a segment nothing names.

Of tconnd:

* reserve_connection (tconnd.c) is not counted: after it the counters are below what the
  pool holds, and `CountsMatch` says by exactly how much. iMaxConn counts the listener.
* The handle at position 0 has no generation, so a late STOP for seat 0 that comes twice
  ends its successor's session; `FramesComeHome` excepts that seat.
* A waiting client that fills its receive buffer makes recv with length 0 return 0, which
  is taken for a close by the peer.
* A client that closes after the server's STOP sets iNotify again and sends a STOP for
  a session that has ended. When the START has not been answered no STOP is sent; the
  answer finds the connection lost and is told so. Frames that do not fit into the
  channel are logged and gone. A wrong length in the TDR parser closes without telling the
  server (tconnd.c:1656), in the QQ parser it tells it (4231).
* uiTokenPass goes backwards when a waiter in the middle of the queue leaves; a limit of 1
  makes its low mark 0, which means "no limit"; scan_idle looks at nobody when the pool is
  smaller than iScanHerz (3332); send_frame may return an uninitialised value (3205).

Of the rest:

* tmempool_fix never sets iEnd to iStart: after a repair at attachment alloc and free fail for ever,
  although tmempool.h offers it as the remedy. A death in tmempool_alloc after fValid
  makes an old handle live; a death while a segment is created leaves one that nobody can
  attach; the block at position 0 has the same handle every time.
* sht_remove_by_pos does not look whether the item is in use; sht_remove_by_addr divides by the
  wrong size; an insertion links an item before its data is copied, so a death may bring a
  removed key back; sht_check does not see a chain that was cut.
* tlogfile counts the first piece of a message once for each of its pieces; rounds the
  period up for the name and down for the comparison, so a message at the boundary is
  kept in the file of the period before; takes equal times of two files after a start for
  the wrong order, and may throw away the newest; with one file, truncates it when full.
* tapp parses its file and then asks for its time, so a version that comes in between is
  never loaded; stores the time before a reload has succeeded, so that a failed reload is
  not repeated; two edits within a second are one. Nothing locks the pid file: two starts
  at the same time both go on, and commands do not reach the earlier one. A reload with nothing
  new overwrites the former configuration (tapp.h:155 says it keeps it). While pfnQuit
  refuses, the main loop skips its tick.

CHECK_DEADLOCK is FALSE everywhere: the bounds on messages, calls and crashes end
every behaviour, and an idle bus is a legal state.

Why the bounds are enough. The ring's arithmetic depends on how lengths, ring
size and mark compare; the sizes above make every comparison go both ways and be
an equality, and the proof has no bounds at all. The rotation of the receive position needs a
position, a channel before it and a channel behind it. A route of two covers first, middle and
last entries, and a third relay meets the limit. In TbusLock one call of each process is
enough for a wait that outlasts two owners, and one death for a lock nobody releases. In
TbusGcim a segment can be orphaned, its successor made and the first attached again with three
ids, and a grace period of one tick already separates "just disabled" from "overdue".
In TconndConn three clients give a queue with a middle, a place and a seat are used again while
frames for their predecessors are on the way, and the limit is met. In the pool three blocks
have a first, middle and last, and handles up to 5 make generations turn over. In the table a
chain has two items of one code and one of another, or three. Four messages fill a log file
and throw away the oldest of two. Three processes are one that runs, one that starts and one
that starts meanwhile.

## 4. Fairness

* Channel: the reader's and writer's started calls go on (weak fairness of the steps);
  the receiver keeps polling, now and then with a buffer that is large enough (strong
  fairness of a receive and of its success, since crashes interrupt it); for FullClears
  the application repeats a refused send. The last is the application's duty
  (tbus_send returns TBUS_ERR_CHANNEL_FULL and does not wait).
* Receive loop: the application polls again and again (strong fairness: a refresh may
  come in between), and a call of it that has begun returns.
* Lock (lock, for Recovers): processes run and time passes. Leaving the critical section
  is assumed of the living; a process that dies does not leave it, which is the point.
* tconnd (tconnd_live): its main loop turns, so closed sockets are noticed, the
  periodic scans and admission are made and frames from the bus are taken; the server's
  loop takes its frames. Nothing is assumed of clients: they need not send, wait or leave.
* Pool (WalkComplete): an action property, no fairness. The same is true of the other
  parts of library, TbusRoute and TbusGcim: safety only.

## 5. What is proved

**Channel.** Assumption `Marked` (TbusChannelProofs): a mark has a length (tbus_init was called).
`Proper` is stronger: the receiver deletes only what it peeked, which is how the repository's
programs use tbus. Sizes, lengths, numbers of messages and crashes are arbitrary.

The inductive invariant is TypeOK /\ RingInv /\ ReachInv. RingInv has five parts:
`PlacedInv` (each unread message is intact and inside the unread region), `OrderInv`
(they do not overlap and lie in the order they were sent, with one jump at most),
`LinkInv` (the reader's way leads from one to the next), `WriterInv` and `ReaderInv`
(what each process still knows of a word the other may change meanwhile). ReachInv ties
the reader's locals to the oldest message; a delete that did not look may instead hold a
dwTail of 0 while dwHead has still to go round (`Around`), and then it clears the queue.
Under `Proper` it cannot, and SeenInv, the stronger tie, is kept too. None is inductive alone: that a copy
does not overwrite needs the writer's knowledge of dwHead, which is a stale
value; it stays valid because the reader only moves dwHead away from it, and that in
turn needs that the reader follows LinkInv.

| theorem | under | for every behaviour of the channel |
|---|---|---|
| TypeCorrect, RingCorrect | Marked | TypeOK and the ring's shape |
| WriterKeepsOut | Marked | no unread byte is overwritten |
| SeqLagBounded | Marked | sequence numbers repeat at most once per crash |
| LossyRefinement | Marked | the ring implements LossySpec: order is kept, only the oldest is lost |
| ReaderSeesOldest | Proper | what is shown is the oldest unread message, and nothing is cleared |
| Refinement | Proper | the ring implements TbusFifo |

**Map of channels.** TbusGcimProofs does the same, with no assumption but
that of the constants: `GcimTypeCorrect`, `SegmentsStayLive` (no segment is
removed in use) and `GraceIsKept`, for any number of processes, channels,
segments and any configurations. There the invariant is TypeOK /\ Live, which is
SegmentsLive with the set of mapped segments taken apart: `AttLive` (what processes have
attached exists), `LostLive` (so does what failed attachments left mapped), `Named`
(so does what the map names) and `Distinct` (no two entries name the same). The
last looks like a detail and is needed: without it the removal of an overdue
entry's segment could take that of another. Bind, Refresh and Exit share one lemma
(`AttStep`): a process replaces what it has by references that are good, and
what Enable, Kept and Checked build from good references is good.

**Lock.** TbusLockProofs: `AloneUnforced` says that until somebody dies, or takes
the lock by force while another is inside, a writer is alone and the lock says who is
inside; the invariant `HeldInv` counts those inside. `AlonePatient` removes the second
condition for a long time-out: `Patient` is
Tries >= (|Proc| - 1) * MaxAsks * (MaxHold + 1). Every try that fails met somebody inside, at a
*cell* (process, call, ticks spent inside) that the next tick finishes for ever. So a wait is
at most as long as the number of cells of others that are past, `Past(p)`, which is at most
the number of all; a wait that comes to its end has seen them all pass, and then nobody is inside.
The bound is exact: the run lock uses the smallest time-out, and with one less TLC has a
counterexample.

**Routing.** TbusRouteProofs: under `RouteConstants` (an address belongs to one process, and
applications pass addresses) for any network, routes and flags, `AnswerComesHome`,
`AnswerHasAWay` and, if tbus_send dyes nothing, `DyeStays`. The invariant says of every header
in a queue or in a process that it describes a `Way`: as many entries as hops, the first owned by
the origin, and each process on it has a channel to the one before.

**Receive side.** TbusRecvProofs, for any channels, limit, configurations and queues:
`NeverTwice` (no channel is attached twice) and `StaysInSync` (a recorded version means the
set of that map) rest on what one step of closing and the attaching do to the sequence of
channels (`Closed`, `Attached`; `Orders` for the order a set is attached in).
`NoneIsStarved` is BypassBound, under `OpenOrOne`: a poll leaves both addresses open or
names one channel. `ScanInv` says that a scan passes over channels only that have nothing to
give, so the position never moves past a waiting channel that was not served; `TurnInv`
then gives each channel ahead of a waiting one its share: none while the position has
still to reach it, what the count says where the position stands, and the whole limit once
it has left. A refresh resets all of it (`CloseInv`), which is why the bound is on the
time between two refreshes.

**Pool.** LibraryProofs, for any number of blocks and any largest handle, both
methods, and deaths between any two writes: `ListCorrect`, `PoolRefines` (the list in
shared memory implements HandlePoolSpec) and `WalkReturns`. The invariant has a part for a pool
at rest and parts for the middle of alloc and free (`AllocInv`, `FreeInv`), since links and
counters are wrong there, and `LifoInv`, `FifoInv` for the ends of the list. A walk misses
nothing because handles in use are ahead of it or seen (`WalkInv`).

**Table.** LibraryProofs, for any keys, code, items and buckets, and deaths between any two
writes: `TableSafe` (all lists are whole between two calls, and a key is found exactly if it
was inserted more often than removed). A list is stated without recursion, as an
enumeration of its members along which iNext and iPrev agree (`List`), so that taking an
item out or putting one in is a lemma about enumerations. In the middle of a call the lists
are not whole: `BucketInv` says that a bucket whose item is being taken out has a `Gap` where
it was, linked forward before it is linked backward, and that the head of a chain may already
point back to the item that goes before it; `NodeInv` what is known of the item in hand, `CountInv` and `FoundInv` what
the counters mean while it is between the lists. A death drops all of this but the types and
FoundInv, and sht_rebuild makes it anew from fValid and uCode. `LibCrashKeeps` follows from
FoundInv: the item in hand is the only one whose key a death may bring back.

**Log.** LibraryProofs, for any devices, kinds of messages and times: `LogSafe`. `Ordered` says
that the files of the current stamp hold the messages in the order of their numbers, counted
from the number behind the one in use (`Rank`) or, for piled files, backwards; the file a
rotation empties is the first in that order, so what goes is oldest. The order outlives a
start because the file in use is the one written last (`Newest`), which is what the start looks
for; two files of one second (`tied`) break it. `Sound` has the sizes, `OpenInv` what a death
leaves, `PeriodInv` the stamp a message gets from the one before.

**Library.** `LibParts`: a step of Library is a step of each part or leaves it alone, so the
parts' invariants hold together (`LibInvariant`), and each property of the run library is a theorem of
LibSpec (`LibTypeCorrect`, `LibListCorrect`, `LibPoolRefines`, `LibWalkComplete`, `LibFindsAll`,
`LibCrashKeeps`, `LibOldestGo`, `LibBounded`, `LibNamed`, `LibReloadTakes`). The last two take the
theorems of TappLifeProofs through instances of that module.

**Daemon.** TappLifeProofs, for any processes, versions, commands and deaths: `OneRuns` (as
long as no two starts overlap, who runs is in the pid file) and `ReloadCorrect`. `ClaimInv`
says what a starting process may still believe of the one before; `StampInv`, `ModInv` and
`TakeInv` relate the time stored to the version that was read.

**Connections.** TconndConnProofs, for any clients, capacities, limits and lengths of talk:
`QueueCorrect`, `InOrder`, `Admission`, `CountsCorrect` and `HomeComing`, with no assumption but
that of the constants. `ShapeInv` has the types and says of both pools that a live handle names its
position (`PoolOK`). `QueueInv` states the queue without recursion: of any two neighbours
(`Follows`) nobody's token lies between theirs, and one connection is first and one last; that
is what lets a connection be unlinked from the middle (`Popped`) or added (`Pushed`) with one
lemma each. `AdmitInv` bounds what the loop of the admission may still admit, since the sum of
those admitted and those still to be admitted was within the limit when the loop began. Nine kinds of steps (`TableStep`) stand
for the two dozen actions in these proofs, by what they do to the records the invariant is about.

`HomeComing` is FramesComeHome. `HomeInv` is about every place that keeps a handle: frames on the
way, the server's sessions, the connections. A handle was never ahead of the last handle of its
block, and while it equals it the two name the same client. It is inductive if a block
that is taken again gets a handle ahead of the last one, and that is false once the generations
start anew; so the proof has to show they never do. `OwnInv` (a client has one
connection, and what has been announced has passed and does not wait) and `ReserveInv` (reservations are
bounded) give `ConnsBelow`: each connection made counts one more client that came or one
more reservation, so the last handles lie below Cap times that number. `SeatsBelow` is the same for the
server's pool with the STARTs on the way. `Endless`, the largest handle of the model, is beyond
both, and so what is proved is what holds in the code until a pool's handles reach INT_MAX.

## 6. Only model-checked

* Liveness (AllReceived, FullClears, Served, Recovers, SlotFreed, SessionEnded): beyond the prover.

Every other property of the passing runs is a theorem, under the assumptions section 5 names.
Channels without marks (`MarkLen = 0`) are neither checked nor proved: there the ring keeps no promise
once it wraps.

## 7. Not modelled, and assumptions

* Memory ordering. The channel's steps take effect in program order, on x86 the truth
  for stores and for loads; the code has no barriers, and on a weaker processor the
  publication could overtake the copy. That a compiler keeps the order of memcpy and the
  store to a volatile word is assumed as well.
* Numbers: iSeq and the version are unbounded in the models; they are compared for
  equality or logged only.
* tbus_init and the creation of the map; keys and ftok files; printing and views. The
  creation of the table's segment, and sht_remove_by_addr.
* tconnd: parsers other than QQ, limits of traffic by speed, UDP, multicast to many, shutdown
  and reload, viewers. How long adjust_permit makes the limit is left open: any value from half of
  it to all. Its server is modelled from `tserver.c`, which ignores RELAY and NOTIFY.
* tapp: the command line, control over UDP, statistics. tlog: categories, filters,
  layouts, network writers.
* The relay map: filled by set_grm and used by one tool.
* Polls of one source with an open destination, mixed with polls of all: they use the
  same position, and the former can take the turn of the others. `BypassBound` is
  checked and proved for polls that are open or name one channel.
* obus, replaced by tbus; tdr, sec, tsec, pal, tmng: codecs, ciphers, platform wrappers
  and tables; generated code (tbus_head.c, tbus_route.c, tbus_desc.c); lib_src, a
  second copy; deps, vendored.

## 8. Plan

Done: TbusFifo, TbusChannel, TbusRecv, TbusRoute, TbusLock, TbusGcim, Library with its four
parts, and TconndConn, with proofs of all their safety properties. What is left, by worth:

1. tconnd's limits of traffic and its shutdown.
2. **TbusAddr**: conversion of addresses by a template, over all templates of small
   widths.
3. The relay map, once something in the repository uses it.
