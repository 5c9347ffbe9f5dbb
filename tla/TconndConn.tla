------------------------------- MODULE TconndConn -------------------------------
(***************************************************************************)
(* tconnd (tconnd.c, single-threaded): the server that stands between the  *)
(* clients' TCP connections and a game server on the bus.  A client logs   *)
(* in, waits in a queue for admission and is then announced to the server  *)
(* with a START frame; the server answers with the number of its own       *)
(* session, and from then on frames go both ways, each naming connection   *)
(* and session by handles of two memory pools (HandlePool), until either   *)
(* side stops.  Frames pass through the two directions of a tbus channel;  *)
(* a full channel loses the frame.                                         *)
(*                                                                         *)
(* One thread runs all of tconnd, so a handler is one step; the activation *)
(* of waiting connections is a loop and takes a step per connection.  The  *)
(* game server is the one of the repository's tests (tserver.c), which     *)
(* ignores RELAY and NOTIFY, with a kick-off added.                        *)
(***************************************************************************)
EXTENDS Integers, Sequences, FiniteSetsExt, SequencesExt

CONSTANTS
    Client,     \* the clients; each connects once
    Nobody,     \* the owner of a reserved connection
    VIP,        \* the clients that pass by the queue
    Cap,        \* capacity of the connection pool
    PlayerCap,  \* PLAYER_ONLINE, the capacity of the server's pool
    MaxConn,    \* stConnLimit.iMaxConn, 0 for no limit
    Permit,     \* stConnLimit.iPermit
    Speed,      \* stConnLimit.iSpeed
    BufPkgs,    \* packages the receive buffer of a connection holds
    IdleClose,  \* is there an iMaxIdle?
    ChanCap,    \* bound: frames waiting in a direction of the channel
    Chat,       \* bound: packages each client sends after its log-in
    MaxReserve, \* bound: connections reserved
    MaxKick     \* bound: sessions the server ends by itself

ASSUME TconndAssumption ==
    /\ IsFiniteSet(Client) /\ Nobody \notin Client /\ VIP \subseteq Client
    /\ {Cap, PlayerCap, BufPkgs, ChanCap, Permit, Speed} \subseteq Nat \ {0}
    /\ Cap > 1 /\ Permit > 1
    /\ {MaxConn, MaxReserve, MaxKick} \subseteq Nat
    /\ Chat \in [Client -> Nat]
    /\ IdleClose \in BOOLEAN

Endless == Cap * PlayerCap * (Cardinality(Client) + MaxReserve + 1)
Conns   == INSTANCE HandlePool WITH MaxIdx <- Endless
Players == INSTANCE HandlePool WITH Cap <- PlayerCap, MaxIdx <- Endless

Slot == 1 .. Cap - 1      \* position 0 is the listening socket's
Seat == 0 .. PlayerCap - 1

VARIABLES
    client,      \* the clients' ends: "out", "on" or "closed"; packages sent
    pool, conn,  \* pstPool and the TCONNINST at each position
    qHead, qTail, tokenAlloc, \* iWaitQueueHead, iWaitQueueTail, uiTokenAlloc
    info,        \* stConnInfo: iTotal, iIdle, iWait, iActive
    permit,      \* iConnPermit
    left,        \* connections tconnd_active_waitqueue may still activate
    up, down,    \* frames on the way to the server and back
    seats, player, \* the server's pool and its sessions
    kicks, released, lost, relayed \* history: sessions the server ended,
                 \* reservations given back, clients a frame of whom was lost,
                 \* clients whose connection another one took over

queue  == <<qHead, qTail, tokenAlloc>>
server == <<seats, player>>
hist   == <<kicks, released, lost, relayed>>
vars   == <<client, pool, conn, qHead, qTail, tokenAlloc, info, permit, left, up,
            down, seats, player, kicks, released, lost, relayed>>

NoConn == [who |-> Nobody, stage |-> "new", id |-> -1, sent |-> FALSE,
           need |-> "no", reg |-> FALSE, kept |-> 0, inq |-> FALSE,
           bypass |-> FALSE, token |-> 0, prev |-> -1, next |-> -1]

NoPlayer == [who |-> Nobody, idx |-> -1]

Frame(cmd, id, idx, who) == [cmd |-> cmd, id |-> id, idx |-> idx, who |-> who]

Init ==
    /\ client = [c \in Client |-> [at |-> "out", data |-> 0]]
    /\ pool = Conns!AfterAlloc(Conns!NewPool)        \* the listener
    /\ conn = [p \in Slot |-> NoConn]
    /\ qHead = -1 /\ qTail = -1 /\ tokenAlloc = 0
    /\ info = [total |-> 1, idle |-> 1, wait |-> 0, active |-> 0]
    /\ permit = Permit /\ left = 0
    /\ up = <<>> /\ down = <<>>
    /\ seats = Players!NewPool /\ player = [q \in Seat |-> NoPlayer]
    /\ kicks = 0 /\ released = 0 /\ lost = {} /\ relayed = {}
-----------------------------------------------------------------------------
Pos(h)  == Conns!PosOf(h)
Idx(p)  == pool.last[p]
Used(p) == p \in pool.valid
Alive(h) == Conns!Live(pool, h)
InQueue(p) == Used(p) /\ conn[p].inq

\* Mutant of SendUp: the room is not looked at.
SendUpAll(frames) == up' = up \o frames /\ lost' = lost

\* tconnd_sendto_serinst and tconnd_sendto_serinst_by_bus: what does not fit is
\* only logged.
SendUp(frames) ==
    LET room == IF Len(frames) <= ChanCap - Len(up) THEN Len(frames)
                ELSE ChanCap - Len(up)
    IN  /\ up' = up \o SubSeq(frames, 1, room)
        /\ lost' = lost \cup {frames[k].who : k \in room + 1 .. Len(frames)}

\* Mutant of Unlinked: the connection behind keeps its back link.
UnlinkedHalf(p) ==
    [s \in Slot |->
        [conn[s] EXCEPT
            !.next = IF conn[p].prev # -1 /\ s = Pos(conn[p].prev) THEN conn[p].next ELSE @]]

\* The link fields of the queue's neighbours of p once p is taken out.
Unlinked(p) ==
    [s \in Slot |->
        [conn[s] EXCEPT
            !.next = IF conn[p].prev # -1 /\ s = Pos(conn[p].prev) THEN conn[p].next ELSE @,
            !.prev = IF conn[p].next # -1 /\ s = Pos(conn[p].next) THEN conn[p].prev ELSE @]]

\* tconnd_pop_queue: what becomes of head and tail.
PopQueue(p) ==
    /\ qHead' = IF qHead = Idx(p) THEN conn[p].next ELSE qHead
    /\ qTail' = IF qTail = Idx(p) THEN conn[p].prev ELSE qTail
    /\ UNCHANGED tokenAlloc

\* Mutant of InfoClosed: a waiting connection is counted as an idle one.
InfoClosedIdle(p) ==
    [info EXCEPT !.total = @ - 1,
                 !.wait = @,
                 !.active = IF conn[p].stage = "pass" /\ ~conn[p].inq THEN @ - 1 ELSE @,
                 !.idle = IF conn[p].stage = "pass" /\ ~conn[p].inq THEN @ ELSE @ - 1]

\* stConnInfo after tconnd_safe_close: a waiting connection is popped first.
InfoClosed(p) ==
    [info EXCEPT !.total = @ - 1,
                 !.wait = IF conn[p].inq THEN @ - 1 ELSE @,
                 !.active = IF conn[p].stage = "pass" /\ ~conn[p].inq THEN @ - 1 ELSE @,
                 !.idle = IF conn[p].stage = "pass" THEN @ ELSE @ - 1]

\* The connection table after tconnd_safe_close.
Closed(p) == [(IF conn[p].inq THEN Unlinked(p) ELSE conn) EXCEPT ![p] = NoConn]

\* The server is told only about a session it has answered for.
StopFrames(p, notify) ==
    IF conn[p].id # -1 /\ conn[p].sent /\ notify
    THEN <<Frame("STOP", conn[p].id, Idx(p), conn[p].who)>> ELSE <<>>

\* tconnd_safe_close
SafeClose(p, notify) ==
    /\ SendUp(StopFrames(p, notify))
    /\ IF conn[p].inq THEN PopQueue(p) ELSE UNCHANGED queue
    /\ info' = InfoClosed(p)
    /\ conn' = Closed(p)
    /\ pool' = Conns!AfterFree(pool, Idx(p), FALSE)
    /\ client' = IF conn[p].who = Nobody THEN client
                 ELSE [client EXCEPT ![conn[p].who].at = "closed"]
    /\ released' = released + (IF conn[p].who = Nobody THEN 1 ELSE 0)
-----------------------------------------------------------------------------
(***************************************************************************)
(* tconnd_proc_recv: what epoll reports of the listener and the clients.   *)
(***************************************************************************)

\* The thread is not inside the loop of tconnd_active_waitqueue.
Free == left = 0

\* The client of p has sent something the next event will report.
Readable(p) == Free /\ Used(p) /\ conn[p].who # Nobody /\ conn[p].reg

Heard(p) == Readable(p) /\ client[conn[p].who].at = "on"

MayChat(p) == client[conn[p].who].data < Chat[conn[p].who]

\* epoll_accept and tconnd_add_conn
Accept(c) ==
    /\ Free /\ client[c].at = "out"
    /\ \/ /\ (MaxConn # 0 /\ info.total >= MaxConn) \/ ~Conns!CanAlloc(pool)
          /\ client' = [client EXCEPT ![c].at = "closed"]
          /\ UNCHANGED <<pool, conn, info>>
       \/ /\ MaxConn = 0 \/ info.total < MaxConn
          /\ Conns!CanAlloc(pool)
          /\ client' = [client EXCEPT ![c].at = "on"]
          /\ pool' = Conns!AfterAlloc(pool)
          /\ conn' = [conn EXCEPT ![Head(pool.free)] = [NoConn EXCEPT !.who = c, !.reg = TRUE]]
          /\ info' = [info EXCEPT !.total = @ + 1, !.idle = @ + 1]
    /\ UNCHANGED <<queue, permit, left, up, down, server, hist>>

\* The client closes its end; tconnd learns of it later.
ClientClose(c) ==
    /\ client[c].at = "on"
    /\ client' = [client EXCEPT ![c].at = "closed"]
    /\ UNCHANGED <<pool, conn, queue, info, permit, left, up, down, server, hist>>

\* A package that cannot be the client's next one, or a signature that is bad.
\* One that arrives while an answer to SYN is awaited is passed over.
BadPkg(p) ==
    /\ Heard(p) /\ conn[p].stage = "new"
    /\ conn' = [conn EXCEPT ![p].need = "quiet", ![p].reg = FALSE]
    /\ UNCHANGED <<client, pool, queue, info, permit, left, up, down, server, hist>>

\* TPDU_CMD_AUTH: tconnd_do_auth answers with SYN.
Auth(p) ==
    /\ Heard(p) /\ conn[p].stage = "new"
    /\ conn' = [conn EXCEPT ![p].stage = "syn"]
    /\ UNCHANGED <<client, pool, queue, info, permit, left, up, down, server, hist>>

\* tconnd_push_queue; the package stays in the buffer.
PushQueue(p) ==
    /\ tokenAlloc' = tokenAlloc + 1
    /\ qTail' = Idx(p) /\ qHead' = IF qTail = -1 THEN Idx(p) ELSE qHead
    /\ conn' = [s \in Slot |->
                  IF s = p THEN [conn[p] EXCEPT !.stage = "pass", !.kept = 1, !.inq = TRUE,
                                                !.token = tokenAlloc + 1, !.prev = qTail, !.next = -1]
                  ELSE IF qTail # -1 /\ s = Pos(qTail) THEN [conn[s] EXCEPT !.next = Idx(p)]
                  ELSE conn[s]]
    /\ info' = [info EXCEPT !.idle = @ - 1, !.wait = @ + 1]

\* TPDU_CMD_SYNACK: the log-in is complete.  A VIP is announced at once, any
\* other client waits for its turn.
SynAck(p) ==
    /\ Heard(p) /\ conn[p].stage = "syn"
    /\ \/ /\ conn[p].who \notin VIP
          /\ PushQueue(p)
          /\ UNCHANGED <<up, lost>>
       \/ /\ conn[p].who \in VIP
          /\ conn' = [conn EXCEPT ![p].stage = "pass", ![p].bypass = TRUE, ![p].sent = TRUE]
          /\ info' = [info EXCEPT !.idle = @ - 1, !.active = @ + 1]
          /\ SendUp(<<Frame("START", -1, Idx(p), conn[p].who)>>)
          /\ UNCHANGED queue
    /\ UNCHANGED <<client, pool, permit, left, down, server, kicks, released, relayed>>

\* The clients that can name the connection at old with its key and identity:
\* another connection of a user that received IDENT, or the one it is reserved for.
MayRelay(old) == conn[old].who = Nobody \/ (conn[old].stage = "pass" /\ conn[old].id # -1)

\* TPDU_CMD_RELAY: tconnd_do_relay closes the old connection without a word to
\* the server; the new one takes its place and is announced with RELAY.
Relay(p, old) ==
    /\ Heard(p) /\ conn[p].stage \in {"new", "syn"}
    /\ old # p /\ Used(old) /\ MayRelay(old)
    /\ IF conn[old].inq THEN PopQueue(old) ELSE UNCHANGED queue
    /\ conn' = [Closed(old) EXCEPT ![p] = [conn[p] EXCEPT !.stage = "pass", !.bypass = TRUE,
                                                          !.sent = TRUE]]
    /\ info' = LET after == InfoClosed(old)
               IN  [after EXCEPT !.idle = @ - 1, !.active = @ + 1]
    /\ pool' = Conns!AfterFree(pool, Idx(old), FALSE)
    /\ client' = IF conn[old].who = Nobody THEN client
                 ELSE [client EXCEPT ![conn[old].who].at = "closed"]
    /\ SendUp(<<Frame("RELAY", -1, Idx(p), conn[p].who)>>)
    /\ released' = released + (IF conn[old].who = Nobody THEN 1 ELSE 0)
    /\ relayed' = relayed \cup ({conn[old].who} \ {Nobody})
    /\ UNCHANGED <<permit, left, down, server, kicks>>

\* A package of a connection that is in the queue stays in its buffer.
DataWaiting(p) ==
    /\ Heard(p) /\ conn[p].inq /\ conn[p].kept < BufPkgs
    /\ MayChat(p)
    /\ client' = [client EXCEPT ![conn[p].who].data = @ + 1]
    /\ conn' = [conn EXCEPT ![p].kept = @ + 1]
    /\ UNCHANGED <<pool, queue, info, permit, left, up, down, server, hist>>

\* With the buffer full the call to recv has no room, returns 0, and that reads
\* like the end of the stream.
DataFull(p) ==
    /\ Heard(p) /\ conn[p].inq /\ conn[p].kept = BufPkgs
    /\ MayChat(p)
    /\ conn' = [conn EXCEPT ![p].need = "tell", ![p].reg = FALSE]
    /\ UNCHANGED <<client, pool, queue, info, permit, left, up, down, server, hist>>

\* A package of an admitted client becomes an INPROC frame.
Data(p) ==
    /\ Heard(p) /\ conn[p].stage = "pass" /\ ~conn[p].inq
    /\ MayChat(p)
    /\ client' = [client EXCEPT ![conn[p].who].data = @ + 1]
    /\ SendUp(<<Frame("INPROC", conn[p].id, Idx(p), conn[p].who)>>)
    /\ conn' = [conn EXCEPT ![p].reg = (conn[p].need = "no")]
    /\ UNCHANGED <<pool, queue, info, permit, left, down, server, kicks, released, relayed>>

\* tconnd_get_qq_pkglen: a head with a senseless length.
BadLength(p) ==
    /\ Heard(p) /\ ~conn[p].inq
    /\ conn' = [conn EXCEPT ![p].need = "tell", ![p].reg = FALSE]
    /\ UNCHANGED <<client, pool, queue, info, permit, left, up, down, server, hist>>

\* Mutant of PeerClosed: the server is not to be told.
PeerClosedQuiet(p) ==
    /\ Readable(p) /\ client[conn[p].who].at = "closed"
    /\ conn' = [conn EXCEPT ![p].need = "quiet", ![p].reg = FALSE]
    /\ UNCHANGED <<client, pool, queue, info, permit, left, up, down, server, hist>>

\* recv returns 0 or fails: the connection is marked, a later scan closes it.
PeerClosed(p) ==
    /\ Readable(p) /\ client[conn[p].who].at = "closed"
    /\ conn' = [conn EXCEPT ![p].need = "tell", ![p].reg = FALSE]
    /\ UNCHANGED <<client, pool, queue, info, permit, left, up, down, server, hist>>
-----------------------------------------------------------------------------
(***************************************************************************)
(* The tick: tconnd_scan_idle closes what is marked or has been silent for *)
(* too long (waiting connections are kept awake by tconnd_notify_waitqueue)*)
(* and tconnd_active_waitqueue admits from the head of the queue.          *)
(***************************************************************************)

\* Mutant of ScanClose: only connections that have logged in are looked at.
ScanClosePassed(p) ==
    /\ Free /\ Used(p) /\ conn[p].need # "no" /\ conn[p].stage = "pass"
    /\ SafeClose(p, conn[p].need = "tell")
    /\ UNCHANGED <<permit, left, down, server, kicks, relayed>>

ScanClose(p) ==
    /\ Free /\ Used(p) /\ conn[p].need # "no"
    /\ SafeClose(p, conn[p].need = "tell")
    /\ UNCHANGED <<permit, left, down, server, kicks, relayed>>

ScanIdle(p) ==
    /\ IdleClose
    /\ Free /\ Used(p) /\ conn[p].need = "no" /\ ~conn[p].inq
    /\ SafeClose(p, TRUE)
    /\ UNCHANGED <<permit, left, down, server, kicks, relayed>>

\* Mutant of Quota: the connections that are active already do not count.
QuotaPlain == IF Speed > permit THEN permit ELSE Speed

\* iMax of tconnd_active_waitqueue
Quota == IF Speed + info.active > permit THEN permit - info.active ELSE Speed

ActiveBegin ==
    /\ Free /\ qHead # -1 /\ Quota > 0
    /\ left' = Quota
    /\ UNCHANGED <<client, pool, conn, queue, info, permit, up, down, server, hist>>

\* Mutant of Activate: the tail is admitted first.
ActivateLast(p) ==
    /\ left > 0 /\ InQueue(p) /\ qTail = Idx(p)
    /\ PopQueue(p)
    /\ info' = [info EXCEPT !.wait = @ - 1, !.active = @ + 1]
    /\ conn' = [Unlinked(p) EXCEPT ![p] = [conn[p] EXCEPT
                  !.inq = FALSE, !.sent = TRUE, !.kept = 0,
                  !.token = 0, !.prev = -1, !.next = -1]]
    /\ SendUp([k \in 1 .. conn[p].kept |->
                  Frame(IF k = 1 THEN "START" ELSE "INPROC", -1, Idx(p), conn[p].who)])
    /\ left' = IF conn[p].prev = -1 THEN 0 ELSE left - 1
    /\ UNCHANGED <<client, pool, permit, down, server, kicks, released, relayed>>

\* tconnd_pop_queue and tconnd_recv_pkg: the package kept becomes START, those
\* behind it INPROC.  (The links of p itself are not read again.)
Activate(p) ==
    /\ left > 0 /\ InQueue(p) /\ qHead = Idx(p)
    /\ PopQueue(p)
    /\ info' = [info EXCEPT !.wait = @ - 1, !.active = @ + 1]
    /\ conn' = [Unlinked(p) EXCEPT ![p] = [conn[p] EXCEPT
                  !.inq = FALSE, !.sent = TRUE, !.kept = 0,
                  !.token = 0, !.prev = -1, !.next = -1]]
    /\ SendUp([k \in 1 .. conn[p].kept |->
                  Frame(IF k = 1 THEN "START" ELSE "INPROC", -1, Idx(p), conn[p].who)])
    /\ left' = IF conn[p].next = -1 THEN 0 ELSE left - 1
    /\ UNCHANGED <<client, pool, permit, down, server, kicks, released, relayed>>
-----------------------------------------------------------------------------
(***************************************************************************)
(* tconnd_proc_send: one frame of the server at a time.                    *)
(***************************************************************************)

Replies(cmd) == Free /\ down # <<>> /\ Head(down).cmd = cmd /\ down' = Tail(down)

\* tconnd_sendto_lisinst: a connection that is marked gets nothing; one whose
\* client is gone may fail.  From time to time iConnPermit is adjusted, within
\* half and all of iPermit, by the number of failures (here: to any value).
Delivered(p) ==
    IF conn[p].need = "no" /\ client[conn[p].who].at = "closed" THEN {"no", "tell"}
    ELSE {conn[p].need}

PermitAdjusted(p) ==
    permit' \in IF conn[p].need = "no" THEN {permit} \cup Permit \div 2 .. Permit
                ELSE {permit}

\* tconnd_frame2msg: no such connection (any more).
FrameLost ==
    /\ Free /\ down # <<>> /\ Head(down).cmd # "NOTIFY" /\ ~Alive(Head(down).idx)
    /\ down' = Tail(down)
    /\ SendUp(<<[Head(down) EXCEPT !.cmd = "STOP"]>>)
    /\ UNCHANGED <<client, pool, conn, queue, info, permit, left, server, kicks,
                   released, relayed>>

\* The server accepted: the connection learns the number of its session, and the
\* client gets IDENT and a new key.
FrameStart(p) ==
    /\ Replies("START") /\ Used(p) /\ Head(down).idx = Idx(p)
    /\ \E need \in Delivered(p) :
          conn' = [conn EXCEPT ![p].id = Head(down).id, ![p].need = need]
    /\ PermitAdjusted(p)
    /\ UNCHANGED <<client, pool, queue, info, left, up, server, hist>>

\* A frame for the client; one of another session is dropped.
FrameInProc(p) ==
    /\ Replies("INPROC") /\ Used(p) /\ Head(down).idx = Idx(p)
    /\ \/ conn[p].id # Head(down).id /\ UNCHANGED <<conn, permit>>
       \/ /\ conn[p].id = Head(down).id
          /\ \E need \in Delivered(p) : conn' = [conn EXCEPT ![p].need = need]
          /\ PermitAdjusted(p)
    /\ UNCHANGED <<client, pool, queue, info, left, up, server, hist>>

\* The server ended the session: the client is told, the server is not.
FrameStop(p) ==
    /\ Replies("STOP") /\ Used(p) /\ Head(down).idx = Idx(p)
    /\ \/ conn[p].id # Head(down).id /\ UNCHANGED conn
       \/ conn[p].id = Head(down).id /\ conn' = [conn EXCEPT ![p].need = "quiet"]
    /\ UNCHANGED <<client, pool, queue, info, permit, left, up, server, hist>>

\* tconnd_reserve_connection: a connection for a user who will come from another
\* tconnd.  It is not counted.
FrameNotify ==
    /\ Replies("NOTIFY")
    /\ \/ /\ Conns!CanAlloc(pool)
          /\ pool' = Conns!AfterAlloc(pool)
          /\ conn' = [conn EXCEPT ![Head(pool.free)] = NoConn]
          /\ SendUp(<<Frame("NOTIFY", -1, Conns!AllocIdx(pool), Nobody)>>)
       \/ /\ ~Conns!CanAlloc(pool)
          /\ UNCHANGED <<pool, conn, up, lost>>
    /\ UNCHANGED <<client, queue, info, permit, left, server, kicks, released, relayed>>

\* tconnd_notify_waitqueue tells a waiting client its place, and may fail.
QueueInfo(p) ==
    /\ Free /\ InQueue(p) /\ conn[p].need = "no" /\ client[conn[p].who].at = "closed"
    /\ conn' = [conn EXCEPT ![p].need = "tell"]
    /\ PermitAdjusted(p)
    /\ UNCHANGED <<client, pool, queue, info, left, up, down, server, hist>>
-----------------------------------------------------------------------------
(***************************************************************************)
(* The game server (tserver.c): a session is a block of its own pool.      *)
(***************************************************************************)

Reads(cmd) == up # <<>> /\ Head(up).cmd = cmd /\ up' = Tail(up)

SendDown(f) ==
    /\ down' = IF Len(down) < ChanCap THEN Append(down, f) ELSE down
    /\ lost' = IF Len(down) < ChanCap THEN lost ELSE lost \cup {f.who}

Seated(id) == Players!Live(seats, id)
SeatOf(id) == Players!PosOf(id)

\* tplayer_open_connection
ServerStart ==
    /\ Reads("START")
    /\ \/ /\ ~Players!CanAlloc(seats) /\ UNCHANGED <<seats, player, down, lost>>
       \/ /\ Players!CanAlloc(seats)
          /\ seats' = Players!AfterAlloc(seats)
          /\ player' = [player EXCEPT ![Head(seats.free)] =
                          [who |-> Head(up).who, idx |-> Head(up).idx]]
          /\ SendDown(Frame("START", Players!AllocIdx(seats), Head(up).idx, Head(up).who))
    /\ UNCHANGED <<client, pool, conn, queue, info, permit, left, kicks, released, relayed>>

Vacate(id) ==
    /\ seats' = Players!AfterFree(seats, id, FALSE)
    /\ player' = [player EXCEPT ![SeatOf(id)] = NoPlayer]

\* tplayer_close_connection
ServerStop ==
    /\ Reads("STOP")
    /\ IF Seated(Head(up).id) THEN Vacate(Head(up).id) ELSE UNCHANGED server
    /\ UNCHANGED <<client, pool, conn, queue, info, permit, left, down, hist>>

\* tserver_deal_hello_pkg: the package is sent back to the session's connection.
ServerInProc ==
    /\ Reads("INPROC")
    /\ LET id == Head(up).id
       IN  IF Seated(id)
           THEN SendDown(Frame("INPROC", id, player[SeatOf(id)].idx, player[SeatOf(id)].who))
           ELSE UNCHANGED <<down, lost>>
    /\ UNCHANGED <<client, pool, conn, queue, info, permit, left, server, kicks,
                   released, relayed>>

\* RELAY and NOTIFY: "to do".
ServerPass ==
    /\ Reads("RELAY") \/ Reads("NOTIFY")
    /\ UNCHANGED <<client, pool, conn, queue, info, permit, left, down, server, hist>>

\* A server that ends a session by itself.
ServerKick(q) ==
    /\ q \in seats.valid /\ kicks < MaxKick /\ kicks' = kicks + 1
    /\ SendDown(Frame("STOP", seats.last[q], player[q].idx, player[q].who))
    /\ Vacate(seats.last[q])
    /\ UNCHANGED <<client, pool, conn, queue, info, permit, left, up, released, relayed>>

\* A server that expects a user from another tconnd.
ServerNotify ==
    /\ Cardinality({p \in Slot : Used(p) /\ conn[p].who = Nobody}) + released
         + Cardinality({k \in DOMAIN down : down[k].cmd = "NOTIFY"}) < MaxReserve
    /\ Len(down) < ChanCap
    /\ down' = Append(down, Frame("NOTIFY", -1, -1, Nobody))
    /\ UNCHANGED <<client, pool, conn, queue, info, permit, left, up, server, hist>>
-----------------------------------------------------------------------------
ServerStep == ServerStart \/ ServerStop \/ ServerInProc \/ ServerPass

SendStep == FrameLost \/ FrameNotify
            \/ \E p \in Slot : FrameStart(p) \/ FrameInProc(p) \/ FrameStop(p)

ActivateStep == \E p \in Slot : Activate(p)

Next ==
    \/ \E c \in Client : Accept(c) \/ ClientClose(c)
    \/ \E p \in Slot :
          \/ BadPkg(p) \/ Auth(p) \/ SynAck(p)
          \/ \E old \in Slot : Relay(p, old)
          \/ DataWaiting(p) \/ DataFull(p) \/ Data(p) \/ BadLength(p) \/ PeerClosed(p)
          \/ ScanClose(p) \/ ScanIdle(p) \/ QueueInfo(p)
    \/ ActiveBegin \/ ActivateStep
    \/ SendStep
    \/ ServerStep
    \/ \E q \in Seat : ServerKick(q)
    \/ ServerNotify

Spec == Init /\ [][Next]_vars

\* The main loop of tconnd serves its sockets, its tick and the bus, and the
\* server's loop receives.
FairSpec ==
    /\ Spec
    /\ \A p \in Slot : WF_vars(PeerClosed(p)) /\ WF_vars(ScanClose(p))
    /\ WF_vars(ActiveBegin) /\ WF_vars(ActivateStep)
    /\ WF_vars(SendStep) /\ WF_vars(ServerStep)
-----------------------------------------------------------------------------
Idxs == -1 .. Endless

ConnRecord ==
    [who : Client \cup {Nobody}, stage : {"new", "syn", "pass"}, id : Idxs,
     sent : BOOLEAN, need : {"no", "quiet", "tell"}, reg : BOOLEAN,
     kept : 0 .. BufPkgs, inq : BOOLEAN, bypass : BOOLEAN, token : Nat,
     prev : Idxs, next : Idxs]

Frames == [cmd : {"START", "INPROC", "STOP", "RELAY", "NOTIFY"}, id : Idxs,
           idx : Idxs, who : Client \cup {Nobody}]

TypeOK ==
    /\ client \in [Client -> [at : {"out", "on", "closed"}, data : Nat]]
    /\ \A c \in Client : client[c].data <= Chat[c]
    /\ pool.valid \subseteq 0 .. Cap - 1 /\ 0 \in pool.valid
    /\ Range(pool.free) = (0 .. Cap - 1) \ pool.valid
    /\ \A p \in Slot : conn[p] \in ConnRecord
    /\ {qHead, qTail} \subseteq Idxs /\ tokenAlloc \in Nat
    /\ permit \in Permit \div 2 .. Permit /\ left \in 0 .. Permit
    /\ up \in Seq(Frames) /\ Len(up) <= ChanCap
    /\ down \in Seq(Frames) /\ Len(down) <= ChanCap
    /\ Range(seats.free) = Seat \ seats.valid

Number(P) == Cardinality(P)
Real      == {p \in Slot : Used(p) /\ conn[p].who # Nobody}
Passed    == {p \in Real : conn[p].stage = "pass"}
Waiting   == {p \in Real : conn[p].inq}

\* stConnInfo counts the connections in every stage exactly, the listener
\* among the idle ones -- except that a reserved connection is not counted when
\* it is made (tconnd_reserve_connection), but is when it is closed: iTotal and
\* iIdle stay one too low for every one.
CountsMatch ==
    info = [total  |-> 1 + Number(Real) - released,
            idle   |-> 1 + Number(Real \ Passed) - released,
            wait   |-> Number(Waiting),
            active |-> Number(Passed \ Waiting)]

\* The wait queue links exactly the waiting connections, both ways and in the
\* order of their tokens, whatever closed connection was taken out of it.
QueueLinked ==
    /\ qHead = -1 <=> Waiting = {}
    /\ qTail = -1 <=> Waiting = {}
    /\ \A h \in {qHead, qTail} \ {-1} : Alive(h) /\ Pos(h) \in Waiting
    /\ \A p \in Waiting :
          /\ (conn[p].prev = -1 <=> qHead = Idx(p)) /\ (conn[p].next = -1 <=> qTail = Idx(p))
          /\ conn[p].next # -1 =>
                LET s == Pos(conn[p].next)
                IN  /\ s \in Waiting /\ conn[p].next = Idx(s) /\ conn[s].prev = Idx(p)
                    /\ conn[p].token < conn[s].token
                    /\ \A r \in Waiting : conn[r].token <= conn[p].token
                                            \/ conn[s].token <= conn[r].token

\* Whoever is admitted from the queue has waited longest: none that is still
\* waiting pushed its log-in earlier, whatever left the middle of the queue.
AdmittedInOrder ==
    [][\A p \in Waiting : conn'[p].sent /\ ~conn'[p].inq =>
            \A r \in Waiting : conn[p].token <= conn[r].token]_vars

\* The queue admits no more connections than iPermit, however many come and go;
\* only those that pass by it (VIP, relay) are not held up.
AdmissionBound == Number({p \in Passed \ Waiting : ~conn[p].bypass}) <= Permit

\* A frame on its way that names a live connection or a live session was sent
\* for the client that has it now: a late frame never reaches a successor in the
\* same block.  Handles of position 0 of the server's pool are reused, see
\* HandlePool, and not covered.
FramesComeHome ==
    /\ \A f \in Range(down) : f.cmd # "NOTIFY" /\ Alive(f.idx) => conn[Pos(f.idx)].who = f.who
    /\ \A f \in Range(up) :
          f.id # -1 /\ SeatOf(f.id) # 0 /\ Seated(f.id) => player[SeatOf(f.id)].who = f.who

\* A client that is gone does not keep its connection.
SlotFreed ==
    \A c \in Client :
        client[c].at = "closed" ~> \A p \in Slot : Used(p) => conn[p].who # c

\* The server learns of the end of every session: by STOP, by the answer to what
\* it still sends, or by RELAY -- unless a full channel lost a frame.
SessionEnded ==
    \A c \in Client :
        client[c].at = "closed" ~>
            c \in lost \cup relayed \/ \A q \in seats.valid : player[q].who # c
=============================================================================
