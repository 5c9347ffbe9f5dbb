-------------------------------- MODULE TbusRecv --------------------------------
(***************************************************************************)
(* The receiving side of a tbus handle (tbus.c): one process polls all the *)
(* channels of its handle with tbus_recv or tbus_peek_msg, while the peers *)
(* send at any moment.  The handle keeps a position iRecvPos and stays     *)
(* there for at most TBUS_MAX_RECV_CNT messages, so that a busy channel    *)
(* does not lock out the others; tbus_refresh_handle changes the set of    *)
(* channels behind that position's back.                                   *)
(*                                                                         *)
(* A channel is the queue TbusFifo promises; here only its length counts.  *)
(***************************************************************************)
EXTENDS Integers, Sequences, Functions, SequencesExt

CONSTANTS
    Chan,       \* the channels, each a pair <<local address, peer address>>
    AnyAddr,    \* TBUS_ADDR_DEFAULT or TBUS_ADDR_ALL: the address is not given
    Requests,   \* the [src, dst] pairs the application polls with
    MaxRecv,    \* TBUS_MAX_RECV_CNT
    CtrlPeers,  \* the peers the application disconnects and connects
    Configs,    \* sets of channels the GCIM may list; {}: it never changes
    MaxQueue    \* bound: messages waiting in one channel

ASSUME RecvAssumption ==
    /\ IsFiniteSet(Chan) /\ Chan # {}
    /\ MaxRecv \in Nat \ {0} /\ MaxQueue \in Nat \ {0}
    /\ Configs \subseteq SUBSET Chan
    /\ \A c \in Chan : c = <<c[1], c[2]>> /\ AnyAddr \notin {c[1], c[2]}

VARIABLES
    chans,              \* pastChannelSet, dwChannelCnt is its length
    enabled,            \* channels with TBUS_CHANNEL_FLAG_ENABLE
    dstEnabled,         \* channels with TBUS_CHANNEL_FLAG_DST_ENABLE
    iRecvPos, dwRecvPkgCnt,
    config, changed,    \* the GCIM, and: its version is not the handle's
    queue,              \* messages waiting, by channel
    pc, op, req, i,     \* the call in progress and its loop variable
    bypass              \* history: messages of others taken while one waits

handle == <<chans, enabled, dstEnabled>>
pos    == <<iRecvPos, dwRecvPkgCnt>>
gcim   == <<config, changed>>
call   == <<pc, op, req, i>>
vars   == <<chans, enabled, dstEnabled, iRecvPos, dwRecvPkgCnt, config, changed,
            queue, pc, op, req, i, bypass>>

Local(c) == c[1]
Peer(c)  == c[2]
Cnt      == Len(chans)

\* TBUS_IS_NON_SPECIFIED_ADDRESS of either address.
Unspecified(r) == AnyAddr \in {r.src, r.dst}

\* tbus_select_channel_i
Matches(c, r) == r.src \in {AnyAddr, Peer(c)} /\ r.dst \in {AnyAddr, Local(c)}
Selected(c)   == c \in enabled /\ c \in dstEnabled /\ Matches(c, req)

Init ==
    /\ chans \in SetToSeqs(Chan)
    /\ enabled = Chan /\ dstEnabled = Chan
    /\ iRecvPos = -1 /\ dwRecvPkgCnt = 0
    /\ config = Chan /\ changed = FALSE
    /\ queue = [c \in Chan |-> 0]
    /\ pc = "idle" /\ op = "recv" /\ req \in Requests /\ i = 0
    /\ bypass = [c \in Chan |-> 0]
-----------------------------------------------------------------------------
\* A peer's tbus_send put a message into channel c.
Arrive(c) ==
    /\ queue[c] < MaxQueue
    /\ queue' = [queue EXCEPT ![c] = @ + 1]
    /\ bypass' = IF queue[c] = 0 THEN [bypass EXCEPT ![c] = 0] ELSE bypass
    /\ UNCHANGED <<handle, pos, gcim, call>>

\* tbus_recv and tbus_peek_msg choose where to start looking.
RecvBegin(o, r) ==
    /\ pc = "idle" /\ Cnt > 0
    /\ pc' = "scan" /\ op' = o /\ req' = r
    /\ \/ /\ ~Unspecified(r) /\ i' = 0 /\ UNCHANGED pos
       \/ /\ Unspecified(r) /\ iRecvPos = -1
          /\ iRecvPos' = 0 /\ dwRecvPkgCnt' = 0 /\ i' = 0
       \/ /\ Unspecified(r) /\ iRecvPos # -1 /\ dwRecvPkgCnt >= MaxRecv
          /\ iRecvPos' = (iRecvPos + 1) % Cnt /\ dwRecvPkgCnt' = 0 /\ i' = iRecvPos'
       \/ /\ Unspecified(r) /\ iRecvPos # -1 /\ dwRecvPkgCnt < MaxRecv
          /\ i' = iRecvPos /\ UNCHANGED pos
    /\ UNCHANGED <<handle, gcim, queue, bypass>>

Waiting(c) == c \in Range(chans) /\ c \in enabled /\ c \in dstEnabled /\ queue[c] > 0

At(c) == pc = "scan" /\ i < Cnt /\ c = chans[i + 1]

\* The loop passes over a channel that is disabled or does not match ...
RecvSkip(c) ==
    /\ At(c) /\ ~Selected(c)
    /\ i' = i + 1
    /\ UNCHANGED <<handle, pos, gcim, queue, pc, op, req, bypass>>

\* Mutant of RecvEmpty: the next call starts at the empty channel again.
RecvEmptyStay(c) ==
    /\ At(c) /\ Selected(c) /\ queue[c] = 0
    /\ \/ /\ Unspecified(req) /\ iRecvPos' = i /\ dwRecvPkgCnt' = 0
          /\ i' = i + 1 /\ UNCHANGED pc
       \/ /\ ~Unspecified(req)
          /\ pc' = "idle" /\ UNCHANGED <<pos, i>>
    /\ UNCHANGED <<handle, gcim, queue, op, req, bypass>>

\* ... goes on from one that is empty, the next call starting behind it, ...
RecvEmpty(c) ==
    /\ At(c) /\ Selected(c) /\ queue[c] = 0
    /\ \/ /\ Unspecified(req)
          /\ iRecvPos' = (i + 1) % Cnt /\ dwRecvPkgCnt' = 0
          /\ i' = i + 1 /\ UNCHANGED pc
       \/ /\ ~Unspecified(req)
          /\ pc' = "idle" /\ UNCHANGED <<pos, i>>
    /\ UNCHANGED <<handle, gcim, queue, op, req, bypass>>

\* Mutant of RecvTake: a peek is not counted.
RecvTakeFree(c) ==
    /\ At(c) /\ Selected(c) /\ queue[c] > 0
    /\ pc' = "idle"
    /\ queue' = IF op = "recv" THEN [queue EXCEPT ![c] = @ - 1] ELSE queue
    /\ dwRecvPkgCnt' = IF Unspecified(req) /\ op = "recv" THEN dwRecvPkgCnt + 1
                       ELSE dwRecvPkgCnt
    /\ bypass' = [d \in Chan |->
                    IF d = c \/ ~Waiting(d) THEN 0
                    ELSE IF Matches(d, req) THEN bypass[d] + 1 ELSE bypass[d]]
    /\ op' = IF op = "peek" THEN "peeked" ELSE op
    /\ UNCHANGED <<handle, iRecvPos, gcim, req, i>>

\* ... and returns the message of the first other one.  A peek leaves it there.
RecvTake(c) ==
    /\ At(c) /\ Selected(c) /\ queue[c] > 0
    /\ pc' = "idle"
    /\ queue' = IF op = "recv" THEN [queue EXCEPT ![c] = @ - 1] ELSE queue
    /\ dwRecvPkgCnt' = IF Unspecified(req) THEN dwRecvPkgCnt + 1 ELSE dwRecvPkgCnt
    /\ bypass' = [d \in Chan |->
                    IF d = c \/ ~Waiting(d) THEN 0
                    ELSE IF Matches(d, req) THEN bypass[d] + 1 ELSE bypass[d]]
    /\ op' = IF op = "peek" THEN "peeked" ELSE op
    /\ UNCHANGED <<handle, iRecvPos, gcim, req, i>>

\* The loop found nothing: TBUS_ERR_CHANNEL_EMPTY.
RecvEnd ==
    /\ pc = "scan" /\ i >= Cnt
    /\ pc' = "idle"
    /\ UNCHANGED <<handle, pos, gcim, queue, op, req, i, bypass>>

\* tbus_delete_msg with the addresses the peek returned; it looks at no flag.
DeleteMsg(c) ==
    /\ pc = "idle" /\ op = "peeked" /\ c = chans[i + 1] /\ queue[c] > 0
    /\ queue' = [queue EXCEPT ![c] = @ - 1]
    /\ op' = "recv"
    /\ UNCHANGED <<handle, pos, gcim, pc, req, i, bypass>>

\* tbus_peer_ctrl (and tbus_connect, which is TBUS_MODE_ENABLE for the first):
\* one or all of the enabled channels to a peer.
PeerCtrl(a, on, all) ==
    LET peers == {k \in 1 .. Cnt : chans[k] \in enabled /\ Peer(chans[k]) = a}
        hit   == {chans[k] : k \in {k \in peers : all \/ \A j \in peers : k <= j}}
    IN  /\ pc = "idle" /\ hit # {}
        /\ dstEnabled' = IF on THEN dstEnabled \cup hit ELSE dstEnabled \ hit
        /\ bypass' = [c \in Chan |-> IF c \in hit THEN 0 ELSE bypass[c]]
        /\ UNCHANGED <<chans, enabled, pos, gcim, queue, call>>
-----------------------------------------------------------------------------
(***************************************************************************)
(* tbus_refresh_handle: close the disabled channels whose time is over     *)
(* (the last one takes the freed place, which is looked at again), then,   *)
(* if the version of the GCIM changed and its lock is free, disable and    *)
(* enable channels and attach new ones.  iRecvPos stays.                   *)
(***************************************************************************)
RefreshBegin ==
    /\ pc = "idle" /\ pc' = "close" /\ i' = 0 /\ op' = "recv"
    /\ bypass' = [c \in Chan |-> 0]
    /\ UNCHANGED <<handle, pos, gcim, queue, req>>

\* A channel stays that is enabled or disabled since not long.
CloseNot ==
    /\ pc = "close" /\ i < Cnt
    /\ i' = i + 1
    /\ UNCHANGED <<handle, pos, gcim, queue, pc, op, req, bypass>>

\* Mutant of CloseOverdue: the last channel is copied and stays.
CloseCopying ==
    /\ pc = "close" /\ i < Cnt /\ chans[i + 1] \notin enabled
    /\ chans' = [chans EXCEPT ![i + 1] = chans[Cnt]]
    /\ dstEnabled' = dstEnabled \ {chans[i + 1]}
    /\ UNCHANGED <<enabled, pos, gcim, queue, call, bypass>>

\* One whose time is over is closed.
CloseOverdue ==
    /\ pc = "close" /\ i < Cnt /\ chans[i + 1] \notin enabled
    /\ chans' = SubSeq([chans EXCEPT ![i + 1] = chans[Cnt]], 1, Cnt - 1)
    /\ dstEnabled' = dstEnabled \ {chans[i + 1]}
    /\ UNCHANGED <<enabled, pos, gcim, queue, call, bypass>>

\* The version is the one recorded, or the lock of the GCIM is not free.
RefreshUnchanged ==
    /\ pc = "close" /\ i >= Cnt /\ pc' = "idle"
    /\ UNCHANGED <<handle, pos, gcim, queue, op, req, i, bypass>>

\* Mutant of RefreshMap: the new version is recorded although a channel failed.
RefreshForget(D) ==
    LET new == D \ Range(chans)
    IN  /\ pc = "close" /\ i >= Cnt /\ pc' = "idle"
        /\ changed /\ D \subseteq config
        /\ \E s \in SetToSeqs(new) : chans' = chans \o s
        /\ enabled' = (enabled \cap config) \cup D
        /\ dstEnabled' = dstEnabled \cup new
        /\ changed' = FALSE
        /\ UNCHANGED <<pos, config, queue, op, req, i, bypass>>

\* D are the channels of the GCIM the loop reached before one failed.
RefreshMap(D) ==
    LET new == D \ Range(chans)
    IN  /\ pc = "close" /\ i >= Cnt /\ pc' = "idle"
        /\ changed /\ D \subseteq config
        /\ \E s \in SetToSeqs(new) : chans' = chans \o s
        /\ enabled' = (enabled \cap config) \cup D
        /\ dstEnabled' = dstEnabled \cup new
        /\ changed' = (D # config)
        /\ UNCHANGED <<pos, config, queue, op, req, i, bypass>>

\* tbus_set_gcim in the manager process.
Reconfigure(G) ==
    /\ config' = G /\ changed' = TRUE
    /\ UNCHANGED <<handle, pos, queue, call, bypass>>
-----------------------------------------------------------------------------
RefreshStep ==
    CloseNot \/ CloseOverdue \/ RefreshUnchanged \/ \E D \in SUBSET Chan : RefreshMap(D)
RecvStep(c) == RecvSkip(c) \/ RecvEmpty(c) \/ RecvTake(c)

Next ==
    \/ \E c \in Chan : Arrive(c) \/ RecvStep(c) \/ DeleteMsg(c)
    \/ \E o \in {"recv", "peek"}, r \in Requests : RecvBegin(o, r)
    \/ RecvEnd
    \/ \E c \in Chan, on, all \in BOOLEAN : Peer(c) \in CtrlPeers /\ PeerCtrl(Peer(c), on, all)
    \/ \E G \in Configs : Reconfigure(G)
    \/ Configs # {} /\ RefreshBegin
    \/ RefreshStep

Spec == Init /\ [][Next]_vars

\* The application polls in a loop, and a call that was begun returns.
LoopSpec ==
    /\ Spec
    /\ SF_vars(\E o \in {"recv", "peek"}, r \in Requests : RecvBegin(o, r))
    /\ WF_vars(RefreshStep \/ RecvEnd \/ \E c \in Chan : RecvStep(c))
-----------------------------------------------------------------------------
TypeOK ==
    /\ chans \in Seq(Chan) /\ enabled \subseteq Chan /\ dstEnabled \subseteq Chan
    /\ iRecvPos \in Int /\ -1 <= iRecvPos
    /\ dwRecvPkgCnt \in 0 .. MaxRecv
    /\ config \subseteq Chan /\ changed \in BOOLEAN
    /\ queue \in [Chan -> 0 .. MaxQueue]
    /\ pc \in {"idle", "scan", "close"} /\ op \in {"recv", "peek", "peeked"} /\ req \in Requests /\ i \in Nat
    /\ bypass \in [Chan -> Nat]

\* No busy channel locks out another: while a message waits, every other
\* channel of the handle gets at most TBUS_MAX_RECV_CNT messages through.
BypassBound == \A c \in Chan : Waiting(c) => bypass[c] <= MaxRecv * (Cnt - 1)

\* A handle never holds the same channel twice: two receivers of one process
\* on one queue would show every message twice.
NoDuplicate == \A j, k \in 1 .. Cnt : chans[j] = chans[k] => j = k

\* A handle that has recorded the version of the GCIM has, enabled, exactly the
\* channels the GCIM lists: a refresh that failed half way is done again.
InSync == ~changed => Range(chans) \cap enabled = config

\* A channel the application's polls match is received from as long as there
\* are messages in it (tbus.h: all channels that match may receive).
Served ==
    \A c \in Chan : (\E r \in Requests : Matches(c, r)) =>
        []<>~Waiting(c) \/ []<><<RecvTake(c)>>_vars
=============================================================================
