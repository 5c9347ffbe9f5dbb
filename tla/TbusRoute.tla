------------------------------- MODULE TbusRoute -------------------------------
(***************************************************************************)
(* How messages travel through several processes (tbus.c): tbus_send puts  *)
(* a message into the channels its addresses select, tbus_forward passes   *)
(* the message last received on and records the way in the tbus header,    *)
(* tbus_backward sends an answer back along that way.  Both take the route *)
(* from stRecvHead, the header the last receive left in the handle.        *)
(* A message may be dyed (TBUS_HEAD_FLAG_TACE): each process then logs it. *)
(*                                                                         *)
(* Channels are the queues TbusFifo promises, one per direction, and all   *)
(* of them are enabled: TbusRecv is about the others.                      *)
(***************************************************************************)
EXTENDS Naturals, Sequences, FiniteSets, Functions

CONSTANTS
    Node,         \* the processes
    Handle,       \* the channels of each, in order: <<local, peer>> addresses
    Default, All, \* TBUS_ADDR_DEFAULT and TBUS_ADDR_ALL
    Nobody,       \* no process
    MaxRoute,     \* TBUS_FORWARD_MAX_ROUTE
    SendTo, RelayTo,        \* [src, dst] the applications pass when they send,
                            \* and when they forward or go back
    SendFlags, RelayFlags,  \* "none", "start" (TBUS_FLAG_START_DYE_MSG), "keep"
    RecvFlags,    \* by process: what it receives with, "none" or "start"
    ShortBuffers, \* the processes whose receive buffer may be too small
    Savers,       \* the processes that save and restore headers
    SetRoutes,    \* by process: routes it gives to tbus_set_pkg_route
    MaxQueue      \* bound: messages in one direction of a channel

Links    == UNION {Range(Handle[n]) : n \in Node}
Addr     == {l[1] : l \in Links}
Owner(a) == CHOOSE n \in Node : \E l \in Range(Handle[n]) : l[1] = a

ASSUME RouteAssumption ==
    /\ \A l \in Links : <<l[2], l[1]>> \in Links
    /\ \A m, n \in Node : m # n => Range(Handle[m]) \cap Range(Handle[n]) = {}
    /\ Default # All /\ Addr \cap {Default, All} = {} /\ Nobody \notin Node
    /\ MaxRoute \in Nat \ {0} /\ MaxQueue \in Nat \ {0}
    /\ ShortBuffers \subseteq Node /\ Savers \subseteq Node
    /\ \A n \in Node : \A r \in SetRoutes[n] : r \in Seq(Addr) /\ Len(r) \in 1 .. MaxRoute - 1

VARIABLES
    queue,   \* by direction <<from, to>>: messages, each with its header
    recv,    \* by process: stRecvHead, and what it last received
    saved    \* by process: the same kept by tbus_save_pkg_header (stHeadBak)

vars == <<queue, recv, saved>>

\* The fields of TBUSHEAD that are looked at; WITH_ROUTE is never tested.
Header(src, dst, trace, route) ==
    [src |-> src, dst |-> dst, trace |-> trace, route |-> route]
ZeroHead == Header(Default, Default, FALSE, <<>>)

(* For the properties a message, and what is known of the last one received, *)
(* carries its trip: the process that sent the request first and the number  *)
(* of calls an answer is away from it.  A message also says whether its      *)
(* sender asked for dye.                                                     *)
NoTrip == [origin |-> Nobody, hops |-> 0]
Trip(origin, hops) ==
    IF origin # Nobody /\ hops \in 0 .. MaxRoute THEN [origin |-> origin, hops |-> hops]
    ELSE NoTrip

Message(head, trip, want) == [head |-> head, trip |-> trip, want |-> want]

Init ==
    /\ queue = [l \in Links |-> <<>>]
    /\ recv = [n \in Node |-> [head |-> ZeroHead, trip |-> NoTrip]]
    /\ saved = recv
-----------------------------------------------------------------------------
\* tbus_select_channel_i
Matches(l, s, d) == s \in {Default, All, l[1]} /\ d \in {Default, All, l[2]}

\* The channels the loop of a sending call tries: the first that matches, and
\* all that match when an address is TBUS_ADDR_ALL.
Tried(n, s, d) ==
    LET match == {k \in DOMAIN Handle[n] : Matches(Handle[n][k], s, d)}
    IN  IF All \in {s, d} THEN match ELSE {k \in match : \A j \in match : k <= j}

\* The loop: make[l] is the message for channel l.  A full channel refuses it,
\* and a header with more than MaxRoute entries cannot be packed; the loop goes
\* on with the next all the same.
PushLoop(n, s, d, make, built) ==
    LET tried  == {Handle[n][k] : k \in Tried(n, s, d)}
        pushed == {l \in tried : Len(queue[l]) < MaxQueue /\ built <= MaxRoute}
    IN  /\ queue' = [l \in Links |-> IF l \in pushed THEN Append(queue[l], make[l])
                                     ELSE queue[l]]
        /\ UNCHANGED <<recv, saved>>

\* Fault: the dye of the message before is forgotten.
DyedStartOnly(pre, flag) == flag = "start"

\* tbus_dye_pkg: pre is the header to inherit from (ZeroHead for NULL).
Dyed(pre, flag) == flag = "start" \/ (flag = "keep" /\ pre.trace)

\* What tbus.h promises of the flags, for the sender's part of a message.
Wants(n, flag) == \/ flag = "start"
                  \/ flag = "keep" /\ recv[n].head.trace

\* TBUS_SET_LAST_ROUTE: the first entry assigns the flags, it does not add one.
SetLastRoute(h, a) ==
    IF h.route = <<>> THEN [h EXCEPT !.route = <<a>>, !.trace = FALSE]
    ELSE [h EXCEPT !.route[Len(h.route)] = a]
-----------------------------------------------------------------------------
\* tbus_send, tbus_sendv
Send(n, s, d, flag) ==
    LET make == [l \in Links |-> Message(
            SetLastRoute(Header(l[1], l[2], Dyed(ZeroHead, flag), <<>>), l[1]),
            Trip(n, 1), Wants(n, flag))]
    IN  PushLoop(n, s, d, make, 1)

\* tbus_forward
Forward(n, s, d, flag) ==
    LET last    == recv[n]
        src     == IF s = Default THEN last.head.dst ELSE s
        route   == Append(last.head.route, src)
        make    == [l \in Links |-> Message(
            SetLastRoute(Header(l[1], l[2], Dyed(last.head, flag), route), l[1]),
            Trip(last.trip.origin, last.trip.hops + 1), Wants(n, flag))]
    IN  /\ Len(last.head.route) <= MaxRoute /\ src # Default
        /\ PushLoop(n, src, d, make, Len(route))

\* Fault: tbus_backward leaves the last entry in the route.
BackwardKeepsRoute(n, s, d, flag) ==
    LET last    == recv[n]
        route   == last.head.route
        dst     == IF d = Default THEN route[Len(route)] ELSE d
        trip    == IF d = Default THEN Trip(last.trip.origin, last.trip.hops - 1) ELSE NoTrip
        make    == [l \in Links |-> Message(
            Header(l[1], l[2], Dyed(last.head, flag), route),
            trip, Wants(n, flag))]
    IN  /\ Len(route) \in 1 .. MaxRoute
        /\ PushLoop(n, s, dst, make, Len(route))

\* tbus_backward
Backward(n, s, d, flag) ==
    LET last    == recv[n]
        left    == Len(last.head.route) - 1
        dst     == IF d = Default THEN last.head.route[left + 1] ELSE d
        trip    == IF d = Default THEN Trip(last.trip.origin, last.trip.hops - 1) ELSE NoTrip
        make    == [l \in Links |-> Message(
            Header(l[1], l[2], Dyed(last.head, flag), SubSeq(last.head.route, 1, left)),
            trip, Wants(n, flag))]
    IN  /\ Len(last.head.route) \in 1 .. MaxRoute
        /\ PushLoop(n, s, dst, make, left)

\* What a receive leaves in the handle; a receiver may start to dye a message.
Arrived(l, flag) ==
    LET m == Head(queue[l])
    IN  [head |-> [m.head EXCEPT !.trace = @ \/ flag = "start"], trip |-> m.trip]

HasMsg(n, l) == queue[l] # <<>> /\ <<l[2], l[1]>> \in Range(Handle[n])

\* tbus_recv
Receive(n, l, flag) ==
    /\ HasMsg(n, l)
    /\ recv' = [recv EXCEPT ![n] = Arrived(l, flag)]
    /\ queue' = [queue EXCEPT ![l] = Tail(@)]
    /\ UNCHANGED saved

\* tbus_recv with a buffer too small: the header is decoded into stRecvHead
\* before the length is looked at, and the message stays where it is.
ReceiveLimited(n, l) ==
    /\ n \in ShortBuffers /\ HasMsg(n, l)
    /\ recv' = [recv EXCEPT ![n] = Arrived(l, "none")]
    /\ UNCHANGED <<queue, saved>>

\* tbus_peek_msg, tbus_delete_msg
Peek(n, l, flag) ==
    /\ HasMsg(n, l)
    /\ recv' = [recv EXCEPT ![n] = Arrived(l, flag)]
    /\ UNCHANGED <<queue, saved>>

DeleteMsg(n, l) ==
    /\ HasMsg(n, l)
    /\ queue' = [queue EXCEPT ![l] = Tail(@)]
    /\ UNCHANGED <<recv, saved>>

\* tbus_save_pkg_header, tbus_restore_pkg_header
SaveHeader(n) ==
    /\ n \in Savers /\ saved' = [saved EXCEPT ![n] = recv[n]]
    /\ UNCHANGED <<queue, recv>>

\* Fault: the route is not among what is restored.
RestoreKeepsRoute(n) ==
    /\ n \in Savers
    /\ recv' = [recv EXCEPT ![n] = [saved[n] EXCEPT !.head.route = recv[n].head.route]]
    /\ UNCHANGED <<queue, saved>>

RestoreHeader(n) ==
    /\ n \in Savers /\ recv' = [recv EXCEPT ![n] = saved[n]]
    /\ UNCHANGED <<queue, saved>>

\* tbus_set_pkg_route: the application says which way the message came.
SetPkgRoute(n, r) ==
    /\ recv' = [recv EXCEPT ![n].head.route = r, ![n].trip = NoTrip]
    /\ UNCHANGED <<queue, saved>>

Next ==
    \E n \in Node :
        \/ \E a \in SendTo, f \in SendFlags : Send(n, a.src, a.dst, f)
        \/ \E a \in RelayTo, f \in RelayFlags : Forward(n, a.src, a.dst, f)
        \/ \E a \in RelayTo, f \in RelayFlags : Backward(n, a.src, a.dst, f)
        \/ \E l \in Links, f \in RecvFlags[n] : Receive(n, l, f) \/ Peek(n, l, f)
        \/ \E l \in Links : ReceiveLimited(n, l) \/ DeleteMsg(n, l)
        \/ SaveHeader(n) \/ RestoreHeader(n)
        \/ \E r \in SetRoutes[n] : SetPkgRoute(n, r)

Spec == Init /\ [][Next]_vars
-----------------------------------------------------------------------------
Heads == [src : Addr \cup {Default}, dst : Addr \cup {Default}, trace : BOOLEAN,
          route : Seq(Addr)]

\* What is in the channels, each message with the direction it goes.
InFlight == UNION {{[msg |-> queue[l][i], link |-> l] : i \in DOMAIN queue[l]} : l \in Links}

TypeOK ==
    /\ DOMAIN queue = Links /\ \A l \in Links : Len(queue[l]) <= MaxQueue
    /\ \A t \in InFlight : t.msg.head \in Heads /\ t.msg.trip.hops \in 0 .. MaxRoute
    /\ \A n \in Node : recv[n].head \in Heads /\ saved[n].head \in Heads

\* An answer that was passed back as many times as the request was passed on
\* ends at the process that sent the request, whatever else these processes
\* received, sent, saved and restored (tbus.h: a forwarded message can go back
\* the way it came).
ComesHome == \A t \in InFlight :
    t.msg.trip.hops = 0 /\ t.msg.trip # NoTrip => Owner(t.link[2]) = t.msg.trip.origin

\* ... and there is always a channel for its next step.
Answerable == \A n \in Node :
    recv[n].trip.hops > 0 =>
        LET route == recv[n].head.route
        IN  route # <<>> /\ Tried(n, Default, route[Len(route)]) # {}

\* A message is dyed when its sender asked for it, or asked to inherit it from
\* a dyed message (tbus.h: TBUS_FLAG_START_DYE_MSG, TBUS_FLAG_KEEP_DYE_MSG).
DyeKept == \A t \in InFlight : t.msg.want => t.msg.head.trace
=============================================================================
