--------------------------- MODULE TbusRouteProofs ---------------------------
(***************************************************************************)
(* Proofs about TbusRoute: in any network of processes and channels an     *)
(* answer comes back to the process that sent the request.                 *)
(***************************************************************************)
EXTENDS TbusRoute, SequenceTheorems, WellFoundedInduction, TLAPS

\* What is assumed of the constants: an address belongs to one process, and the
\* applications pass addresses.
Target == [src : Addr \cup {Default, All}, dst : Addr \cup {Default, All}]
RouteConstants ==
    /\ \A n \in Node : Handle[n] \in Seq(Addr \X Addr)
    /\ \A m, n \in Node : \A k \in Range(Handle[m]), l \in Range(Handle[n]) : k[1] = l[1] => m = n
    /\ SendTo \subseteq Target /\ RelayTo \subseteq Target

Trips == {t \in [origin : Node \cup {Nobody}, hops : 0 .. MaxRoute] :
              t.origin = Nobody => t.hops = 0}
Msgs  == [head : Heads, trip : Trips, want : BOOLEAN]
Last  == [head : Heads, trip : Trips]

\* A process has a channel to an address.
Reaches(n, peer) == \E l \in Range(Handle[n]) : l[2] = peer

\* The route of a message that is at m, or on its way there: it leads back to the origin
\* of the request, from each process to the one before it.
Way(route, trip, m) ==
    trip.origin # Nobody =>
        /\ trip.hops = Len(route)
        /\ IF route = <<>> THEN m = trip.origin
           ELSE Owner(route[1]) = trip.origin /\ Reaches(m, route[Len(route)])
        /\ \A i \in 1 .. Len(route) - 1 : Reaches(Owner(route[i + 1]), route[i])

\* What holds of a message in the channel to m.
Good(msg, m) ==
    /\ msg \in Msgs /\ Way(msg.head.route, msg.trip, m)
    /\ SendFlags \subseteq {"none"} => (msg.want => msg.head.trace)

QueueInv ==
    /\ queue \in [Links -> Seq(Msgs)]
    /\ \A l \in Links : /\ Len(queue[l]) <= MaxQueue
                        /\ \A i \in 1 .. Len(queue[l]) : Good(queue[l][i], Owner(l[2]))
LastInv ==
    /\ recv \in [Node -> Last] /\ saved \in [Node -> Last]
    /\ \A n \in Node : /\ Way(recv[n].head.route, recv[n].trip, n)
                       /\ Way(saved[n].head.route, saved[n].trip, n)

\* The order the first matching channel is the least of.
Below == {c \in Nat \X Nat : c[1] < c[2]}

\* The inductive invariant.
IInv == QueueInv /\ LastInv
-----------------------------------------------------------------------------
\* Channels come in pairs, and an address has one owner.
LEMMA LinkFacts ==
    ASSUME RouteConstants
    PROVE  /\ \A l \in Links : /\ l[1] \in Addr /\ l[2] \in Addr
                               /\ Owner(l[1]) \in Node /\ Owner(l[2]) \in Node
                               /\ Reaches(Owner(l[2]), l[1])
           /\ \A n \in Node : \A l \in Range(Handle[n]) : l \in Links /\ Owner(l[1]) = n
  <1>1. ASSUME NEW n \in Node, NEW l \in Range(Handle[n])
        PROVE  l \in Links /\ Owner(l[1]) = n /\ l[1] \in Addr
    <2>1. l \in Links
      BY <1>1 DEF Links
    <2>2. \E m \in Node : \E k \in Range(Handle[m]) : k[1] = l[1]
      BY <1>1
    <2>3. Owner(l[1]) \in Node /\ \E k \in Range(Handle[Owner(l[1])]) : k[1] = l[1]
      BY <2>2 DEF Owner
    <2>4. Owner(l[1]) = n
      BY <1>1, <2>3 DEF RouteConstants
    <2> QED
      BY <2>1, <2>4 DEF Addr
  <1>2. ASSUME NEW l \in Links
        PROVE  /\ l[1] \in Addr /\ l[2] \in Addr
               /\ Owner(l[1]) \in Node /\ Owner(l[2]) \in Node
               /\ Reaches(Owner(l[2]), l[1])
    <2>1. <<l[2], l[1]>> \in Links
      BY <1>2, RouteAssumption
    <2>2. PICK m \in Node : l \in Range(Handle[m])
      BY <1>2 DEF Links
    <2>3. PICK n \in Node : <<l[2], l[1]>> \in Range(Handle[n])
      BY <2>1 DEF Links
    <2>4. Owner(l[1]) = m /\ l[1] \in Addr
      BY <1>1, <2>2
    <2>5. Owner(<<l[2], l[1]>>[1]) = n /\ <<l[2], l[1]>>[1] \in Addr
      BY <1>1, <2>3
    <2>6. Owner(l[2]) = n /\ l[2] \in Addr
      BY <2>5
    <2>7. Reaches(n, l[1])
      BY <2>3 DEF Reaches
    <2> QED
      BY <2>4, <2>6, <2>7
  <1> QED
    BY <1>1, <1>2

\* The smallest of a set of numbers.
LEMMA Smallest == ASSUME NEW S \in SUBSET Nat, S # {} PROVE \E i \in S : \A j \in S : i <= j
  <1>1. IsWellFoundedOn(Below, Nat)
    BY NatLessThanWellFounded DEF OpToRel, Below
  <1>2. \E i \in S : \A j \in S : ~ (<<j, i>> \in Below)
    BY <1>1, WFMin, Zenon
  <1>3. \A i, j \in S : ~ (<<j, i>> \in Below) => i <= j
    BY DEF Below
  <1> QED
    BY <1>2, <1>3

\* Headers and messages have the fields they were given.
LEMMA HeadIs ==
    ASSUME NEW s \in Addr \cup {Default}, NEW d \in Addr \cup {Default}, NEW b \in BOOLEAN,
           NEW r \in Seq(Addr)
    PROVE  Header(s, d, b, r) \in Heads /\ Header(s, d, b, r).route = r
           /\ Header(s, d, b, r).trace = b
  BY Zenon DEF Header, Heads

LEMMA MessageIs ==
    ASSUME NEW h \in Heads, NEW t \in Trips, NEW w \in BOOLEAN
    PROVE  /\ Message(h, t, w) \in Msgs /\ Message(h, t, w).head = h
           /\ Message(h, t, w).trip = t /\ Message(h, t, w).want = w
  BY Zenon DEF Message, Msgs

LEMMA TripIs ==
    ASSUME NEW o \in Node \cup {Nobody}, NEW h \in Int
    PROVE  /\ Trip(o, h) \in Trips
           /\ o # Nobody /\ h \in 0 .. MaxRoute => Trip(o, h).origin = o /\ Trip(o, h).hops = h
           /\ Trip(o, h).origin # Nobody => o # Nobody /\ h \in 0 .. MaxRoute
  BY RouteAssumption DEF Trip, NoTrip, Trips

\* The last entry of a route is replaced.
LEMMA LastIs ==
    ASSUME NEW r \in Seq(Addr), NEW x, NEW y \in Addr
    PROVE  [Append(r, x) EXCEPT ![Len(Append(r, x))] = y] = Append(r, y)
  <1> DEFINE S == Addr \cup {x}  a == Append(r, x)  b == Append(r, y)  n == Len(r) + 1
             e == [a EXCEPT ![n] = y]
  <1>0. r \in Seq(S) /\ x \in S /\ y \in S /\ Len(r) \in Nat
    OBVIOUS
  <1>1. a \in Seq(S) /\ Len(a) = n /\ \A i \in 1 .. n : i # n => a[i] = r[i]
    BY <1>0
  <1>2. b \in Seq(S) /\ Len(b) = n /\ b[n] = y /\ \A i \in 1 .. n : i # n => b[i] = r[i]
    BY <1>0
  <1>3. n \in 1 .. Len(a)
    BY <1>0, <1>1
  <1> HIDE DEF S, a, b, n
  <1>4. /\ e \in Seq(S) /\ Len(e) = Len(a)
        /\ \A i \in 1 .. Len(a) : e[i] = IF i = n THEN y ELSE a[i]
    BY <1>0, <1>1, <1>3, ExceptSeq
  <1> HIDE DEF e
  <1>5. e = b
    BY <1>1, <1>2, <1>4, SeqEqual
  <1>6. [a EXCEPT ![Len(a)] = y] = b
    BY <1>1, <1>5 DEF e
  <1> QED
    BY <1>6 DEF a, b
-----------------------------------------------------------------------------
\* What the loop of a sending call puts into the channels is good if every message is.
LEMMA Put ==
    ASSUME RouteConstants, IInv, NEW S \in SUBSET Links, NEW f,
           \A l \in S : Len(queue[l]) < MaxQueue /\ Good(f[l], Owner(l[2])),
           queue' = [l \in Links |-> IF l \in S THEN Append(queue[l], f[l]) ELSE queue[l]],
           UNCHANGED <<recv, saved>>
    PROVE  IInv'
  <1>1. LastInv'
    BY DEF IInv, LastInv
  <1>2. ASSUME NEW l \in Links
        PROVE  /\ queue'[l] \in Seq(Msgs) /\ Len(queue'[l]) <= MaxQueue
               /\ \A i \in 1 .. Len(queue'[l]) : Good(queue'[l][i], Owner(l[2]))
    <2>1. /\ queue[l] \in Seq(Msgs) /\ Len(queue[l]) <= MaxQueue /\ MaxQueue \in Nat
          /\ \A i \in 1 .. Len(queue[l]) : Good(queue[l][i], Owner(l[2]))
      BY RouteAssumption DEF IInv, QueueInv
    <2>2. CASE l \in S
      <3>1. f[l] \in Msgs /\ Good(f[l], Owner(l[2])) /\ Len(queue[l]) < MaxQueue
        BY <2>2 DEF Good
      <3>2. queue'[l] = Append(queue[l], f[l])
        BY <2>2
      <3>3. /\ queue'[l] \in Seq(Msgs) /\ Len(queue'[l]) = Len(queue[l]) + 1
            /\ \A i \in 1 .. Len(queue[l]) : queue'[l][i] = queue[l][i]
            /\ queue'[l][Len(queue[l]) + 1] = f[l]
        BY <2>1, <3>1, <3>2
      <3>4. \A i \in 1 .. Len(queue[l]) + 1 : i \in 1 .. Len(queue[l]) \/ i = Len(queue[l]) + 1
        BY <2>1
      <3>5. Len(queue[l]) + 1 <= MaxQueue
        BY <2>1, <3>1
      <3> QED
        BY <2>1, <3>1, <3>3, <3>4, <3>5
    <2>3. CASE l \notin S
      BY <2>1, <2>3
    <2> QED
      BY <2>2, <2>3
  <1>3. queue' \in [Links -> Seq(Msgs)]
    BY <1>2
  <1> QED
    BY <1>1, <1>2, <1>3 DEF IInv, QueueInv

\* What a process knows of the message it received last.
LEMMA LastType ==
    ASSUME IInv, NEW n \in Node
    PROVE  /\ recv[n] \in Last /\ recv[n].head \in Heads /\ recv[n].trip \in Trips
           /\ recv[n].head.route \in Seq(Addr) /\ recv[n].head.trace \in BOOLEAN
           /\ Way(recv[n].head.route, recv[n].trip, n)
  <1>1. recv[n] \in Last /\ Way(recv[n].head.route, recv[n].trip, n)
    BY DEF IInv, LastInv
  <1>2. recv[n].head \in Heads /\ recv[n].trip \in Trips
    BY <1>1 DEF Last
  <1>3. recv[n].head.route \in Seq(Addr) /\ recv[n].head.trace \in BOOLEAN
    BY <1>2, Zenon DEF Heads
  <1> QED
    BY <1>1, <1>2, <1>3

\* A sending call whose messages are good keeps the invariant.
LEMMA Pushed ==
    ASSUME RouteConstants, IInv, NEW n \in Node, NEW s, NEW d, NEW make, NEW built,
           PushLoop(n, s, d, make, built),
           \A l \in Range(Handle[n]) : Matches(l, s, d) /\ built <= MaxRoute =>
               Good(make[l], Owner(l[2]))
    PROVE  IInv'
  <1> DEFINE tried == {Handle[n][k] : k \in Tried(n, s, d)}
             S == {l \in tried : Len(queue[l]) < MaxQueue /\ built <= MaxRoute}
  <1>1. \A l \in tried : l \in Range(Handle[n]) /\ Matches(l, s, d)
    <2>1. \A k \in Tried(n, s, d) : k \in DOMAIN Handle[n] /\ Matches(Handle[n][k], s, d)
      BY DEF Tried
    <2> QED
      BY <2>1 DEF Range
  <1>2. /\ queue' = [l \in Links |-> IF l \in S THEN Append(queue[l], make[l]) ELSE queue[l]]
        /\ UNCHANGED <<recv, saved>>
    BY Zenon DEF PushLoop
  <1>3. PICK X : X = S
    OBVIOUS
  <1>4. X \in SUBSET Links
    BY <1>1, <1>3, LinkFacts
  <1>5. \A l \in X : Len(queue[l]) < MaxQueue /\ Good(make[l], Owner(l[2]))
    BY <1>1, <1>3
  <1>6. queue' = [l \in Links |-> IF l \in X THEN Append(queue[l], make[l]) ELSE queue[l]]
    BY <1>2, <1>3
  <1> HIDE DEF S, tried
  <1> QED
    BY <1>2, <1>4, <1>5, <1>6, Put

\* tbus_send
LEMMA SendKeeps ==
    ASSUME RouteConstants, IInv, NEW n \in Node, NEW t \in SendTo, NEW flag \in SendFlags,
           Send(n, t.src, t.dst, flag)
    PROVE  IInv'
  <1> DEFINE msg(l) == Message(SetLastRoute(Header(l[1], l[2], Dyed(ZeroHead, flag), <<>>), l[1]),
                               Trip(n, 1), Wants(n, flag))
  <1>1. ASSUME NEW l \in Range(Handle[n]) PROVE Good(msg(l), Owner(l[2]))
    <2>0. /\ l \in Links /\ l[1] \in Addr /\ l[2] \in Addr /\ Owner(l[1]) = n
          /\ Reaches(Owner(l[2]), l[1])
      BY <1>1, LinkFacts
    <2>1. SetLastRoute(Header(l[1], l[2], Dyed(ZeroHead, flag), <<>>), l[1])
              = Header(l[1], l[2], FALSE, <<l[1]>>)
      BY DEF SetLastRoute, Header
    <2>2. /\ Header(l[1], l[2], FALSE, <<l[1]>>) \in Heads
          /\ Header(l[1], l[2], FALSE, <<l[1]>>).route = <<l[1]>>
      <3>1. <<l[1]>> \in Seq(Addr)
        BY <2>0
      <3>2. l[1] \in Addr \cup {Default} /\ l[2] \in Addr \cup {Default} /\ FALSE \in BOOLEAN
        BY <2>0
      <3> QED
        BY <3>1, <3>2, HeadIs, Zenon
    <2>3. Trip(n, 1) \in Trips /\ Trip(n, 1).origin = n /\ Trip(n, 1).hops = 1
      BY RouteAssumption, TripIs
    <2>4. Wants(n, flag) \in BOOLEAN
      BY Zenon, LastType DEF Wants
    <2>5. /\ msg(l) \in Msgs /\ msg(l).head.route = <<l[1]>> /\ msg(l).trip = Trip(n, 1)
          /\ msg(l).want = Wants(n, flag)
      <3>1. msg(l) = Message(Header(l[1], l[2], FALSE, <<l[1]>>), Trip(n, 1), Wants(n, flag))
        BY <2>1, Zenon
      <3> HIDE DEF msg
      <3> DEFINE h == Header(l[1], l[2], FALSE, <<l[1]>>)  trip == Trip(n, 1)  w == Wants(n, flag)
      <3>2. h \in Heads /\ trip \in Trips /\ w \in BOOLEAN /\ msg(l) = Message(h, trip, w)
        BY <2>2, <2>3, <2>4, <3>1, Zenon
      <3> HIDE DEF h, trip, w
      <3>3. /\ Message(h, trip, w) \in Msgs /\ Message(h, trip, w).head = h
            /\ Message(h, trip, w).trip = trip /\ Message(h, trip, w).want = w
        BY <3>2, MessageIs, Zenon
      <3>4. msg(l) \in Msgs /\ msg(l).head = h /\ msg(l).trip = trip /\ msg(l).want = w
        BY <3>2, <3>3, Zenon
      <3> QED
        BY <2>2, <3>4, Zenon DEF h, trip, w
    <2>6. Way(<<l[1]>>, Trip(n, 1), Owner(l[2]))
      BY <2>0, <2>3 DEF Way
    <2>7. SendFlags \subseteq {"none"} => ~ Wants(n, flag)
      BY DEF Wants
    <2> HIDE DEF msg
    <2> QED
      BY <2>5, <2>6, <2>7 DEF Good
  <1>2. PICK make : make = [l \in Links |-> msg(l)]
    OBVIOUS
  <1>3. PushLoop(n, t.src, t.dst, make, 1)
    BY <1>2 DEF Send
  <1>4. \A l \in Range(Handle[n]) : Good(make[l], Owner(l[2]))
    BY <1>1, <1>2, LinkFacts
  <1> HIDE DEF msg
  <1> QED
    BY <1>3, <1>4, Pushed

\* tbus_forward
LEMMA ForwardKeeps ==
    ASSUME RouteConstants, IInv, NEW n \in Node, NEW t \in RelayTo, NEW flag,
           Forward(n, t.src, t.dst, flag)
    PROVE  IInv'
  <1> DEFINE last  == recv[n]
             r     == last.head.route
             o     == last.trip.origin
             k     == last.trip.hops
             src   == IF t.src = Default THEN last.head.dst ELSE t.src
             head(l) == SetLastRoute(Header(l[1], l[2], Dyed(last.head, flag), Append(r, src)), l[1])
             msg(l)  == Message(head(l), Trip(o, k + 1), Wants(n, flag))
  <1>0. /\ r \in Seq(Addr) /\ Len(r) \in Nat /\ Way(r, last.trip, n)
        /\ o \in Node \cup {Nobody} /\ k \in 0 .. MaxRoute /\ MaxRoute \in Nat
    BY RouteAssumption, LastType DEF Trips
  <1>1. Len(Append(r, src)) = Len(r) + 1
    <2>1. r \in Seq(Addr \cup {src}) /\ src \in Addr \cup {src}
      BY <1>0
    <2> HIDE DEF src, r
    <2> QED
      BY <2>1
  <1>2. ASSUME NEW l \in Range(Handle[n]), Len(r) + 1 <= MaxRoute PROVE Good(msg(l), Owner(l[2]))
    <2>0. /\ l \in Links /\ l[1] \in Addr /\ l[2] \in Addr /\ Owner(l[1]) = n
          /\ Reaches(Owner(l[2]), l[1])
      BY <1>2, LinkFacts
    <2> DEFINE route == Append(r, l[1])
    <2>1. /\ route \in Seq(Addr) /\ Len(route) = Len(r) + 1 /\ route # <<>>
          /\ route[Len(r) + 1] = l[1] /\ \A i \in 1 .. Len(r) : route[i] = r[i]
      BY <1>0, <2>0
    <2>2. head(l) = Header(l[1], l[2], Dyed(last.head, flag), route)
      <3>1. Append(r, src) # <<>>
        BY <1>0, <1>1
      <3>0. r \in Seq(Addr) /\ l[1] \in Addr
        BY <1>0, <2>0
      <3> HIDE DEF src, r, last
      <3>2. [Append(r, src) EXCEPT ![Len(Append(r, src))] = l[1]] = route
        BY <3>0, LastIs
      <3> HIDE DEF route
      <3> QED
        BY <3>1, <3>2, Zenon DEF SetLastRoute, Header
    <2>3. Dyed(last.head, flag) \in BOOLEAN /\ Wants(n, flag) \in BOOLEAN
          /\ (Wants(n, flag) <=> Dyed(last.head, flag))
      BY LastType, Zenon DEF Dyed, Wants
    <2>4. /\ head(l) \in Heads /\ head(l).route = route
          /\ head(l).trace = Dyed(last.head, flag)
      <3> HIDE DEF route, last, head
      <3> DEFINE b == Dyed(last.head, flag)  h == Header(l[1], l[2], b, route)
      <3>1. head(l) = h /\ b \in BOOLEAN
        BY <2>2, <2>3, Zenon
      <3> HIDE DEF b
      <3>a. /\ l[1] \in Addr \cup {Default} /\ l[2] \in Addr \cup {Default}
            /\ route \in Seq(Addr) /\ b \in BOOLEAN
        BY <2>0, <2>1, <3>1, Zenon
      <3>2. h \in Heads /\ h.route = route /\ h.trace = b
        BY <3>a, HeadIs, Zenon
      <3> HIDE DEF h
      <3>3. head(l) \in Heads /\ head(l).route = route /\ head(l).trace = b
        BY <3>1, <3>2, Zenon
      <3> QED
        BY <3>3, Zenon DEF b
    <2>5. /\ Trip(o, k + 1) \in Trips
          /\ Trip(o, k + 1).origin # Nobody =>
                o # Nobody /\ Trip(o, k + 1).origin = o /\ Trip(o, k + 1).hops = k + 1
      <3>1. o \in Node \cup {Nobody} /\ k + 1 \in Int
        BY <1>0
      <3> HIDE DEF o, k
      <3> QED
        BY <3>1, TripIs
    <2>6. /\ msg(l) \in Msgs /\ msg(l).head = head(l) /\ msg(l).trip = Trip(o, k + 1)
          /\ msg(l).want = Wants(n, flag)
      <3> DEFINE h == head(l)  trip == Trip(o, k + 1)  w == Wants(n, flag)
      <3>1. h \in Heads /\ trip \in Trips /\ w \in BOOLEAN /\ msg(l) = Message(h, trip, w)
        BY <2>3, <2>4, <2>5, Zenon
      <3> HIDE DEF msg, h, trip, w
      <3>2. /\ Message(h, trip, w) \in Msgs /\ Message(h, trip, w).head = h
            /\ Message(h, trip, w).trip = trip /\ Message(h, trip, w).want = w
        BY <3>1, MessageIs, Zenon
      <3>3. msg(l) \in Msgs /\ msg(l).head = h /\ msg(l).trip = trip /\ msg(l).want = w
        BY <3>1, <3>2, Zenon
      <3> QED
        BY <3>3, Zenon DEF h, trip, w
    <2>7. Way(route, Trip(o, k + 1), Owner(l[2]))
      <3> SUFFICES ASSUME Trip(o, k + 1).origin # Nobody
                   PROVE  /\ Trip(o, k + 1).hops = Len(route)
                          /\ Owner(route[1]) = Trip(o, k + 1).origin
                          /\ Reaches(Owner(l[2]), route[Len(route)])
                          /\ \A i \in 1 .. Len(route) - 1 : Reaches(Owner(route[i + 1]), route[i])
        BY <2>1 DEF Way
      <3>1. /\ o # Nobody /\ Trip(o, k + 1).origin = o /\ Trip(o, k + 1).hops = k + 1
            /\ k = Len(r)
            /\ IF r = <<>> THEN n = o ELSE Owner(r[1]) = o /\ Reaches(n, r[Len(r)])
            /\ \A i \in 1 .. Len(r) - 1 : Reaches(Owner(r[i + 1]), r[i])
        BY <1>0, <2>5 DEF Way
      <3> HIDE DEF r, o, k, route, last
      <3>2. Owner(route[1]) = o
        <4>1. CASE r = <<>>
          BY <2>0, <2>1, <3>1, <4>1
        <4>2. CASE r # <<>>
          <5>1. Len(r) >= 1
            BY <1>0, <4>2, EmptySeq
          <5>2. route[1] = r[1]
            BY <1>0, <2>1, <5>1
          <5> QED
            BY <3>1, <4>2, <5>2
        <4> QED
          BY <4>1, <4>2
      <3>3. ASSUME NEW i \in 1 .. Len(route) - 1 PROVE Reaches(Owner(route[i + 1]), route[i])
        <4>1. CASE i = Len(r)
          <5>1. r # <<>> /\ route[i] = r[i] /\ route[i + 1] = l[1]
            BY <1>0, <2>1, <4>1
          <5> QED
            BY <2>0, <3>1, <4>1, <5>1
        <4>2. CASE i # Len(r)
          <5>1. i \in 1 .. Len(r) - 1 /\ i \in 1 .. Len(r) /\ i + 1 \in 1 .. Len(r)
            BY <1>0, <2>1, <4>2
          <5>2. route[i] = r[i] /\ route[i + 1] = r[i + 1]
            BY <2>1, <5>1
          <5> QED
            BY <3>1, <5>1, <5>2
        <4> QED
          BY <4>1, <4>2
      <3> QED
        BY <2>0, <2>1, <3>1, <3>2, <3>3
    <2> HIDE DEF msg, head, route
    <2> QED
      BY <2>3, <2>4, <2>6, <2>7 DEF Good
  <1>3. PICK make : make = [l \in Links |-> msg(l)]
    OBVIOUS
  <1>4. PushLoop(n, src, t.dst, make, Len(r) + 1)
    BY <1>1, <1>3 DEF Forward
  <1>5. \A l \in Range(Handle[n]) : Len(r) + 1 <= MaxRoute => Good(make[l], Owner(l[2]))
    BY <1>2, <1>3, LinkFacts
  <1>6. PICK x, m : x = src /\ m = Len(r) + 1
    OBVIOUS
  <1> HIDE DEF msg, src, r
  <1> QED
    BY <1>4, <1>5, <1>6, Pushed

\* tbus_backward
LEMMA BackwardKeeps ==
    ASSUME RouteConstants, IInv, NEW n \in Node, NEW t \in RelayTo, NEW flag,
           Backward(n, t.src, t.dst, flag)
    PROVE  IInv'
  <1> DEFINE last  == recv[n]
             r     == last.head.route
             o     == last.trip.origin
             k     == last.trip.hops
             left  == Len(r) - 1
             dst   == IF t.dst = Default THEN r[left + 1] ELSE t.dst
             trip  == IF t.dst = Default THEN Trip(o, k - 1) ELSE NoTrip
             route == SubSeq(r, 1, left)
             head(l) == Header(l[1], l[2], Dyed(last.head, flag), route)
             msg(l)  == Message(head(l), trip, Wants(n, flag))
  <1>0. /\ r \in Seq(Addr) /\ Len(r) \in 1 .. MaxRoute /\ Way(r, last.trip, n)
        /\ o \in Node \cup {Nobody} /\ k \in 0 .. MaxRoute /\ MaxRoute \in Nat
    BY RouteAssumption, LastType DEF Trips, Backward
  <1>1. /\ route \in Seq(Addr) /\ Len(route) = left /\ left \in Nat
        /\ \A i \in 1 .. left : route[i] = r[i]
    <2>1. left \in Int /\ \A i \in 1 .. left : r[i] \in Addr
      BY <1>0
    <2>2. /\ route \in Seq(Addr) /\ Len(route) = IF 1 <= left THEN left - 1 + 1 ELSE 0
          /\ \A i \in 1 .. left - 1 + 1 : route[i] = r[1 + i - 1]
      BY <2>1, SubSeqProperties
    <2> HIDE DEF route, r
    <2>3. left \in Nat /\ left - 1 + 1 = left /\ (\A i \in 1 .. left : 1 + i - 1 = i)
      BY <1>0
    <2> HIDE DEF left
    <2> QED
      BY <2>2, <2>3
  <1>2. ASSUME NEW l \in Range(Handle[n]), Matches(l, t.src, dst) PROVE Good(msg(l), Owner(l[2]))
    <2>0. l \in Links /\ l[1] \in Addr /\ l[2] \in Addr
      BY <1>2, LinkFacts
    <2>1. Dyed(last.head, flag) \in BOOLEAN /\ Wants(n, flag) \in BOOLEAN
          /\ (Wants(n, flag) <=> Dyed(last.head, flag))
      BY LastType, Zenon DEF Dyed, Wants
    <2>2. head(l) \in Heads /\ head(l).route = route /\ head(l).trace = Dyed(last.head, flag)
      <3> HIDE DEF route, last
      <3> DEFINE b == Dyed(last.head, flag)
      <3>1. /\ l[1] \in Addr \cup {Default} /\ l[2] \in Addr \cup {Default}
            /\ route \in Seq(Addr) /\ b \in BOOLEAN
        BY <1>1, <2>0, <2>1, Zenon
      <3> HIDE DEF b
      <3>2. /\ Header(l[1], l[2], b, route) \in Heads
            /\ Header(l[1], l[2], b, route).route = route
            /\ Header(l[1], l[2], b, route).trace = b
        BY <3>1, HeadIs, Zenon
      <3> QED
        BY <3>2, Zenon DEF b
    <2>3. /\ trip \in Trips
          /\ trip.origin # Nobody => /\ t.dst = Default /\ o # Nobody
                                     /\ trip.origin = o /\ trip.hops = k - 1
      <3>1. o \in Node \cup {Nobody} /\ k - 1 \in Int
        BY <1>0
      <3>2. NoTrip \in Trips /\ NoTrip.origin = Nobody
        BY RouteAssumption DEF NoTrip, Trips
      <3> HIDE DEF o, k
      <3>3. /\ Trip(o, k - 1) \in Trips
            /\ Trip(o, k - 1).origin # Nobody =>
                  o # Nobody /\ Trip(o, k - 1).origin = o /\ Trip(o, k - 1).hops = k - 1
        BY <3>1, TripIs
      <3> QED
        BY <3>2, <3>3
    <2>4. /\ msg(l) \in Msgs /\ msg(l).head = head(l) /\ msg(l).trip = trip
          /\ msg(l).want = Wants(n, flag)
      <3> DEFINE h == head(l)  w == Wants(n, flag)
      <3>1. h \in Heads /\ trip \in Trips /\ w \in BOOLEAN /\ msg(l) = Message(h, trip, w)
        BY <2>1, <2>2, <2>3, Zenon
      <3> HIDE DEF msg, h, trip, w
      <3>2. /\ Message(h, trip, w) \in Msgs /\ Message(h, trip, w).head = h
            /\ Message(h, trip, w).trip = trip /\ Message(h, trip, w).want = w
        BY <3>1, MessageIs, Zenon
      <3>3. msg(l) \in Msgs /\ msg(l).head = h /\ msg(l).trip = trip /\ msg(l).want = w
        BY <3>1, <3>2, Zenon
      <3> QED
        BY <3>3, Zenon DEF h, w
    <2>5. Way(route, trip, Owner(l[2]))
      <3> SUFFICES ASSUME trip.origin # Nobody
                   PROVE  /\ trip.hops = Len(route)
                          /\ IF route = <<>> THEN Owner(l[2]) = trip.origin
                             ELSE /\ Owner(route[1]) = trip.origin
                                  /\ Reaches(Owner(l[2]), route[Len(route)])
                          /\ \A i \in 1 .. Len(route) - 1 : Reaches(Owner(route[i + 1]), route[i])
        BY DEF Way
      <3>1. t.dst = Default /\ o # Nobody /\ trip.origin = o /\ trip.hops = k - 1
        BY <2>3
      <3>2. r # <<>>
        BY <1>0
      <3>3. /\ k = Len(r) /\ Owner(r[1]) = o
            /\ \A i \in 1 .. Len(r) - 1 : Reaches(Owner(r[i + 1]), r[i])
        BY <1>0, <3>1, <3>2 DEF Way
      <3>4. l[2] = r[Len(r)]
        <4>1. dst = r[Len(r)] /\ r[Len(r)] \in Addr
          BY <1>0, <3>1
        <4> HIDE DEF dst
        <4>2. dst \notin {Default, All}
          BY <4>1, RouteAssumption
        <4>3. dst \in {Default, All, l[2]}
          BY <1>2 DEF Matches
        <4> QED
          BY <4>1, <4>2, <4>3
      <3> HIDE DEF r, o, k, route, last, trip
      <3>5. CASE left = 0
        <4>1. Len(r) = 1 /\ route = <<>> /\ k = 1
          BY <1>0, <1>1, <3>3, <3>5, EmptySeq
        <4> QED
          BY <3>1, <3>3, <3>4, <4>1, <1>1, <3>5
      <3>6. CASE left # 0
        <4>1. /\ route # <<>> /\ left \in 1 .. left /\ 1 \in 1 .. left
              /\ left \in 1 .. Len(r) - 1 /\ left + 1 = Len(r)
          BY <1>0, <1>1, <3>6
        <4>2. route[1] = r[1] /\ route[Len(route)] = r[left]
          BY <1>1, <4>1
        <4>3. Reaches(Owner(l[2]), r[left])
          BY <3>3, <3>4, <4>1
        <4>4. ASSUME NEW i \in 1 .. Len(route) - 1 PROVE Reaches(Owner(route[i + 1]), route[i])
          <5>1. i \in 1 .. Len(r) - 1 /\ i \in 1 .. left /\ i + 1 \in 1 .. left
            BY <1>0, <1>1
          <5> QED
            BY <1>1, <3>3, <5>1
        <4>5. trip.hops = Len(route)
          BY <1>0, <1>1, <3>1, <3>3
        <4> QED
          BY <3>1, <3>3, <4>1, <4>2, <4>3, <4>4, <4>5
      <3> QED
        BY <3>5, <3>6
    <2> HIDE DEF msg, head, route, trip
    <2> QED
      BY <2>1, <2>2, <2>4, <2>5 DEF Good
  <1>3. PICK make : make = [l \in Links |-> msg(l)]
    OBVIOUS
  <1>4. PushLoop(n, t.src, dst, make, left)
    BY <1>3 DEF Backward
  <1>5. \A l \in Range(Handle[n]) : Matches(l, t.src, dst) => Good(make[l], Owner(l[2]))
    BY <1>2, <1>3, LinkFacts
  <1>6. PICK x, m : x = dst /\ m = left
    OBVIOUS
  <1> HIDE DEF msg, dst, left
  <1> QED
    BY <1>4, <1>5, <1>6, Pushed
-----------------------------------------------------------------------------
\* What a receive leaves in the handle is the way back from here.
LEMMA ArrivedIs ==
    ASSUME RouteConstants, IInv, NEW n \in Node, NEW l \in Links, HasMsg(n, l), NEW flag
    PROVE  /\ Arrived(l, flag) \in Last
           /\ Way(Arrived(l, flag).head.route, Arrived(l, flag).trip, n)
  <1> DEFINE m == Head(queue[l])  h == [m.head EXCEPT !.trace = @ \/ flag = "start"]
  <1>1. queue[l] \in Seq(Msgs) /\ queue[l] # <<>> /\ Owner(l[2]) = n
    <2>1. Owner(<<l[2], l[1]>>[1]) = n
      BY LinkFacts DEF HasMsg
    <2> QED
      BY <2>1 DEF IInv, QueueInv, HasMsg
  <1>2. m = queue[l][1] /\ 1 \in 1 .. Len(queue[l])
    BY <1>1
  <1>3. Good(m, n)
    BY <1>1, <1>2 DEF IInv, QueueInv
  <1> HIDE DEF m
  <1>4. m.head \in Heads /\ m.trip \in Trips /\ Way(m.head.route, m.trip, n)
    BY <1>3 DEF Good, Msgs
  <1>5. h \in Heads /\ h.route = m.head.route
    BY <1>4, Zenon DEF Heads
  <1>6. Arrived(l, flag) = [head |-> h, trip |-> m.trip]
    BY Zenon DEF Arrived, m
  <1> HIDE DEF h
  <1>7. /\ Arrived(l, flag) \in Last /\ Arrived(l, flag).head = h
        /\ Arrived(l, flag).trip = m.trip
    BY <1>4, <1>5, <1>6 DEF Last
  <1> QED
    BY <1>4, <1>5, <1>7

\* The channels lose their oldest message, or none.
LEMMA TakenOut ==
    ASSUME IInv, NEW l \in Links, queue[l] # <<>>, queue' = [queue EXCEPT ![l] = Tail(@)]
    PROVE  QueueInv'
  <1> SUFFICES ASSUME NEW k \in Links
               PROVE  /\ queue'[k] \in Seq(Msgs) /\ Len(queue'[k]) <= MaxQueue
                      /\ \A i \in 1 .. Len(queue'[k]) : Good(queue'[k][i], Owner(k[2]))
    <2>1. queue \in [Links -> Seq(Msgs)]
      BY DEF IInv, QueueInv
    <2> QED
      BY <2>1 DEF QueueInv
  <1>1. /\ queue \in [Links -> Seq(Msgs)] /\ MaxQueue \in Nat
        /\ queue[k] \in Seq(Msgs) /\ Len(queue[k]) <= MaxQueue
        /\ \A i \in 1 .. Len(queue[k]) : Good(queue[k][i], Owner(k[2]))
    BY RouteAssumption DEF IInv, QueueInv
  <1>2. CASE k = l
    <2>1. /\ queue'[k] \in Seq(Msgs) /\ Len(queue'[k]) = Len(queue[k]) - 1
          /\ \A i \in 1 .. Len(queue'[k]) : queue'[k][i] = queue[k][i + 1]
      BY <1>1, <1>2, HeadTailProperties
    <2>2. \A i \in 1 .. Len(queue'[k]) : i + 1 \in 1 .. Len(queue[k])
      BY <1>1, <2>1
    <2> QED
      BY <1>1, <2>1, <2>2
  <1>3. CASE k # l
    BY <1>1, <1>3
  <1> QED
    BY <1>2, <1>3

\* A handle comes to hold something that is the way back from its process.
LEMMA Held ==
    ASSUME IInv, NEW n \in Node, NEW v \in Last, Way(v.head.route, v.trip, n)
    PROVE  /\ recv' = [recv EXCEPT ![n] = v] /\ UNCHANGED saved => LastInv'
           /\ saved' = [saved EXCEPT ![n] = v] /\ UNCHANGED recv => LastInv'
  BY DEF IInv, LastInv

\* Every step keeps the invariant.
LEMMA StepIInv == ASSUME RouteConstants PROVE IInv /\ [Next]_vars => IInv'
  <1> SUFFICES ASSUME IInv, [Next]_vars PROVE IInv'
    OBVIOUS
  <1>0. UNCHANGED queue => QueueInv'
    BY DEF IInv, QueueInv
  <1>1. CASE UNCHANGED vars
    BY <1>0, <1>1 DEF vars, IInv, LastInv
  <1>2. ASSUME NEW n \in Node, NEW t \in SendTo, NEW f \in SendFlags, Send(n, t.src, t.dst, f)
        PROVE  IInv'
    BY <1>2, SendKeeps
  <1>3. ASSUME NEW n \in Node, NEW t \in RelayTo, NEW f \in RelayFlags,
               Forward(n, t.src, t.dst, f) \/ Backward(n, t.src, t.dst, f)
        PROVE  IInv'
    BY <1>3, ForwardKeeps, BackwardKeeps
  <1>4. ASSUME NEW n \in Node, NEW l \in Links, NEW f, HasMsg(n, l),
               recv' = [recv EXCEPT ![n] = Arrived(l, f)], UNCHANGED saved
        PROVE  LastInv'
    <2>1. PICK v : v = Arrived(l, f)
      OBVIOUS
    <2> QED
      BY <1>4, <2>1, ArrivedIs, Held
  <1>5. ASSUME NEW n \in Node, NEW l \in Links, NEW f \in RecvFlags[n],
               Receive(n, l, f) \/ Peek(n, l, f)
        PROVE  IInv'
    <2>1. HasMsg(n, l) /\ LastInv'
      BY <1>4, <1>5 DEF Receive, Peek
    <2>2. QueueInv'
      BY <1>0, <1>5, TakenOut DEF Receive, Peek, HasMsg
    <2> QED
      BY <2>1, <2>2 DEF IInv
  <1>6. ASSUME NEW n \in Node, NEW l \in Links, ReceiveLimited(n, l) \/ DeleteMsg(n, l)
        PROVE  IInv'
    <2>1. LastInv'
      <3>1. CASE ReceiveLimited(n, l)
        BY <1>4, <3>1 DEF ReceiveLimited
      <3>2. CASE DeleteMsg(n, l)
        BY <3>2 DEF DeleteMsg, IInv, LastInv
      <3> QED
        BY <1>6, <3>1, <3>2
    <2>2. QueueInv'
      BY <1>0, <1>6, TakenOut DEF ReceiveLimited, DeleteMsg, HasMsg
    <2> QED
      BY <2>1, <2>2 DEF IInv
  <1>7. ASSUME NEW n \in Node, SaveHeader(n) \/ RestoreHeader(n) PROVE IInv'
    <2>1. /\ recv[n] \in Last /\ Way(recv[n].head.route, recv[n].trip, n)
          /\ saved[n] \in Last /\ Way(saved[n].head.route, saved[n].trip, n)
      BY DEF IInv, LastInv
    <2>2. PICK v, w : v = recv[n] /\ w = saved[n]
      OBVIOUS
    <2>3. LastInv'
      BY <1>7, <2>1, <2>2, Held DEF SaveHeader, RestoreHeader
    <2> QED
      BY <1>0, <1>7, <2>3 DEF SaveHeader, RestoreHeader, IInv
  <1>8. ASSUME NEW n \in Node, NEW r \in SetRoutes[n], SetPkgRoute(n, r) PROVE IInv'
    <2>1. PICK v : v = [recv[n] EXCEPT !.head.route = r, !.trip = NoTrip]
      OBVIOUS
    <2>2. recv' = [recv EXCEPT ![n] = v] /\ UNCHANGED <<queue, saved>>
      BY <1>8, <2>1 DEF SetPkgRoute, IInv, LastInv
    <2>3. NoTrip \in Trips /\ NoTrip.origin = Nobody
      BY RouteAssumption DEF NoTrip, Trips
    <2>4. v \in Last /\ v.trip = NoTrip
      <3>1. r \in Seq(Addr) /\ recv[n] \in Last /\ recv[n].head \in Heads
        BY <1>8, RouteAssumption, LastType
      <3>2. [recv[n].head EXCEPT !.route = r] \in Heads
        BY <3>1, Zenon DEF Heads
      <3>3. v = [head |-> [recv[n].head EXCEPT !.route = r], trip |-> NoTrip]
        BY <2>1, <3>1, Zenon DEF Last
      <3> QED
        BY <2>3, <3>2, <3>3, Zenon DEF Last
    <2>5. LastInv'
      BY <2>2, <2>3, <2>4, Held DEF Way
    <2> QED
      BY <1>0, <2>2, <2>5 DEF IInv
  <1> QED
    BY <1>1, <1>2, <1>3, <1>5, <1>6, <1>7, <1>8 DEF Next

LEMMA InitIInv == RouteConstants /\ Init => IInv
  <1> SUFFICES ASSUME RouteConstants, Init PROVE IInv
    OBVIOUS
  <1>1. NoTrip \in Trips /\ NoTrip.origin = Nobody
    BY RouteAssumption DEF NoTrip, Trips
  <1>2. ZeroHead \in Heads
    <2>1. <<>> \in Seq(Addr) /\ Default \in Addr \cup {Default}
      BY EmptySeq
    <2> QED
      BY <2>1, HeadIs DEF ZeroHead
  <1>3. [head |-> ZeroHead, trip |-> NoTrip] \in Last
    BY <1>1, <1>2 DEF Last
  <1>4. LastInv
    BY <1>1, <1>3 DEF Init, LastInv, Way
  <1>5. <<>> \in Seq(Msgs) /\ Len(<<>>) = 0
    BY EmptySeq
  <1>6. QueueInv
    BY <1>5, RouteAssumption DEF Init, QueueInv
  <1> QED
    BY <1>4, <1>6 DEF IInv

LEMMA Invariance == ASSUME RouteConstants PROVE Spec => []IInv
  <1>1. Init => IInv
    BY InitIInv
  <1>2. IInv /\ [Next]_vars => IInv'
    BY StepIInv
  <1> QED
    BY <1>1, <1>2, PTL DEF Spec

\* What is in flight is good for where it goes.
LEMMA InFlightIs ==
    ASSUME IInv, NEW t \in InFlight
    PROVE  t.link \in Links /\ Good(t.msg, Owner(t.link[2]))
  <1>1. PICK l \in Links : \E i \in DOMAIN queue[l] : t = [msg |-> queue[l][i], link |-> l]
    BY DEF InFlight
  <1>2. PICK i \in DOMAIN queue[l] : t = [msg |-> queue[l][i], link |-> l]
    BY <1>1
  <1>3. i \in 1 .. Len(queue[l])
    BY <1>2 DEF IInv, QueueInv
  <1>4. Good(queue[l][i], Owner(l[2])) /\ t.msg = queue[l][i] /\ t.link = l
    BY <1>2, <1>3 DEF IInv, QueueInv
  <1> QED
    BY <1>4

\* What the invariant shows.
LEMMA ShowsType == IInv => TypeOK
  <1> SUFFICES ASSUME IInv PROVE TypeOK
    OBVIOUS
  <1>1. DOMAIN queue = Links /\ \A l \in Links : Len(queue[l]) <= MaxQueue
    BY DEF IInv, QueueInv
  <1>2. ASSUME NEW t \in InFlight PROVE t.msg.head \in Heads /\ t.msg.trip.hops \in 0 .. MaxRoute
    <2>1. t.msg \in Msgs
      BY InFlightIs DEF Good
    <2> QED
      BY <2>1 DEF Msgs, Trips
  <1>3. \A n \in Node : recv[n].head \in Heads /\ saved[n].head \in Heads
    BY DEF IInv, LastInv, Last
  <1> QED
    BY <1>1, <1>2, <1>3 DEF TypeOK

LEMMA ShowsHome == IInv => ComesHome
  <1> SUFFICES ASSUME IInv, NEW t \in InFlight, t.msg.trip.hops = 0, t.msg.trip # NoTrip
               PROVE  Owner(t.link[2]) = t.msg.trip.origin
    BY DEF ComesHome
  <1>1. /\ t.msg \in Msgs
        /\ Way(t.msg.head.route, t.msg.trip, Owner(t.link[2]))
    BY InFlightIs DEF Good
  <1> DEFINE trip == t.msg.trip  route == t.msg.head.route
  <1>2. trip \in Trips /\ route \in Seq(Addr)
    BY <1>1 DEF Msgs, Heads
  <1>3. trip.origin # Nobody
    <2>1. trip = [origin |-> trip.origin, hops |-> 0]
      BY <1>2 DEF Trips
    <2> QED
      BY <2>1 DEF NoTrip
  <1>4. route = <<>>
    BY <1>1, <1>2, <1>3, EmptySeq DEF Way
  <1> QED
    BY <1>1, <1>3, <1>4 DEF Way

LEMMA ShowsWay == ASSUME RouteConstants PROVE IInv => Answerable
  <1> SUFFICES ASSUME IInv, NEW n \in Node, recv[n].trip.hops > 0
               PROVE  LET route == recv[n].head.route
                      IN  route # <<>> /\ Tried(n, Default, route[Len(route)]) # {}
    BY DEF Answerable
  <1> DEFINE route == recv[n].head.route  peer == route[Len(route)]
             match == {k \in DOMAIN Handle[n] : Matches(Handle[n][k], Default, peer)}
  <1>1. /\ recv[n].trip.origin # Nobody /\ recv[n].trip.hops \in Nat
        /\ route \in Seq(Addr) /\ Way(route, recv[n].trip, n)
    BY RouteAssumption, LastType DEF Trips
  <1>2. Len(route) > 0 /\ route # <<>>
    BY <1>1 DEF Way
  <1>3. peer \in Addr /\ Reaches(n, peer)
    BY <1>1, <1>2 DEF Way
  <1>4. PICK k \in DOMAIN Handle[n] : Handle[n][k][2] = peer
    BY <1>3 DEF Reaches, Range
  <1>5. k \in match /\ match \in SUBSET Nat
    <2>1. DOMAIN Handle[n] \in SUBSET Nat
      <3>1. Handle[n] \in Seq(Addr \X Addr)
        BY DEF RouteConstants
      <3> QED
        BY <3>1, LenProperties
    <2> QED
      BY <1>4, <2>1 DEF Matches
  <1>6. \E i \in match : \A j \in match : i <= j
    BY <1>5, Smallest
  <1>7. All \notin {Default, peer}
    BY <1>3, RouteAssumption
  <1> HIDE DEF peer, route
  <1>8. Tried(n, Default, peer) # {}
    BY <1>6, <1>7 DEF Tried
  <1> QED
    BY <1>2, <1>8 DEF route, peer

LEMMA ShowsDye == IInv /\ SendFlags \subseteq {"none"} => DyeKept
  BY InFlightIs DEF DyeKept, Good
-----------------------------------------------------------------------------
\* The queues, headers and routes keep their types: no header in a channel has more
\* entries than tbus_head can pack.
THEOREM RouteTypeCorrect == ASSUME RouteConstants PROVE Spec => []TypeOK
  BY Invariance, ShowsType, PTL

\* tbus_forward and tbus_backward: in any network an answer passed back as often as the
\* request was passed on arrives at the process that sent the request.
THEOREM AnswerComesHome == ASSUME RouteConstants PROVE Spec => []ComesHome
  BY Invariance, ShowsHome, PTL

\* At every process on the way there is a channel for the next step back.
THEOREM AnswerHasAWay == ASSUME RouteConstants PROVE Spec => []Answerable
  <1>1. IInv => Answerable
    BY ShowsWay
  <1> QED
    BY <1>1, Invariance, PTL

\* tbus_dye_pkg: the dye a forwarding or answering process asked for is on the message,
\* if the messages are not dyed by tbus_send, which loses the flag.
THEOREM DyeStays ==
    ASSUME RouteConstants, SendFlags \subseteq {"none"} PROVE Spec => []DyeKept
  <1>1. IInv => DyeKept
    BY ShowsDye
  <1> QED
    BY <1>1, Invariance, PTL
=============================================================================
