--------------------------- MODULE TconndConnProofs ---------------------------
(***************************************************************************)
(* Proofs about TconndConn: for any clients, capacities and limits, the    *)
(* wait queue links the waiting connections in the order they came,        *)
(* admission follows that order and keeps the limit, stConnInfo counts the *)
(* connections of every stage, and no frame reaches the successor of the   *)
(* client it was sent for.                                                 *)
(***************************************************************************)
EXTENDS TconndConn, FiniteSetTheorems, TLAPS

\* The value of a pool of a capacity: the blocks that are not in use are free, each
\* once; the handle of a block in use names its position.
PoolOK(pl, cap) ==
    /\ pl \in [free : Seq(0 .. cap - 1), last : [0 .. cap - 1 -> 0 .. Endless],
               valid : SUBSET (0 .. cap - 1)]
    /\ \A p : p \in 0 .. cap - 1 /\ p \notin pl.valid <=> \E k \in 1 .. Len(pl.free) : pl.free[k] = p
    /\ \A j, k \in 1 .. Len(pl.free) : pl.free[j] = pl.free[k] => j = k
    /\ \A p \in pl.valid : pl.last[p] % cap = p

PlayerRecord == [who : Client \cup {Nobody}, idx : Idxs]

InfoRecord == [total : Int, idle : Int, wait : Int, active : Int]

\* The types, by the parts of the state, with the two pools and what a waiting
\* connection is.
ClientInv ==
    /\ client \in [Client -> [at : {"out", "on", "closed"}, data : Nat]]
    /\ \A c \in Client : client[c].data <= Chat[c]

ConnInv ==
    /\ conn \in [Slot -> ConnRecord]
    /\ \A p \in Slot : /\ conn[p].inq => conn[p].stage = "pass"
                       /\ conn[p].stage = "pass" => conn[p].who # Nobody

PoolInv == PoolOK(pool, Cap) /\ 0 \in pool.valid

SeatInv == PoolOK(seats, PlayerCap) /\ player \in [Seat -> PlayerRecord]

NumberInv ==
    /\ qHead \in Idxs /\ qTail \in Idxs /\ tokenAlloc \in Nat
    /\ permit \in Permit \div 2 .. Permit /\ left \in 0 .. Permit
    /\ info \in InfoRecord /\ released \in Int

WireInv ==
    /\ up \in Seq(Frames) /\ Len(up) <= ChanCap
    /\ down \in Seq(Frames) /\ Len(down) <= ChanCap

ShapeInv == ClientInv /\ ConnInv /\ PoolInv /\ SeatInv /\ NumberInv /\ WireInv
-----------------------------------------------------------------------------
(***************************************************************************)
(* Numbers and handles                                                     *)
(***************************************************************************)

LEMMA Products ==
    ASSUME NEW a \in Nat \ {0}, NEW b \in Nat \ {0}
    PROVE  a * b \in Nat \ {0} /\ a * b >= a /\ a * b >= b
  <1>1. PICK c \in Nat : b = 1 + c
    <2>1. b - 1 \in Nat /\ b = 1 + (b - 1)
      OBVIOUS
    <2> QED
      BY <2>1
  <1>2. PICK d \in Nat : a = 1 + d
    <2>1. a - 1 \in Nat /\ a = 1 + (a - 1)
      OBVIOUS
    <2> QED
      BY <2>1
  <1>3. a * c \in Nat /\ d * b \in Nat
    BY <1>1, <1>2
  <1>4. a * b = a + a * c
    BY <1>1, <1>3
  <1>5. a * b = b + d * b
    BY <1>2, <1>3
  <1> QED
    BY <1>3, <1>4, <1>5

LEMMA Limits ==
    /\ Cap \in Nat /\ Cap > 1 /\ PlayerCap \in Nat /\ PlayerCap > 0
    /\ BufPkgs \in Nat /\ BufPkgs > 0 /\ ChanCap \in Nat /\ Permit \in Nat /\ Permit > 1
    /\ Speed \in Nat /\ Speed > 0 /\ Chat \in [Client -> Nat] /\ Nobody \notin Client
    /\ Endless \in Nat /\ Endless >= Cap - 1 /\ Endless >= PlayerCap - 1
  <1> DEFINE n == Cardinality(Client) + MaxReserve + 1
  <1>1. Cardinality(Client) \in Nat
    BY TconndAssumption, FS_CardinalityType
  <1>2. /\ Cap \in Nat /\ Cap > 1 /\ PlayerCap \in Nat /\ PlayerCap > 0
        /\ BufPkgs \in Nat /\ BufPkgs > 0 /\ ChanCap \in Nat /\ Permit \in Nat /\ Permit > 1
        /\ Speed \in Nat /\ Speed > 0 /\ Chat \in [Client -> Nat] /\ Nobody \notin Client
        /\ MaxReserve \in Nat
    BY TconndAssumption
  <1>3. n \in Nat \ {0}
    BY <1>1, <1>2
  <1> HIDE DEF n
  <1>4. /\ Cap * PlayerCap \in Nat \ {0} /\ Cap * PlayerCap >= Cap
        /\ Cap * PlayerCap >= PlayerCap
    BY <1>2, Products
  <1>5. (Cap * PlayerCap) * n \in Nat /\ (Cap * PlayerCap) * n >= Cap * PlayerCap
    BY <1>3, <1>4, Products
  <1>6. Endless = (Cap * PlayerCap) * n
    BY DEF Endless, n
  <1> QED
    BY <1>2, <1>4, <1>5, <1>6

\* A multiple of n and a rest.
LEMMA Rest ==
    ASSUME NEW n \in Nat \ {0}, NEW k \in Nat, NEW q \in 0 .. n - 1
    PROVE  (k * n + q) % n = q
  <1> DEFINE a == k * n + q
             d == a \div n
             m == a % n
  <1>1. a \in Nat
    BY Products
  <1>2. d \in Int /\ m \in 0 .. n - 1 /\ a = n * d + m
    BY <1>1
  <1>3. k * n + q = d * n + m
    BY <1>2
  <1> HIDE DEF d, m
  <1>4. CASE k > d
    <2>1. k - d \in Nat \ {0}
      BY <1>2, <1>4
    <2>2. (k - d) * n >= n
      BY <2>1, Products
    <2>3. (k - d) * n = k * n - d * n
      BY <1>2
    <2> QED
      BY <1>2, <1>3, <2>2, <2>3
  <1>5. CASE k < d
    <2>1. d - k \in Nat \ {0}
      BY <1>2, <1>5
    <2>2. (d - k) * n >= n
      BY <2>1, Products
    <2>3. (d - k) * n = d * n - k * n
      BY <1>2
    <2> QED
      BY <1>2, <1>3, <2>2, <2>3
  <1>6. CASE k = d
    BY <1>2, <1>3, <1>6 DEF m
  <1> QED
    BY <1>2, <1>4, <1>5, <1>6

\* The handle a block gets names its position (tmempool_alloc).
HandleOf(cap, max, p, last) ==
    LET next == (last \div cap) * cap + cap + p
    IN  IF last = 0 \/ next > max THEN p ELSE next

LEMMA Handle ==
    ASSUME NEW cap \in Nat \ {0}, NEW max \in Nat, max >= cap - 1,
           NEW p \in 0 .. cap - 1, NEW last \in 0 .. max
    PROVE  HandleOf(cap, max, p, last) \in 0 .. max /\ HandleOf(cap, max, p, last) % cap = p
  <1> DEFINE k == last \div cap
             next == k * cap + cap + p
  <1>1. k \in Nat
    OBVIOUS
  <1> HIDE DEF k
  <1>2. next = (k + 1) * cap + p /\ k + 1 \in Nat
    BY <1>1
  <1>3. next \in Nat
    BY <1>1, Products
  <1>4. next % cap = p
    BY <1>2, Rest
  <1>5. p % cap = p
    OBVIOUS
  <1> HIDE DEF next
  <1> QED
    BY <1>3, <1>4, <1>5 DEF HandleOf, next, k

LEMMA Handles ==
    ASSUME NEW last \in 0 .. Endless
    PROVE  /\ \A p \in 0 .. Cap - 1 :
                  Conns!NextIdx(p, last) \in 0 .. Endless /\ Conns!NextIdx(p, last) % Cap = p
           /\ \A p \in 0 .. PlayerCap - 1 :
                  Players!NextIdx(p, last) \in 0 .. Endless /\ Players!NextIdx(p, last) % PlayerCap = p
  <1>1. /\ Cap \in Nat \ {0} /\ PlayerCap \in Nat \ {0} /\ Endless \in Nat
        /\ Endless >= Cap - 1 /\ Endless >= PlayerCap - 1
    BY Limits
  <1>2. ASSUME NEW p \in 0 .. Cap - 1
        PROVE  Conns!NextIdx(p, last) \in 0 .. Endless /\ Conns!NextIdx(p, last) % Cap = p
    <2>1. Conns!NextIdx(p, last) = HandleOf(Cap, Endless, p, last)
      BY DEF Conns!NextIdx, HandleOf
    <2> QED
      BY <1>1, <2>1, Handle
  <1>3. ASSUME NEW p \in 0 .. PlayerCap - 1
        PROVE  Players!NextIdx(p, last) \in 0 .. Endless /\ Players!NextIdx(p, last) % PlayerCap = p
    <2>1. Players!NextIdx(p, last) = HandleOf(PlayerCap, Endless, p, last)
      BY DEF Players!NextIdx, HandleOf
    <2> QED
      BY <1>1, <2>1, Handle
  <1> QED
    BY <1>2, <1>3
-----------------------------------------------------------------------------
(***************************************************************************)
(* Pools                                                                   *)
(***************************************************************************)

\* What Tail and Append do.
LEMMA Tails ==
    ASSUME NEW S, NEW s \in Seq(S), s # <<>>
    PROVE  /\ Len(s) \in Nat /\ Len(s) >= 1 /\ Head(s) = s[1] /\ Head(s) \in S
           /\ Tail(s) \in Seq(S) /\ Len(Tail(s)) = Len(s) - 1
           /\ \A k \in 1 .. Len(s) - 1 : Tail(s)[k] = s[k + 1]
  OBVIOUS

LEMMA Appends ==
    ASSUME NEW S, NEW s \in Seq(S), NEW x \in S
    PROVE  /\ Len(s) \in Nat /\ Append(s, x) \in Seq(S) /\ Len(Append(s, x)) = Len(s) + 1
           /\ \A k \in 1 .. Len(s) + 1 :
                 Append(s, x)[k] = IF k = Len(s) + 1 THEN x ELSE s[k]
  OBVIOUS

\* A block is taken ...
LEMMA Taken ==
    ASSUME NEW cap \in Nat \ {0}, NEW pl, PoolOK(pl, cap), pl.free # <<>>,
           NEW h \in 0 .. Endless, h % cap = Head(pl.free)
    PROVE  LET p  == Head(pl.free)
               pk == [free |-> Tail(pl.free), last |-> [pl.last EXCEPT ![p] = h],
                      valid |-> pl.valid \cup {p}]
           IN  PoolOK(pk, cap) /\ p \in 0 .. cap - 1 /\ p \notin pl.valid
  <1> DEFINE p  == Head(pl.free)
             pk == [free |-> Tail(pl.free), last |-> [pl.last EXCEPT ![p] = h],
                    valid |-> pl.valid \cup {p}]
  <1>1. /\ pl.free \in Seq(0 .. cap - 1) /\ pl.last \in [0 .. cap - 1 -> 0 .. Endless]
        /\ pl.valid \subseteq 0 .. cap - 1
    BY DEF PoolOK
  <1>2. p \in 0 .. cap - 1 /\ p = pl.free[1] /\ Len(pl.free) \in Nat /\ Len(pl.free) >= 1
    BY <1>1, Tails
  <1>3. p \notin pl.valid
    BY <1>2 DEF PoolOK
  <1>4. /\ Tail(pl.free) \in Seq(0 .. cap - 1) /\ Len(Tail(pl.free)) = Len(pl.free) - 1
        /\ \A k \in 1 .. Len(pl.free) - 1 : Tail(pl.free)[k] = pl.free[k + 1]
    BY <1>1, Tails
  <1>5. /\ pk.free = Tail(pl.free) /\ pk.last = [pl.last EXCEPT ![p] = h]
        /\ pk.valid = pl.valid \cup {p}
    OBVIOUS
  <1>6. pk \in [free : Seq(0 .. cap - 1), last : [0 .. cap - 1 -> 0 .. Endless],
                valid : SUBSET (0 .. cap - 1)]
    BY <1>1, <1>2, <1>4
  <1> HIDE DEF p, pk
  <1>7. ASSUME NEW q, q \in 0 .. cap - 1, q \notin pk.valid
        PROVE  \E k \in 1 .. Len(pk.free) : pk.free[k] = q
    <2>1. PICK k \in 1 .. Len(pl.free) : pl.free[k] = q
      BY <1>5, <1>7 DEF PoolOK
    <2>2. k - 1 \in 1 .. Len(pk.free) /\ pk.free[k - 1] = q
      BY <1>2, <1>4, <1>5, <1>7, <2>1
    <2> QED
      BY <2>2
  <1>8. ASSUME NEW q, NEW k \in 1 .. Len(pk.free), pk.free[k] = q
        PROVE  q \in 0 .. cap - 1 /\ q \notin pk.valid
    <2>1. k + 1 \in 1 .. Len(pl.free) /\ pl.free[k + 1] = q /\ k + 1 # 1 /\ 1 \in 1 .. Len(pl.free)
      BY <1>2, <1>4, <1>5, <1>8
    <2>2. q \in 0 .. cap - 1 /\ q \notin pl.valid
      BY <2>1 DEF PoolOK
    <2>3. q # p
      BY <1>2, <2>1 DEF PoolOK
    <2> QED
      BY <1>5, <2>2, <2>3
  <1>9. ASSUME NEW j \in 1 .. Len(pk.free), NEW k \in 1 .. Len(pk.free), pk.free[j] = pk.free[k]
        PROVE  j = k
    <2>1. /\ j + 1 \in 1 .. Len(pl.free) /\ k + 1 \in 1 .. Len(pl.free)
          /\ pl.free[j + 1] = pl.free[k + 1]
      BY <1>2, <1>4, <1>5, <1>9
    <2>2. j + 1 = k + 1
      BY <2>1 DEF PoolOK
    <2> QED
      BY <1>2, <1>4, <1>5, <2>2
  <1>10. ASSUME NEW q \in pk.valid PROVE pk.last[q] % cap = q
    <2>1. CASE q = p
      BY <1>1, <1>2, <1>5, <2>1 DEF p
    <2>2. CASE q # p
      BY <1>1, <1>5, <1>10, <2>2 DEF PoolOK
    <2> QED
      BY <2>1, <2>2
  <1>11. PoolOK(pk, cap)
    BY <1>6, <1>7, <1>8, <1>9, <1>10 DEF PoolOK
  <1> QED
    BY <1>2, <1>3, <1>11 DEF p, pk

\* ... and given back.
LEMMA Given ==
    ASSUME NEW cap \in Nat \ {0}, NEW pl, PoolOK(pl, cap), NEW p \in pl.valid,
           NEW pk, pk = [pl EXCEPT !.free = Append(@, p), !.valid = @ \ {p}]
    PROVE  PoolOK(pk, cap)
  <1>1. /\ pl \in [free : Seq(0 .. cap - 1), last : [0 .. cap - 1 -> 0 .. Endless],
                   valid : SUBSET (0 .. cap - 1)]
        /\ pl.free \in Seq(0 .. cap - 1) /\ pl.last \in [0 .. cap - 1 -> 0 .. Endless]
        /\ pl.valid \subseteq 0 .. cap - 1 /\ p \in 0 .. cap - 1 /\ Len(pl.free) \in Nat
    BY DEF PoolOK
  <1>2. pk.free = Append(pl.free, p) /\ pk.last = pl.last /\ pk.valid = pl.valid \ {p}
    BY <1>1
  <1>3. pk \in [free : Seq(0 .. cap - 1), last : [0 .. cap - 1 -> 0 .. Endless],
                valid : SUBSET (0 .. cap - 1)]
    <2>1. Append(pl.free, p) \in Seq(0 .. cap - 1) /\ pl.valid \ {p} \in SUBSET (0 .. cap - 1)
      BY <1>1, Appends
    <2> QED
      BY <1>1, <2>1
  <1>4. /\ Len(pk.free) = Len(pl.free) + 1
        /\ \A k \in 1 .. Len(pl.free) + 1 :
              pk.free[k] = IF k = Len(pl.free) + 1 THEN p ELSE pl.free[k]
    BY <1>1, <1>2, Appends
  <1> DEFINE n == Len(pl.free)
             f == pl.free
             g == pk.free
  <1>12. /\ n \in Nat /\ Len(g) = n + 1
        /\ \A k \in 1 .. n + 1 : g[k] = IF k = n + 1 THEN p ELSE f[k]
    BY <1>1, <1>4
  <1> HIDE DEF n, f, g
  <1>5. ASSUME NEW q, q \in 0 .. cap - 1, q \notin pk.valid
        PROVE  \E k \in 1 .. Len(g) : g[k] = q
    <2>1. CASE q = p
      <3>1. n + 1 \in 1 .. Len(g) /\ g[n + 1] = q
        BY <1>12, <2>1
      <3> QED
        BY <3>1
    <2>2. CASE q # p
      <3>1. PICK k \in 1 .. n : f[k] = q
        BY <1>2, <1>5, <2>2 DEF PoolOK, n, f
      <3>2. k \in 1 .. Len(g) /\ g[k] = q
        BY <1>12, <3>1
      <3> QED
        BY <3>2
    <2> QED
      BY <2>1, <2>2
  <1>6. ASSUME NEW k \in 1 .. n
        PROVE  f[k] \in 0 .. cap - 1 /\ f[k] \notin pl.valid
    BY DEF PoolOK, n, f
  <1>7. ASSUME NEW q, NEW k \in 1 .. Len(g), g[k] = q
        PROVE  q \in 0 .. cap - 1 /\ q \notin pk.valid
    <2>1. CASE k = n + 1
      BY <1>1, <1>2, <1>12, <1>7, <2>1
    <2>2. CASE k # n + 1
      <3>1. k \in 1 .. n /\ f[k] = q
        BY <1>12, <1>7, <2>2
      <3> QED
        BY <1>2, <1>6, <3>1
    <2> QED
      BY <2>1, <2>2
  <1>8. ASSUME NEW j \in 1 .. Len(g), NEW k \in 1 .. Len(g), g[j] = g[k],
               j # k
        PROVE  FALSE
    <2>1. CASE j \in 1 .. n /\ k \in 1 .. n
      <3>1. f[j] = f[k]
        BY <1>12, <1>8, <2>1
      <3> QED
        BY <1>8, <2>1, <3>1 DEF PoolOK, n, f
    <2>4. j \in 1 .. n + 1 /\ k \in 1 .. n + 1
      BY <1>12
    <2>2. CASE j = n + 1 /\ k \in 1 .. n
      <3>1. f[k] = p
        BY <1>12, <1>8, <2>2
      <3> QED
        BY <1>6, <2>2, <3>1
    <2>3. CASE k = n + 1 /\ j \in 1 .. n
      <3>1. f[j] = p
        BY <1>12, <1>8, <2>3
      <3> QED
        BY <1>6, <2>3, <3>1
    <2> QED
      BY <1>12, <1>8, <2>1, <2>2, <2>3, <2>4
  <1>9. \A q \in pk.valid : pk.last[q] % cap = q
    BY <1>2 DEF PoolOK, n, f
  <1>10. PoolOK(pk, cap)
    <2>1. \A q : q \in 0 .. cap - 1 /\ q \notin pk.valid <=> \E k \in 1 .. Len(g) : g[k] = q
      BY <1>5, <1>7
    <2>2. \A j, k \in 1 .. Len(g) : g[j] = g[k] => j = k
      BY <1>8
    <2> QED
      BY <1>3, <1>9, <2>1, <2>2, Zenon DEF PoolOK, g
  <1> QED
    BY <1>10
-----------------------------------------------------------------------------
(***************************************************************************)
(* The wait queue.  W are the positions of the waiting connections of a    *)
(* table con, H their handles.                                             *)
(***************************************************************************)
Named(W, H) == W \subseteq Slot /\ \A p \in W : H[p] \in Nat /\ H[p] % Cap = p

Follows(con, W, H, p, s) ==
    /\ con[p].next = H[s] /\ con[s].prev = H[p]
    /\ con[p].token < con[s].token
    /\ \A r \in W : con[r].token <= con[p].token \/ con[s].token <= con[r].token

First(con, W, H, qh, p) ==
    qh = H[p] /\ con[p].prev = -1 /\ \A r \in W : con[p].token <= con[r].token
Final(con, W, H, qt, p) ==
    qt = H[p] /\ con[p].next = -1 /\ \A r \in W : con[r].token <= con[p].token

Tokens(con, W, ta) ==
    /\ \A p \in W : con[p].token \in Int /\ con[p].token <= ta
    /\ \A p, r \in W : con[p].token = con[r].token => p = r

Queued(con, W, H, qh, qt) ==
    /\ \A p \in W : (con[p].prev = -1 /\ qh = H[p]) \/ \E r \in W : Follows(con, W, H, r, p)
    /\ \A p \in W : (con[p].next = -1 /\ qt = H[p]) \/ \E s \in W : Follows(con, W, H, p, s)
    /\ W = {} => qh = -1 /\ qt = -1
    /\ W # {} => \E p \in W : First(con, W, H, qh, p)
    /\ W # {} => \E p \in W : Final(con, W, H, qt, p)

QueueInv ==
    Tokens(conn, Waiting, tokenAlloc) /\ Queued(conn, Waiting, pool.last, qHead, qTail)

\* Handles name positions.
LEMMA Names ==
    ASSUME NEW W, NEW H, Named(W, H)
    PROVE  \A p, r \in W : /\ H[p] # -1 /\ Pos(H[p]) = p
                           /\ H[p] = H[r] => p = r
  BY DEF Named, Pos, Conns!PosOf

\* The ends of the queue.
LEMMA Ends ==
    ASSUME NEW W, NEW H, Named(W, H), NEW con, NEW qh, NEW qt,
           Queued(con, W, H, qh, qt), NEW p \in W
    PROVE  /\ con[p].prev = -1 <=> qh = H[p]
           /\ con[p].next = -1 <=> qt = H[p]
           /\ qh = H[p] => First(con, W, H, qh, p)
           /\ qt = H[p] => Final(con, W, H, qt, p)
  <1>1. \A s, r \in W : H[s] # -1 /\ (H[s] = H[r] => s = r)
    BY Names
  <1>2. PICK h \in W : First(con, W, H, qh, h)
    BY DEF Queued
  <1>3. PICK t \in W : Final(con, W, H, qt, t)
    BY DEF Queued
  <1>4. qh = H[p] => p = h
    BY <1>1, <1>2 DEF First
  <1>5. qt = H[p] => p = t
    BY <1>1, <1>3 DEF Final
  <1>6. con[p].prev = -1 => qh = H[p]
    BY <1>1 DEF Queued, Follows
  <1>7. con[p].next = -1 => qt = H[p]
    BY <1>1 DEF Queued, Follows
  <1>8. qh = H[p] => First(con, W, H, qh, p)
    BY <1>2, <1>4
  <1>9. qt = H[p] => Final(con, W, H, qt, p)
    BY <1>3, <1>5
  <1> QED
    BY <1>6, <1>7, <1>8, <1>9 DEF First, Final

\* The links of a connection in the queue.
LEMMA Links ==
    ASSUME NEW W, NEW H, Named(W, H), NEW con, NEW qh, NEW qt,
           Queued(con, W, H, qh, qt), NEW p \in W, NEW s \in W
    PROVE  /\ con[p].next = H[s] => Follows(con, W, H, p, s)
           /\ con[s].prev = H[p] => Follows(con, W, H, p, s)
           /\ con[p].next = H[s] <=> con[p].next # -1 /\ Pos(con[p].next) = s
           /\ con[s].prev = H[p] <=> con[s].prev # -1 /\ Pos(con[s].prev) = p
  <1>1. \A q, r \in W : H[q] # -1 /\ Pos(H[q]) = q /\ (H[q] = H[r] => q = r)
    BY Names
  <1>2. con[p].next = H[s] => Follows(con, W, H, p, s)
    <2>1. SUFFICES ASSUME con[p].next = H[s] PROVE Follows(con, W, H, p, s)
      OBVIOUS
    <2>2. PICK r \in W : Follows(con, W, H, p, r)
      BY <1>1, <2>1 DEF Queued
    <2>3. r = s
      BY <1>1, <2>1, <2>2 DEF Follows
    <2> QED
      BY <2>2, <2>3
  <1>3. con[s].prev = H[p] => Follows(con, W, H, p, s)
    <2>1. SUFFICES ASSUME con[s].prev = H[p] PROVE Follows(con, W, H, p, s)
      OBVIOUS
    <2>2. PICK r \in W : Follows(con, W, H, r, s)
      BY <1>1, <2>1 DEF Queued
    <2>3. r = p
      BY <1>1, <2>1, <2>2 DEF Follows
    <2> QED
      BY <2>2, <2>3
  <1>4. con[p].next # -1 => \E r \in W : con[p].next = H[r]
    BY DEF Queued, Follows
  <1>5. con[s].prev # -1 => \E r \in W : con[s].prev = H[r]
    BY DEF Queued, Follows
  <1> QED
    BY <1>1, <1>2, <1>3, <1>4, <1>5

\* Nothing else of a connection matters to the queue.
LEMMA SameQueue ==
    ASSUME NEW W, NEW H, NEW G, NEW con, NEW new, NEW qh, NEW qt, NEW ta,
           \A p \in W : /\ G[p] = H[p] /\ new[p].prev = con[p].prev
                        /\ new[p].next = con[p].next /\ new[p].token = con[p].token,
           Tokens(con, W, ta), Queued(con, W, H, qh, qt)
    PROVE  Tokens(new, W, ta) /\ Queued(new, W, G, qh, qt)
  <1>1. Tokens(new, W, ta)
    BY DEF Tokens
  <1>2. ASSUME NEW p \in W, NEW s \in W, Follows(con, W, H, p, s) PROVE Follows(new, W, G, p, s)
    BY <1>2 DEF Follows
  <1>3. ASSUME NEW p \in W, First(con, W, H, qh, p) PROVE First(new, W, G, qh, p)
    BY <1>3 DEF First
  <1>4. ASSUME NEW p \in W, Final(con, W, H, qt, p) PROVE Final(new, W, G, qt, p)
    BY <1>4 DEF Final
  <1>5. ASSUME NEW p \in W
        PROVE  (new[p].prev = -1 /\ qh = G[p]) \/ \E r \in W : Follows(new, W, G, r, p)
    BY <1>2 DEF Queued
  <1>6. ASSUME NEW p \in W
        PROVE  (new[p].next = -1 /\ qt = G[p]) \/ \E s \in W : Follows(new, W, G, p, s)
    BY <1>2 DEF Queued
  <1> QED
    BY <1>1, <1>3, <1>4, <1>5, <1>6 DEF Queued

\* A connection goes to the end of the queue (tconnd_push_queue).
LEMMA Pushed ==
    ASSUME NEW W, NEW H, NEW p \in Slot, p \notin W, NEW V, V = W \cup {p}, Named(V, H),
           NEW con, NEW new, NEW qh, NEW qt, NEW ta \in Int,
           Tokens(con, W, ta), Queued(con, W, H, qh, qt),
           \A s \in W : /\ new[s].token = con[s].token /\ new[s].prev = con[s].prev
                        /\ new[s].next = IF qt # -1 /\ s = Pos(qt) THEN H[p] ELSE con[s].next,
           new[p].token = ta + 1, new[p].prev = qt, new[p].next = -1,
           NEW f, f = IF qt = -1 THEN H[p] ELSE qh
    PROVE  Tokens(new, V, ta + 1) /\ Queued(new, V, H, f, H[p])
  <1>1. Named(W, H)
    BY DEF Named
  <1>2. \A q, r \in V : H[q] # -1 /\ Pos(H[q]) = q /\ (H[q] = H[r] => q = r)
    BY Names
  <1>3. \A q \in W : con[q].token \in Int /\ con[q].token <= ta
    BY DEF Tokens
  <1>4. \A q \in V : new[q].token = IF q = p THEN ta + 1 ELSE con[q].token
    OBVIOUS
  <1>5. Tokens(new, V, ta + 1)
    BY <1>3, <1>4 DEF Tokens
  <1>6. CASE W = {}
    <2>1. qh = -1 /\ qt = -1 /\ V = {p}
      BY <1>6 DEF Queued
    <2>2. First(new, V, H, f, p) /\ Final(new, V, H, H[p], p)
      BY <1>2, <1>4, <2>1 DEF First, Final
    <2> QED
      BY <1>5, <2>1, <2>2 DEF Queued, First, Final
  <1>7. CASE W # {}
    <2>1. PICK t \in W : Final(con, W, H, qt, t)
      BY <1>7 DEF Queued
    <2>2. qt = H[t] /\ qt # -1 /\ f = qh /\ con[t].next = -1
      BY <1>2, <2>1 DEF Final
    <2>3. \A s \in W : new[s].next = IF s = t THEN H[p] ELSE con[s].next
      BY <1>2, <2>2
    <2>4. \A r \in V : r # p => r \in W
      OBVIOUS
    <2>5. Follows(new, V, H, t, p)
      BY <1>2, <1>3, <1>4, <2>1, <2>2, <2>3, <2>4 DEF Follows, Final
    <2>6. ASSUME NEW q \in W, NEW s \in W, Follows(con, W, H, q, s) PROVE Follows(new, V, H, q, s)
      <3>1. q # t
        BY <1>2, <2>2, <2>6 DEF Follows
      <3>2. con[s].token <= new[p].token
        BY <1>3
      <3> QED
        BY <1>3, <1>4, <2>3, <2>4, <2>6, <3>1, <3>2 DEF Follows
    <2>7. ASSUME NEW q \in V
          PROVE  (new[q].prev = -1 /\ f = H[q]) \/ \E r \in V : Follows(new, V, H, r, q)
      BY <2>2, <2>4, <2>5, <2>6 DEF Queued
    <2>8. ASSUME NEW q \in V
          PROVE  (new[q].next = -1 /\ H[p] = H[q]) \/ \E s \in V : Follows(new, V, H, q, s)
      <3>1. CASE q = p \/ q = t
        BY <2>5, <3>1
      <3>2. CASE q # p /\ q # t
        <4>1. q \in W /\ qt # H[q]
          BY <1>2, <2>2, <2>4, <3>2
        <4> QED
          BY <2>6, <4>1 DEF Queued
      <3> QED
        BY <3>1, <3>2
    <2>9. PICK h \in W : First(con, W, H, qh, h)
      BY <1>7 DEF Queued
    <2>10. First(new, V, H, f, h)
      BY <1>3, <1>4, <2>2, <2>4, <2>9 DEF First
    <2>11. Final(new, V, H, H[p], p)
      BY <1>3, <1>4, <2>4 DEF Final
    <2> QED
      BY <1>5, <2>7, <2>8, <2>10, <2>11 DEF Queued
  <1> QED
    BY <1>6, <1>7

\* A connection leaves the queue (tconnd_pop_queue).
LEMMA Popped ==
    ASSUME NEW W, NEW H, Named(W, H), NEW p \in W,
           NEW con, NEW new, NEW qh, NEW qt, NEW ta,
           Tokens(con, W, ta), Queued(con, W, H, qh, qt),
           \A s \in W \ {p} :
              /\ new[s].token = con[s].token
              /\ new[s].next = IF con[p].prev # -1 /\ s = Pos(con[p].prev) THEN con[p].next ELSE con[s].next
              /\ new[s].prev = IF con[p].next # -1 /\ s = Pos(con[p].next) THEN con[p].prev ELSE con[s].prev
    PROVE  /\ Tokens(new, W \ {p}, ta)
           /\ Queued(new, W \ {p}, H, IF qh = H[p] THEN con[p].next ELSE qh,
                                      IF qt = H[p] THEN con[p].prev ELSE qt)
  <1> DEFINE V == W \ {p}
             f == IF qh = H[p] THEN con[p].next ELSE qh
             l == IF qt = H[p] THEN con[p].prev ELSE qt
  <1>1. \A q, r \in W : H[q] # -1 /\ Pos(H[q]) = q /\ (H[q] = H[r] => q = r)
    BY Names
  <1>2. \A q \in W : con[q].token \in Int
    BY DEF Tokens
  <1>3. ASSUME NEW s \in V
        PROVE  /\ new[s].token = con[s].token
               /\ new[s].next = IF con[s].next = H[p] THEN con[p].next ELSE con[s].next
               /\ new[s].prev = IF con[s].prev = H[p] THEN con[p].prev ELSE con[s].prev
    BY <1>3, Links DEF Follows
  <1>4. Tokens(new, V, ta)
    BY <1>3 DEF Tokens
  <1>5. ASSUME NEW q \in V, NEW s \in V, Follows(con, W, H, q, s) PROVE Follows(new, V, H, q, s)
    BY <1>1, <1>3, <1>5 DEF Follows
  <1>6. ASSUME NEW q \in V, NEW s \in V, Follows(con, W, H, q, p), Follows(con, W, H, p, s)
        PROVE  Follows(new, V, H, q, s)
    <2>1. new[q].next = H[s] /\ new[s].prev = H[q]
      BY <1>3, <1>6 DEF Follows
    <2>2. con[q].token < con[p].token /\ con[p].token < con[s].token
      BY <1>6 DEF Follows
    <2>3. new[q].token < new[s].token
      BY <1>2, <1>3, <2>2
    <2>4. ASSUME NEW r \in V PROVE new[r].token <= new[q].token \/ new[s].token <= new[r].token
      <3>1. con[r].token <= con[q].token \/ con[p].token <= con[r].token
        BY <1>6 DEF Follows
      <3>2. con[r].token <= con[p].token \/ con[s].token <= con[r].token
        BY <1>6 DEF Follows
      <3>3. con[r].token # con[p].token
        BY DEF Tokens
      <3> QED
        BY <1>2, <1>3, <3>1, <3>2, <3>3
    <2> QED
      BY <2>1, <2>3, <2>4 DEF Follows
  <1>7. ASSUME NEW s \in V
        PROVE  (new[s].prev = -1 /\ f = H[s]) \/ \E r \in V : Follows(new, V, H, r, s)
    <2>1. CASE con[s].prev = -1 /\ qh = H[s]
      BY <1>1, <1>3, <2>1
    <2>2. CASE \E r \in V : Follows(con, W, H, r, s)
      BY <1>5, <2>2
    <2>3. CASE Follows(con, W, H, p, s)
      <3>1. con[p].next = H[s] /\ new[s].prev = con[p].prev
        BY <1>3, <2>3 DEF Follows
      <3>2. CASE con[p].prev = -1 /\ qh = H[p]
        BY <3>1, <3>2
      <3>3. ASSUME NEW r \in W, Follows(con, W, H, r, p) PROVE \E q \in V : Follows(new, V, H, q, s)
        <4>1. r # p
          BY <1>2, <3>3 DEF Follows
        <4> QED
          BY <1>6, <2>3, <3>3, <4>1
      <3> QED
        BY <3>2, <3>3 DEF Queued
    <2> QED
      BY <2>1, <2>2, <2>3 DEF Queued
  <1>8. ASSUME NEW s \in V
        PROVE  (new[s].next = -1 /\ l = H[s]) \/ \E r \in V : Follows(new, V, H, s, r)
    <2>1. CASE con[s].next = -1 /\ qt = H[s]
      BY <1>1, <1>3, <2>1
    <2>2. CASE \E r \in V : Follows(con, W, H, s, r)
      BY <1>5, <2>2
    <2>3. CASE Follows(con, W, H, s, p)
      <3>1. con[p].prev = H[s] /\ new[s].next = con[p].next
        BY <1>3, <2>3 DEF Follows
      <3>2. CASE con[p].next = -1 /\ qt = H[p]
        BY <3>1, <3>2
      <3>3. ASSUME NEW r \in W, Follows(con, W, H, p, r) PROVE \E q \in V : Follows(new, V, H, s, q)
        <4>1. r # p
          BY <1>2, <3>3 DEF Follows
        <4> QED
          BY <1>6, <2>3, <3>3, <4>1
      <3> QED
        BY <3>2, <3>3 DEF Queued
    <2> QED
      BY <2>1, <2>2, <2>3 DEF Queued
  <1>9. PICK h \in W : First(con, W, H, qh, h)
    BY DEF Queued
  <1>10. PICK t \in W : Final(con, W, H, qt, t)
    BY DEF Queued
  <1>11. CASE V = {}
    <2>1. h = p /\ t = p
      BY <1>11
    <2>2. \A s \in W : ~Follows(con, W, H, p, s) /\ ~Follows(con, W, H, s, p)
      BY <1>2, <1>11 DEF Follows
    <2>3. con[p].next = -1 /\ con[p].prev = -1
      BY <2>2 DEF Queued
    <2>4. f = -1 /\ l = -1
      BY <1>9, <1>10, <2>1, <2>3 DEF First, Final
    <2> QED
      BY <1>4, <1>11, <2>4 DEF Queued
  <1>12. CASE V # {}
    <2>1. \E q \in V : First(new, V, H, f, q)
      <3>1. CASE h # p
        <4>1. f = qh /\ h \in V
          BY <1>1, <1>9, <3>1 DEF First
        <4>2. new[h].prev = -1
          BY <1>1, <1>3, <1>9, <4>1 DEF First
        <4> QED
          BY <1>3, <1>9, <4>1, <4>2 DEF First
      <3>2. CASE h = p
        <4>1. PICK r \in V : TRUE
          BY <1>12
        <4>2. r # p /\ con[p].token <= con[r].token /\ con[p].token # con[r].token
          BY <1>9, <3>2 DEF First, Tokens
        <4>3. ~(con[p].next = -1 /\ qt = H[p])
          <5>1. SUFFICES ASSUME con[p].next = -1, qt = H[p] PROVE FALSE
            OBVIOUS
          <5>2. t = p
            BY <1>1, <1>10, <5>1 DEF Final
          <5> QED
            BY <1>2, <1>10, <4>1, <4>2, <5>2 DEF Final
        <4>4. PICK s \in W : Follows(con, W, H, p, s)
          BY <4>3 DEF Queued
        <4>5. s \in V
          BY <1>2, <4>4 DEF Follows
        <4>6. f = H[s] /\ con[p].prev = -1 /\ new[s].prev = -1
          BY <1>3, <1>9, <3>2, <4>4, <4>5 DEF First, Follows
        <4>7. ASSUME NEW q \in V PROVE new[s].token <= new[q].token
          <5>1. con[p].token <= con[q].token /\ con[p].token # con[q].token
            BY <1>9, <3>2 DEF First, Tokens
          <5>2. con[q].token <= con[p].token \/ con[s].token <= con[q].token
            BY <4>4 DEF Follows
          <5> QED
            BY <1>2, <1>3, <4>5, <5>1, <5>2
        <4> QED
          BY <4>5, <4>6, <4>7 DEF First
      <3> QED
        BY <3>1, <3>2
    <2>2. \E q \in V : Final(new, V, H, l, q)
      <3>1. CASE t # p
        <4>1. l = qt /\ t \in V
          BY <1>1, <1>10, <3>1 DEF Final
        <4>2. new[t].next = -1
          BY <1>1, <1>3, <1>10, <4>1 DEF Final
        <4> QED
          BY <1>3, <1>10, <4>1, <4>2 DEF Final
      <3>2. CASE t = p
        <4>1. PICK r \in V : TRUE
          BY <1>12
        <4>2. r # p /\ con[r].token <= con[p].token /\ con[p].token # con[r].token
          BY <1>10, <3>2 DEF Final, Tokens
        <4>3. ~(con[p].prev = -1 /\ qh = H[p])
          <5>1. SUFFICES ASSUME con[p].prev = -1, qh = H[p] PROVE FALSE
            OBVIOUS
          <5>2. h = p
            BY <1>1, <1>9, <5>1 DEF First
          <5> QED
            BY <1>2, <1>9, <4>1, <4>2, <5>2 DEF First
        <4>4. PICK s \in W : Follows(con, W, H, s, p)
          BY <4>3 DEF Queued
        <4>5. s \in V
          BY <1>2, <4>4 DEF Follows
        <4>6. l = H[s] /\ con[p].next = -1 /\ new[s].next = -1
          BY <1>3, <1>10, <3>2, <4>4, <4>5 DEF Final, Follows
        <4>7. ASSUME NEW q \in V PROVE new[q].token <= new[s].token
          <5>1. con[q].token <= con[p].token /\ con[p].token # con[q].token
            BY <1>10, <3>2 DEF Final, Tokens
          <5>2. con[q].token <= con[s].token \/ con[p].token <= con[q].token
            BY <4>4 DEF Follows
          <5> QED
            BY <1>2, <1>3, <4>5, <5>1, <5>2
        <4> QED
          BY <4>5, <4>6, <4>7 DEF Final
      <3> QED
        BY <3>1, <3>2
    <2> QED
      BY <1>4, <1>7, <1>8, <1>12, <2>1, <2>2 DEF Queued
  <1> QED
    BY <1>11, <1>12
-----------------------------------------------------------------------------
(***************************************************************************)
(* Steps by what they do to the table of connections.                      *)
(***************************************************************************)

\* What stConnInfo, the queue and admission know of a connection.
Alike(r, o) ==
    /\ r.who = o.who /\ r.inq = o.inq /\ r.bypass = o.bypass /\ r.sent = o.sent
    /\ r.token = o.token /\ r.prev = o.prev /\ r.next = o.next
    /\ r.stage = "pass" <=> o.stage = "pass"

\* Nothing happens to a connection that they know of.
Marked(p) ==
    /\ \E r \in ConnRecord : Alike(r, conn[p]) /\ conn' = [conn EXCEPT ![p] = r]
    /\ UNCHANGED <<pool, queue, info, released, left>>

\* The table stays.
Still == UNCHANGED <<pool, conn, queue, info, released, left>>

\* A connection is made.
Made(r) ==
    /\ pool.free # <<>> /\ pool' = Conns!AfterAlloc(pool)
    /\ conn' = [conn EXCEPT ![Head(pool.free)] = r]
    /\ r \in ConnRecord /\ r.stage = "new" /\ ~r.inq /\ ~r.sent
    /\ info' = IF r.who = Nobody THEN info ELSE [info EXCEPT !.total = @ + 1, !.idle = @ + 1]
    /\ UNCHANGED <<queue, released, left>>

\* A connection is closed.
Gone(p) ==
    /\ Used(p) /\ conn' = Closed(p) /\ info' = InfoClosed(p)
    /\ pool' = Conns!AfterFree(pool, Idx(p), FALSE)
    /\ IF conn[p].inq THEN PopQueue(p) ELSE UNCHANGED queue
    /\ released' = released + (IF conn[p].who = Nobody THEN 1 ELSE 0)
    /\ UNCHANGED left

TableStep ==
    \/ Still \/ ActiveBegin
    \/ \E p \in Slot : Marked(p) \/ SynAck(p) \/ Gone(p) \/ Activate(p)
    \/ \E r : Made(r)
    \/ \E p, old \in Slot : Relay(p, old)

\* What Next can be.
LEMMA Steps ==
    ASSUME Next
    PROVE  \/ \E c \in Client : Accept(c) \/ ClientClose(c)
           \/ \E p \in Slot : \/ BadPkg(p) \/ Auth(p) \/ SynAck(p) \/ DataWaiting(p) \/ DataFull(p)
                              \/ Data(p) \/ BadLength(p) \/ PeerClosed(p) \/ ScanClose(p)
                              \/ ScanIdle(p) \/ QueueInfo(p) \/ Activate(p)
                              \/ FrameStart(p) \/ FrameInProc(p) \/ FrameStop(p)
           \/ \E p \in Slot, old \in Slot : Relay(p, old)
           \/ ActiveBegin \/ FrameLost \/ FrameNotify
           \/ ServerStart \/ ServerStop \/ ServerInProc \/ ServerPass \/ ServerNotify
           \/ \E q \in Seat : ServerKick(q)
  <1>1. CASE \E c \in Client : Accept(c) \/ ClientClose(c)
    BY <1>1
  <1>2. CASE \E p \in Slot : \/ BadPkg(p) \/ Auth(p) \/ SynAck(p) \/ \E old \in Slot : Relay(p, old)
                            \/ DataWaiting(p) \/ DataFull(p) \/ Data(p) \/ BadLength(p)
                            \/ PeerClosed(p) \/ ScanClose(p) \/ ScanIdle(p) \/ QueueInfo(p)
    BY <1>2, Zenon
  <1>3. CASE ActivateStep
    BY <1>3, Zenon DEF ActivateStep
  <1>4. CASE SendStep
    BY <1>4, Zenon DEF SendStep
  <1>5. CASE ServerStep \/ ActiveBegin \/ ServerNotify \/ \E q \in Seat : ServerKick(q)
    BY <1>5, Zenon DEF ServerStep
  <1> QED
    BY <1>1, <1>2, <1>3, <1>4, <1>5, Zenon DEF Next

LEMMA NoRecord ==
    /\ NoConn \in ConnRecord /\ NoConn.who = Nobody /\ NoConn.stage = "new"
    /\ ~NoConn.inq /\ ~NoConn.sent
  <1>1. -1 \in Idxs /\ 0 \in 0 .. BufPkgs
    BY Limits DEF Idxs
  <1> QED
    BY <1>1 DEF NoConn, ConnRecord

LEMMA NewRecord ==
    ASSUME NEW c \in Client
    PROVE  LET r == [NoConn EXCEPT !.who = c, !.reg = TRUE]
           IN  /\ r \in ConnRecord /\ r.who = c /\ r.stage = "new"
               /\ ~r.inq /\ ~r.sent
  BY NoRecord DEF ConnRecord

LEMMA Marks ==
    ASSUME ShapeInv, NEW p \in Slot
    PROVE  /\ BadPkg(p) \/ DataFull(p) \/ BadLength(p) \/ PeerClosed(p) \/ QueueInfo(p) => Marked(p)
           /\ Auth(p) \/ DataWaiting(p) \/ Data(p) => Marked(p)
           /\ FrameStart(p) \/ FrameInProc(p) \/ FrameStop(p) => Marked(p)
  <1>1. conn[p] \in ConnRecord /\ conn \in [Slot -> ConnRecord]
    BY DEF ShapeInv, ConnInv
  <1>2. ASSUME NEW r \in ConnRecord, Alike(r, conn[p]), conn' = [conn EXCEPT ![p] = r],
               UNCHANGED <<pool, queue, info, released, left>>
        PROVE  Marked(p)
    BY <1>2 DEF Marked
  <1>3. ASSUME UNCHANGED <<conn, pool, queue, info, released, left>> PROVE Marked(p)
    <2>1. Alike(conn[p], conn[p]) /\ conn' = [conn EXCEPT ![p] = conn[p]]
      BY <1>1, <1>3 DEF Alike
    <2> QED
      BY <1>1, <1>2, <1>3, <2>1
  <1>4. ASSUME BadPkg(p) PROVE Marked(p)
    <2> DEFINE r == [conn[p] EXCEPT !.need = "quiet", !.reg = FALSE]
    <2>1. conn' = [conn EXCEPT ![p] = r] /\ UNCHANGED <<pool, queue, info, released, left>>
      BY <1>1, <1>4 DEF BadPkg, queue, hist
    <2>2. r \in ConnRecord /\ Alike(r, conn[p])
      BY <1>1, <1>4 DEF BadPkg, Heard, Readable, ConnRecord, Alike
    <2> QED
      BY <1>2, <2>1, <2>2
  <1>5. ASSUME Auth(p) PROVE Marked(p)
    <2> DEFINE r == [conn[p] EXCEPT !.stage = "syn"]
    <2>1. conn' = [conn EXCEPT ![p] = r] /\ UNCHANGED <<pool, queue, info, released, left>>
      BY <1>1, <1>5 DEF Auth, queue, hist
    <2>2. r \in ConnRecord /\ Alike(r, conn[p])
      BY <1>1, <1>5 DEF Auth, Heard, Readable, ConnRecord, Alike
    <2> QED
      BY <1>2, <2>1, <2>2
  <1>6. ASSUME DataFull(p) PROVE Marked(p)
    <2> DEFINE r == [conn[p] EXCEPT !.need = "tell", !.reg = FALSE]
    <2>1. conn' = [conn EXCEPT ![p] = r] /\ UNCHANGED <<pool, queue, info, released, left>>
      BY <1>1, <1>6 DEF DataFull, queue, hist
    <2>2. r \in ConnRecord /\ Alike(r, conn[p])
      BY <1>1, <1>6 DEF DataFull, ConnRecord, Alike
    <2> QED
      BY <1>2, <2>1, <2>2
  <1>7. ASSUME BadLength(p) PROVE Marked(p)
    <2> DEFINE r == [conn[p] EXCEPT !.need = "tell", !.reg = FALSE]
    <2>1. conn' = [conn EXCEPT ![p] = r] /\ UNCHANGED <<pool, queue, info, released, left>>
      BY <1>1, <1>7 DEF BadLength, queue, hist
    <2>2. r \in ConnRecord /\ Alike(r, conn[p])
      BY <1>1, <1>7 DEF BadLength, ConnRecord, Alike
    <2> QED
      BY <1>2, <2>1, <2>2
  <1>8. ASSUME PeerClosed(p) PROVE Marked(p)
    <2> DEFINE r == [conn[p] EXCEPT !.need = "tell", !.reg = FALSE]
    <2>1. conn' = [conn EXCEPT ![p] = r] /\ UNCHANGED <<pool, queue, info, released, left>>
      BY <1>1, <1>8 DEF PeerClosed, queue, hist
    <2>2. r \in ConnRecord /\ Alike(r, conn[p])
      BY <1>1, <1>8 DEF PeerClosed, ConnRecord, Alike
    <2> QED
      BY <1>2, <2>1, <2>2
  <1>9. ASSUME QueueInfo(p) PROVE Marked(p)
    <2> DEFINE r == [conn[p] EXCEPT !.need = "tell"]
    <2>1. conn' = [conn EXCEPT ![p] = r] /\ UNCHANGED <<pool, queue, info, released, left>>
      BY <1>1, <1>9 DEF QueueInfo, queue, hist
    <2>2. r \in ConnRecord /\ Alike(r, conn[p])
      BY <1>1, <1>9 DEF QueueInfo, ConnRecord, Alike
    <2> QED
      BY <1>2, <2>1, <2>2
  <1>10. ASSUME DataWaiting(p) PROVE Marked(p)
    <2> DEFINE r == [conn[p] EXCEPT !.kept = @ + 1]
    <2>1. conn' = [conn EXCEPT ![p] = r] /\ UNCHANGED <<pool, queue, info, released, left>>
      BY <1>1, <1>10 DEF DataWaiting, queue, hist
    <2>2. r \in ConnRecord /\ Alike(r, conn[p])
      <3>1. conn[p].kept + 1 \in 0 .. BufPkgs
        BY <1>1, <1>10, Limits DEF DataWaiting, ConnRecord
      <3> QED
        BY <1>1, <3>1 DEF ConnRecord, Alike
    <2> QED
      BY <1>2, <2>1, <2>2
  <1>11. ASSUME Data(p) PROVE Marked(p)
    <2> DEFINE r == [conn[p] EXCEPT !.reg = (conn[p].need = "no")]
    <2>1. conn' = [conn EXCEPT ![p] = r] /\ UNCHANGED <<pool, queue, info, released, left>>
      BY <1>1, <1>11 DEF Data, queue, hist
    <2>2. r \in ConnRecord /\ Alike(r, conn[p])
      BY <1>1, <1>11 DEF Data, ConnRecord, Alike
    <2> QED
      BY <1>2, <2>1, <2>2
  <1>12. ASSUME FrameStart(p) PROVE Marked(p)
    <2>1. PICK m \in Delivered(p) :
            conn' = [conn EXCEPT ![p].id = Head(down).id, ![p].need = m]
      BY <1>12 DEF FrameStart
    <2> DEFINE r == [conn[p] EXCEPT !.id = Head(down).id, !.need = m]
    <2>2. conn' = [conn EXCEPT ![p] = r] /\ UNCHANGED <<pool, queue, info, released, left>>
      BY <1>1, <1>12, <2>1 DEF FrameStart, queue, hist
    <2>3. m \in {"no", "quiet", "tell"} /\ Head(down).id \in Idxs
      <3>1. down \in Seq(Frames) /\ down # <<>>
        BY <1>12 DEF FrameStart, Replies, ShapeInv, WireInv
      <3>2. Head(down) \in Frames
        BY <3>1
      <3> QED
        BY <1>1, <3>2 DEF Frames, Delivered, ConnRecord
    <2>4. r \in ConnRecord /\ Alike(r, conn[p])
      BY <1>1, <2>3 DEF ConnRecord, Alike
    <2> QED
      BY <1>2, <2>2, <2>4
  <1>13. ASSUME FrameInProc(p) PROVE Marked(p)
    <2>1. UNCHANGED <<pool, queue, info, released, left>>
      BY <1>13 DEF FrameInProc, queue, hist
    <2>2. CASE UNCHANGED conn
      BY <1>3, <2>1, <2>2
    <2>3. ASSUME NEW m \in Delivered(p), conn' = [conn EXCEPT ![p].need = m] PROVE Marked(p)
      <3> DEFINE r == [conn[p] EXCEPT !.need = m]
      <3>1. conn' = [conn EXCEPT ![p] = r]
        BY <1>1, <2>3
      <3>2. r \in ConnRecord /\ Alike(r, conn[p])
        BY <1>1, <2>3 DEF ConnRecord, Alike, Delivered
      <3> QED
        BY <1>2, <2>1, <3>1, <3>2
    <2> QED
      BY <1>13, <2>2, <2>3 DEF FrameInProc
  <1>14. ASSUME FrameStop(p) PROVE Marked(p)
    <2>1. UNCHANGED <<pool, queue, info, released, left>>
      BY <1>14 DEF FrameStop, queue, hist
    <2>2. CASE UNCHANGED conn
      BY <1>3, <2>1, <2>2
    <2>3. CASE conn' = [conn EXCEPT ![p].need = "quiet"]
      <3> DEFINE r == [conn[p] EXCEPT !.need = "quiet"]
      <3>1. conn' = [conn EXCEPT ![p] = r]
        BY <1>1, <2>3
      <3>2. r \in ConnRecord /\ Alike(r, conn[p])
        BY <1>1 DEF ConnRecord, Alike
      <3> QED
        BY <1>2, <2>1, <3>1, <3>2
    <2> QED
      BY <1>14, <2>2, <2>3 DEF FrameStop
  <1> QED
    BY <1>4, <1>5, <1>6, <1>7, <1>8, <1>9, <1>10, <1>11, <1>12, <1>13, <1>14

\* What a step does to the table.
LEMMA Kinds ==
    ASSUME ShapeInv, Next
    PROVE  TableStep
  <1>1. ASSUME NEW c \in Client, Accept(c) PROVE TableStep
    <2> DEFINE r == [NoConn EXCEPT !.who = c, !.reg = TRUE]
    <2>1. /\ r \in ConnRecord /\ r.who = c /\ r.stage = "new"
          /\ ~r.inq /\ ~r.sent /\ c # Nobody
      BY NewRecord, Limits
    <2> HIDE DEF r
    <2>2. CASE UNCHANGED <<pool, conn, info>>
      BY <1>1, <2>2 DEF Accept, Still, TableStep, hist
    <2>3. CASE /\ Conns!CanAlloc(pool) /\ pool' = Conns!AfterAlloc(pool)
               /\ conn' = [conn EXCEPT ![Head(pool.free)] = r]
               /\ info' = [info EXCEPT !.total = @ + 1, !.idle = @ + 1]
      <3>1. UNCHANGED <<queue, released, left>>
        BY <1>1 DEF Accept, hist
      <3>2. Made(r)
        BY <2>1, <2>3, <3>1 DEF Made, Conns!CanAlloc
      <3> QED
        BY <3>2 DEF TableStep
    <2> QED
      <3>1. \/ UNCHANGED <<pool, conn, info>>
            \/ /\ Conns!CanAlloc(pool) /\ pool' = Conns!AfterAlloc(pool)
               /\ conn' = [conn EXCEPT ![Head(pool.free)] = r]
               /\ info' = [info EXCEPT !.total = @ + 1, !.idle = @ + 1]
        BY <1>1, Zenon DEF Accept, r
      <3> QED
        BY <2>2, <2>3, <3>1
  <1>2. ASSUME FrameNotify PROVE TableStep
    <2>3. UNCHANGED <<queue, released, left, info>>
      BY <1>2 DEF FrameNotify
    <2>4. CASE UNCHANGED <<pool, conn>>
      BY <2>3, <2>4 DEF Still, TableStep
    <2>5. CASE /\ Conns!CanAlloc(pool) /\ pool' = Conns!AfterAlloc(pool)
               /\ conn' = [conn EXCEPT ![Head(pool.free)] = NoConn]
      <3>1. Made(NoConn)
        BY NoRecord, <2>3, <2>5 DEF Made, Conns!CanAlloc
      <3> QED
        BY <3>1 DEF TableStep
    <2> QED
      BY <1>2, <2>4, <2>5 DEF FrameNotify
  <1>3. ASSUME NEW p \in Slot, ScanClose(p) \/ ScanIdle(p) PROVE TableStep
    <2>1. Gone(p)
      BY <1>3 DEF ScanClose, ScanIdle, SafeClose, Gone
    <2> QED
      BY <2>1 DEF TableStep
  <1>4. ASSUME \/ \E c \in Client : ClientClose(c)
               \/ FrameLost
        PROVE  TableStep
    <2>1. Still
      BY <1>4 DEF ClientClose, FrameLost, Still, hist, queue
    <2> QED
      BY <2>1 DEF TableStep
  <1>5. ASSUME \/ ServerStart \/ ServerStop \/ ServerInProc \/ ServerPass \/ ServerNotify
               \/ \E q \in Seat : ServerKick(q)
        PROVE  TableStep
    <2>1. Still
      BY <1>5 DEF ServerStart, ServerStop, ServerInProc, ServerPass, ServerNotify, ServerKick,
                  Still, hist, queue
    <2> QED
      BY <2>1 DEF TableStep
  <1> QED
    BY <1>1, <1>2, <1>3, <1>4, <1>5, Steps, Marks DEF TableStep
-----------------------------------------------------------------------------
(***************************************************************************)
(* What the steps do to the table and to the sets of connections           *)
(***************************************************************************)

\* All but the links of a connection.
AllButLinks(r, o) ==
    /\ r.who = o.who /\ r.stage = o.stage /\ r.inq = o.inq /\ r.bypass = o.bypass
    /\ r.sent = o.sent /\ r.token = o.token

LEMMA UnlinkedTable ==
    ASSUME conn \in [Slot -> ConnRecord], NEW p \in Slot
    PROVE  /\ Unlinked(p) \in [Slot -> ConnRecord]
           /\ \A s \in Slot :
                 /\ AllButLinks(Unlinked(p)[s], conn[s])
                 /\ Unlinked(p)[s].next =
                      IF conn[p].prev # -1 /\ s = Pos(conn[p].prev) THEN conn[p].next ELSE conn[s].next
                 /\ Unlinked(p)[s].prev =
                      IF conn[p].next # -1 /\ s = Pos(conn[p].next) THEN conn[p].prev ELSE conn[s].prev
  <1> DEFINE nx(s) == IF conn[p].prev # -1 /\ s = Pos(conn[p].prev) THEN conn[p].next ELSE conn[s].next
             pv(s) == IF conn[p].next # -1 /\ s = Pos(conn[p].next) THEN conn[p].prev ELSE conn[s].prev
  <1>1. \A s \in Slot : conn[s] \in ConnRecord /\ nx(s) \in Idxs /\ pv(s) \in Idxs
    BY DEF ConnRecord
  <1>2. Unlinked(p) = [s \in Slot |-> [conn[s] EXCEPT !.next = nx(s), !.prev = pv(s)]]
    BY DEF Unlinked
  <1> HIDE DEF nx, pv
  <1>3. ASSUME NEW s \in Slot
        PROVE  LET r == [conn[s] EXCEPT !.next = nx(s), !.prev = pv(s)]
               IN  r \in ConnRecord /\ AllButLinks(r, conn[s]) /\ r.next = nx(s) /\ r.prev = pv(s)
    BY <1>1 DEF ConnRecord, AllButLinks
  <1>4. \A s \in Slot : /\ Unlinked(p)[s] \in ConnRecord /\ AllButLinks(Unlinked(p)[s], conn[s])
                        /\ Unlinked(p)[s].next = nx(s) /\ Unlinked(p)[s].prev = pv(s)
    BY <1>2, <1>3
  <1>5. Unlinked(p) \in [Slot -> ConnRecord]
    BY <1>2, <1>3
  <1> QED
    BY <1>4, <1>5 DEF nx, pv

LEMMA ClosedTable ==
    ASSUME conn \in [Slot -> ConnRecord], NEW p \in Slot
    PROVE  /\ Closed(p) \in [Slot -> ConnRecord] /\ Closed(p)[p] = NoConn
           /\ \A s \in Slot \ {p} :
                 /\ AllButLinks(Closed(p)[s], conn[s])
                 /\ conn[p].inq => Closed(p)[s] = Unlinked(p)[s]
                 /\ ~conn[p].inq => Closed(p)[s] = conn[s]
  <1> DEFINE t == IF conn[p].inq THEN Unlinked(p) ELSE conn
  <1>1. t \in [Slot -> ConnRecord] /\ \A s \in Slot : AllButLinks(t[s], conn[s])
    BY UnlinkedTable DEF AllButLinks
  <1> HIDE DEF t
  <1>2. Closed(p) = [t EXCEPT ![p] = NoConn]
    BY DEF Closed, t
  <1>3. Closed(p) \in [Slot -> ConnRecord] /\ Closed(p)[p] = NoConn
    BY <1>1, <1>2, NoRecord
  <1>4. \A s \in Slot \ {p} : Closed(p)[s] = t[s]
    BY <1>1, <1>2
  <1> QED
    BY <1>1, <1>3, <1>4 DEF t

\* The pool of connections.
LEMMA PoolMade ==
    ASSUME PoolInv, pool.free # <<>>, pool' = Conns!AfterAlloc(pool)
    PROVE  LET p == Head(pool.free)
           IN  /\ PoolInv' /\ p \in Slot /\ p \notin pool.valid
               /\ pool'.valid = pool.valid \cup {p}
               /\ \A s \in Slot : s # p => pool'.last[s] = pool.last[s]
  <1> DEFINE p == Head(pool.free)
             h == Conns!AllocIdx(pool)
  <1>1. /\ pool.free \in Seq(0 .. Cap - 1) /\ pool.last \in [0 .. Cap - 1 -> 0 .. Endless]
        /\ 0 \in pool.valid
    BY DEF PoolInv, PoolOK
  <1>2. p \in 0 .. Cap - 1
    BY <1>1, Tails
  <1>3. h \in 0 .. Endless /\ h % Cap = p
    BY <1>1, <1>2, Handles DEF Conns!AllocIdx
  <1>4. pool' = [free |-> Tail(pool.free), last |-> [pool.last EXCEPT ![p] = h],
                 valid |-> pool.valid \cup {p}]
    BY DEF Conns!AfterAlloc
  <1> HIDE DEF h
  <1>5. PoolOK(pool', Cap) /\ p \notin pool.valid
    <2>1. Cap \in Nat \ {0} /\ PoolOK(pool, Cap)
      BY Limits DEF PoolInv
    <2> QED
      BY <1>3, <1>4, <2>1, Taken
  <1>6. p \in Slot
    BY <1>1, <1>2, <1>5, Limits DEF Slot
  <1>7. pool'.valid = pool.valid \cup {p} /\ pool'.last = [pool.last EXCEPT ![p] = h]
    BY <1>4
  <1> HIDE DEF p
  <1>8. \A s \in Slot : s # p => pool'.last[s] = pool.last[s]
    BY <1>1, <1>7 DEF Slot
  <1> QED
    BY <1>1, <1>5, <1>6, <1>7, <1>8 DEF PoolInv, p

LEMMA PoolGone ==
    ASSUME PoolInv, NEW p \in Slot, Used(p), pool' = Conns!AfterFree(pool, Idx(p), FALSE)
    PROVE  PoolInv' /\ pool'.last = pool.last /\ pool'.valid = pool.valid \ {p}
  <1>1. p \in pool.valid /\ p # 0 /\ Conns!PosOf(Idx(p)) = p
    BY Limits DEF Used, Slot, PoolInv, PoolOK, Idx, Conns!PosOf
  <1>2. pool' = [pool EXCEPT !.free = Append(@, p), !.valid = @ \ {p}]
    BY <1>1 DEF Conns!AfterFree
  <1>3. Cap \in Nat \ {0} /\ PoolOK(pool, Cap) /\ 0 \in pool.valid
    BY Limits DEF PoolInv
  <1>4. PoolOK(pool', Cap) /\ pool'.last = pool.last /\ pool'.valid = pool.valid \ {p}
    <2> DEFINE pk == [pool EXCEPT !.free = Append(@, p), !.valid = @ \ {p}]
    <2>1. pk = [pool EXCEPT !.free = Append(@, p), !.valid = @ \ {p}]
      OBVIOUS
    <2> HIDE DEF pk
    <2>2. PoolOK(pk, Cap)
      BY <1>1, <1>3, <2>1, Given
    <2>3. pk.last = pool.last /\ pk.valid = pool.valid \ {p}
      BY <1>3, <2>1 DEF PoolOK
    <2> QED
      BY <1>2, <2>1, <2>2, <2>3
  <1> QED
    <2>1. 0 \in pool'.valid
      BY <1>1, <1>3, <1>4
    <2> QED
      BY <1>4, <2>1 DEF PoolInv

\* The waiting connections have handles.
LEMMA WaitingNamed ==
    ASSUME PoolInv
    PROVE  /\ Named(Waiting, pool.last)
           /\ \A p \in Slot : Used(p) => Named(Waiting \cup {p}, pool.last)
  BY Limits DEF PoolInv, PoolOK, Named, Waiting, Real, Used, Slot

\* The sets after each kind of step.
SameSets == Real' = Real /\ Passed' = Passed /\ Waiting' = Waiting

LEMMA SetsMarked ==
    ASSUME ConnInv, NEW p \in Slot, Marked(p)
    PROVE  /\ ConnInv' /\ SameSets
           /\ \A s \in Slot : Alike(conn'[s], conn[s])
  <1>1. PICK r \in ConnRecord : Alike(r, conn[p]) /\ conn' = [conn EXCEPT ![p] = r]
    BY DEF Marked
  <1>2. conn \in [Slot -> ConnRecord] /\ pool' = pool
    BY DEF ConnInv, Marked
  <1>3. \A s \in Slot : Alike(conn'[s], conn[s])
    BY <1>1, <1>2 DEF Alike
  <1>4. conn' \in [Slot -> ConnRecord]
    BY <1>1, <1>2
  <1>5. ConnInv'
    BY <1>3, <1>4 DEF ConnInv, Alike
  <1>6. SameSets
    BY <1>2, <1>3 DEF SameSets, Real, Passed, Waiting, Used, Alike
  <1> QED
    BY <1>3, <1>5, <1>6

LEMMA SetsMade ==
    ASSUME ConnInv, PoolInv, NEW r, Made(r)
    PROVE  LET p == Head(pool.free)
           IN  /\ ConnInv' /\ PoolInv' /\ p \in Slot /\ p \notin pool.valid
               /\ Real' = IF r.who = Nobody THEN Real ELSE Real \cup {p}
               /\ Passed' = Passed /\ Waiting' = Waiting
               /\ \A s \in Slot \ {p} : conn'[s] = conn[s] /\ pool'.last[s] = pool.last[s]
  <1> DEFINE p == Head(pool.free)
  <1>1. /\ PoolInv' /\ p \in Slot /\ p \notin pool.valid /\ pool'.valid = pool.valid \cup {p}
        /\ \A s \in Slot : s # p => pool'.last[s] = pool.last[s]
    BY PoolMade DEF Made
  <1>2. /\ conn' = [conn EXCEPT ![p] = r] /\ conn \in [Slot -> ConnRecord]
        /\ r \in ConnRecord /\ r.stage = "new" /\ ~r.inq
    BY DEF Made, ConnInv
  <1> HIDE DEF p
  <1>3. conn'[p] = r /\ \A s \in Slot \ {p} : conn'[s] = conn[s]
    BY <1>1, <1>2
  <1>4. ConnInv'
    BY <1>2, <1>3 DEF ConnInv
  <1>5. \A s \in Slot : Used(s)' <=> Used(s) \/ s = p
    BY <1>1 DEF Used
  <1>6. ~Used(p)
    BY <1>1 DEF Used
  <1>7. Real' = IF r.who = Nobody THEN Real ELSE Real \cup {p}
    BY <1>1, <1>3, <1>5, <1>6 DEF Real
  <1>8. Passed' = Passed /\ Waiting' = Waiting
    <2>1. p \notin Real /\ Real \subseteq Slot
      BY <1>6 DEF Real
    <2>2. \A s \in Real' : s \in Real \/ (s = p /\ conn'[s].stage = "new" /\ ~conn'[s].inq)
      BY <1>2, <1>3, <1>7
    <2>3. \A s \in Real : s \in Real' /\ conn'[s] = conn[s]
      BY <1>3, <1>7, <2>1
    <2> QED
      BY <2>2, <2>3 DEF Passed, Waiting
  <1> QED
    BY <1>1, <1>3, <1>4, <1>7, <1>8 DEF p

LEMMA SetsGone ==
    ASSUME ConnInv, PoolInv, NEW p \in Slot, Gone(p)
    PROVE  /\ ConnInv' /\ PoolInv' /\ pool'.last = pool.last
           /\ Real' = Real \ {p} /\ Passed' = Passed \ {p} /\ Waiting' = Waiting \ {p}
           /\ \A s \in Slot \ {p} : AllButLinks(conn'[s], conn[s])
           /\ ~conn'[p].sent
  <1>1. /\ PoolInv' /\ pool'.last = pool.last /\ pool'.valid = pool.valid \ {p}
        /\ conn' = Closed(p) /\ conn \in [Slot -> ConnRecord]
    BY PoolGone DEF Gone, ConnInv
  <1>2. /\ conn' \in [Slot -> ConnRecord] /\ conn'[p] = NoConn
        /\ \A s \in Slot \ {p} : AllButLinks(conn'[s], conn[s])
    BY <1>1, ClosedTable
  <1>3. ConnInv'
    BY <1>2, NoRecord DEF ConnInv, AllButLinks
  <1>4. \A s \in Slot : Used(s)' <=> Used(s) /\ s # p
    BY <1>1 DEF Used
  <1>5. Real' = Real \ {p}
    BY <1>2, <1>4 DEF Real, AllButLinks
  <1>6. Passed' = Passed \ {p} /\ Waiting' = Waiting \ {p}
    BY <1>2, <1>5 DEF Passed, Waiting, Real, AllButLinks
  <1> QED
    BY <1>1, <1>2, <1>3, <1>5, <1>6, NoRecord

\* tconnd_push_queue, and the announcement of a VIP.
LEMMA SetsSynAck ==
    ASSUME ConnInv, PoolInv, NumberInv, NEW p \in Slot, SynAck(p)
    PROVE  /\ ConnInv' /\ pool' = pool /\ p \in Real /\ p \notin Passed /\ p \notin Waiting
           /\ Real' = Real /\ Passed' = Passed \cup {p}
           /\ Waiting' = IF conn[p].who \in VIP THEN Waiting ELSE Waiting \cup {p}
           /\ \A s \in Slot \ {p} : AllButLinks(conn'[s], conn[s])
           /\ conn[p].who \in VIP =>
                 conn'[p].bypass /\ UNCHANGED queue /\ \A s \in Slot \ {p} : conn'[s] = conn[s]
           /\ conn[p].who \notin VIP =>
                 /\ conn'[p].token = tokenAlloc + 1 /\ conn'[p].prev = qTail
                 /\ conn'[p].next = -1
                 /\ \A s \in Slot \ {p} :
                       /\ conn'[s].prev = conn[s].prev
                       /\ conn'[s].next = IF qTail # -1 /\ s = Pos(qTail) THEN Idx(p) ELSE conn[s].next
  <1>1. /\ Used(p) /\ conn[p].who # Nobody /\ conn[p].stage = "syn" /\ pool' = pool
        /\ conn \in [Slot -> ConnRecord] /\ conn[p] \in ConnRecord
    BY DEF SynAck, Heard, Readable, ConnInv
  <1>2. p \in Real /\ p \notin Passed /\ p \notin Waiting /\ ~conn[p].inq
    BY <1>1 DEF Real, Passed, Waiting, ConnInv, Used
  <1>3. Idx(p) \in Idxs /\ Idx(p) \in Nat /\ -1 \in Idxs
    BY Limits DEF Idx, PoolInv, PoolOK, Slot, Idxs
  <1>4. CASE conn[p].who \in VIP
    <2> DEFINE r == [conn[p] EXCEPT !.stage = "pass", !.bypass = TRUE, !.sent = TRUE]
    <2>1. conn' = [conn EXCEPT ![p] = r] /\ UNCHANGED queue
      BY <1>1, <1>4 DEF SynAck
    <2>2. r \in ConnRecord /\ r.stage = "pass" /\ r.bypass /\ r.who = conn[p].who /\ r.inq = conn[p].inq
      BY <1>1 DEF ConnRecord
    <2> HIDE DEF r
    <2>3. conn'[p] = r /\ conn' \in [Slot -> ConnRecord] /\ \A s \in Slot \ {p} : conn'[s] = conn[s]
      BY <1>1, <2>1, <2>2
    <2>4. ConnInv'
      BY <1>1, <1>2, <2>2, <2>3 DEF ConnInv
    <2>5. Real' = Real
      BY <1>1, <2>2, <2>3 DEF Real, Used
    <2>6. Passed' = Passed \cup {p} /\ Waiting' = Waiting
      <3>1. \A s \in Real : conn'[s] = IF s = p THEN r ELSE conn[s]
        BY <2>3 DEF Real
      <3> QED
        BY <1>2, <2>2, <2>5, <3>1 DEF Passed, Waiting
    <2> QED
      BY <1>1, <1>2, <1>4, <2>1, <2>2, <2>3, <2>4, <2>5, <2>6 DEF AllButLinks
  <1>5. CASE conn[p].who \notin VIP
    <2> DEFINE r == [conn[p] EXCEPT !.stage = "pass", !.kept = 1, !.inq = TRUE,
                                    !.token = tokenAlloc + 1, !.prev = qTail, !.next = -1]
               t(s) == IF qTail # -1 /\ s = Pos(qTail) THEN [conn[s] EXCEPT !.next = Idx(p)] ELSE conn[s]
    <2>1. conn' = [s \in Slot |-> IF s = p THEN r ELSE t(s)]
      BY <1>1, <1>5 DEF SynAck, PushQueue
    <2>2. /\ r \in ConnRecord /\ r.stage = "pass" /\ r.inq /\ r.who = conn[p].who
          /\ r.token = tokenAlloc + 1 /\ r.prev = qTail /\ r.next = -1
      <3>1. tokenAlloc + 1 \in Nat /\ qTail \in Idxs /\ 1 \in 0 .. BufPkgs
        BY Limits DEF NumberInv
      <3> QED
        BY <1>1, <1>3, <3>1 DEF ConnRecord
    <2>3. ASSUME NEW s \in Slot
          PROVE  /\ t(s) \in ConnRecord /\ AllButLinks(t(s), conn[s]) /\ t(s).prev = conn[s].prev
                 /\ t(s).next = IF qTail # -1 /\ s = Pos(qTail) THEN Idx(p) ELSE conn[s].next
      <3>1. conn[s] \in ConnRecord
        BY <1>1
      <3> QED
        BY <1>3, <3>1 DEF ConnRecord, AllButLinks
    <2> HIDE DEF r, t
    <2>4. /\ conn'[p] = r /\ conn' \in [Slot -> ConnRecord]
          /\ \A s \in Slot \ {p} : conn'[s] = t(s)
      BY <2>1, <2>2, <2>3
    <2>5. ConnInv'
      BY <1>1, <2>2, <2>3, <2>4 DEF ConnInv, AllButLinks
    <2>6. Real' = Real
      BY <1>1, <2>2, <2>3, <2>4 DEF Real, Used, AllButLinks
    <2>7. Passed' = Passed \cup {p} /\ Waiting' = Waiting \cup {p}
      BY <1>2, <2>2, <2>3, <2>4, <2>6 DEF Passed, Waiting, AllButLinks, Real
    <2> QED
      BY <1>1, <1>2, <1>5, <2>2, <2>3, <2>4, <2>5, <2>6, <2>7
  <1> QED
    BY <1>4, <1>5

\* tconnd_do_relay
LEMMA SetsRelay ==
    ASSUME ConnInv, PoolInv, NEW p \in Slot, NEW old \in Slot, Relay(p, old)
    PROVE  /\ ConnInv' /\ PoolInv' /\ pool'.last = pool.last
           /\ p \in Real /\ p \notin Passed /\ p \notin Waiting /\ old # p
           /\ Real' = Real \ {old} /\ Passed' = (Passed \ {old}) \cup {p} /\ Waiting' = Waiting \ {old}
           /\ \A s \in Slot \ {p, old} : AllButLinks(conn'[s], conn[s])
           /\ conn'[p].bypass /\ ~conn'[old].sent
  <1>1. /\ PoolInv' /\ pool'.last = pool.last /\ pool'.valid = pool.valid \ {old}
        /\ old # p /\ Used(p) /\ conn[p].who # Nobody /\ conn[p].stage # "pass"
        /\ conn \in [Slot -> ConnRecord] /\ conn[p] \in ConnRecord
    BY PoolGone DEF Relay, Heard, Readable, ConnInv
  <1>2. p \in Real /\ p \notin Passed /\ p \notin Waiting /\ ~conn[p].inq
    BY <1>1 DEF Real, Passed, Waiting, ConnInv, Used
  <1> DEFINE r == [conn[p] EXCEPT !.stage = "pass", !.bypass = TRUE, !.sent = TRUE]
  <1>3. conn' = [Closed(old) EXCEPT ![p] = r]
    BY DEF Relay
  <1>4. r \in ConnRecord /\ r.stage = "pass" /\ r.bypass /\ r.who = conn[p].who /\ r.inq = conn[p].inq
    BY <1>1 DEF ConnRecord
  <1> HIDE DEF r
  <1>5. /\ Closed(old) \in [Slot -> ConnRecord] /\ Closed(old)[old] = NoConn
        /\ \A s \in Slot \ {old} : AllButLinks(Closed(old)[s], conn[s])
    BY <1>1, ClosedTable
  <1>6. /\ conn'[p] = r /\ conn'[old] = NoConn /\ conn' \in [Slot -> ConnRecord]
        /\ \A s \in Slot \ {p, old} : AllButLinks(conn'[s], conn[s])
    BY <1>1, <1>3, <1>4, <1>5
  <1>7. ConnInv'
    BY <1>1, <1>2, <1>4, <1>6, NoRecord DEF ConnInv, AllButLinks
  <1>8. \A s \in Slot : Used(s)' <=> Used(s) /\ s # old
    BY <1>1 DEF Used
  <1>9. Real' = Real \ {old}
    BY <1>1, <1>4, <1>6, <1>8 DEF Real, AllButLinks
  <1>10. Passed' = (Passed \ {old}) \cup {p}
    BY <1>1, <1>2, <1>4, <1>6, <1>9 DEF Passed, Real, AllButLinks
  <1>11. Waiting' = Waiting \ {old}
    BY <1>1, <1>2, <1>4, <1>6, <1>9 DEF Waiting, Real, AllButLinks
  <1> QED
    BY <1>1, <1>2, <1>4, <1>6, <1>7, <1>9, <1>10, <1>11, NoRecord

\* tconnd_active_waitqueue
LEMMA SetsActivate ==
    ASSUME ConnInv, NEW p \in Slot, Activate(p)
    PROVE  /\ ConnInv' /\ pool' = pool /\ p \in Waiting
           /\ Real' = Real /\ Passed' = Passed /\ Waiting' = Waiting \ {p}
           /\ \A s \in Slot \ {p} : conn'[s] = Unlinked(p)[s] /\ AllButLinks(conn'[s], conn[s])
  <1>1. /\ Used(p) /\ conn[p].inq /\ pool' = pool
        /\ conn \in [Slot -> ConnRecord] /\ conn[p] \in ConnRecord
    BY DEF Activate, InQueue, ConnInv
  <1>2. conn[p].stage = "pass" /\ conn[p].who # Nobody /\ p \in Waiting
    BY <1>1 DEF ConnInv, Waiting, Real, Used
  <1> DEFINE r == [conn[p] EXCEPT !.inq = FALSE, !.sent = TRUE, !.kept = 0, !.token = 0,
                                  !.prev = -1, !.next = -1]
  <1>3. conn' = [Unlinked(p) EXCEPT ![p] = r]
    BY DEF Activate
  <1>4. r \in ConnRecord /\ r.stage = conn[p].stage /\ r.who = conn[p].who /\ ~r.inq
    <2>1. -1 \in Idxs /\ 0 \in 0 .. BufPkgs
      BY Limits DEF Idxs
    <2> QED
      BY <1>1, <2>1 DEF ConnRecord
  <1> HIDE DEF r
  <1>5. Unlinked(p) \in [Slot -> ConnRecord] /\ \A s \in Slot : AllButLinks(Unlinked(p)[s], conn[s])
    BY <1>1, UnlinkedTable
  <1>6. /\ conn'[p] = r /\ conn' \in [Slot -> ConnRecord]
        /\ \A s \in Slot \ {p} : conn'[s] = Unlinked(p)[s] /\ AllButLinks(conn'[s], conn[s])
    BY <1>3, <1>4, <1>5
  <1>7. ConnInv'
    BY <1>2, <1>4, <1>6 DEF ConnInv, AllButLinks
  <1>8. Real' = Real
    BY <1>1, <1>2, <1>4, <1>6 DEF Real, Used, AllButLinks
  <1>9. Passed' = Passed /\ Waiting' = Waiting \ {p}
    BY <1>2, <1>4, <1>6, <1>8 DEF Passed, Waiting, Real, AllButLinks
  <1> QED
    BY <1>1, <1>2, <1>6, <1>7, <1>8, <1>9
-----------------------------------------------------------------------------
(***************************************************************************)
(* Every step keeps the queue.                                             *)
(***************************************************************************)

LEMMA QueueStay ==
    ASSUME QueueInv, UNCHANGED queue, Waiting' = Waiting,
           \A s \in Waiting : /\ pool'.last[s] = pool.last[s] /\ conn'[s].prev = conn[s].prev
                              /\ conn'[s].next = conn[s].next /\ conn'[s].token = conn[s].token
    PROVE  QueueInv'
  <1>1. Tokens(conn, Waiting, tokenAlloc) /\ Queued(conn, Waiting, pool.last, qHead, qTail)
    BY DEF QueueInv
  <1>2. \A W, H, G, con, new, qh, qt, ta :
           /\ \A p \in W : /\ G[p] = H[p] /\ new[p].prev = con[p].prev
                           /\ new[p].next = con[p].next /\ new[p].token = con[p].token
           /\ Tokens(con, W, ta) /\ Queued(con, W, H, qh, qt)
           => Tokens(new, W, ta) /\ Queued(new, W, G, qh, qt)
    BY SameQueue
  <1>3. Tokens(conn', Waiting, tokenAlloc) /\ Queued(conn', Waiting, pool'.last, qHead, qTail)
    BY <1>1, <1>2
  <1>4. qHead' = qHead /\ qTail' = qTail /\ tokenAlloc' = tokenAlloc
    BY DEF queue
  <1>5. /\ Tokens(conn', Waiting', tokenAlloc')
        /\ Queued(conn', Waiting', pool'.last, qHead', qTail')
    BY <1>3, <1>4
  <1> QED
    BY <1>5 DEF QueueInv

\* A connection is taken out of the queue.
LEMMA QueuePop ==
    ASSUME ConnInv, PoolInv, QueueInv, NEW q \in Waiting, PopQueue(q),
           pool'.last = pool.last, Waiting' = Waiting \ {q},
           \A s \in Waiting \ {q} : conn'[s] = Unlinked(q)[s]
    PROVE  QueueInv'
  <1>1. Named(Waiting, pool.last) /\ q \in Slot /\ conn \in [Slot -> ConnRecord]
    BY WaitingNamed DEF Waiting, Real, ConnInv
  <1>3. \A s \in Waiting \ {q} : s \in Slot /\ conn'[s] = Unlinked(q)[s]
    BY DEF Waiting, Real
  <1>4. \A s \in Waiting \ {q} :
           /\ conn'[s].token = conn[s].token
           /\ conn'[s].next = IF conn[q].prev # -1 /\ s = Pos(conn[q].prev) THEN conn[q].next ELSE conn[s].next
           /\ conn'[s].prev = IF conn[q].next # -1 /\ s = Pos(conn[q].next) THEN conn[q].prev ELSE conn[s].prev
    BY <1>1, <1>3, UnlinkedTable DEF AllButLinks
  <1>5. /\ Tokens(conn', Waiting \ {q}, tokenAlloc)
        /\ Queued(conn', Waiting \ {q}, pool.last,
                  IF qHead = pool.last[q] THEN conn[q].next ELSE qHead,
                  IF qTail = pool.last[q] THEN conn[q].prev ELSE qTail)
    BY <1>1, <1>4, Popped DEF QueueInv
  <1>6. /\ qHead' = (IF qHead = pool.last[q] THEN conn[q].next ELSE qHead)
        /\ qTail' = (IF qTail = pool.last[q] THEN conn[q].prev ELSE qTail)
        /\ tokenAlloc' = tokenAlloc
    BY DEF PopQueue, Idx
  <1> QED
    BY <1>5, <1>6 DEF QueueInv

\* A connection is put into the queue.
LEMMA QueuePush ==
    ASSUME ConnInv, PoolInv, NumberInv, QueueInv, NEW p \in Slot, SynAck(p), conn[p].who \notin VIP
    PROVE  QueueInv'
  <1>1. /\ pool' = pool /\ p \in Real /\ p \notin Passed /\ p \notin Waiting
        /\ Real' = Real /\ Passed' = Passed \cup {p} /\ Waiting' = Waiting \cup {p}
        /\ conn'[p].token = tokenAlloc + 1 /\ conn'[p].prev = qTail
        /\ conn'[p].next = -1
        /\ \A s \in Slot \ {p} :
              /\ AllButLinks(conn'[s], conn[s])
              /\ conn'[s].prev = conn[s].prev
              /\ conn'[s].next = IF qTail # -1 /\ s = Pos(qTail) THEN Idx(p) ELSE conn[s].next
    BY SetsSynAck
  <1>2. Used(p) /\ Waiting \subseteq Slot /\ Real \subseteq Slot /\ Waiting \subseteq Passed
    BY <1>1 DEF Real, Waiting, Passed, ConnInv
  <1>3. Named(Waiting \cup {p}, pool.last)
    BY <1>2, WaitingNamed
  <1>5. \A s \in Waiting :
           /\ conn'[s].token = conn[s].token /\ conn'[s].prev = conn[s].prev
           /\ conn'[s].next = IF qTail # -1 /\ s = Pos(qTail) THEN pool.last[p] ELSE conn[s].next
    BY <1>1, <1>2 DEF AllButLinks, Idx
  <1>6. tokenAlloc \in Int
    BY DEF NumberInv
  <1>7. /\ tokenAlloc' = tokenAlloc + 1 /\ qTail' = pool.last[p]
        /\ qHead' = IF qTail = -1 THEN pool.last[p] ELSE qHead
    <2>1. PushQueue(p)
      BY <1>1 DEF SynAck
    <2> QED
      BY <2>1 DEF PushQueue, Idx
  <1>8. /\ Tokens(conn', Waiting', tokenAlloc + 1)
        /\ Queued(conn', Waiting', pool.last, qHead', pool.last[p])
    <2>1. Tokens(conn, Waiting, tokenAlloc) /\ Queued(conn, Waiting, pool.last, qHead, qTail)
      BY DEF QueueInv
    <2>2. /\ p \notin Waiting /\ conn'[p].token = tokenAlloc + 1
          /\ conn'[p].prev = qTail /\ conn'[p].next = -1
      BY <1>1
    <2>4. Waiting' = Waiting \cup {p} /\ Named(Waiting', pool.last)
      BY <1>1, <1>3
    <2>3. qHead' = IF qTail = -1 THEN pool.last[p] ELSE qHead
      BY <1>7
    <2> QED
      BY <1>5, <1>6, <2>1, <2>2, <2>3, <2>4, Pushed
  <1> QED
    BY <1>1, <1>7, <1>8 DEF QueueInv

LEMMA QueueStep ==
    ASSUME ShapeInv, QueueInv, Next
    PROVE  QueueInv'
  <1>0. ConnInv /\ PoolInv /\ NumberInv
    BY DEF ShapeInv
  <1>1. CASE Still \/ ActiveBegin
    <2>1. UNCHANGED <<pool, conn, queue>>
      BY <1>1 DEF Still, ActiveBegin
    <2> QED
      BY <2>1, QueueStay DEF Waiting, Passed, Real, Used
  <1>2. ASSUME NEW p \in Slot, Marked(p) PROVE QueueInv'
    <2>1. SameSets /\ \A s \in Slot : Alike(conn'[s], conn[s])
      BY <1>0, <1>2, SetsMarked
    <2>2. UNCHANGED <<pool, queue>>
      BY <1>2 DEF Marked
    <2>3. Real \subseteq Slot /\ Waiting \subseteq Slot
      BY DEF Real, Waiting
    <2> QED
      BY <2>1, <2>2, <2>3, QueueStay DEF SameSets, Alike
  <1>3. ASSUME NEW r, Made(r) PROVE QueueInv'
    <2> DEFINE p == Head(pool.free)
    <2>1. /\ p \in Slot /\ p \notin pool.valid
          /\ Real' = IF r.who = Nobody THEN Real ELSE Real \cup {p}
          /\ Passed' = Passed /\ Waiting' = Waiting
          /\ \A s \in Slot \ {p} : conn'[s] = conn[s] /\ pool'.last[s] = pool.last[s]
      BY <1>0, <1>3, SetsMade
    <2>2. UNCHANGED queue
      BY <1>3 DEF Made
    <2> HIDE DEF p
    <2>3. p \notin Real /\ Real \subseteq Slot /\ Waiting \subseteq Real
      BY <2>1 DEF Real, Used, Waiting
    <2>4. Tokens(conn', Waiting, tokenAlloc) /\ Queued(conn', Waiting, pool'.last, qHead, qTail)
      BY <2>1, <2>3, SameQueue DEF QueueInv
    <2> QED
      BY <2>1, <2>2, <2>4 DEF QueueInv, queue
  <1>4. ASSUME NEW p \in Slot, SynAck(p) PROVE QueueInv'
    <2>1. CASE conn[p].who \notin VIP
      BY <1>0, <1>4, <2>1, QueuePush
    <2>2. CASE conn[p].who \in VIP
      <3>1. /\ pool' = pool /\ p \notin Waiting /\ UNCHANGED queue
            /\ Real' = Real /\ Passed' = Passed \cup {p} /\ Waiting' = Waiting
            /\ \A s \in Slot \ {p} : conn'[s] = conn[s]
        BY <1>0, <1>4, <2>2, SetsSynAck
      <3>2. Real \subseteq Slot /\ Waiting \subseteq Slot
        BY DEF Real, Waiting
      <3> QED
        BY <3>1, <3>2, QueueStay
    <2> QED
      BY <2>1, <2>2
  <1>5. ASSUME NEW p \in Slot, Gone(p) PROVE QueueInv'
    <2>1. /\ pool'.last = pool.last
          /\ Real' = Real \ {p} /\ Passed' = Passed \ {p} /\ Waiting' = Waiting \ {p}
      BY <1>0, <1>5, SetsGone
    <2>2. conn \in [Slot -> ConnRecord] /\ conn' = Closed(p)
      BY <1>0, <1>5 DEF ConnInv, Gone
    <2>3. Real \subseteq Slot /\ Waiting \subseteq Slot
      BY DEF Real, Waiting
    <2>4. CASE conn[p].inq
      <3>1. p \in Waiting /\ PopQueue(p)
        BY <1>0, <1>5, <2>4 DEF Gone, Waiting, Real, ConnInv
      <3>2. \A s \in Slot : s # p => conn'[s] = Unlinked(p)[s]
        BY <2>2, <2>4, ClosedTable
      <3> QED
        BY <1>0, <2>1, <2>3, <3>1, <3>2, QueuePop
    <2>5. CASE ~conn[p].inq
      <3>1. \A s \in Slot : s # p => conn'[s] = conn[s]
        BY <2>2, <2>5, ClosedTable
      <3>2. p \notin Waiting /\ UNCHANGED queue
        BY <1>5, <2>5 DEF Gone, Waiting
      <3>3. Waiting' = Waiting
        BY <2>1, <3>2
      <3>4. Tokens(conn', Waiting, tokenAlloc) /\ Queued(conn', Waiting, pool'.last, qHead, qTail)
        BY <2>1, <2>3, <3>1, <3>2, SameQueue DEF QueueInv
      <3> QED
        BY <3>2, <3>3, <3>4 DEF QueueInv, queue
    <2> QED
      BY <2>4, <2>5
  <1>6. ASSUME NEW p \in Slot, NEW old \in Slot, Relay(p, old) PROVE QueueInv'
    <2>1. /\ pool'.last = pool.last /\ p \notin Waiting /\ old # p
          /\ Real' = Real \ {old} /\ Passed' = (Passed \ {old}) \cup {p} /\ Waiting' = Waiting \ {old}
      BY <1>0, <1>6, SetsRelay
    <2>2. conn \in [Slot -> ConnRecord]
      BY <1>0 DEF ConnInv
    <2>3. Real \subseteq Slot /\ Waiting \subseteq Slot /\ p \notin Passed /\ Used(old)
      BY <1>0, <1>6, SetsRelay DEF Real, Waiting, Relay
    <2>4. \A s \in Slot : s # p /\ s # old => conn'[s] = Closed(old)[s]
      BY <1>6, <2>2, ClosedTable DEF Relay
    <2>5. CASE conn[old].inq
      <3>1. old \in Waiting /\ PopQueue(old)
        BY <1>0, <1>6, <2>3, <2>5 DEF Relay, Waiting, Real, ConnInv
      <3>2. \A s \in Slot : s # old /\ s # p => conn'[s] = Unlinked(old)[s]
        BY <2>2, <2>4, <2>5, ClosedTable
      <3> QED
        BY <1>0, <2>1, <2>3, <3>1, <3>2, QueuePop
    <2>6. CASE ~conn[old].inq
      <3>1. \A s \in Slot : s # old /\ s # p => conn'[s] = conn[s]
        BY <2>2, <2>4, <2>6, ClosedTable
      <3>2. old \notin Waiting /\ UNCHANGED queue
        BY <1>6, <2>6 DEF Relay, Waiting
      <3>3. Waiting' = Waiting
        BY <2>1, <3>2
      <3>4. Tokens(conn', Waiting, tokenAlloc) /\ Queued(conn', Waiting, pool'.last, qHead, qTail)
        BY <2>1, <2>3, <3>1, <3>2, SameQueue DEF QueueInv
      <3> QED
        BY <3>2, <3>3, <3>4 DEF QueueInv, queue
    <2> QED
      BY <2>5, <2>6
  <1>7. ASSUME NEW p \in Slot, Activate(p) PROVE QueueInv'
    <2>1. /\ pool' = pool /\ p \in Waiting /\ PopQueue(p)
          /\ Real' = Real /\ Passed' = Passed /\ Waiting' = Waiting \ {p}
          /\ \A s \in Slot : s # p => conn'[s] = Unlinked(p)[s]
      BY <1>0, <1>7, SetsActivate DEF Activate
    <2>2. Waiting \subseteq Slot
      BY DEF Waiting, Real
    <2> QED
      BY <1>0, <2>1, <2>2, QueuePop
  <1> QED
    BY <1>1, <1>2, <1>3, <1>4, <1>5, <1>6, <1>7, Kinds DEF TableStep
-----------------------------------------------------------------------------
(***************************************************************************)
(* Every step keeps the counts of stConnInfo.                              *)
(***************************************************************************)
LEMMA Sizes ==
    ASSUME NEW S, IsFiniteSet(S), NEW p
    PROVE  /\ Number(S) \in Nat /\ IsFiniteSet(S \cup {p}) /\ IsFiniteSet(S \ {p})
           /\ Number(S \cup {p}) = IF p \in S THEN Number(S) ELSE Number(S) + 1
           /\ Number(S \ {p}) = IF p \in S THEN Number(S) - 1 ELSE Number(S)
  BY FS_CardinalityType, FS_AddElement, FS_RemoveElement DEF Number

LEMMA Finite ==
    ASSUME NEW S \in SUBSET Slot
    PROVE  IsFiniteSet(S) /\ Number(S) \in Nat
  <1>1. IsFiniteSet(Slot)
    BY Limits, FS_Interval DEF Slot
  <1> QED
    BY <1>1, FS_Subset, FS_CardinalityType DEF Number

LEMMA Joins ==
    ASSUME NEW S, IsFiniteSet(S), NEW p, p \notin S, NEW T, T = S \cup {p}
    PROVE  Number(T) = Number(S) + 1
  BY Sizes

LEMMA Leaves ==
    ASSUME NEW S, IsFiniteSet(S), NEW p \in S, NEW T, T = S \ {p}
    PROVE  Number(T) = Number(S) - 1
  BY Sizes

\* The counts, by what they count.
Counted(i, rel, t, d, w, a) ==
    /\ i \in InfoRecord
    /\ i.total = 1 + t - rel /\ i.idle = 1 + d - rel /\ i.wait = w /\ i.active = a

LEMMA Counts ==
    ASSUME NEW i, NEW rel \in Int, NEW t \in Int, NEW d \in Int, NEW w \in Int, NEW a \in Int
    PROVE  i = [total |-> 1 + t - rel, idle |-> 1 + d - rel, wait |-> w, active |-> a]
              <=> Counted(i, rel, t, d, w, a)
  BY DEF Counted, InfoRecord

\* One number less here, one more there.
LEMMA Updates ==
    ASSUME NEW i \in InfoRecord, NEW j
    PROVE  /\ j = [i EXCEPT !.total = @ + 1, !.idle = @ + 1] =>
                 /\ j \in InfoRecord /\ j.total = i.total + 1 /\ j.idle = i.idle + 1
                 /\ j.wait = i.wait /\ j.active = i.active
           /\ j = [i EXCEPT !.idle = @ - 1, !.active = @ + 1] =>
                 /\ j \in InfoRecord /\ j.total = i.total /\ j.idle = i.idle - 1
                 /\ j.wait = i.wait /\ j.active = i.active + 1
           /\ j = [i EXCEPT !.idle = @ - 1, !.wait = @ + 1] =>
                 /\ j \in InfoRecord /\ j.total = i.total /\ j.idle = i.idle - 1
                 /\ j.wait = i.wait + 1 /\ j.active = i.active
           /\ j = [i EXCEPT !.wait = @ - 1, !.active = @ + 1] =>
                 /\ j \in InfoRecord /\ j.total = i.total /\ j.idle = i.idle
                 /\ j.wait = i.wait - 1 /\ j.active = i.active + 1
  <1>1. i.total \in Int /\ i.idle \in Int /\ i.wait \in Int /\ i.active \in Int
    BY DEF InfoRecord
  <1>2. \A x, y \in Int : /\ [i EXCEPT !.total = x, !.idle = y] \in InfoRecord
                          /\ [i EXCEPT !.idle = x, !.active = y] \in InfoRecord
                          /\ [i EXCEPT !.idle = x, !.wait = y] \in InfoRecord
                          /\ [i EXCEPT !.wait = x, !.active = y] \in InfoRecord
    BY DEF InfoRecord
  <1>3. ASSUME j = [i EXCEPT !.total = @ + 1, !.idle = @ + 1]
        PROVE  /\ j \in InfoRecord /\ j.total = i.total + 1 /\ j.idle = i.idle + 1
               /\ j.wait = i.wait /\ j.active = i.active
    <2>1. i.total + 1 \in Int /\ i.idle + 1 \in Int
      BY <1>1
    <2>2. j \in InfoRecord
      BY <1>2, <1>3, <2>1
    <2> QED
      BY <1>3, <2>2 DEF InfoRecord
  <1>4. ASSUME j = [i EXCEPT !.idle = @ - 1, !.active = @ + 1]
        PROVE  /\ j \in InfoRecord /\ j.total = i.total /\ j.idle = i.idle - 1
               /\ j.wait = i.wait /\ j.active = i.active + 1
    <2>1. i.idle - 1 \in Int /\ i.active + 1 \in Int
      BY <1>1
    <2>2. j \in InfoRecord
      BY <1>2, <1>4, <2>1
    <2> QED
      BY <1>4, <2>2 DEF InfoRecord
  <1>5. ASSUME j = [i EXCEPT !.idle = @ - 1, !.wait = @ + 1]
        PROVE  /\ j \in InfoRecord /\ j.total = i.total /\ j.idle = i.idle - 1
               /\ j.wait = i.wait + 1 /\ j.active = i.active
    <2>1. i.idle - 1 \in Int /\ i.wait + 1 \in Int
      BY <1>1
    <2>2. j \in InfoRecord
      BY <1>2, <1>5, <2>1
    <2> QED
      BY <1>5, <2>2 DEF InfoRecord
  <1>6. ASSUME j = [i EXCEPT !.wait = @ - 1, !.active = @ + 1]
        PROVE  /\ j \in InfoRecord /\ j.total = i.total /\ j.idle = i.idle
               /\ j.wait = i.wait - 1 /\ j.active = i.active + 1
    <2>1. i.wait - 1 \in Int /\ i.active + 1 \in Int
      BY <1>1
    <2>2. j \in InfoRecord
      BY <1>2, <1>6, <2>1
    <2> QED
      BY <1>6, <2>2 DEF InfoRecord
  <1> QED
    BY <1>3, <1>4, <1>5, <1>6

LEMMA ClosedInfo ==
    ASSUME info \in InfoRecord, NEW p
    PROVE  /\ InfoClosed(p) \in InfoRecord /\ InfoClosed(p).total = info.total - 1
           /\ InfoClosed(p).wait = IF conn[p].inq THEN info.wait - 1 ELSE info.wait
           /\ InfoClosed(p).active = IF conn[p].stage = "pass" /\ ~conn[p].inq THEN info.active - 1
                                     ELSE info.active
           /\ InfoClosed(p).idle = IF conn[p].stage = "pass" THEN info.idle ELSE info.idle - 1
  <1> DEFINE t == info.total - 1
             w == IF conn[p].inq THEN info.wait - 1 ELSE info.wait
             a == IF conn[p].stage = "pass" /\ ~conn[p].inq THEN info.active - 1 ELSE info.active
             d == IF conn[p].stage = "pass" THEN info.idle ELSE info.idle - 1
  <1>1. t \in Int /\ w \in Int /\ a \in Int /\ d \in Int
    BY DEF InfoRecord
  <1>2. InfoClosed(p) = [info EXCEPT !.total = t, !.wait = w, !.active = a, !.idle = d]
    BY DEF InfoClosed
  <1> HIDE DEF t, w, a, d
  <1>3. /\ InfoClosed(p) \in InfoRecord /\ InfoClosed(p).total = t /\ InfoClosed(p).wait = w
        /\ InfoClosed(p).active = a /\ InfoClosed(p).idle = d
    BY <1>1, <1>2 DEF InfoRecord
  <1> QED
    BY <1>3 DEF t, w, a, d

LEMMA CountStep ==
    ASSUME ShapeInv, CountsMatch, Next
    PROVE  released' \in Int /\ CountsMatch'
  <1> DEFINE D == Real \ Passed
             A == Passed \ Waiting
             t == Number(Real)
             d == Number(D)
             w == Number(Waiting)
             a == Number(A)
  <1>0. ConnInv /\ PoolInv /\ NumberInv /\ released \in Int
    BY DEF ShapeInv, NumberInv
  <1>1. /\ Real \in SUBSET Slot /\ D \in SUBSET Slot /\ Waiting \in SUBSET Slot
        /\ A \in SUBSET Slot
    BY DEF Real, Passed, Waiting
  <1>2. /\ IsFiniteSet(Real) /\ IsFiniteSet(D) /\ IsFiniteSet(Waiting) /\ IsFiniteSet(A)
        /\ t \in Nat /\ d \in Nat /\ w \in Nat /\ a \in Nat
    BY <1>1, Finite
  <1>3. Counted(info, released, t, d, w, a)
    BY <1>0, <1>2, Counts DEF CountsMatch
  <1>4. Passed \subseteq Real /\ Waiting \subseteq Passed
    BY <1>0 DEF Passed, Waiting, Real, ConnInv
  <1>5. SUFFICES ASSUME NEW tt, tt = Number(Real'), NEW dd, dd = Number(Real' \ Passed'),
                        NEW ww, ww = Number(Waiting'), NEW aa, aa = Number(Passed' \ Waiting')
                 PROVE  released' \in Int /\ Counted(info', released', tt, dd, ww, aa)
    <2>1. /\ Real' \in SUBSET Slot /\ Real' \ Passed' \in SUBSET Slot /\ Waiting' \in SUBSET Slot
          /\ Passed' \ Waiting' \in SUBSET Slot
      BY DEF Real, Passed, Waiting
    <2>2. /\ Number(Real') \in Int /\ Number(Real' \ Passed') \in Int
          /\ Number(Waiting') \in Int /\ Number(Passed' \ Waiting') \in Int
      BY <2>1, Finite
    <2>3. /\ released' \in Int
          /\ Counted(info', released', Number(Real'), Number(Real' \ Passed'), Number(Waiting'),
                     Number(Passed' \ Waiting'))
      BY <1>5
    <2> QED
      BY <2>2, <2>3, Counts DEF CountsMatch
  <1> DEFINE Right == released' \in Int /\ Counted(info', released', tt, dd, ww, aa)
  <1> HIDE DEF D, A, t, d, w, a
  <1>6. ASSUME SameSets, UNCHANGED <<info, released>> PROVE Right
    <2>1. tt = t /\ dd = d /\ ww = w /\ aa = a
      BY <1>5, <1>6 DEF SameSets, t, d, w, a, D, A
    <2> QED
      BY <1>0, <1>3, <1>6, <2>1
  <1>7. CASE Still \/ ActiveBegin
    <2>1. UNCHANGED <<pool, conn, info, released>>
      BY <1>7 DEF Still, ActiveBegin, hist
    <2>2. SameSets
      BY <2>1 DEF SameSets, Real, Passed, Waiting, Used
    <2> QED
      BY <1>6, <2>1, <2>2
  <1>8. ASSUME NEW p \in Slot, Marked(p) PROVE Right
    BY <1>0, <1>6, <1>8, SetsMarked DEF Marked
  <1>9. ASSUME NEW r, Made(r) PROVE Right
    <2> DEFINE p == Head(pool.free)
    <2>1. /\ p \notin pool.valid /\ Passed' = Passed /\ Waiting' = Waiting
          /\ Real' = IF r.who = Nobody THEN Real ELSE Real \cup {p}
      BY <1>0, <1>9, SetsMade
    <2>2. released' = released
      BY <1>9 DEF Made
    <2>3. info' = IF r.who = Nobody THEN info ELSE [info EXCEPT !.total = @ + 1, !.idle = @ + 1]
      BY <1>9 DEF Made
    <2> HIDE DEF p
    <2>4. p \notin Real
      BY <2>1 DEF Real, Used
    <2>5. CASE r.who = Nobody
      BY <1>6, <2>1, <2>2, <2>3, <2>5 DEF SameSets
    <2>6. CASE r.who # Nobody
      <3>1. /\ Real' = Real \cup {p} /\ p \notin D
            /\ Real' \ Passed' = D \cup {p}
        BY <1>4, <2>1, <2>4, <2>6 DEF D
      <3>2. tt = t + 1 /\ dd = d + 1
        BY <1>2, <1>5, <2>4, <3>1, Joins DEF t, d
      <3>3. ww = w /\ aa = a
        BY <1>5, <2>1 DEF w, a, A
      <3>4. /\ info' \in InfoRecord /\ info'.total = info.total + 1 /\ info'.idle = info.idle + 1
            /\ info'.wait = info.wait /\ info'.active = info.active
        BY <1>3, <2>3, <2>6, Updates DEF Counted
      <3> QED
        BY <1>0, <1>2, <1>3, <2>2, <3>2, <3>3, <3>4 DEF Counted
    <2> QED
      BY <2>5, <2>6
  <1>10. ASSUME NEW p \in Slot, SynAck(p) PROVE Right
    <2>1. /\ p \in Real /\ p \notin Passed /\ p \notin Waiting
          /\ Real' = Real /\ Passed' = Passed \cup {p}
          /\ Waiting' = IF conn[p].who \in VIP THEN Waiting ELSE Waiting \cup {p}
          /\ released' = released
      BY <1>0, <1>10, SetsSynAck DEF SynAck
    <2>2. tt = t
      BY <1>5, <2>1 DEF t
    <2>3. dd = d - 1
      <3>1. Real' \ Passed' = D \ {p} /\ p \in D
        BY <2>1 DEF D
      <3> QED
        BY <1>2, <1>5, <3>1, Leaves DEF d
    <2>4. CASE conn[p].who \in VIP
      <3>1. info' = [info EXCEPT !.idle = @ - 1, !.active = @ + 1]
        BY <1>10, <2>4 DEF SynAck
      <3>2. ww = w
        BY <1>5, <2>1, <2>4 DEF w
      <3>3. Passed' \ Waiting' = A \cup {p} /\ p \notin A
        BY <2>1, <2>4 DEF A
      <3>4. aa = a + 1
        BY <1>2, <1>5, <3>3, Joins DEF a
      <3>5. released' = released
        BY <2>1
      <3>6. /\ info' \in InfoRecord /\ info'.total = info.total /\ info'.idle = info.idle - 1
            /\ info'.wait = info.wait /\ info'.active = info.active + 1
        BY <1>3, <3>1, Updates DEF Counted
      <3> QED
        BY <1>0, <1>2, <1>3, <2>2, <2>3, <3>2, <3>4, <3>5, <3>6 DEF Counted
    <2>5. CASE conn[p].who \notin VIP
      <3>1. info' = [info EXCEPT !.idle = @ - 1, !.wait = @ + 1]
        BY <1>10, <2>5 DEF SynAck, PushQueue
      <3>2. ww = w + 1
        BY <1>2, <1>5, <2>1, <2>5, Joins DEF w
      <3>3. Passed' \ Waiting' = Passed \ Waiting
        BY <2>1, <2>5
      <3>4. aa = a
        BY <1>5, <3>3 DEF a, A
      <3>5. released' = released
        BY <2>1
      <3>6. /\ info' \in InfoRecord /\ info'.total = info.total /\ info'.idle = info.idle - 1
            /\ info'.wait = info.wait + 1 /\ info'.active = info.active
        BY <1>3, <3>1, Updates DEF Counted
      <3> QED
        BY <1>0, <1>2, <1>3, <2>2, <2>3, <3>2, <3>4, <3>5, <3>6 DEF Counted
    <2> QED
      BY <2>4, <2>5
  <1>11. ASSUME NEW p \in Slot, Used(p)
         PROVE  /\ conn[p].who # Nobody <=> p \in Real
                /\ conn[p].stage = "pass" <=> p \in Passed
                /\ conn[p].inq <=> p \in Waiting
    BY <1>0, <1>11 DEF ConnInv, Real, Passed, Waiting, Used
  <1>12. ASSUME NEW p \in Slot, Used(p), NEW i, i = InfoClosed(p), NEW rel,
                rel = released + (IF conn[p].who = Nobody THEN 1 ELSE 0)
         PROVE  /\ rel \in Int
                /\ Counted(i, rel, Number(Real \ {p}), Number(D \ {p}), Number(Waiting \ {p}),
                           Number(A \ {p}))
    <2>1. /\ p \in D <=> conn[p].who # Nobody /\ conn[p].stage # "pass"
          /\ p \in A <=> conn[p].stage = "pass" /\ ~conn[p].inq
      BY <1>11, <1>12 DEF D, A
    <2>2. /\ Number(Real \ {p}) = IF conn[p].who # Nobody THEN t - 1 ELSE t
          /\ Number(Waiting \ {p}) = IF conn[p].inq THEN w - 1 ELSE w
      BY <1>2, <1>11, <1>12, Sizes DEF t, w
    <2>3. /\ Number(D \ {p}) = IF p \in D THEN d - 1 ELSE d
          /\ Number(A \ {p}) = IF p \in A THEN a - 1 ELSE a
      BY <1>2, Sizes DEF d, a
    <2>4. /\ conn[p].stage = "pass" => conn[p].who # Nobody
          /\ conn[p].inq => conn[p].stage = "pass"
      BY <1>0 DEF ConnInv
    <2>5. /\ i \in InfoRecord /\ i.total = info.total - 1
          /\ i.wait = IF conn[p].inq THEN info.wait - 1 ELSE info.wait
          /\ i.active = IF conn[p].stage = "pass" /\ ~conn[p].inq THEN info.active - 1 ELSE info.active
          /\ i.idle = IF conn[p].stage = "pass" THEN info.idle ELSE info.idle - 1
      BY <1>3, <1>12, ClosedInfo DEF Counted
    <2>6. rel \in Int
      BY <1>0, <1>12
    <2>7. i.total = 1 + Number(Real \ {p}) - rel
      BY <1>0, <1>2, <1>3, <1>12, <2>2, <2>5 DEF Counted
    <2>8. i.idle = 1 + Number(D \ {p}) - rel
      BY <1>0, <1>2, <1>3, <1>12, <2>1, <2>3, <2>4, <2>5 DEF Counted
    <2>9. i.wait = Number(Waiting \ {p}) /\ i.active = Number(A \ {p})
      BY <1>3, <2>1, <2>2, <2>3, <2>5 DEF Counted
    <2> QED
      BY <2>5, <2>6, <2>7, <2>8, <2>9 DEF Counted
  <1>13. ASSUME NEW p \in Slot, Gone(p) PROVE Right
    <2>1. /\ Used(p) /\ info' = InfoClosed(p)
          /\ released' = released + (IF conn[p].who = Nobody THEN 1 ELSE 0)
      BY <1>13 DEF Gone
    <2>2. Real' = Real \ {p} /\ Passed' = Passed \ {p} /\ Waiting' = Waiting \ {p}
      BY <1>0, <1>13, SetsGone
    <2>3. /\ Real' \ Passed' = D \ {p}
          /\ Passed' \ Waiting' = A \ {p}
      BY <2>2 DEF D, A
    <2>4. /\ tt = Number(Real \ {p}) /\ dd = Number(D \ {p})
          /\ ww = Number(Waiting \ {p}) /\ aa = Number(A \ {p})
      BY <1>5, <2>2, <2>3
    <2> QED
      BY <1>12, <2>1, <2>4
  <1>14. ASSUME NEW p \in Slot, NEW old \in Slot, Relay(p, old)
         PROVE  Right
    <2>1. /\ Used(old) /\ info' = [InfoClosed(old) EXCEPT !.idle = @ - 1, !.active = @ + 1]
          /\ released' = released + (IF conn[old].who = Nobody THEN 1 ELSE 0)
      BY <1>14 DEF Relay
    <2>2. /\ p \in Real /\ p \notin Passed /\ p \notin Waiting /\ old # p
          /\ Real' = Real \ {old} /\ Passed' = (Passed \ {old}) \cup {p} /\ Waiting' = Waiting \ {old}
      BY <1>0, <1>14, SetsRelay
    <2> DEFINE E == D \ {old}
               B == A \ {old}
    <2>3. Real' \ Passed' = E \ {p} /\ Passed' \ Waiting' = B \cup {p} /\ p \in E /\ p \notin B
      BY <2>2 DEF D, A
    <2>4. IsFiniteSet(E) /\ IsFiniteSet(B)
      BY <1>2, Sizes
    <2>5. Number(E) \in Nat /\ Number(B) \in Nat
      BY <2>4, Sizes
    <2> DEFINE i == InfoClosed(old)
    <2>7. /\ released' \in Int
          /\ Counted(i, released', Number(Real \ {old}), Number(E), Number(Waiting \ {old}), Number(B))
      BY <1>12, <2>1
    <2> HIDE DEF E, B, i
    <2>8. dd = Number(E) - 1 /\ aa = Number(B) + 1
      BY <1>5, <2>3, <2>4, Joins, Leaves
    <2>9. tt = Number(Real \ {old}) /\ ww = Number(Waiting \ {old})
      BY <1>5, <2>2
    <2>10. info' = [i EXCEPT !.idle = @ - 1, !.active = @ + 1]
      BY <2>1 DEF i
    <2>11. /\ info' \in InfoRecord /\ info'.total = i.total /\ info'.idle = i.idle - 1
           /\ info'.wait = i.wait /\ info'.active = i.active + 1
      BY <2>7, <2>10, Updates DEF Counted
    <2> QED
      BY <2>5, <2>7, <2>8, <2>9, <2>11 DEF Counted
  <1>15. ASSUME NEW p \in Slot, Activate(p) PROVE Right
    <2>1. /\ p \in Waiting /\ Real' = Real /\ Passed' = Passed /\ Waiting' = Waiting \ {p}
          /\ released' = released /\ info' = [info EXCEPT !.wait = @ - 1, !.active = @ + 1]
      BY <1>0, <1>15, SetsActivate DEF Activate
    <2>2. tt = t /\ dd = d
      BY <1>5, <2>1 DEF t, d, D
    <2>3. ww = w - 1
      BY <1>2, <1>5, <2>1, Leaves DEF w
    <2>4. Passed' \ Waiting' = A \cup {p} /\ p \notin A
      BY <1>4, <2>1 DEF A
    <2>5. aa = a + 1
      BY <1>2, <1>5, <2>4, Joins DEF a
    <2>6. released' = released /\ info' = [info EXCEPT !.wait = @ - 1, !.active = @ + 1]
      BY <2>1
    <2>7. /\ info' \in InfoRecord /\ info'.total = info.total /\ info'.idle = info.idle
          /\ info'.wait = info.wait - 1 /\ info'.active = info.active + 1
      BY <1>3, <2>6, Updates DEF Counted
    <2> QED
      BY <1>0, <1>2, <1>3, <2>2, <2>3, <2>5, <2>6, <2>7 DEF Counted
  <1> QED
    BY <1>7, <1>8, <1>9, <1>10, <1>13, <1>14, <1>15, Kinds DEF TableStep
-----------------------------------------------------------------------------
(***************************************************************************)
(* Every step keeps the limit of admission: what the loop of               *)
(* tconnd_active_waitqueue may still admit was left free when it began.    *)
(***************************************************************************)
Asked == {p \in Passed \ Waiting : ~conn[p].bypass}

AdmitInv ==
    /\ left > 0 => info.active + left <= Permit
    /\ Number(Asked) <= Permit

LEMMA Fewer ==
    ASSUME NEW S \in SUBSET Slot, NEW T \in SUBSET S
    PROVE  Number(S) \in Nat /\ Number(T) \in Nat /\ Number(T) <= Number(S)
  BY Finite, FS_Subset, FS_CardinalityType DEF Number

LEMMA AdmitStep ==
    ASSUME ShapeInv, CountsMatch, AdmitInv, Next
    PROVE  AdmitInv' /\ left' \in 0 .. Permit
  <1> DEFINE Right == AdmitInv' /\ left' \in 0 .. Permit
  <1>0. ConnInv /\ PoolInv /\ NumberInv
    BY DEF ShapeInv
  <1>1. /\ left \in 0 .. Permit /\ permit \in Permit \div 2 .. Permit /\ info \in InfoRecord
        /\ Permit \in Nat /\ Speed \in Nat
    BY <1>0, Limits DEF NumberInv
  <1>2. info.active = Number(Passed \ Waiting)
    BY DEF CountsMatch
  <1>3. Asked \subseteq Passed \ Waiting /\ Passed \ Waiting \in SUBSET Slot /\ Asked \in SUBSET Slot
    BY DEF Asked, Passed, Real
  <1>4. info.active \in Nat /\ Number(Asked) \in Nat /\ Number(Asked) <= info.active
    BY <1>2, <1>3, Fewer
  <1>5. Passed \subseteq Slot /\ Waiting \subseteq Slot /\ Passed \subseteq Real /\ Real \subseteq Slot
    BY DEF Passed, Real, Waiting
  <1>6. ASSUME Asked' \subseteq Asked, left' = left, info'.active \in Int,
               left = 0 \/ info'.active <= info.active
        PROVE  Right
    <2>1. Number(Asked') \in Nat /\ Number(Asked') <= Number(Asked)
      BY <1>3, <1>6, Fewer
    <2>2. Number(Asked') <= Permit
      BY <1>1, <1>4, <2>1 DEF AdmitInv
    <2>3. left' > 0 => info'.active + left' <= Permit
      BY <1>1, <1>4, <1>6 DEF AdmitInv
    <2> QED
      BY <1>1, <1>6, <2>2, <2>3 DEF AdmitInv
  <1>7. CASE Still
    <2>1. Asked' = Asked /\ left' = left /\ info' = info
      BY <1>7 DEF Still, Asked, Passed, Real, Waiting, Used
    <2> QED
      BY <1>4, <1>6, <2>1
  <1>8. CASE ActiveBegin
    <2>1. Asked' = Asked /\ info' = info /\ left' = Quota /\ Quota > 0
      BY <1>8 DEF ActiveBegin, Asked, Passed, Real, Waiting, Used
    <2>2. Quota \in Int /\ info.active + Quota <= permit /\ permit <= Permit
      BY <1>1, <1>4 DEF Quota
    <2>3. left' \in 0 .. Permit /\ info'.active + left' <= Permit
      BY <1>1, <1>4, <2>1, <2>2
    <2> QED
      BY <2>1, <2>3 DEF AdmitInv
  <1>9. ASSUME NEW p \in Slot, Marked(p) PROVE Right
    <2>1. SameSets /\ \A s \in Slot : Alike(conn'[s], conn[s])
      BY <1>0, <1>9, SetsMarked
    <2>2. Asked' \subseteq Asked
      BY <1>5, <2>1 DEF Asked, SameSets, Alike
    <2>3. left' = left /\ info' = info
      BY <1>9 DEF Marked
    <2> QED
      BY <1>4, <1>6, <2>2, <2>3
  <1>10. ASSUME NEW r, Made(r) PROVE Right
    <2> DEFINE p == Head(pool.free)
    <2>1. /\ p \notin pool.valid /\ Passed' = Passed /\ Waiting' = Waiting
          /\ \A s \in Slot \ {p} : conn'[s] = conn[s]
      BY <1>0, <1>10, SetsMade
    <2>2. left' = left /\ info'.active = info.active
      BY <1>1, <1>10 DEF Made, InfoRecord
    <2> HIDE DEF p
    <2>3. p \notin Passed
      BY <2>1 DEF Passed, Real, Used
    <2>4. Asked' \subseteq Asked
      BY <1>5, <2>1, <2>3 DEF Asked
    <2> QED
      BY <1>4, <1>6, <2>2, <2>4
  <1>11. ASSUME NEW p \in Slot, SynAck(p) PROVE Right
    <2>1. left = 0 /\ left' = left
      BY <1>11 DEF SynAck, Heard, Readable, Free
    <2>2. /\ Passed' = Passed \cup {p}
          /\ Waiting' = IF conn[p].who \in VIP THEN Waiting ELSE Waiting \cup {p}
          /\ \A s \in Slot \ {p} : AllButLinks(conn'[s], conn[s])
          /\ conn[p].who \in VIP => conn'[p].bypass
      BY <1>0, <1>11, SetsSynAck
    <2>3. Asked' \subseteq Asked
      BY <1>5, <2>2 DEF Asked, AllButLinks
    <2>4. info'.active \in Int
      <3>1. CASE conn[p].who \in VIP
        BY <1>1, <1>11, <3>1, Updates DEF SynAck, InfoRecord
      <3>2. CASE conn[p].who \notin VIP
        BY <1>1, <1>11, <3>2, Updates DEF SynAck, PushQueue, InfoRecord
      <3> QED
        BY <3>1, <3>2
    <2> QED
      BY <1>6, <2>1, <2>3, <2>4
  <1>12. ASSUME NEW p \in Slot, Gone(p) PROVE Right
    <2>1. /\ Passed' = Passed \ {p} /\ Waiting' = Waiting \ {p}
          /\ \A s \in Slot \ {p} : AllButLinks(conn'[s], conn[s])
      BY <1>0, <1>12, SetsGone
    <2>2. Asked' \subseteq Asked
      BY <1>5, <2>1 DEF Asked, AllButLinks
    <2>3. left' = left /\ info' = InfoClosed(p)
      BY <1>12 DEF Gone
    <2>4. info'.active \in Int /\ info'.active <= info.active
      BY <1>1, <1>4, <2>3, ClosedInfo
    <2> QED
      BY <1>6, <2>2, <2>3, <2>4
  <1>13. ASSUME NEW p \in Slot, NEW old \in Slot, Relay(p, old) PROVE Right
    <2>1. /\ Passed' = (Passed \ {old}) \cup {p} /\ Waiting' = Waiting \ {old}
          /\ \A s \in Slot \ {p, old} : AllButLinks(conn'[s], conn[s])
          /\ conn'[p].bypass /\ p \notin Waiting /\ p # old
      BY <1>0, <1>13, SetsRelay
    <2>2. Asked' \subseteq Asked
      BY <1>5, <2>1 DEF Asked, AllButLinks
    <2>3. left = 0 /\ left' = left
      BY <1>13 DEF Relay, Heard, Readable, Free
    <2>4. info' = [InfoClosed(old) EXCEPT !.idle = @ - 1, !.active = @ + 1]
      BY <1>13 DEF Relay
    <2>5. InfoClosed(old) \in InfoRecord
      BY <1>1, ClosedInfo
    <2>6. info' \in InfoRecord
      BY <2>4, <2>5, Updates
    <2>7. info'.active \in Int
      BY <2>6 DEF InfoRecord
    <2> QED
      BY <1>6, <2>2, <2>3, <2>7
  <1>14. ASSUME NEW p \in Slot, Activate(p) PROVE Right
    <2>1. /\ p \in Waiting /\ Passed' = Passed /\ Waiting' = Waiting \ {p}
          /\ \A s \in Slot \ {p} : AllButLinks(conn'[s], conn[s])
      BY <1>0, <1>14, SetsActivate
    <2>2. /\ left > 0 /\ left' = IF conn[p].next = -1 THEN 0 ELSE left - 1
          /\ info' = [info EXCEPT !.wait = @ - 1, !.active = @ + 1]
      BY <1>14 DEF Activate
    <2>3. info'.active = info.active + 1
      BY <1>1, <2>2, Updates
    <2>4. Asked' \subseteq Asked \cup {p}
      BY <1>5, <2>1 DEF Asked, AllButLinks
    <2>5. Asked \cup {p} \in SUBSET Slot /\ IsFiniteSet(Asked)
      BY <1>3, Finite
    <2>6. Number(Asked') \in Nat /\ Number(Asked') <= Number(Asked \cup {p})
      BY <2>4, <2>5, Fewer
    <2>7. Number(Asked \cup {p}) \in Nat /\ Number(Asked \cup {p}) <= Number(Asked) + 1
      BY <1>4, <2>5, Sizes
    <2>8. info.active + left <= Permit
      BY <2>2 DEF AdmitInv
    <2>9. Number(Asked') <= Permit
      BY <1>1, <1>4, <2>2, <2>6, <2>7, <2>8
    <2>10. left' > 0 => info'.active + left' <= Permit
      BY <1>1, <1>4, <2>2, <2>3, <2>8
    <2>11. left' \in 0 .. Permit
      BY <1>1, <2>2
    <2> QED
      BY <2>9, <2>10, <2>11 DEF AdmitInv
  <1> QED
    BY <1>7, <1>8, <1>9, <1>10, <1>11, <1>12, <1>13, <1>14, Kinds DEF TableStep
-----------------------------------------------------------------------------
(***************************************************************************)
(* Every step keeps the types.                                             *)
(***************************************************************************)
LEMMA ClientStep ==
    ASSUME ShapeInv, Next
    PROVE  ClientInv'
  <1>0. /\ client \in [Client -> [at : {"out", "on", "closed"}, data : Nat]]
        /\ \A c \in Client : client[c].data <= Chat[c]
        /\ Chat \in [Client -> Nat]
    BY Limits DEF ShapeInv, ClientInv
  <1>1. \A p \in Slot : conn[p].who \in Client \cup {Nobody}
    BY DEF ShapeInv, ConnInv, ConnRecord
  <1>2. CASE UNCHANGED client
    BY <1>0, <1>2 DEF ClientInv
  <1>3. ASSUME NEW c \in Client, NEW w \in {"out", "on", "closed"}, client' = [client EXCEPT ![c].at = w]
        PROVE  ClientInv'
    BY <1>0, <1>3 DEF ClientInv
  <1>4. ASSUME NEW c \in Client, client[c].data < Chat[c], client' = [client EXCEPT ![c].data = @ + 1]
        PROVE  ClientInv'
    <2> DEFINE n == client[c].data + 1
    <2>1. client[c] \in [at : {"out", "on", "closed"}, data : Nat] /\ Chat[c] \in Nat
      BY <1>0
    <2>2. n \in Nat /\ n <= Chat[c]
      BY <1>4, <2>1
    <2>3. client' = [client EXCEPT ![c].data = n]
      BY <1>4
    <2> HIDE DEF n
    <2>4. [client[c] EXCEPT !.data = n] \in [at : {"out", "on", "closed"}, data : Nat]
      BY <2>1, <2>2
    <2>5. client' = [client EXCEPT ![c] = [client[c] EXCEPT !.data = n]]
      BY <1>0, <2>3
    <2>6. client' \in [Client -> [at : {"out", "on", "closed"}, data : Nat]]
      BY <1>0, <2>4, <2>5
    <2>7. \A b \in Client : client'[b].data = IF b = c THEN n ELSE client[b].data
      BY <1>0, <2>1, <2>5
    <2> QED
      BY <1>0, <2>2, <2>6, <2>7 DEF ClientInv
  <1>5. ASSUME NEW p \in Slot, Used(p),
               client' = IF conn[p].who = Nobody THEN client
                         ELSE [client EXCEPT ![conn[p].who].at = "closed"]
        PROVE  ClientInv'
    BY <1>1, <1>2, <1>3, <1>5
  <1>6. ASSUME NEW c \in Client, Accept(c) \/ ClientClose(c) PROVE ClientInv'
    BY <1>3, <1>6 DEF Accept, ClientClose
  <1>7. ASSUME NEW p \in Slot, DataWaiting(p) \/ Data(p) PROVE ClientInv'
    <2>1. /\ conn[p].who \in Client /\ client[conn[p].who].data < Chat[conn[p].who]
          /\ client' = [client EXCEPT ![conn[p].who].data = @ + 1]
      BY <1>1, <1>7 DEF DataWaiting, Data, Heard, Readable, MayChat
    <2> QED
      BY <1>4, <2>1
  <1>8. ASSUME NEW p \in Slot, ScanClose(p) \/ ScanIdle(p) PROVE ClientInv'
    BY <1>5, <1>8 DEF ScanClose, ScanIdle, SafeClose
  <1>9. ASSUME NEW p \in Slot, NEW old \in Slot, Relay(p, old) PROVE ClientInv'
    BY <1>5, <1>9 DEF Relay
  <1>10. ASSUME NEW p \in Slot, \/ BadPkg(p) \/ Auth(p) \/ SynAck(p) \/ DataFull(p) \/ BadLength(p)
                                \/ PeerClosed(p) \/ QueueInfo(p) \/ Activate(p)
                                \/ FrameStart(p) \/ FrameInProc(p) \/ FrameStop(p)
         PROVE  ClientInv'
    BY <1>2, <1>10 DEF BadPkg, Auth, SynAck, DataFull, BadLength, PeerClosed, QueueInfo, Activate,
                       FrameStart, FrameInProc, FrameStop
  <1>11. ASSUME \/ ActiveBegin \/ FrameLost \/ FrameNotify \/ ServerStart \/ ServerStop
                \/ ServerInProc \/ ServerPass \/ ServerNotify \/ \E q \in Seat : ServerKick(q)
         PROVE  ClientInv'
    BY <1>2, <1>11 DEF ActiveBegin, FrameLost, FrameNotify, ServerStart, ServerStop, ServerInProc,
                       ServerPass, ServerNotify, ServerKick
  <1> QED
    BY <1>6, <1>7, <1>8, <1>9, <1>10, <1>11, Steps

\* The server's pool and its sessions.
LEMMA SeatTaken ==
    ASSUME SeatInv, seats.free # <<>>, seats' = Players!AfterAlloc(seats), NEW r \in PlayerRecord,
           player' = [player EXCEPT ![Head(seats.free)] = r]
    PROVE  SeatInv'
  <1> DEFINE p == Head(seats.free)
             h == Players!AllocIdx(seats)
  <1>1. /\ seats.free \in Seq(0 .. PlayerCap - 1) /\ seats.last \in [0 .. PlayerCap - 1 -> 0 .. Endless]
        /\ PoolOK(seats, PlayerCap) /\ player \in [Seat -> PlayerRecord]
    BY DEF SeatInv, PoolOK
  <1>2. p \in 0 .. PlayerCap - 1
    BY <1>1, Tails
  <1>3. h \in 0 .. Endless /\ h % PlayerCap = p
    BY <1>1, <1>2, Handles DEF Players!AllocIdx
  <1>4. seats' = [free |-> Tail(seats.free), last |-> [seats.last EXCEPT ![p] = h],
                  valid |-> seats.valid \cup {p}]
    BY DEF Players!AfterAlloc
  <1> HIDE DEF h
  <1>5. PoolOK(seats', PlayerCap)
    <2>1. PlayerCap \in Nat \ {0} /\ PoolOK(seats, PlayerCap)
      BY <1>1, Limits
    <2> QED
      BY <1>3, <1>4, <2>1, Taken
  <1>6. player' \in [Seat -> PlayerRecord]
    BY <1>1
  <1> QED
    BY <1>5, <1>6 DEF SeatInv

LEMMA SeatGiven ==
    ASSUME SeatInv, NEW id, SeatOf(id) \in seats.valid, Vacate(id)
    PROVE  SeatInv'
  <1> DEFINE p == SeatOf(id)
             pk == [seats EXCEPT !.free = Append(@, p), !.valid = @ \ {p}]
  <1>1. PoolOK(seats, PlayerCap) /\ p \in seats.valid /\ PlayerCap \in Nat \ {0}
    BY Limits DEF SeatInv
  <1>2. seats' = pk
    BY DEF Vacate, Players!AfterFree, SeatOf
  <1>3. pk = [seats EXCEPT !.free = Append(@, p), !.valid = @ \ {p}]
    OBVIOUS
  <1> HIDE DEF p, pk
  <1>4. PoolOK(pk, PlayerCap)
    BY <1>1, <1>3, Given
  <1>5. NoPlayer \in PlayerRecord
    <2>1. -1 \in Idxs
      BY Limits DEF Idxs
    <2> QED
      BY <2>1 DEF NoPlayer, PlayerRecord
  <1>6. player' \in [Seat -> PlayerRecord]
    BY <1>5 DEF Vacate, SeatInv
  <1> QED
    BY <1>2, <1>4, <1>6 DEF SeatInv

LEMMA SeatStep ==
    ASSUME ShapeInv, Next
    PROVE  SeatInv'
  <1>0. SeatInv
    BY DEF ShapeInv
  <1>1. CASE UNCHANGED server
    BY <1>0, <1>1 DEF SeatInv, server
  <1>2. CASE ServerStart
    <2>1. CASE UNCHANGED <<seats, player>>
      BY <1>1, <2>1 DEF server
    <2>2. CASE ~UNCHANGED <<seats, player>>
      <3> DEFINE r == [who |-> Head(up).who, idx |-> Head(up).idx]
      <3>1. /\ seats.free # <<>> /\ seats' = Players!AfterAlloc(seats)
            /\ player' = [player EXCEPT ![Head(seats.free)] = r]
        BY <1>2, <2>2 DEF ServerStart, Players!CanAlloc
      <3>2. up \in Seq(Frames) /\ up # <<>>
        BY <1>2 DEF ServerStart, Reads, ShapeInv, WireInv
      <3>3. Head(up) \in Frames
        BY <3>2
      <3>4. r \in PlayerRecord
        BY <3>3 DEF PlayerRecord, Frames
      <3> QED
        BY <1>0, <3>1, <3>4, SeatTaken
    <2> QED
      BY <2>1, <2>2
  <1>3. CASE ServerStop
    <2> DEFINE id == Head(up).id
    <2>1. CASE Seated(id)
      <3>1. Vacate(id) /\ SeatOf(id) \in seats.valid
        BY <1>3, <2>1 DEF ServerStop, Seated, SeatOf, Players!Live
      <3> QED
        BY <1>0, <3>1, SeatGiven
    <2>2. CASE ~Seated(id)
      BY <1>1, <1>3, <2>2 DEF ServerStop
    <2> QED
      BY <2>1, <2>2
  <1>4. ASSUME NEW q \in Seat, ServerKick(q) PROVE SeatInv'
    <2>1. q \in seats.valid /\ Vacate(seats.last[q])
      BY <1>4 DEF ServerKick
    <2>2. SeatOf(seats.last[q]) = q
      BY <1>0, <2>1 DEF SeatInv, PoolOK, SeatOf, Players!PosOf
    <2> QED
      BY <1>0, <2>1, <2>2, SeatGiven
  <1>5. ASSUME NEW c \in Client, Accept(c) \/ ClientClose(c) PROVE UNCHANGED server
    BY <1>5 DEF Accept, ClientClose
  <1>6. ASSUME NEW p \in Slot, NEW old \in Slot, Relay(p, old) PROVE UNCHANGED server
    BY <1>6 DEF Relay
  <1>7. ASSUME NEW p \in Slot,
               \/ BadPkg(p) \/ Auth(p) \/ SynAck(p) \/ DataWaiting(p) \/ DataFull(p)
               \/ Data(p) \/ BadLength(p) \/ PeerClosed(p) \/ ScanClose(p)
               \/ ScanIdle(p) \/ QueueInfo(p) \/ Activate(p)
               \/ FrameStart(p) \/ FrameInProc(p) \/ FrameStop(p)
        PROVE  UNCHANGED server
    BY <1>7 DEF BadPkg, Auth, SynAck, DataWaiting, DataFull, Data, BadLength, PeerClosed, ScanClose,
                ScanIdle, QueueInfo, Activate, FrameStart, FrameInProc, FrameStop
  <1>8. ASSUME \/ ActiveBegin \/ FrameLost \/ FrameNotify \/ ServerInProc \/ ServerPass \/ ServerNotify
        PROVE  UNCHANGED server
    BY <1>8 DEF ActiveBegin, FrameLost, FrameNotify, ServerInProc, ServerPass, ServerNotify
  <1> QED
    BY <1>1, <1>2, <1>3, <1>4, <1>5, <1>6, <1>7, <1>8, Steps
-----------------------------------------------------------------------------
\* What is sent are frames.
LEMMA Framed ==
    ASSUME NEW cmd \in {"START", "INPROC", "STOP", "RELAY", "NOTIFY"}, NEW id \in Idxs,
           NEW idx \in Idxs, NEW who \in Client \cup {Nobody}
    PROVE  Frame(cmd, id, idx, who) \in Frames /\ <<Frame(cmd, id, idx, who)>> \in Seq(Frames)
  BY DEF Frame, Frames

LEMMA Concats ==
    ASSUME NEW S, NEW s \in Seq(S), NEW t \in Seq(S), NEW n \in 0 .. Len(t)
    PROVE  s \o SubSeq(t, 1, n) \in Seq(S) /\ Len(s \o SubSeq(t, 1, n)) = Len(s) + n
  <1>1. Len(s) \in Nat /\ Len(t) \in Nat /\ n \in Nat
    OBVIOUS
  <1>2. SubSeq(t, 1, n) \in Seq(S) /\ Len(SubSeq(t, 1, n)) = n
    OBVIOUS
  <1> QED
    BY <1>1, <1>2

LEMMA SentUp ==
    ASSUME WireInv, NEW frames \in Seq(Frames), SendUp(frames)
    PROVE  up' \in Seq(Frames) /\ Len(up') <= ChanCap
  <1> DEFINE room == IF Len(frames) <= ChanCap - Len(up) THEN Len(frames) ELSE ChanCap - Len(up)
  <1>1. /\ up \in Seq(Frames) /\ Len(up) \in Nat /\ Len(up) <= ChanCap /\ ChanCap \in Nat
        /\ Len(frames) \in Nat
    BY Limits DEF WireInv
  <1>2. room \in 0 .. Len(frames) /\ Len(up) + room <= ChanCap
    BY <1>1
  <1>3. up' = up \o SubSeq(frames, 1, room)
    BY DEF SendUp
  <1> HIDE DEF room
  <1> QED
    BY <1>1, <1>2, <1>3, Concats

LEMMA SentDown ==
    ASSUME WireInv, NEW f \in Frames, SendDown(f)
    PROVE  down' \in Seq(Frames) /\ Len(down') <= ChanCap
  <1>1. down \in Seq(Frames) /\ Len(down) \in Nat /\ Len(down) <= ChanCap /\ ChanCap \in Nat
    BY Limits DEF WireInv
  <1> QED
    BY <1>1, Appends DEF SendDown

LEMMA Read ==
    ASSUME WireInv
    PROVE  /\ up # <<>> => /\ Head(up) \in Frames
                           /\ Tail(up) \in Seq(Frames) /\ Len(Tail(up)) <= ChanCap
           /\ down # <<>> => /\ Head(down) \in Frames
                             /\ Tail(down) \in Seq(Frames) /\ Len(Tail(down)) <= ChanCap
  <1>1. /\ up \in Seq(Frames) /\ Len(up) <= ChanCap /\ down \in Seq(Frames) /\ Len(down) <= ChanCap
        /\ ChanCap \in Nat
    BY Limits DEF WireInv
  <1> QED
    BY <1>1, Tails

\* The direction to the server.
LEMMA UpStep ==
    ASSUME ShapeInv, Next
    PROVE  up' \in Seq(Frames) /\ Len(up') <= ChanCap
  <1> DEFINE Right == up' \in Seq(Frames) /\ Len(up') <= ChanCap
  <1>0. WireInv /\ up \in Seq(Frames) /\ Len(up) <= ChanCap
    BY DEF ShapeInv, WireInv
  <1>1. CASE UNCHANGED up
    BY <1>0, <1>1
  <1>2. ASSUME NEW p \in Slot
        PROVE  /\ conn[p].id \in Idxs /\ conn[p].who \in Client \cup {Nobody} /\ Idx(p) \in Idxs
               /\ -1 \in Idxs /\ conn[p].kept \in Nat
    <2>1. conn[p] \in ConnRecord /\ pool.last[p] \in 0 .. Endless
      BY Limits DEF ShapeInv, ConnInv, PoolInv, PoolOK, Slot
    <2> QED
      BY <2>1, Limits DEF ConnRecord, Idx, Idxs
  <1>3. ASSUME NEW p \in Slot, ScanClose(p) \/ ScanIdle(p) PROVE Right
    <2>1. PICK n \in BOOLEAN : SafeClose(p, n)
      BY <1>3 DEF ScanClose, ScanIdle
    <2>2. StopFrames(p, n) \in Seq(Frames)
      BY <1>2, Framed DEF StopFrames
    <2> QED
      BY <1>0, <2>1, <2>2, SentUp DEF SafeClose
  <1>4. ASSUME NEW p \in Slot, SynAck(p) PROVE Right
    <2>1. <<Frame("START", -1, Idx(p), conn[p].who)>> \in Seq(Frames)
      BY <1>2, Framed
    <2>2. UNCHANGED up \/ SendUp(<<Frame("START", -1, Idx(p), conn[p].who)>>)
      BY <1>4 DEF SynAck
    <2> QED
      BY <1>0, <1>1, <2>1, <2>2, SentUp
  <1>5. ASSUME NEW p \in Slot, NEW old \in Slot, Relay(p, old) PROVE Right
    <2>1. <<Frame("RELAY", -1, Idx(p), conn[p].who)>> \in Seq(Frames)
      BY <1>2, Framed
    <2>2. SendUp(<<Frame("RELAY", -1, Idx(p), conn[p].who)>>)
      BY <1>5 DEF Relay
    <2> QED
      BY <1>0, <2>1, <2>2, SentUp
  <1>6. ASSUME NEW p \in Slot, Data(p) PROVE Right
    <2>1. <<Frame("INPROC", conn[p].id, Idx(p), conn[p].who)>> \in Seq(Frames)
      BY <1>2, Framed
    <2>2. SendUp(<<Frame("INPROC", conn[p].id, Idx(p), conn[p].who)>>)
      BY <1>6 DEF Data
    <2> QED
      BY <1>0, <2>1, <2>2, SentUp
  <1>7. ASSUME NEW p \in Slot, Activate(p) PROVE Right
    <2> DEFINE s == [k \in 1 .. conn[p].kept |->
                       Frame(IF k = 1 THEN "START" ELSE "INPROC", -1, Idx(p), conn[p].who)]
    <2>1. \A k \in 1 .. conn[p].kept :
             Frame(IF k = 1 THEN "START" ELSE "INPROC", -1, Idx(p), conn[p].who) \in Frames
      BY <1>2, Framed
    <2>2. s \in Seq(Frames)
      BY <1>2, <2>1
    <2>3. SendUp(s)
      BY <1>7 DEF Activate
    <2> HIDE DEF s
    <2> QED
      BY <1>0, <2>2, <2>3, SentUp
  <1>8. CASE FrameLost
    <2> DEFINE f == [Head(down) EXCEPT !.cmd = "STOP"]
    <2>1. Head(down) \in Frames /\ SendUp(<<f>>)
      BY <1>0, <1>8, Read DEF FrameLost
    <2>2. f \in Frames
      BY <2>1 DEF Frames
    <2> HIDE DEF f
    <2>3. <<f>> \in Seq(Frames)
      BY <2>2
    <2> QED
      BY <1>0, <2>1, <2>3, SentUp
  <1>9. CASE FrameNotify
    <2> DEFINE h == Conns!AllocIdx(pool)
    <2>1. CASE UNCHANGED up
      BY <1>1, <2>1
    <2>2. CASE Conns!CanAlloc(pool) /\ SendUp(<<Frame("NOTIFY", -1, h, Nobody)>>)
      <3>1. /\ pool.free \in Seq(0 .. Cap - 1) /\ pool.last \in [0 .. Cap - 1 -> 0 .. Endless]
            /\ pool.free # <<>>
        BY <2>2 DEF ShapeInv, PoolInv, PoolOK, Conns!CanAlloc
      <3>2. Head(pool.free) \in 0 .. Cap - 1
        BY <3>1, Tails
      <3>3. h \in 0 .. Endless
        BY <3>1, <3>2, Handles DEF Conns!AllocIdx
      <3> HIDE DEF h
      <3>4. h \in Idxs /\ -1 \in Idxs /\ Nobody \in Client \cup {Nobody}
        BY <3>3, Limits DEF Idxs
      <3>5. <<Frame("NOTIFY", -1, h, Nobody)>> \in Seq(Frames)
        BY <3>4, Framed
      <3> QED
        BY <1>0, <2>2, <3>5, SentUp
    <2> QED
      BY <1>9, <2>1, <2>2 DEF FrameNotify
  <1>10. ASSUME ServerStart \/ ServerStop \/ ServerInProc \/ ServerPass PROVE Right
    <2>1. up # <<>> /\ up' = Tail(up)
      BY <1>10 DEF ServerStart, ServerStop, ServerInProc, ServerPass, Reads
    <2> QED
      BY <1>0, <2>1, Read
  <1>11. ASSUME NEW c \in Client, Accept(c) \/ ClientClose(c) PROVE UNCHANGED up
    BY <1>11 DEF Accept, ClientClose
  <1>12. ASSUME NEW p \in Slot,
                \/ BadPkg(p) \/ Auth(p) \/ DataWaiting(p) \/ DataFull(p)
                \/ BadLength(p) \/ PeerClosed(p) \/ QueueInfo(p)
                \/ FrameStart(p) \/ FrameInProc(p) \/ FrameStop(p)
         PROVE  UNCHANGED up
    BY <1>12 DEF BadPkg, Auth, DataWaiting, DataFull, BadLength, PeerClosed, QueueInfo,
                 FrameStart, FrameInProc, FrameStop
  <1>13. ASSUME ActiveBegin \/ ServerNotify \/ \E q \in Seat : ServerKick(q) PROVE UNCHANGED up
    BY <1>13 DEF ActiveBegin, ServerNotify, ServerKick
  <1> QED
    BY <1>1, <1>3, <1>4, <1>5, <1>6, <1>7, <1>8, <1>9, <1>10, <1>11, <1>12, <1>13, Steps

\* The direction to the clients.
LEMMA DownStep ==
    ASSUME ShapeInv, Next
    PROVE  down' \in Seq(Frames) /\ Len(down') <= ChanCap
  <1> DEFINE Right == down' \in Seq(Frames) /\ Len(down') <= ChanCap
  <1>0. WireInv /\ down \in Seq(Frames) /\ Len(down) <= ChanCap
    BY DEF ShapeInv, WireInv
  <1>1. CASE UNCHANGED down
    BY <1>0, <1>1
  <1>2. ASSUME down # <<>>, down' = Tail(down) PROVE Right
    BY <1>0, <1>2, Read
  <1>3. ASSUME NEW f \in Frames, SendDown(f) PROVE Right
    BY <1>0, <1>3, SentDown
  <1>4. /\ PlayerCap \in Nat /\ PoolOK(seats, PlayerCap) /\ player \in [Seat -> PlayerRecord]
        /\ Endless \in Nat /\ -1 \in Idxs
    BY Limits DEF ShapeInv, SeatInv, Idxs
  <1>5. ASSUME NEW q \in seats.valid
        PROVE  player[q].idx \in Idxs /\ player[q].who \in Client \cup {Nobody} /\ seats.last[q] \in Idxs
    <2>1. q \in Seat /\ seats.last[q] \in 0 .. Endless
      BY <1>4 DEF PoolOK, Seat
    <2>2. player[q] \in PlayerRecord
      BY <1>4, <2>1
    <2> QED
      BY <1>4, <2>1, <2>2 DEF PlayerRecord, Idxs
  <1>6. CASE ServerStart
    <2>1. CASE UNCHANGED down
      BY <1>1, <2>1
    <2>2. CASE ~UNCHANGED down
      <3> DEFINE h == Players!AllocIdx(seats)
      <3>1. seats.free # <<>> /\ SendDown(Frame("START", h, Head(up).idx, Head(up).who))
        BY <1>6, <2>2 DEF ServerStart, Players!CanAlloc
      <3>2. /\ seats.free \in Seq(0 .. PlayerCap - 1)
            /\ seats.last \in [0 .. PlayerCap - 1 -> 0 .. Endless]
        BY <1>4 DEF PoolOK
      <3>3. Head(seats.free) \in 0 .. PlayerCap - 1
        BY <3>1, <3>2, Tails
      <3>4. h \in 0 .. Endless
        BY <3>2, <3>3, Handles DEF Players!AllocIdx
      <3> HIDE DEF h
      <3>5. Head(up) \in Frames
        BY <1>0, <1>6, Read DEF ServerStart, Reads
      <3>6. h \in Idxs /\ Head(up).idx \in Idxs /\ Head(up).who \in Client \cup {Nobody}
        BY <1>4, <3>4, <3>5 DEF Idxs, Frames
      <3>7. Frame("START", h, Head(up).idx, Head(up).who) \in Frames
        BY <3>6, Framed
      <3> QED
        BY <1>3, <3>1, <3>7
    <2> QED
      BY <2>1, <2>2
  <1>7. CASE ServerInProc
    <2> DEFINE id == Head(up).id
               q == SeatOf(id)
    <2>1. CASE Seated(id)
      <3>1. q \in seats.valid /\ SendDown(Frame("INPROC", id, player[q].idx, player[q].who))
        BY <1>7, <2>1 DEF ServerInProc, Seated, SeatOf, Players!Live
      <3>2. Head(up) \in Frames
        BY <1>0, <1>7, Read DEF ServerInProc, Reads
      <3>3. id \in Idxs
        BY <3>2 DEF Frames
      <3> HIDE DEF id, q
      <3>4. Frame("INPROC", id, player[q].idx, player[q].who) \in Frames
        BY <1>5, <3>1, <3>3, Framed
      <3> QED
        BY <1>3, <3>1, <3>4
    <2>2. CASE ~Seated(id)
      BY <1>1, <1>7, <2>2 DEF ServerInProc
    <2> QED
      BY <2>1, <2>2
  <1>8. ASSUME NEW q \in Seat, ServerKick(q) PROVE Right
    <2>1. q \in seats.valid /\ SendDown(Frame("STOP", seats.last[q], player[q].idx, player[q].who))
      BY <1>8 DEF ServerKick
    <2>2. Frame("STOP", seats.last[q], player[q].idx, player[q].who) \in Frames
      BY <1>5, <2>1, Framed
    <2> QED
      BY <1>3, <2>1, <2>2
  <1>9. CASE ServerNotify
    <2> DEFINE f == Frame("NOTIFY", -1, -1, Nobody)
    <2>1. Len(down) < ChanCap /\ down' = Append(down, f)
      BY <1>9 DEF ServerNotify
    <2>2. f \in Frames
      BY <1>4, Framed
    <2> HIDE DEF f
    <2> QED
      BY <1>0, <2>1, <2>2, Appends, Limits
  <1>10. ASSUME FrameLost \/ FrameNotify \/ \E p \in Slot : FrameStart(p) \/ FrameInProc(p) \/ FrameStop(p)
         PROVE  down # <<>> /\ down' = Tail(down)
    BY <1>10 DEF FrameLost, FrameNotify, FrameStart, FrameInProc, FrameStop, Replies
  <1>11. ASSUME NEW c \in Client, Accept(c) \/ ClientClose(c) PROVE UNCHANGED down
    BY <1>11 DEF Accept, ClientClose
  <1>12. ASSUME NEW p \in Slot, NEW old \in Slot, Relay(p, old) PROVE UNCHANGED down
    BY <1>12 DEF Relay
  <1>13. ASSUME NEW p \in Slot,
                \/ BadPkg(p) \/ Auth(p) \/ SynAck(p) \/ DataWaiting(p) \/ DataFull(p)
                \/ Data(p) \/ BadLength(p) \/ PeerClosed(p) \/ ScanClose(p)
                \/ ScanIdle(p) \/ QueueInfo(p) \/ Activate(p)
         PROVE  UNCHANGED down
    BY <1>13 DEF BadPkg, Auth, SynAck, DataWaiting, DataFull, Data, BadLength, PeerClosed, ScanClose,
                 ScanIdle, QueueInfo, Activate
  <1>14. ASSUME ActiveBegin \/ ServerStop \/ ServerPass PROVE UNCHANGED down
    BY <1>14 DEF ActiveBegin, ServerStop, ServerPass
  <1> QED
    BY <1>1, <1>2, <1>6, <1>7, <1>8, <1>9, <1>10, <1>11, <1>12, <1>13, <1>14, Steps
-----------------------------------------------------------------------------
LEMMA NumberStep ==
    ASSUME ShapeInv, CountsMatch, AdmitInv, Next
    PROVE  NumberInv'
  <1>0. ConnInv /\ PoolInv /\ NumberInv
    BY DEF ShapeInv
  <1>1. released' \in Int /\ CountsMatch' /\ left' \in 0 .. Permit
    BY CountStep, AdmitStep
  <1>2. info' \in InfoRecord
    <2>1. /\ Real' \in SUBSET Slot /\ Real' \ Passed' \in SUBSET Slot /\ Waiting' \in SUBSET Slot
          /\ Passed' \ Waiting' \in SUBSET Slot
      BY DEF Real, Passed, Waiting
    <2>2. /\ Number(Real') \in Int /\ Number(Real' \ Passed') \in Int
          /\ Number(Waiting') \in Int /\ Number(Passed' \ Waiting') \in Int
      BY <2>1, Finite
    <2>3. Counted(info', released', Number(Real'), Number(Real' \ Passed'), Number(Waiting'),
                  Number(Passed' \ Waiting'))
      BY <1>1, <2>2, Counts DEF CountsMatch
    <2> QED
      BY <2>3 DEF Counted
  <1>3. qHead' \in Idxs /\ qTail' \in Idxs /\ tokenAlloc' \in Nat
    <2>0. qHead \in Idxs /\ qTail \in Idxs /\ tokenAlloc \in Nat
      BY <1>0 DEF NumberInv
    <2>1. CASE UNCHANGED queue
      BY <2>0, <2>1 DEF queue
    <2>2. ASSUME NEW p \in Slot, PopQueue(p) PROVE qHead' \in Idxs /\ qTail' \in Idxs /\ tokenAlloc' \in Nat
      <3>1. conn[p].next \in Idxs /\ conn[p].prev \in Idxs
        BY <1>0 DEF ConnInv, ConnRecord
      <3> QED
        BY <2>0, <2>2, <3>1 DEF PopQueue
    <2>3. ASSUME NEW p \in Slot, PushQueue(p) PROVE qHead' \in Idxs /\ qTail' \in Idxs /\ tokenAlloc' \in Nat
      <3>1. Idx(p) \in Idxs
        BY <1>0, Limits DEF Idx, PoolInv, PoolOK, Slot, Idxs
      <3> QED
        BY <2>0, <2>3, <3>1 DEF PushQueue
    <2>4. \/ UNCHANGED queue \/ \E p \in Slot : PopQueue(p) \/ PushQueue(p)
      <3>1. CASE Still \/ ActiveBegin
        BY <3>1 DEF Still, ActiveBegin
      <3>2. ASSUME NEW p \in Slot, Marked(p) \/ SynAck(p) \/ Gone(p) \/ Activate(p)
            PROVE  UNCHANGED queue \/ PopQueue(p) \/ PushQueue(p)
        BY <3>2 DEF Marked, SynAck, Gone, Activate
      <3>3. ASSUME NEW r, Made(r) PROVE UNCHANGED queue
        BY <3>3 DEF Made
      <3>4. ASSUME NEW p \in Slot, NEW old \in Slot, Relay(p, old)
            PROVE  UNCHANGED queue \/ PopQueue(old)
        BY <3>4 DEF Relay
      <3> QED
        BY <3>1, <3>2, <3>3, <3>4, Kinds DEF TableStep
    <2> QED
      BY <2>1, <2>2, <2>3, <2>4
  <1>4. permit' \in Permit \div 2 .. Permit
    <2>0. permit \in Permit \div 2 .. Permit
      BY <1>0 DEF NumberInv
    <2>1. CASE UNCHANGED permit
      BY <2>0, <2>1
    <2>2. ASSUME NEW p \in Slot, PermitAdjusted(p) PROVE permit' \in Permit \div 2 .. Permit
      BY <2>0, <2>2 DEF PermitAdjusted
    <2>3. ASSUME NEW p \in Slot, FrameStart(p) \/ FrameInProc(p) \/ QueueInfo(p)
          PROVE  UNCHANGED permit \/ PermitAdjusted(p)
      BY <2>3 DEF FrameStart, FrameInProc, QueueInfo
    <2>4. ASSUME NEW c \in Client, Accept(c) \/ ClientClose(c) PROVE UNCHANGED permit
      BY <2>4 DEF Accept, ClientClose
    <2>5. ASSUME NEW p \in Slot, NEW old \in Slot, Relay(p, old) PROVE UNCHANGED permit
      BY <2>5 DEF Relay
    <2>6. ASSUME NEW p \in Slot,
                 \/ BadPkg(p) \/ Auth(p) \/ SynAck(p) \/ DataWaiting(p) \/ DataFull(p)
                 \/ Data(p) \/ BadLength(p) \/ PeerClosed(p) \/ ScanClose(p)
                 \/ ScanIdle(p) \/ Activate(p) \/ FrameStop(p)
          PROVE  UNCHANGED permit
      BY <2>6 DEF BadPkg, Auth, SynAck, DataWaiting, DataFull, Data, BadLength, PeerClosed,
                  ScanClose, ScanIdle, Activate, FrameStop
    <2>7. ASSUME \/ ActiveBegin \/ FrameLost \/ FrameNotify \/ ServerStart \/ ServerStop
                 \/ ServerInProc \/ ServerPass \/ ServerNotify \/ \E q \in Seat : ServerKick(q)
          PROVE  UNCHANGED permit
      BY <2>7 DEF ActiveBegin, FrameLost, FrameNotify, ServerStart, ServerStop, ServerInProc,
                  ServerPass, ServerNotify, ServerKick
    <2> QED
      BY <2>1, <2>2, <2>3, <2>4, <2>5, <2>6, <2>7, Steps
  <1> QED
    BY <1>1, <1>2, <1>3, <1>4 DEF NumberInv

LEMMA ShapeStep ==
    ASSUME ShapeInv, CountsMatch, AdmitInv, Next
    PROVE  ShapeInv'
  <1>0. ConnInv /\ PoolInv /\ NumberInv
    BY DEF ShapeInv
  <1>1. ConnInv' /\ PoolInv'
    <2>1. CASE Still \/ ActiveBegin
      <3>1. UNCHANGED <<pool, conn>>
        BY <2>1 DEF Still, ActiveBegin
      <3> QED
        BY <1>0, <3>1 DEF ConnInv, PoolInv
    <2>2. ASSUME NEW p \in Slot, Marked(p) PROVE ConnInv' /\ PoolInv'
      <3>1. pool' = pool /\ ConnInv'
        BY <1>0, <2>2, SetsMarked DEF Marked
      <3> QED
        BY <1>0, <3>1 DEF PoolInv
    <2>3. ASSUME NEW p \in Slot, SynAck(p) PROVE ConnInv' /\ PoolInv'
      <3>1. pool' = pool /\ ConnInv'
        BY <1>0, <2>3, SetsSynAck
      <3> QED
        BY <1>0, <3>1 DEF PoolInv
    <2>4. ASSUME NEW p \in Slot, Activate(p) PROVE ConnInv' /\ PoolInv'
      <3>1. pool' = pool /\ ConnInv'
        BY <1>0, <2>4, SetsActivate
      <3> QED
        BY <1>0, <3>1 DEF PoolInv
    <2>5. ASSUME NEW p \in Slot, Gone(p) PROVE ConnInv' /\ PoolInv'
      BY <1>0, <2>5, SetsGone
    <2>6. ASSUME NEW r, Made(r) PROVE ConnInv' /\ PoolInv'
      BY <1>0, <2>6, SetsMade
    <2>7. ASSUME NEW p \in Slot, NEW old \in Slot, Relay(p, old) PROVE ConnInv' /\ PoolInv'
      BY <1>0, <2>7, SetsRelay
    <2> QED
      BY <2>1, <2>2, <2>3, <2>4, <2>5, <2>6, <2>7, Kinds DEF TableStep
  <1>2. WireInv'
    BY UpStep, DownStep DEF WireInv
  <1> QED
    BY <1>1, <1>2, ClientStep, SeatStep, NumberStep DEF ShapeInv
-----------------------------------------------------------------------------
(***************************************************************************)
(* The invariant and the theorems                                          *)
(***************************************************************************)
Inv == ShapeInv /\ QueueInv /\ CountsMatch /\ AdmitInv

\* A pool at the start.
LEMMA NewPools ==
    ASSUME NEW cap \in Nat \ {0}, Endless \in Nat,
           NEW pl, pl = [free |-> [k \in 1 .. cap |-> k - 1], last |-> [p \in 0 .. cap - 1 |-> 0],
                         valid |-> {}]
    PROVE  PoolOK(pl, cap) /\ pl.free # <<>> /\ Head(pl.free) = 0
  <1> DEFINE f == [k \in 1 .. cap |-> k - 1]
  <1>1. f \in Seq(0 .. cap - 1) /\ Len(f) = cap /\ \A k \in 1 .. cap : f[k] = k - 1
    <2>1. \A k \in 1 .. cap : k - 1 \in 0 .. cap - 1
      OBVIOUS
    <2> QED
      BY <2>1
  <1>2. pl.free = f /\ pl.last = [p \in 0 .. cap - 1 |-> 0] /\ pl.valid = {}
    OBVIOUS
  <1>3. pl \in [free : Seq(0 .. cap - 1), last : [0 .. cap - 1 -> 0 .. Endless],
                valid : SUBSET (0 .. cap - 1)]
    <2>1. [p \in 0 .. cap - 1 |-> 0] \in [0 .. cap - 1 -> 0 .. Endless]
      OBVIOUS
    <2> QED
      BY <1>1, <2>1
  <1> HIDE DEF f
  <1>4. ASSUME NEW q \in 0 .. cap - 1 PROVE \E k \in 1 .. cap : f[k] = q
    <2>1. q + 1 \in 1 .. cap /\ f[q + 1] = q
      BY <1>1
    <2> QED
      BY <2>1
  <1>5. \A q : q \in 0 .. cap - 1 /\ q \notin pl.valid <=> \E k \in 1 .. Len(pl.free) : pl.free[k] = q
    <2>1. \A k \in 1 .. cap : f[k] \in 0 .. cap - 1
      BY <1>1
    <2>2. \A q : q \in 0 .. cap - 1 <=> \E k \in 1 .. cap : f[k] = q
      BY <1>4, <2>1
    <2>3. pl.free = f /\ Len(pl.free) = cap /\ pl.valid = {}
      BY <1>1, <1>2
    <2> QED
      BY <2>2, <2>3
  <1>6. \A j, k \in 1 .. Len(pl.free) : pl.free[j] = pl.free[k] => j = k
    BY <1>1, <1>2
  <1>7. pl.free # <<>> /\ Head(pl.free) = 0
    <2>1. f # <<>> /\ 1 \in 1 .. cap
      BY <1>1
    <2>2. Head(f) = f[1]
      BY <1>1, <2>1, Tails
    <2>3. Head(f) = 0
      BY <1>1, <2>1, <2>2
    <2>4. pl.free = f
      BY <1>2
    <2> QED
      BY <2>1, <2>3, <2>4, Zenon
  <1> QED
    BY <1>2, <1>3, <1>5, <1>6, <1>7 DEF PoolOK

LEMMA Start ==
    ASSUME Init
    PROVE  Inv
  <1>0. /\ Cap \in Nat \ {0} /\ PlayerCap \in Nat \ {0} /\ Endless \in Nat /\ Permit \in Nat
        /\ Permit > 1 /\ -1 \in Idxs /\ ChanCap \in Nat /\ Chat \in [Client -> Nat]
    BY Limits DEF Idxs
  <1>1. PoolInv /\ pool.valid = {0}
    <2> DEFINE pl == Conns!NewPool
               h == Conns!AllocIdx(pl)
               p == Head(pl.free)
    <2>1. pl = [free |-> [k \in 1 .. Cap |-> k - 1], last |-> [q \in 0 .. Cap - 1 |-> 0], valid |-> {}]
      BY DEF Conns!NewPool, Conns!Position
    <2>2. pool = [free |-> Tail(pl.free), last |-> [pl.last EXCEPT ![p] = h],
                  valid |-> pl.valid \cup {p}]
      BY DEF Init, Conns!AfterAlloc
    <2>3. pl.valid = {}
      BY <2>1
    <2>4. h = Conns!NextIdx(p, pl.last[p])
      BY DEF Conns!AllocIdx
    <2> HIDE DEF pl, h
    <2>5. PoolOK(pl, Cap) /\ pl.free # <<>> /\ p = 0
      BY <1>0, <2>1, NewPools
    <2>6. h \in 0 .. Endless /\ h % Cap = p
      <3>1. p \in 0 .. Cap - 1 /\ pl.last[p] \in 0 .. Endless
        BY <1>0, <2>5 DEF PoolOK
      <3> QED
        BY <2>4, <3>1, Handles
    <2>7. PoolOK(pool, Cap)
      BY <1>0, <2>2, <2>5, <2>6, Taken
    <2>8. pool.valid = {0}
      BY <2>2, <2>3, <2>5
    <2> QED
      BY <2>7, <2>8 DEF PoolInv
  <1>2. ConnInv
    BY NoRecord DEF Init, ConnInv
  <1>3. Real = {} /\ Passed = {} /\ Waiting = {} /\ Asked = {}
    BY <1>1 DEF Real, Passed, Waiting, Asked, Used, Slot
  <1>4. ClientInv
    BY <1>0 DEF Init, ClientInv
  <1>5. SeatInv
    <2>1. PoolOK(seats, PlayerCap)
      <3>1. seats = [free |-> [k \in 1 .. PlayerCap |-> k - 1], last |-> [q \in 0 .. PlayerCap - 1 |-> 0],
                     valid |-> {}]
        BY DEF Init, Players!NewPool, Players!Position
      <3> QED
        BY <1>0, <3>1, NewPools
    <2>2. NoPlayer \in PlayerRecord
      BY <1>0 DEF NoPlayer, PlayerRecord
    <2> QED
      BY <2>1, <2>2 DEF Init, SeatInv
  <1>6. NumberInv
    BY <1>0 DEF Init, NumberInv, InfoRecord
  <1>7. WireInv
    BY <1>0 DEF Init, WireInv
  <1>8. Number({}) = 0
    BY FS_EmptySet DEF Number
  <1>9. CountsMatch
    <2>1. Real \ Passed = {} /\ Passed \ Waiting = {}
      BY <1>3
    <2> QED
      BY <1>3, <1>8, <2>1 DEF CountsMatch, Init
  <1>10. AdmitInv
    BY <1>0, <1>3, <1>8 DEF AdmitInv, Init
  <1>11. QueueInv
    BY <1>3 DEF QueueInv, Tokens, Queued, Init
  <1> QED
    BY <1>1, <1>2, <1>4, <1>5, <1>6, <1>7, <1>9, <1>10, <1>11 DEF Inv, ShapeInv

LEMMA InvStep ==
    ASSUME Inv, [Next]_vars
    PROVE  Inv'
  <1>1. CASE Next
    BY <1>1, ShapeStep, QueueStep, CountStep, AdmitStep DEF Inv
  <1>2. CASE UNCHANGED vars
    <2>1. UNCHANGED <<client, pool, conn, qHead, qTail, tokenAlloc, info, permit, left, up, down,
                      seats, player, released>>
      BY <1>2 DEF vars
    <2>2. /\ Real' = Real /\ Passed' = Passed /\ Waiting' = Waiting /\ Asked' = Asked
      BY <2>1 DEF Real, Passed, Waiting, Asked, Used
    <2>3. ShapeInv'
      BY <2>1 DEF Inv, ShapeInv, ClientInv, ConnInv, PoolInv, SeatInv, NumberInv, WireInv
    <2>4. QueueInv'
      BY <2>1, <2>2 DEF Inv, QueueInv
    <2>5. CountsMatch' /\ AdmitInv'
      BY <2>1, <2>2 DEF Inv, CountsMatch, AdmitInv
    <2> QED
      BY <2>3, <2>4, <2>5 DEF Inv
  <1> QED
    BY <1>1, <1>2

\* The invariant of tconnd: types and pools, the links of the queue, the counts
\* of stConnInfo, and what the loop of the activation may still admit.
THEOREM Invariance == Spec => []Inv
  <1>1. Init => Inv
    BY Start
  <1>2. Inv /\ [Next]_vars => Inv'
    BY InvStep
  <1> QED
    BY <1>1, <1>2, PTL DEF Spec

\* Type correctness: the connections, the pools, the frames and the numbers
\* keep their types, buffers and channels their capacities.
THEOREM TypeCorrect == Spec => []TypeOK
  <1>1. ASSUME Inv PROVE TypeOK
    <2>1. ShapeInv
      BY <1>1 DEF Inv
    <2>2. Range(pool.free) = (0 .. Cap - 1) \ pool.valid
      <3>1. pool.free \in Seq(0 .. Cap - 1)
        BY <2>1 DEF ShapeInv, PoolInv, PoolOK
      <3>2. DOMAIN pool.free = 1 .. Len(pool.free)
        BY <3>1
      <3> QED
        BY <2>1, <3>2 DEF ShapeInv, PoolInv, PoolOK, Range
    <2>3. Range(seats.free) = Seat \ seats.valid
      <3>1. seats.free \in Seq(0 .. PlayerCap - 1)
        BY <2>1 DEF ShapeInv, SeatInv, PoolOK
      <3>2. DOMAIN seats.free = 1 .. Len(seats.free)
        BY <3>1
      <3> QED
        BY <2>1, <3>2 DEF ShapeInv, SeatInv, PoolOK, Range, Seat
    <2>4. pool.valid \subseteq 0 .. Cap - 1 /\ 0 \in pool.valid
      BY <2>1 DEF ShapeInv, PoolInv, PoolOK
    <2>5. \A p \in Slot : conn[p] \in ConnRecord
      BY <2>1 DEF ShapeInv, ConnInv
    <2> QED
      BY <2>1, <2>2, <2>3, <2>4, <2>5 DEF TypeOK, ShapeInv, ClientInv, NumberInv, WireInv
  <1> QED
    BY <1>1, Invariance, PTL

\* The wait queue of tconnd_push_queue and tconnd_pop_queue links exactly the
\* waiting connections, both ways and in the order they came, whichever of them
\* is closed, relayed or admitted.
THEOREM QueueCorrect == Spec => []QueueLinked
  <1>1. ASSUME Inv PROVE QueueLinked
    <2> DEFINE W == Waiting
               H == pool.last
    <2>1. PoolInv /\ Tokens(conn, W, tokenAlloc) /\ Queued(conn, W, H, qHead, qTail)
      BY <1>1 DEF Inv, ShapeInv, QueueInv
    <2>2. Named(W, H)
      BY <2>1, WaitingNamed
    <2>3. \A p \in W : H[p] # -1 /\ Pos(H[p]) = p /\ H[p] \in Nat
      <3>1. \A p \in W : H[p] # -1 /\ Pos(H[p]) = p
        BY <2>2, Names
      <3> QED
        BY <2>2, <3>1 DEF Named
    <2>4. (qHead = -1 <=> W = {}) /\ (qTail = -1 <=> W = {})
      BY <2>1, <2>3 DEF Queued, First, Final
    <2>5. \A p \in W : Alive(H[p]) /\ H[p] = Idx(p)
      BY <2>3 DEF Alive, Conns!Live, Pos, Idx, Waiting, Real, Used
    <2>6. \A h \in {qHead, qTail} \ {-1} : Alive(h) /\ Pos(h) \in W
      <3>1. \A h \in {qHead, qTail} \ {-1} : \E p \in W : h = H[p]
        BY <2>1, <2>4 DEF Queued, First, Final
      <3> QED
        BY <2>3, <2>5, <3>1
    <2>7. ASSUME NEW p \in W
          PROVE  /\ (conn[p].prev = -1 <=> qHead = Idx(p)) /\ (conn[p].next = -1 <=> qTail = Idx(p))
                 /\ conn[p].next # -1 =>
                       /\ Pos(conn[p].next) \in W /\ conn[p].next = Idx(Pos(conn[p].next))
                       /\ conn[Pos(conn[p].next)].prev = Idx(p)
                       /\ conn[p].token < conn[Pos(conn[p].next)].token
                       /\ \A r \in W : conn[r].token <= conn[p].token
                                         \/ conn[Pos(conn[p].next)].token <= conn[r].token
      <3>1. (conn[p].prev = -1 <=> qHead = Idx(p)) /\ (conn[p].next = -1 <=> qTail = Idx(p))
        BY <2>1, <2>2, <2>5, Ends
      <3>2. ASSUME conn[p].next # -1 PROVE \E s \in W : Follows(conn, W, H, p, s)
        BY <2>1, <3>2 DEF Queued
      <3>3. ASSUME NEW s \in W, Follows(conn, W, H, p, s)
            PROVE  /\ Pos(conn[p].next) = s /\ conn[p].next = Idx(s) /\ conn[s].prev = Idx(p)
                   /\ conn[p].token < conn[s].token
                   /\ \A r \in W : conn[r].token <= conn[p].token \/ conn[s].token <= conn[r].token
        BY <2>3, <2>5, <3>3 DEF Follows
      <3> QED
        BY <3>1, <3>2, <3>3
    <2> QED
      BY <2>4, <2>6, <2>7 DEF QueueLinked
  <1> QED
    BY <1>1, Invariance, PTL

\* stConnInfo counts the connections of every stage, but for the reserved ones
\* that were given back (tconnd_reserve_connection does not count them).
THEOREM CountsCorrect == Spec => []CountsMatch
  <1>1. Inv => CountsMatch
    BY DEF Inv
  <1> QED
    BY <1>1, Invariance, PTL

\* The queue admits no more than iPermit connections at a time.
THEOREM Admission == Spec => []AdmissionBound
  <1>1. Inv => AdmissionBound
    BY DEF Inv, AdmitInv, AdmissionBound, Asked
  <1> QED
    BY <1>1, Invariance, PTL

\* tconnd_active_waitqueue admits the connection that has waited longest.
THEOREM InOrder == Spec => AdmittedInOrder
  <1>1. ASSUME Inv, Next, NEW p \in Waiting, conn'[p].sent, ~conn'[p].inq
        PROVE  \A r \in Waiting : conn[p].token <= conn[r].token
    <2>0. ShapeInv /\ ConnInv /\ PoolInv /\ NumberInv /\ QueueInv
      BY <1>1 DEF Inv, ShapeInv
    <2>1. p \in Slot /\ p \in Real /\ conn[p].inq /\ Used(p)
      BY DEF Waiting, Real
    <2>2. ~(Still \/ ActiveBegin)
      BY <1>1, <2>1 DEF Still, ActiveBegin
    <2>3. ASSUME NEW q \in Slot, Marked(q) PROVE FALSE
      BY <1>1, <2>0, <2>1, <2>3, SetsMarked DEF Alike
    <2>4. ASSUME NEW r, Made(r) PROVE FALSE
      <3> DEFINE q == Head(pool.free)
      <3>1. q \notin pool.valid /\ \A s \in Slot \ {q} : conn'[s] = conn[s]
        BY <2>0, <2>4, SetsMade
      <3> HIDE DEF q
      <3> QED
        BY <1>1, <2>1, <3>1 DEF Used
    <2>5. ASSUME NEW q \in Slot, SynAck(q) PROVE FALSE
      <3>1. q \notin Waiting /\ \A s \in Slot \ {q} : AllButLinks(conn'[s], conn[s])
        BY <2>0, <2>5, SetsSynAck
      <3> QED
        BY <1>1, <2>1, <3>1 DEF AllButLinks
    <2>6. ASSUME NEW q \in Slot, Gone(q) PROVE FALSE
      <3>1. ~conn'[q].sent /\ \A s \in Slot \ {q} : AllButLinks(conn'[s], conn[s])
        BY <2>0, <2>6, SetsGone
      <3> QED
        BY <1>1, <2>1, <3>1 DEF AllButLinks
    <2>7. ASSUME NEW q \in Slot, NEW old \in Slot, Relay(q, old) PROVE FALSE
      <3>1. /\ q \notin Waiting /\ ~conn'[old].sent
            /\ \A s \in Slot \ {q, old} : AllButLinks(conn'[s], conn[s])
        BY <2>0, <2>7, SetsRelay
      <3> QED
        BY <1>1, <2>1, <3>1 DEF AllButLinks
    <2>8. ASSUME NEW q \in Slot, Activate(q)
          PROVE  \A r \in Waiting : conn[p].token <= conn[r].token
      <3>1. \A s \in Slot \ {q} : AllButLinks(conn'[s], conn[s])
        BY <2>0, <2>8, SetsActivate
      <3>2. p = q
        BY <1>1, <2>1, <3>1 DEF AllButLinks
      <3>3. qHead = pool.last[p]
        BY <2>8, <3>2 DEF Activate, Idx
      <3>4. Named(Waiting, pool.last) /\ Queued(conn, Waiting, pool.last, qHead, qTail)
        BY <2>0, WaitingNamed DEF QueueInv
      <3>5. First(conn, Waiting, pool.last, qHead, p)
        BY <3>3, <3>4, Ends
      <3> QED
        BY <3>5 DEF First
    <2> QED
      BY <1>1, <2>0, <2>2, <2>3, <2>4, <2>5, <2>6, <2>7, <2>8, Kinds DEF TableStep
  <1>2. Inv /\ [Next]_vars =>
          [\A p \in Waiting : conn'[p].sent /\ ~conn'[p].inq =>
              \A r \in Waiting : conn[p].token <= conn[r].token]_vars
    BY <1>1
  <1> QED
    BY <1>2, Invariance, PTL DEF Spec, AdmittedInOrder
-----------------------------------------------------------------------------
(***************************************************************************)
(* Handles do not turn over: how far the handles of a pool have come.      *)
(***************************************************************************)

LEMMA Monotone ==
    ASSUME NEW c \in Nat, NEW a \in Nat, NEW b \in Nat, a <= b
    PROVE  c * a \in Nat /\ c * b \in Nat /\ c * a <= c * b
  <1>1. b - a \in Nat /\ (b - a) * c \in Nat
    OBVIOUS
  <1>2. (b - a) * c = b * c - a * c
    OBVIOUS
  <1>3. b * c = c * b /\ a * c = c * a /\ c * a \in Nat /\ c * b \in Nat
    OBVIOUS
  <1> QED
    BY <1>1, <1>2, <1>3

LEMMA HandleGrows ==
    ASSUME NEW cap \in Nat \ {0}, NEW p \in 0 .. cap - 1, NEW last \in Nat, NEW n \in Nat,
           last < cap * (n + 1), NEW max \in Nat, cap * (n + 2) <= max
    PROVE  /\ HandleOf(cap, max, p, last) \in Nat
           /\ HandleOf(cap, max, p, last) < cap * (n + 2)
           /\ p # 0 => last < HandleOf(cap, max, p, last)
  <1> DEFINE d == last \div cap
             r == last % cap
             h == d * cap + cap + p
  <1>1. d \in Nat /\ r \in 0 .. cap - 1 /\ last = cap * d + r
    OBVIOUS
  <1> HIDE DEF d, r
  <1>2. d < n + 1
    <2>1. CASE n + 1 <= d
      <3>1. cap * (n + 1) <= cap * d
        BY <1>1, <2>1, Monotone
      <3>2. cap * d \in Nat /\ cap * (n + 1) \in Nat
        BY <1>1
      <3> QED
        BY <1>1, <3>1, <3>2
    <2> QED
      BY <1>1, <2>1
  <1>3. cap * d + cap <= cap * (n + 1)
    <2>1. cap * (d + 1) <= cap * (n + 1)
      BY <1>1, <1>2, Monotone
    <2>2. cap * (d + 1) = cap * d + cap
      BY <1>1
    <2> QED
      BY <2>1, <2>2
  <1>4. cap * (n + 2) = cap * (n + 1) + cap /\ cap * (n + 1) \in Nat /\ cap * (n + 1) >= cap
    BY Products
  <1>5. d * cap = cap * d /\ cap * d \in Nat
    BY <1>1
  <1> HIDE DEF h
  <1>6. h \in Nat /\ h < cap * (n + 2) /\ last < h
    BY <1>1, <1>3, <1>4, <1>5 DEF h
  <1>7. ~(h > max)
    BY <1>4, <1>6
  <1>8. HandleOf(cap, max, p, last) = IF last = 0 THEN p ELSE h
    BY <1>7 DEF HandleOf, h, d
  <1>9. p \in Nat /\ p < cap * (n + 2)
    BY <1>4
  <1> QED
    BY <1>6, <1>8, <1>9

\* No block of a pool has been used more than n + 1 times.
Below(pl, cap, n) == \A p \in 0 .. cap - 1 : pl.last[p] < cap * (n + 1)

\* A block is taken of the pool pl, which becomes pk.
Allots(pl, pk, cap) ==
    /\ pl.free # <<>>
    /\ pk.last = [pl.last EXCEPT ![Head(pl.free)] =
                     HandleOf(cap, Endless, Head(pl.free), pl.last[Head(pl.free)])]

OneOn(pl, pk, cap, n) ==
    /\ Below(pk, cap, n + 1) /\ Head(pl.free) \in 0 .. cap - 1
    /\ \A q \in 0 .. cap - 1 : q # Head(pl.free) => pk.last[q] = pl.last[q]
    /\ Head(pl.free) # 0 => pl.last[Head(pl.free)] < pk.last[Head(pl.free)]

LEMMA Grown ==
    ASSUME NEW cap \in Nat \ {0}, NEW pl, PoolOK(pl, cap),
           NEW n \in Nat, Below(pl, cap, n), Endless \in Nat, cap * (n + 2) <= Endless,
           NEW pk, Allots(pl, pk, cap)
    PROVE  OneOn(pl, pk, cap, n)
  <1> DEFINE p == Head(pl.free)
  <1> PICK h : h = HandleOf(cap, Endless, p, pl.last[p])
    OBVIOUS
  <1>0. pl.free # <<>> /\ pk.last = [pl.last EXCEPT ![p] = h]
    BY DEF Allots
  <1>1. /\ pl.free \in Seq(0 .. cap - 1) /\ pl.last \in [0 .. cap - 1 -> 0 .. Endless]
    BY DEF PoolOK
  <1>2. p \in 0 .. cap - 1
    BY <1>0, <1>1, Tails
  <1> HIDE DEF p
  <1>3. pl.last[p] \in Nat /\ pl.last[p] < cap * (n + 1)
    BY <1>1, <1>2 DEF Below
  <1>4. h \in Nat /\ h < cap * (n + 2) /\ (p # 0 => pl.last[p] < h)
    BY <1>2, <1>3, HandleGrows
  <1>5. pk.last[p] = h /\ \A q \in 0 .. cap - 1 : q # p => pk.last[q] = pl.last[q]
    BY <1>0, <1>1, <1>2
  <1>6. cap * (n + 1) <= cap * (n + 2) /\ cap * (n + 1) \in Nat /\ cap * (n + 2) \in Nat
    BY Monotone
  <1>7. ASSUME NEW q \in 0 .. cap - 1 PROVE pk.last[q] < cap * (n + 1 + 1)
    <2>1. n + 1 + 1 = n + 2
      OBVIOUS
    <2>2. CASE q = p
      BY <1>4, <1>5, <2>1, <2>2
    <2>3. CASE q # p
      <3>1. pl.last[q] \in Nat /\ pl.last[q] < cap * (n + 1)
        BY <1>1 DEF Below
      <3> QED
        BY <1>5, <1>6, <2>1, <2>3, <3>1
    <2> QED
      BY <2>2, <2>3
  <1>8. Below(pk, cap, n + 1)
    BY <1>7 DEF Below
  <1> QED
    BY <1>2, <1>4, <1>5, <1>8 DEF OneOn, p

\* Endless is beyond what the bounds of the model let the handles come to.
LEMMA Enough ==
    ASSUME NEW n \in Nat
    PROVE  /\ n < Cardinality(Client) + MaxReserve => Cap * (n + 2) <= Endless
           /\ n < Cardinality(Client) => PlayerCap * (n + 2) <= Endless
           /\ Cardinality(Client) \in Nat /\ MaxReserve \in Nat
  <1> DEFINE m == Cardinality(Client) + MaxReserve + 1
  <1>1. /\ Cardinality(Client) \in Nat /\ MaxReserve \in Nat /\ Cap \in Nat \ {0} /\ PlayerCap \in Nat \ {0}
    BY TconndAssumption, FS_CardinalityType
  <1>2. m \in Nat
    BY <1>1
  <1>3. Endless = (Cap * PlayerCap) * m
    BY DEF Endless
  <1>4. n < Cardinality(Client) + MaxReserve => n + 2 <= m
    BY <1>1
  <1> HIDE DEF m
  <1>5. Cap * PlayerCap \in Nat /\ Cap * PlayerCap >= Cap /\ Cap * PlayerCap >= PlayerCap
    BY <1>1, Products
  <1>6. Cap * m <= Endless /\ PlayerCap * m <= Endless
    <2>1. m * Cap <= m * (Cap * PlayerCap) /\ m * PlayerCap <= m * (Cap * PlayerCap)
      BY <1>1, <1>2, <1>5, Monotone
    <2>2. m * Cap = Cap * m /\ m * PlayerCap = PlayerCap * m
      BY <1>1, <1>2
    <2>3. m * (Cap * PlayerCap) = (Cap * PlayerCap) * m
      BY <1>2, <1>5
    <2> QED
      BY <1>3, <2>1, <2>2, <2>3
  <1>7. ASSUME n + 2 <= m PROVE Cap * (n + 2) <= Endless /\ PlayerCap * (n + 2) <= Endless
    <2>1. n + 2 \in Nat
      OBVIOUS
    <2>2. /\ Cap * (n + 2) <= Cap * m /\ PlayerCap * (n + 2) <= PlayerCap * m
          /\ Cap * (n + 2) \in Nat /\ PlayerCap * (n + 2) \in Nat
          /\ Cap * m \in Nat /\ PlayerCap * m \in Nat
      BY <1>1, <1>2, <1>7, <2>1, Monotone
    <2>3. Endless \in Nat
      BY Limits
    <2> QED
      BY <1>6, <2>2, <2>3
  <1> QED
    BY <1>1, <1>4, <1>7
-----------------------------------------------------------------------------
(***************************************************************************)
(* Frames in a direction of the channel                                    *)
(***************************************************************************)

\* How many frames of s have the command cmd.
Places(s, cmd)  == {k \in 1 .. Len(s) : s[k].cmd = cmd}
HowMany(s, cmd) == Cardinality(Places(s, cmd))

LEMMA Placed ==
    ASSUME NEW s \in Seq(Frames), NEW cmd
    PROVE  IsFiniteSet(Places(s, cmd)) /\ HowMany(s, cmd) \in Nat /\ Len(s) \in Nat
  <1>1. Len(s) \in Nat
    OBVIOUS
  <1>2. IsFiniteSet(1 .. Len(s))
    BY <1>1, FS_Interval
  <1>3. Places(s, cmd) \in SUBSET (1 .. Len(s))
    BY DEF Places
  <1> QED
    BY <1>1, <1>2, <1>3, FS_Subset, FS_CardinalityType DEF HowMany

LEMMA TailPlaces ==
    ASSUME NEW s \in Seq(Frames), s # <<>>, NEW cmd
    PROVE  /\ HowMany(Tail(s), cmd) <= HowMany(s, cmd)
           /\ Head(s).cmd = cmd => HowMany(Tail(s), cmd) + 1 <= HowMany(s, cmd)
  <1> DEFINE t == Tail(s)
             P == Places(s, cmd)
             Q == P \ {1}
             f == [k \in Places(t, cmd) |-> k + 1]
  <1>1. /\ Len(s) \in Nat /\ Len(s) >= 1 /\ Head(s) = s[1] /\ Len(t) = Len(s) - 1 /\ t \in Seq(Frames)
        /\ \A k \in 1 .. Len(s) - 1 : t[k] = s[k + 1]
    BY Tails
  <1>2. IsFiniteSet(P) /\ HowMany(s, cmd) \in Nat /\ HowMany(t, cmd) \in Nat
    BY <1>1, Placed
  <1>3. f \in Injection(Places(t, cmd), Q)
    <2>1. \A k \in Places(t, cmd) : k + 1 \in Q /\ k \in Nat
      BY <1>1 DEF Places
    <2>2. f \in [Places(t, cmd) -> Q] /\ \A j, k \in Places(t, cmd) : f[j] = f[k] => j = k
      BY <2>1
    <2> HIDE DEF f, Q
    <2> QED
      BY <2>2 DEF Injection, IsInjective
  <1>4. /\ IsFiniteSet(Q) /\ Cardinality(Q) = IF 1 \in P THEN Cardinality(P) - 1 ELSE Cardinality(P)
    BY <1>2, FS_RemoveElement
  <1>5. Cardinality(Places(t, cmd)) <= Cardinality(Q)
    BY <1>3, <1>4, FS_Injection
  <1>6. Head(s).cmd = cmd => 1 \in P
    BY <1>1 DEF Places
  <1> QED
    BY <1>2, <1>4, <1>5, <1>6 DEF HowMany

LEMMA OneMore ==
    ASSUME NEW S, IsFiniteSet(S), NEW x
    PROVE  /\ IsFiniteSet(S \cup {x}) /\ Cardinality(S \cup {x}) <= Cardinality(S) + 1
           /\ Cardinality(S) \in Nat
  <1>1. Cardinality(S) \in Nat
    BY FS_CardinalityType
  <1>2. /\ IsFiniteSet(S \cup {x})
        /\ Cardinality(S \cup {x}) = IF x \in S THEN Cardinality(S) ELSE Cardinality(S) + 1
    BY FS_AddElement
  <1> QED
    BY <1>1, <1>2

LEMMA AppendPlaces ==
    ASSUME NEW s \in Seq(Frames), NEW f \in Frames, NEW cmd
    PROVE  /\ HowMany(Append(s, f), cmd) <= HowMany(s, cmd) + 1
           /\ f.cmd # cmd => HowMany(Append(s, f), cmd) = HowMany(s, cmd)
  <1>1. /\ Len(s) \in Nat /\ Len(Append(s, f)) = Len(s) + 1
        /\ \A k \in 1 .. Len(s) + 1 : Append(s, f)[k] = IF k = Len(s) + 1 THEN f ELSE s[k]
    BY Appends
  <1>2. Places(Append(s, f), cmd) =
          IF f.cmd = cmd THEN Places(s, cmd) \cup {Len(s) + 1} ELSE Places(s, cmd)
    BY <1>1 DEF Places
  <1>3. IsFiniteSet(Places(s, cmd)) /\ HowMany(s, cmd) \in Nat
    BY Placed
  <1>4. /\ Cardinality(Places(s, cmd) \cup {Len(s) + 1}) <= Cardinality(Places(s, cmd)) + 1
    BY <1>3, OneMore
  <1> QED
    BY <1>2, <1>3, <1>4 DEF HowMany

LEMMA ConcatAt ==
    ASSUME NEW S, NEW s \in Seq(S), NEW t \in Seq(S), NEW n \in 0 .. Len(t)
    PROVE  /\ Len(s) \in Nat /\ Len(s \o SubSeq(t, 1, n)) = Len(s) + n
           /\ \A k \in 1 .. Len(s) + n :
                 (s \o SubSeq(t, 1, n))[k] = IF k <= Len(s) THEN s[k] ELSE t[k - Len(s)]
  <1>1. Len(s) \in Nat /\ Len(t) \in Nat /\ n \in Nat
    OBVIOUS
  <1>2. /\ SubSeq(t, 1, n) \in Seq(S) /\ Len(SubSeq(t, 1, n)) = n
        /\ \A k \in 1 .. n : SubSeq(t, 1, n)[k] = t[k]
    OBVIOUS
  <1> DEFINE u == SubSeq(t, 1, n)
  <1> HIDE DEF u
  <1>3. u \in Seq(S) /\ Len(u) = n /\ \A k \in 1 .. n : u[k] = t[k]
    BY <1>2 DEF u
  <1>4. /\ Len(s \o u) = Len(s) + n
        /\ \A k \in 1 .. Len(s) + n : (s \o u)[k] = IF k <= Len(s) THEN s[k] ELSE u[k - Len(s)]
    BY <1>1, <1>3
  <1>5. ASSUME NEW k \in 1 .. Len(s) + n
        PROVE  (s \o u)[k] = IF k <= Len(s) THEN s[k] ELSE t[k - Len(s)]
    <2>1. CASE k <= Len(s)
      BY <1>4, <2>1
    <2>2. CASE ~(k <= Len(s))
      <3>1. k - Len(s) \in 1 .. n
        BY <1>1, <2>2
      <3> QED
        BY <1>3, <1>4, <2>2, <3>1
    <2> QED
      BY <2>1, <2>2
  <1> QED
    BY <1>1, <1>4, <1>5 DEF u

\* Of frames that are sent together only the first may have the command.
LEMMA ConcatPlaces ==
    ASSUME NEW s \in Seq(Frames), NEW t \in Seq(Frames), NEW n \in 0 .. Len(t), NEW cmd,
           \A k \in 2 .. Len(t) : t[k].cmd # cmd
    PROVE  /\ HowMany(s \o SubSeq(t, 1, n), cmd) <= HowMany(s, cmd) + 1
           /\ (Len(t) > 0 => t[1].cmd # cmd) => HowMany(s \o SubSeq(t, 1, n), cmd) <= HowMany(s, cmd)
  <1> DEFINE u == s \o SubSeq(t, 1, n)
  <1>1. /\ Len(s) \in Nat /\ Len(u) = Len(s) + n /\ n \in Nat /\ Len(t) \in Nat
        /\ \A k \in 1 .. Len(s) + n : u[k] = IF k <= Len(s) THEN s[k] ELSE t[k - Len(s)]
    BY ConcatAt
  <1> HIDE DEF u
  <1>2. IsFiniteSet(Places(s, cmd)) /\ HowMany(s, cmd) \in Nat
    BY Placed
  <1>3. ASSUME NEW k \in Places(u, cmd)
        PROVE  k \in Places(s, cmd) \/ (k = Len(s) + 1 /\ Len(t) > 0 /\ t[1].cmd = cmd)
    <2>1. k \in 1 .. Len(s) + n /\ u[k].cmd = cmd
      BY <1>1 DEF Places
    <2>2. CASE k <= Len(s)
      BY <1>1, <2>1, <2>2 DEF Places
    <2>3. CASE ~(k <= Len(s))
      <3>1. k - Len(s) \in 1 .. n /\ t[k - Len(s)].cmd = cmd /\ k - Len(s) \in 1 .. Len(t)
        BY <1>1, <2>1, <2>3
      <3>2. k - Len(s) = 1
        BY <1>1, <3>1
      <3>3. k = Len(s) + 1 /\ Len(t) > 0
        BY <1>1, <2>1, <3>1, <3>2
      <3>4. t[1].cmd = cmd
        BY <3>1, <3>2
      <3> QED
        BY <3>3, <3>4
    <2> QED
      BY <2>2, <2>3
  <1>4. /\ IsFiniteSet(Places(s, cmd) \cup {Len(s) + 1})
        /\ Cardinality(Places(s, cmd) \cup {Len(s) + 1}) <= Cardinality(Places(s, cmd)) + 1
    BY <1>2, OneMore
  <1>5. Cardinality(Places(u, cmd)) <= Cardinality(Places(s, cmd) \cup {Len(s) + 1})
    <2>1. Places(u, cmd) \in SUBSET (Places(s, cmd) \cup {Len(s) + 1})
      BY <1>3
    <2> QED
      BY <1>4, <2>1, FS_Subset
  <1>6. ASSUME Len(t) > 0 => t[1].cmd # cmd
        PROVE  Cardinality(Places(u, cmd)) <= Cardinality(Places(s, cmd))
    <2>1. Places(u, cmd) \in SUBSET Places(s, cmd)
      BY <1>3, <1>6
    <2> QED
      BY <1>2, <2>1, FS_Subset
  <1>7. u \in Seq(Frames)
    BY Concats DEF u
  <1>8. HowMany(u, cmd) \in Nat
    BY <1>7, Placed
  <1>9. HowMany(u, cmd) <= HowMany(s, cmd) + 1
    <2>1. /\ Cardinality(Places(s, cmd) \cup {Len(s) + 1}) \in Nat
          /\ Cardinality(Places(s, cmd)) \in Nat /\ Cardinality(Places(u, cmd)) \in Nat
      BY <1>2, <1>4, <1>8, FS_CardinalityType DEF HowMany
    <2> QED
      BY <1>4, <1>5, <2>1 DEF HowMany
  <1>10. (Len(t) > 0 => t[1].cmd # cmd) => HowMany(u, cmd) <= HowMany(s, cmd)
    BY <1>6 DEF HowMany
  <1> QED
    BY <1>9, <1>10 DEF u

\* What is in a direction after reading and after sending.
LEMMA Ranges ==
    ASSUME NEW s \in Seq(Frames)
    PROVE  /\ s # <<>> => Head(s) \in Range(s) /\ Range(Tail(s)) \subseteq Range(s)
           /\ \A f \in Frames : Range(Append(s, f)) \subseteq Range(s) \cup {f}
           /\ Range(s) \subseteq Frames
           /\ \A f \in Range(s) : \E k \in 1 .. Len(s) : s[k] = f
  <1>0. DOMAIN s = 1 .. Len(s) /\ Len(s) \in Nat
    OBVIOUS
  <1>1. ASSUME s # <<>> PROVE Head(s) \in Range(s) /\ Range(Tail(s)) \subseteq Range(s)
    <2>1. /\ Len(s) \in Nat /\ Len(s) >= 1 /\ Head(s) = s[1] /\ Tail(s) \in Seq(Frames)
          /\ Len(Tail(s)) = Len(s) - 1 /\ \A k \in 1 .. Len(s) - 1 : Tail(s)[k] = s[k + 1]
      BY <1>1, Tails
    <2> DEFINE t == Tail(s)
    <2>2. t \in Seq(Frames) /\ Len(t) = Len(s) - 1 /\ \A k \in 1 .. Len(s) - 1 : t[k] = s[k + 1]
      BY <2>1
    <2> HIDE DEF t
    <2>3. DOMAIN t = 1 .. Len(s) - 1
      BY <2>2
    <2>4. ASSUME NEW k \in DOMAIN t PROVE t[k] \in Range(s)
      <3>1. k + 1 \in DOMAIN s /\ t[k] = s[k + 1]
        BY <1>0, <2>1, <2>2, <2>3
      <3> QED
        BY <3>1 DEF Range
    <2>5. Range(t) \subseteq Range(s)
      BY <2>4 DEF Range
    <2>6. Head(s) \in Range(s)
      BY <1>0, <2>1 DEF Range
    <2> QED
      BY <2>5, <2>6 DEF t
  <1>2. ASSUME NEW f \in Frames PROVE Range(Append(s, f)) \subseteq Range(s) \cup {f}
    <2> DEFINE t == Append(s, f)
    <2>1. /\ t \in Seq(Frames) /\ Len(t) = Len(s) + 1
          /\ \A k \in 1 .. Len(s) + 1 : t[k] = IF k = Len(s) + 1 THEN f ELSE s[k]
      BY Appends
    <2> HIDE DEF t
    <2>2. DOMAIN t = 1 .. Len(s) + 1
      BY <2>1
    <2>3. ASSUME NEW k \in DOMAIN t PROVE t[k] \in Range(s) \cup {f}
      BY <1>0, <2>1, <2>2 DEF Range
    <2>4. Range(t) \subseteq Range(s) \cup {f}
      BY <2>3 DEF Range
    <2> QED
      BY <2>4 DEF t
  <1>3. Range(s) \subseteq Frames /\ \A f \in Range(s) : \E k \in 1 .. Len(s) : s[k] = f
    BY <1>0 DEF Range
  <1> QED
    BY <1>1, <1>2, <1>3

LEMMA SentFrames ==
    ASSUME WireInv, NEW frames \in Seq(Frames), SendUp(frames)
    PROVE  /\ Range(up') \subseteq Range(up) \cup Range(frames)
           /\ \E n \in 0 .. Len(frames) : up' = up \o SubSeq(frames, 1, n)
  <1> DEFINE room == IF Len(frames) <= ChanCap - Len(up) THEN Len(frames) ELSE ChanCap - Len(up)
  <1>1. /\ up \in Seq(Frames) /\ Len(up) \in Nat /\ Len(up) <= ChanCap /\ ChanCap \in Nat
        /\ Len(frames) \in Nat
    BY Limits DEF WireInv
  <1>2. room \in 0 .. Len(frames)
    BY <1>1
  <1>3. up' = up \o SubSeq(frames, 1, room)
    BY DEF SendUp
  <1> HIDE DEF room
  <1>4. /\ Len(up') = Len(up) + room /\ room \in Nat
        /\ \A k \in 1 .. Len(up) + room : up'[k] = IF k <= Len(up) THEN up[k] ELSE frames[k - Len(up)]
    BY <1>1, <1>2, <1>3, ConcatAt
  <1>5. up' \in Seq(Frames)
    BY <1>1, <1>2, <1>3, Concats
  <1>6. DOMAIN up' = 1 .. Len(up') /\ DOMAIN up = 1 .. Len(up) /\ DOMAIN frames = 1 .. Len(frames)
    BY <1>1, <1>5
  <1>7. ASSUME NEW k \in DOMAIN up' PROVE up'[k] \in Range(up) \cup Range(frames)
    <2>1. k \in 1 .. Len(up) + room
      BY <1>4, <1>6
    <2>2. CASE k <= Len(up)
      <3>1. k \in DOMAIN up /\ up'[k] = up[k]
        BY <1>1, <1>4, <1>6, <2>1, <2>2
      <3> QED
        BY <3>1 DEF Range
    <2>3. CASE ~(k <= Len(up))
      <3>1. k - Len(up) \in DOMAIN frames /\ up'[k] = frames[k - Len(up)]
        BY <1>1, <1>2, <1>4, <1>6, <2>1, <2>3
      <3> QED
        BY <3>1 DEF Range
    <2> QED
      BY <2>2, <2>3
  <1>8. Range(up') \subseteq Range(up) \cup Range(frames)
    BY <1>7 DEF Range
  <1> QED
    BY <1>2, <1>3, <1>8

LEMMA OneFrame ==
    ASSUME NEW f \in Frames
    PROVE  <<f>> \in Seq(Frames) /\ Len(<<f>>) = 1 /\ <<f>>[1] = f /\ Range(<<f>>) = {f}
  BY DEF Range

\* The frames and the clients they name, whichever step sends them.
Wire == Range(up) \cup {f \in Range(down) : f.cmd # "NOTIFY"}
-----------------------------------------------------------------------------
(***************************************************************************)
(* What a step does to one connection                                      *)
(***************************************************************************)
Same(r, o)      == /\ r.who = o.who /\ r.sent = o.sent /\ r.inq = o.inq
                   /\ r.stage = "pass" <=> o.stage = "pass"
Announced(r, o) == r.who = o.who /\ r.sent /\ r.stage = "pass" /\ ~r.inq
LinesUp(r, o)   == r.who = o.who /\ r.sent = o.sent /\ o.stage # "pass"

Fate(s) ==
    \/ Used(s) /\ (Same(conn'[s], conn[s]) \/ Announced(conn'[s], conn[s]) \/ LinesUp(conn'[s], conn[s]))
    \/ ~Used(s) /\ s = Head(pool.free) /\ \E r : Made(r) /\ conn'[s] = r

\* The pool when no connection is made.
NoneMade == pool'.last = pool.last /\ pool'.valid \subseteq pool.valid

LEMMA Fates ==
    ASSUME ShapeInv, TableStep
    PROVE  (\A s \in Slot : Used(s)' => Fate(s)) /\ (NoneMade \/ \E r : Made(r))
  <1> DEFINE Right == (\A s \in Slot : Used(s)' => Fate(s)) /\ (NoneMade \/ \E r : Made(r))
  <1>0. ConnInv /\ PoolInv /\ NumberInv /\ conn \in [Slot -> ConnRecord]
    BY DEF ShapeInv, ConnInv
  <1>1. CASE Still \/ ActiveBegin
    <2>1. UNCHANGED <<pool, conn>>
      BY <1>1 DEF Still, ActiveBegin
    <2>2. \A s \in Slot : Same(conn'[s], conn[s])
      BY <2>1 DEF Same
    <2>3. \A s \in Slot : Used(s)' => Used(s)
      BY <2>1 DEF Used
    <2>4. NoneMade
      BY <2>1 DEF NoneMade
    <2> QED
      BY <2>2, <2>3, <2>4 DEF Fate
  <1>2. ASSUME NEW p \in Slot, Marked(p) PROVE Right
    <2>1. pool' = pool /\ \A s \in Slot : Alike(conn'[s], conn[s])
      BY <1>0, <1>2, SetsMarked DEF Marked
    <2>2. \A s \in Slot : Same(conn'[s], conn[s])
      BY <2>1 DEF Same, Alike
    <2>3. \A s \in Slot : Used(s)' => Used(s)
      BY <2>1 DEF Used
    <2>4. NoneMade
      BY <2>1 DEF NoneMade
    <2> QED
      BY <2>2, <2>3, <2>4 DEF Fate
  <1>3. ASSUME NEW p \in Slot, SynAck(p) PROVE Right
    <2>1. pool' = pool /\ \A s \in Slot \ {p} : AllButLinks(conn'[s], conn[s])
      BY <1>0, <1>3, SetsSynAck
    <2>2. \A s \in Slot \ {p} : Same(conn'[s], conn[s])
      BY <2>1 DEF Same, AllButLinks
    <2>3. conn[p].stage = "syn" /\ conn[p] \in ConnRecord /\ ~conn[p].inq
      BY <1>0, <1>3 DEF SynAck, ConnInv
    <2>4. ASSUME conn[p].who \in VIP PROVE Announced(conn'[p], conn[p])
      <3> DEFINE r == [conn[p] EXCEPT !.stage = "pass", !.bypass = TRUE, !.sent = TRUE]
      <3>1. conn' = [conn EXCEPT ![p] = r]
        BY <1>0, <1>3, <2>4 DEF SynAck
      <3>2. Announced(r, conn[p])
        BY <2>3 DEF Announced, ConnRecord
      <3> HIDE DEF r
      <3>3. conn'[p] = r
        BY <1>0, <3>1
      <3> QED
        BY <3>2, <3>3
    <2>5. ASSUME conn[p].who \notin VIP PROVE LinesUp(conn'[p], conn[p])
      <3> DEFINE r == [conn[p] EXCEPT !.stage = "pass", !.kept = 1, !.inq = TRUE,
                                      !.token = tokenAlloc + 1, !.prev = qTail, !.next = -1]
      <3>1. conn'[p] = r
        BY <1>0, <1>3, <2>5 DEF SynAck, PushQueue
      <3>2. LinesUp(r, conn[p])
        BY <2>3 DEF LinesUp, ConnRecord
      <3> QED
        BY <3>1, <3>2
    <2>6. \A s \in Slot : Used(s)' => Used(s)
      BY <2>1 DEF Used
    <2>7. Announced(conn'[p], conn[p]) \/ LinesUp(conn'[p], conn[p])
      BY <2>4, <2>5
    <2>8. NoneMade
      BY <2>1 DEF NoneMade
    <2> QED
      BY <2>2, <2>6, <2>7, <2>8 DEF Fate
  <1>4. ASSUME NEW p \in Slot, Activate(p) PROVE Right
    <2>1. pool' = pool /\ p \in Waiting /\ \A s \in Slot \ {p} : AllButLinks(conn'[s], conn[s])
      BY <1>0, <1>4, SetsActivate
    <2>2. \A s \in Slot \ {p} : Same(conn'[s], conn[s])
      BY <2>1 DEF Same, AllButLinks
    <2> DEFINE r == [conn[p] EXCEPT !.inq = FALSE, !.sent = TRUE, !.kept = 0, !.token = 0,
                                    !.prev = -1, !.next = -1]
    <2>3. conn' = [Unlinked(p) EXCEPT ![p] = r] /\ conn[p] \in ConnRecord /\ conn[p].stage = "pass"
      BY <1>0, <1>4 DEF Activate, InQueue, ConnInv
    <2>4. Announced(r, conn[p])
      BY <2>3 DEF Announced, ConnRecord
    <2> HIDE DEF r
    <2>5. conn'[p] = r
      BY <1>0, <2>3, UnlinkedTable
    <2>6. \A s \in Slot : Used(s)' => Used(s)
      BY <2>1 DEF Used
    <2>7. NoneMade
      BY <2>1 DEF NoneMade
    <2> QED
      BY <2>2, <2>4, <2>5, <2>6, <2>7 DEF Fate
  <1>5. ASSUME NEW p \in Slot, Gone(p) PROVE Right
    <2>1. /\ pool'.last = pool.last /\ pool'.valid = pool.valid \ {p}
          /\ \A s \in Slot \ {p} : AllButLinks(conn'[s], conn[s])
      BY <1>0, <1>5, SetsGone, PoolGone DEF Gone
    <2>2. \A s \in Slot \ {p} : Same(conn'[s], conn[s])
      BY <2>1 DEF Same, AllButLinks
    <2>3. \A s \in Slot : Used(s)' => Used(s) /\ s # p
      BY <2>1 DEF Used
    <2>4. NoneMade
      BY <2>1 DEF NoneMade
    <2> QED
      BY <2>2, <2>3, <2>4 DEF Fate
  <1>6. ASSUME NEW r, Made(r) PROVE Right
    <2> DEFINE p == Head(pool.free)
    <2>1. /\ p \in Slot /\ p \notin pool.valid
          /\ \A s \in Slot \ {p} : conn'[s] = conn[s] /\ pool'.last[s] = pool.last[s]
      BY <1>0, <1>6, SetsMade
    <2>2. conn' = [conn EXCEPT ![p] = r] /\ pool'.valid = pool.valid \cup {p}
      BY <1>0, <1>6, PoolMade DEF Made
    <2>3. \A s \in Slot \ {p} : Same(conn'[s], conn[s])
      BY <2>1 DEF Same
    <2>4. conn'[p] = r /\ ~Used(p)
      BY <1>0, <2>1, <2>2 DEF Used
    <2>5. \A s \in Slot \ {p} : Used(s)' => Used(s)
      BY <2>2 DEF Used
    <2> QED
      BY <1>6, <2>3, <2>4, <2>5 DEF Fate
  <1>7. ASSUME NEW p \in Slot, NEW old \in Slot, Relay(p, old) PROVE Right
    <2>1. /\ pool'.last = pool.last /\ pool'.valid = pool.valid \ {old} /\ old # p
          /\ \A s \in Slot \ {p, old} : AllButLinks(conn'[s], conn[s])
      BY <1>0, <1>7, SetsRelay, PoolGone DEF Relay
    <2>2. \A s \in Slot \ {p, old} : Same(conn'[s], conn[s])
      BY <2>1 DEF Same, AllButLinks
    <2> DEFINE r == [conn[p] EXCEPT !.stage = "pass", !.bypass = TRUE, !.sent = TRUE]
    <2>3. /\ conn' = [Closed(old) EXCEPT ![p] = r] /\ conn[p] \in ConnRecord
          /\ conn[p].stage \in {"new", "syn"}
      BY <1>0, <1>7 DEF Relay
    <2>4. ~conn[p].inq
      BY <1>0, <2>3 DEF ConnInv
    <2>5. Announced(r, conn[p])
      BY <2>3, <2>4 DEF Announced, ConnRecord
    <2> HIDE DEF r
    <2>6. conn'[p] = r
      BY <1>0, <2>3, ClosedTable
    <2>7. \A s \in Slot : Used(s)' => Used(s) /\ s # old
      BY <2>1 DEF Used
    <2>8. NoneMade
      BY <2>1 DEF NoneMade
    <2> QED
      BY <2>2, <2>5, <2>6, <2>7, <2>8 DEF Fate
  <1> QED
    BY <1>1, <1>2, <1>3, <1>4, <1>5, <1>6, <1>7 DEF TableStep

\* A connection stays its client's.
LEMMA Stays ==
    ASSUME ShapeInv, TableStep, NEW s \in Slot, Used(s), Used(s)'
    PROVE  conn'[s].who = conn[s].who /\ (conn[s].sent => conn'[s].sent)
  BY Fates DEF Fate, Same, Announced, LinesUp

\* Once a connection is made it is for a client that was not there before, or for
\* nobody.
Newcomer(s) ==
    /\ conn'[s].id = -1 /\ ~conn'[s].sent
    /\ \/ conn'[s].who = Nobody /\ FrameNotify
       \/ /\ conn'[s].who \in Client
          /\ client[conn'[s].who].at = "out" /\ client'[conn'[s].who].at # "out"

LEMMA Newcomers ==
    ASSUME ShapeInv, Next, NEW s \in Slot, Used(s)', ~Used(s)
    PROVE  Newcomer(s)
  <1>0. ConnInv /\ PoolInv /\ conn \in [Slot -> ConnRecord]
    BY DEF ShapeInv, ConnInv
  <1>1. PICK r : Made(r) /\ conn'[s] = r /\ s = Head(pool.free)
    BY Kinds, Fates DEF Fate
  <1>2. pool' # pool /\ ~(pool'.valid \subseteq pool.valid)
    BY DEF Used
  <1>3. ASSUME NEW c \in Client, Accept(c) PROVE Newcomer(s)
    <2> DEFINE n == [NoConn EXCEPT !.who = c, !.reg = TRUE]
    <2>1. /\ conn' = [conn EXCEPT ![s] = n] /\ client[c].at = "out"
          /\ client' = [client EXCEPT ![c].at = "on"]
      BY <1>1, <1>2, <1>3 DEF Accept
    <2>2. n.who = c /\ n.id = -1 /\ ~n.sent
      BY DEF NoConn
    <2> HIDE DEF n
    <2>3. conn'[s] = n
      BY <1>0, <2>1
    <2>4. client'[c].at = "on"
      BY <2>1 DEF ShapeInv, ClientInv
    <2> QED
      BY <2>1, <2>2, <2>3, <2>4 DEF Newcomer
  <1>4. ASSUME FrameNotify PROVE Newcomer(s)
    <2>1. conn' = [conn EXCEPT ![s] = NoConn]
      BY <1>1, <1>2, <1>4 DEF FrameNotify
    <2>2. conn'[s] = NoConn
      BY <1>0, <2>1
    <2> QED
      BY <1>4, <2>2 DEF Newcomer, NoConn
  <1>5. ASSUME NEW p \in Slot, ScanClose(p) \/ ScanIdle(p) PROVE FALSE
    <2>1. Used(p) /\ pool' = Conns!AfterFree(pool, Idx(p), FALSE)
      BY <1>5 DEF ScanClose, ScanIdle, SafeClose
    <2> QED
      BY <1>0, <1>2, <2>1, PoolGone
  <1>6. ASSUME NEW p \in Slot, NEW old \in Slot, Relay(p, old) PROVE FALSE
    <2>1. Used(old) /\ pool' = Conns!AfterFree(pool, Idx(old), FALSE)
      BY <1>6 DEF Relay
    <2> QED
      BY <1>0, <1>2, <2>1, PoolGone
  <1>7. ASSUME NEW p \in Slot,
               \/ BadPkg(p) \/ Auth(p) \/ SynAck(p) \/ DataWaiting(p) \/ DataFull(p)
               \/ Data(p) \/ BadLength(p) \/ PeerClosed(p) \/ QueueInfo(p) \/ Activate(p)
               \/ FrameStart(p) \/ FrameInProc(p) \/ FrameStop(p)
        PROVE  FALSE
    BY <1>2, <1>7 DEF BadPkg, Auth, SynAck, DataWaiting, DataFull, Data, BadLength, PeerClosed,
                      QueueInfo, Activate, FrameStart, FrameInProc, FrameStop
  <1>8. ASSUME \/ ActiveBegin \/ FrameLost \/ ServerStart \/ ServerStop \/ ServerInProc
               \/ ServerPass \/ ServerNotify \/ \E q \in Seat : ServerKick(q)
        PROVE  FALSE
    BY <1>2, <1>8 DEF ActiveBegin, FrameLost, ServerStart, ServerStop, ServerInProc, ServerPass,
                      ServerNotify, ServerKick
  <1>9. ASSUME NEW c \in Client, ClientClose(c) PROVE FALSE
    BY <1>2, <1>9 DEF ClientClose
  <1> QED
    BY <1>3, <1>4, <1>5, <1>6, <1>7, <1>8, <1>9, Steps

\* A client that has come has come.
LEMMA Comes ==
    ASSUME ShapeInv, Next, NEW c \in Client, client[c].at # "out"
    PROVE  client'[c].at # "out"
  <1>0. client \in [Client -> [at : {"out", "on", "closed"}, data : Nat]]
    BY DEF ShapeInv, ClientInv
  <1>1. CASE UNCHANGED client
    BY <1>1
  <1>2. ASSUME NEW d \in Client, NEW w \in {"on", "closed"}, client' = [client EXCEPT ![d].at = w]
        PROVE  client'[c].at # "out"
    BY <1>0, <1>2
  <1>3. ASSUME NEW d \in Client, client' = [client EXCEPT ![d].data = @ + 1]
        PROVE  client'[c].at # "out"
    BY <1>0, <1>3
  <1>4. \A p \in Slot : conn[p].who \in Client \cup {Nobody}
    BY DEF ShapeInv, ConnInv, ConnRecord
  <1>5. ASSUME NEW p \in Slot, client' = IF conn[p].who = Nobody THEN client
                                         ELSE [client EXCEPT ![conn[p].who].at = "closed"]
        PROVE  client'[c].at # "out"
    BY <1>1, <1>2, <1>4, <1>5
  <1>6. ASSUME NEW d \in Client, Accept(d) \/ ClientClose(d) PROVE client'[c].at # "out"
    BY <1>2, <1>6 DEF Accept, ClientClose
  <1>7. ASSUME NEW p \in Slot, DataWaiting(p) \/ Data(p) PROVE client'[c].at # "out"
    <2>1. conn[p].who \in Client /\ client' = [client EXCEPT ![conn[p].who].data = @ + 1]
      BY <1>4, <1>7 DEF DataWaiting, Data, Heard, Readable
    <2> QED
      BY <1>3, <2>1
  <1>8. ASSUME NEW p \in Slot, ScanClose(p) \/ ScanIdle(p) PROVE client'[c].at # "out"
    BY <1>5, <1>8 DEF ScanClose, ScanIdle, SafeClose
  <1>9. ASSUME NEW p \in Slot, NEW old \in Slot, Relay(p, old) PROVE client'[c].at # "out"
    BY <1>5, <1>9 DEF Relay
  <1>10. ASSUME NEW p \in Slot, \/ BadPkg(p) \/ Auth(p) \/ SynAck(p) \/ DataFull(p) \/ BadLength(p)
                                \/ PeerClosed(p) \/ QueueInfo(p) \/ Activate(p)
                                \/ FrameStart(p) \/ FrameInProc(p) \/ FrameStop(p)
         PROVE  UNCHANGED client
    BY <1>10 DEF BadPkg, Auth, SynAck, DataFull, BadLength, PeerClosed, QueueInfo, Activate,
                 FrameStart, FrameInProc, FrameStop
  <1>11. ASSUME \/ ActiveBegin \/ FrameLost \/ FrameNotify \/ ServerStart \/ ServerStop
                \/ ServerInProc \/ ServerPass \/ ServerNotify \/ \E q \in Seat : ServerKick(q)
         PROVE  UNCHANGED client
    BY <1>11 DEF ActiveBegin, FrameLost, FrameNotify, ServerStart, ServerStop, ServerInProc,
                 ServerPass, ServerNotify, ServerKick
  <1> QED
    BY <1>1, <1>6, <1>7, <1>8, <1>9, <1>10, <1>11, Steps
-----------------------------------------------------------------------------
(***************************************************************************)
(* Where the frames go: a handle, wherever it is kept, was never ahead of  *)
(* its block, and while it is the block's it names the client who has it.  *)
(***************************************************************************)

\* idx names a connection of who, if it still names one.
HomeIn(pl, con, idx, who) ==
    /\ idx \in Nat /\ Pos(idx) \in Slot /\ idx <= pl.last[Pos(idx)]
    /\ Pos(idx) \in pl.valid /\ pl.last[Pos(idx)] = idx => con[Pos(idx)].who = who

\* id names a session of who, if it still names one (but for position 0).
SeatIn(st, ply, id, who) ==
    id = -1 \/ /\ id \in Nat
               /\ SeatOf(id) # 0 =>
                     /\ id <= st.last[SeatOf(id)]
                     /\ (SeatOf(id) \in st.valid /\ st.last[SeatOf(id)] = id) => ply[SeatOf(id)].who = who

GoodFrame(f) == HomeIn(pool, conn, f.idx, f.who) /\ SeatIn(seats, player, f.id, f.who)

HomeInv ==
    /\ \A f \in Wire : GoodFrame(f)
    /\ \A q \in seats.valid : HomeIn(pool, conn, player[q].idx, player[q].who)
    /\ \A p \in Slot : Used(p) => SeatIn(seats, player, conn[p].id, conn[p].who)

\* A client has one connection.
OwnInv ==
    /\ \A p, q \in Slot : Used(p) /\ Used(q) /\ conn[p].who # Nobody /\ conn[p].who = conn[q].who => p = q
    /\ \A p \in Slot : Used(p) /\ conn[p].who # Nobody => client[conn[p].who].at # "out"
    /\ \A p \in Slot : Used(p) /\ conn[p].sent => conn[p].stage = "pass" /\ ~conn[p].inq

\* The clients that have come and those of them that have been announced, the
\* reserved connections there are and those there have been.
Came     == {c \in Client : client[c].at # "out"}
Sent     == {c \in Came : \A p \in Slot : Used(p) /\ conn[p].who = c => conn[p].sent}
Reserved == {p \in Slot : Used(p) /\ conn[p].who = Nobody}
Gifts    == Number(Reserved) + released

ReserveInv == released \in Nat /\ Gifts + HowMany(down, "NOTIFY") <= MaxReserve

\* The handles of the two pools have not come further than that many uses take them.
ConnsBelow == Below(pool, Cap, Number(Came) + Gifts)
SeatsBelow == \E a \in Nat : a + HowMany(up, "START") <= Number(Sent) /\ Below(seats, PlayerCap, a)

WayInv == HomeInv /\ OwnInv /\ ReserveInv /\ ConnsBelow /\ SeatsBelow

\* What a step may do to the connections and to the sessions.
ConnsOn ==
    \A s \in Slot :
        /\ pool.last[s] <= pool'.last[s]
        /\ Used(s)' => \/ Used(s) /\ conn'[s].who = conn[s].who /\ pool'.last[s] = pool.last[s]
                       \/ pool.last[s] < pool'.last[s]

SeatsOn ==
    \A q \in Seat \ {0} :
        /\ seats.last[q] <= seats'.last[q]
        /\ q \in seats'.valid => \/ q \in seats.valid /\ player'[q] = player[q] /\ seats'.last[q] = seats.last[q]
                                 \/ seats.last[q] < seats'.last[q]

LEMMA Lasts ==
    ASSUME ShapeInv
    PROVE  /\ \A s \in Slot : pool.last[s] \in Nat /\ s \in 0 .. Cap - 1
           /\ \A q \in Seat : seats.last[q] \in Nat
           /\ \A p \in Slot : Used(p) => Pos(Idx(p)) = p /\ Idx(p) = pool.last[p] /\ Idx(p) \in Nat
           /\ \A q \in seats.valid : SeatOf(seats.last[q]) = q /\ q \in Seat
  <1>1. /\ pool.last \in [0 .. Cap - 1 -> 0 .. Endless] /\ seats.last \in [Seat -> 0 .. Endless]
        /\ seats.valid \subseteq Seat
        /\ \A p \in pool.valid : pool.last[p] % Cap = p
        /\ \A q \in seats.valid : seats.last[q] % PlayerCap = q
    BY DEF ShapeInv, PoolInv, SeatInv, PoolOK, Seat
  <1>2. \A s \in Slot : s \in 0 .. Cap - 1
    BY Limits DEF Slot
  <1>3. \A s \in 0 .. Endless : s \in Nat
    BY Limits
  <1> QED
    BY <1>1, <1>2, <1>3 DEF Used, Idx, Pos, Conns!PosOf, SeatOf, Players!PosOf

LEMMA HomeKept ==
    ASSUME ShapeInv, ShapeInv', ConnsOn, NEW idx, NEW who, HomeIn(pool, conn, idx, who)
    PROVE  HomeIn(pool', conn', idx, who)
  <1> DEFINE p == Pos(idx)
  <1>1. idx \in Nat /\ p \in Slot /\ idx <= pool.last[p]
    BY DEF HomeIn
  <1> HIDE DEF p
  <1>2. pool.last[p] \in Nat /\ pool'.last[p] \in Nat
    <2>1. pool'.last \in [0 .. Cap - 1 -> 0 .. Endless]
      BY DEF ShapeInv, PoolInv, PoolOK
    <2> QED
      BY <1>1, <2>1, Lasts, Limits
  <1>3. pool.last[p] <= pool'.last[p]
    BY <1>1 DEF ConnsOn
  <1>4. ASSUME p \in pool'.valid, pool'.last[p] = idx
        PROVE  conn'[p].who = who
    <2>1. Used(p) /\ conn'[p].who = conn[p].who /\ pool'.last[p] = pool.last[p]
      <3>1. ~(pool.last[p] < pool'.last[p])
        BY <1>1, <1>2, <1>4
      <3>2. Used(p)'
        BY <1>4 DEF Used
      <3> QED
        BY <1>1, <3>1, <3>2 DEF ConnsOn
    <2> QED
      BY <1>4, <2>1 DEF HomeIn, Used, p
  <1>5. idx <= pool'.last[p]
    BY <1>1, <1>2, <1>3
  <1> QED
    BY <1>1, <1>4, <1>5 DEF HomeIn, p

LEMMA SeatKept ==
    ASSUME ShapeInv, ShapeInv', SeatsOn, NEW id, NEW who, SeatIn(seats, player, id, who)
    PROVE  SeatIn(seats', player', id, who)
  <1> DEFINE q == SeatOf(id)
  <1>1. SUFFICES ASSUME id # -1, q # 0
                 PROVE  id \in Nat /\ id <= seats'.last[q]
                        /\ (q \in seats'.valid /\ seats'.last[q] = id => player'[q].who = who)
    BY DEF SeatIn
  <1>2. id \in Nat /\ id <= seats.last[q]
    BY <1>1 DEF SeatIn
  <1>3. q \in Seat \ {0}
    <2>1. q = id % PlayerCap
      BY DEF SeatOf, Players!PosOf
    <2> QED
      BY <1>1, <1>2, <2>1, Limits DEF Seat
  <1> HIDE DEF q
  <1>4. seats.last[q] \in Nat /\ seats'.last[q] \in Nat
    <2>1. seats'.last \in [Seat -> 0 .. Endless]
      BY DEF ShapeInv, SeatInv, PoolOK, Seat
    <2> QED
      BY <1>3, <2>1, Lasts, Limits
  <1>5. seats.last[q] <= seats'.last[q]
    BY <1>3 DEF SeatsOn
  <1>6. ASSUME q \in seats'.valid, seats'.last[q] = id
        PROVE  player'[q].who = who
    <2>1. q \in seats.valid /\ player'[q] = player[q] /\ seats'.last[q] = seats.last[q]
      <3>1. ~(seats.last[q] < seats'.last[q])
        BY <1>2, <1>4, <1>6
      <3> QED
        BY <1>3, <1>6, <3>1 DEF SeatsOn
    <2> QED
      BY <1>1, <1>6, <2>1 DEF SeatIn, q
  <1> QED
    BY <1>2, <1>4, <1>5, <1>6
-----------------------------------------------------------------------------
(***************************************************************************)
(* How many connections a step makes                                       *)
(***************************************************************************)
LEMMA Crowd ==
    /\ Came \in SUBSET Client /\ Sent \in SUBSET Came /\ Reserved \in SUBSET Slot
    /\ IsFiniteSet(Client) /\ IsFiniteSet(Came) /\ IsFiniteSet(Sent) /\ IsFiniteSet(Reserved)
    /\ Number(Came) \in Nat /\ Number(Sent) \in Nat /\ Number(Reserved) \in Nat
    /\ Number(Client) \in Nat /\ Number(Sent) <= Number(Came) /\ Number(Came) <= Number(Client)
    /\ \A c \in Client : c \notin Came => Number(Came) < Number(Client)
  <1>1. IsFiniteSet(Client) /\ Came \in SUBSET Client /\ Sent \in SUBSET Came /\ Reserved \in SUBSET Slot
    BY TconndAssumption DEF Came, Sent, Reserved
  <1>2. IsFiniteSet(Came) /\ Number(Came) <= Number(Client)
    BY <1>1, FS_Subset DEF Number
  <1>3. IsFiniteSet(Sent) /\ Number(Sent) <= Number(Came)
    BY <1>1, <1>2, FS_Subset DEF Number
  <1>4. IsFiniteSet(Reserved) /\ Number(Reserved) \in Nat
    BY <1>1, Finite
  <1>5. Number(Came) \in Nat /\ Number(Sent) \in Nat /\ Number(Client) \in Nat
    BY <1>1, <1>2, <1>3, FS_CardinalityType DEF Number
  <1>6. ASSUME NEW c \in Client, c \notin Came PROVE Number(Came) < Number(Client)
    <2>1. IsFiniteSet(Client \ {c}) /\ Number(Client \ {c}) = Number(Client) - 1
      BY <1>1, Sizes
    <2>2. Came \in SUBSET (Client \ {c})
      BY <1>1, <1>6
    <2>3. Number(Came) <= Number(Client \ {c})
      BY <2>1, <2>2, FS_Subset DEF Number
    <2> QED
      BY <1>5, <2>1, <2>3
  <1> QED
    BY <1>1, <1>2, <1>3, <1>4, <1>5, <1>6

GiftsStay == Gifts' = Gifts
GiftMade  == Gifts' = Gifts + 1 /\ \E r : Made(r) /\ r.who = Nobody

LEMMA GiftStep ==
    ASSUME ShapeInv, TableStep, released \in Nat
    PROVE  Gifts \in Nat /\ Gifts' \in Nat /\ released' \in Nat /\ (GiftsStay \/ GiftMade)
  <1> DEFINE Right == released' \in Nat /\ (GiftsStay \/ GiftMade)
  <1>0. /\ ConnInv /\ PoolInv /\ NumberInv /\ conn \in [Slot -> ConnRecord]
        /\ IsFiniteSet(Reserved) /\ Number(Reserved) \in Nat
    BY Crowd DEF ShapeInv, ConnInv
  <1>1. ASSUME \A s \in Slot : Used(s)' <=> Used(s), \A s \in Slot : Used(s) => conn'[s].who = conn[s].who,
               released' = released
        PROVE  Right
    <2>1. Reserved' = Reserved
      BY <1>1 DEF Reserved
    <2> QED
      BY <1>1, <2>1 DEF GiftsStay, Gifts
  <1>2. ASSUME NEW p \in Slot, Used(p), \A s \in Slot : Used(s)' <=> Used(s) /\ s # p,
               \A s \in Slot \ {p} : Used(s) => conn'[s].who = conn[s].who,
               released' = released + (IF conn[p].who = Nobody THEN 1 ELSE 0)
        PROVE  Right
    <2>1. Reserved' = Reserved \ {p}
      BY <1>2 DEF Reserved
    <2>2. p \in Reserved <=> conn[p].who = Nobody
      BY <1>2 DEF Reserved
    <2>3. Number(Reserved') = IF conn[p].who = Nobody THEN Number(Reserved) - 1 ELSE Number(Reserved)
      BY <1>0, <2>1, <2>2, Sizes
    <2>4. Gifts = Number(Reserved) + released /\ Gifts' = Number(Reserved') + released'
      BY DEF Gifts
    <2>5. Gifts' = Gifts
      BY <1>0, <1>2, <2>3, <2>4
    <2> QED
      BY <1>2, <2>5 DEF GiftsStay
  <1>3. ASSUME Still \/ ActiveBegin PROVE Right
    <2>1. UNCHANGED <<pool, conn, released>>
      BY <1>3 DEF Still, ActiveBegin, hist
    <2> QED
      BY <1>1, <2>1 DEF Used
  <1>4. ASSUME NEW p \in Slot, Marked(p) PROVE Right
    <2>1. UNCHANGED <<pool, released>> /\ \A s \in Slot : Alike(conn'[s], conn[s])
      BY <1>0, <1>4, SetsMarked DEF Marked
    <2> QED
      BY <1>1, <2>1 DEF Used, Alike
  <1>5. ASSUME NEW p \in Slot, SynAck(p) \/ Activate(p) PROVE Right
    <2>1. UNCHANGED <<pool, released>>
      BY <1>5 DEF SynAck, Activate, hist
    <2>2. \A s \in Slot : Used(s)' <=> Used(s)
      BY <2>1 DEF Used
    <2>3. p \in Slot /\ TableStep
      BY <1>5 DEF TableStep
    <2>4. \A s \in Slot : Used(s) => conn'[s].who = conn[s].who
      BY <2>2, <2>3, Stays
    <2> QED
      BY <1>1, <2>1, <2>2, <2>4
  <1>6. ASSUME NEW p \in Slot, Gone(p) PROVE Right
    <2>1. /\ pool'.valid = pool.valid \ {p} /\ Used(p)
          /\ \A s \in Slot \ {p} : AllButLinks(conn'[s], conn[s])
          /\ released' = released + (IF conn[p].who = Nobody THEN 1 ELSE 0)
      BY <1>0, <1>6, SetsGone, PoolGone DEF Gone
    <2>2. \A s \in Slot : Used(s)' <=> Used(s) /\ s # p
      BY <2>1 DEF Used
    <2> QED
      BY <1>2, <2>1, <2>2 DEF AllButLinks
  <1>7. ASSUME NEW p \in Slot, NEW old \in Slot, Relay(p, old) PROVE Right
    <2>1. /\ pool'.valid = pool.valid \ {old} /\ Used(old)
          /\ released' = released + (IF conn[old].who = Nobody THEN 1 ELSE 0)
      BY <1>0, <1>7, PoolGone DEF Relay
    <2>2. \A s \in Slot : Used(s)' <=> Used(s) /\ s # old
      BY <2>1 DEF Used
    <2>3. \A s \in Slot \ {old} : Used(s) => conn'[s].who = conn[s].who
      BY <1>7, <2>2, Stays DEF TableStep
    <2> QED
      BY <1>2, <2>1, <2>2, <2>3
  <1>8. ASSUME NEW r, Made(r) PROVE Right
    <2> DEFINE p == Head(pool.free)
    <2>1. /\ p \in Slot /\ p \notin pool.valid /\ pool'.valid = pool.valid \cup {p}
          /\ conn' = [conn EXCEPT ![p] = r] /\ released' = released
      BY <1>0, <1>8, PoolMade DEF Made
    <2> HIDE DEF p
    <2>2. conn'[p] = r /\ \A s \in Slot \ {p} : conn'[s] = conn[s]
      BY <1>0, <2>1
    <2>3. Reserved' = IF r.who = Nobody THEN Reserved \cup {p} ELSE Reserved
      BY <2>1, <2>2 DEF Reserved, Used
    <2>4. p \notin Reserved
      BY <2>1 DEF Reserved, Used
    <2>5. Number(Reserved') = IF r.who = Nobody THEN Number(Reserved) + 1 ELSE Number(Reserved)
      BY <1>0, <2>3, <2>4, Sizes
    <2>6. Gifts = Number(Reserved) + released /\ Gifts' = Number(Reserved') + released'
      BY DEF Gifts
    <2>7. Gifts' = IF r.who = Nobody THEN Gifts + 1 ELSE Gifts
      BY <1>0, <2>1, <2>5, <2>6
    <2> QED
      BY <1>8, <2>1, <2>7 DEF GiftsStay, GiftMade
  <1>9. Right
    BY <1>3, <1>4, <1>5, <1>6, <1>7, <1>8 DEF TableStep
  <1>10. Gifts \in Nat
    BY <1>0 DEF Gifts
  <1> QED
    BY <1>9, <1>10 DEF GiftsStay, GiftMade

\* A connection is made for a client that has not come, or reserved.
LEMMA MadeBy ==
    ASSUME ShapeInv, Next, NEW r, Made(r)
    PROVE  \/ r.who = Nobody /\ FrameNotify
           \/ r.who \in Client /\ r.who \notin Came /\ r.who \in Came'
  <1>0. ConnInv /\ PoolInv /\ conn \in [Slot -> ConnRecord]
    BY DEF ShapeInv, ConnInv
  <1>1. PICK p \in Slot : /\ p \notin pool.valid /\ pool'.valid = pool.valid \cup {p}
                          /\ conn' = [conn EXCEPT ![p] = r]
    BY <1>0, PoolMade DEF Made
  <1>2. conn'[p] = r /\ Used(p)' /\ ~Used(p)
    BY <1>0, <1>1 DEF Used
  <1>3. Newcomer(p)
    BY <1>1, <1>2, Newcomers
  <1> QED
    BY <1>2, <1>3 DEF Newcomer, Came

LEMMA CameGrows ==
    ASSUME ShapeInv, Next
    PROVE  Came \subseteq Came'
  BY Comes DEF Came

LEMMA OwnStep ==
    ASSUME ShapeInv, OwnInv, Next
    PROVE  OwnInv'
  <1>0. TableStep /\ \A s \in Slot : conn[s].who \in Client \cup {Nobody}
    BY Kinds DEF ShapeInv, ConnInv, ConnRecord
  <1>1. ASSUME NEW s \in Slot, Used(s)' PROVE Fate(s)
    BY <1>0, <1>1, Fates
  <1>2. ASSUME NEW s \in Slot, Used(s)', Used(s) PROVE conn'[s].who = conn[s].who
    BY <1>0, <1>2, Stays
  <1>3. ASSUME NEW s \in Slot, Used(s)', ~Used(s) PROVE Newcomer(s) /\ s = Head(pool.free)
    <2>1. Newcomer(s)
      BY <1>3, Newcomers
    <2>2. s = Head(pool.free)
      BY <1>1, <1>3 DEF Fate
    <2> QED
      BY <2>1, <2>2
  <1>4. ASSUME NEW p \in Slot, NEW q \in Slot, Used(p)', Used(q)', conn'[p].who # Nobody,
               conn'[p].who = conn'[q].who
        PROVE  p = q
    <2>1. CASE Used(p) /\ Used(q)
      BY <1>2, <1>4, <2>1 DEF OwnInv
    <2>2. CASE Used(p) /\ ~Used(q)
      BY <1>2, <1>3, <1>4, <2>2 DEF OwnInv, Newcomer
    <2>3. CASE ~Used(p) /\ Used(q)
      BY <1>2, <1>3, <1>4, <2>3 DEF OwnInv, Newcomer
    <2>4. CASE ~Used(p) /\ ~Used(q)
      BY <1>3, <1>4, <2>4
    <2> QED
      BY <2>1, <2>2, <2>3, <2>4
  <1>5. ASSUME NEW p \in Slot, Used(p)', conn'[p].who # Nobody
        PROVE  client'[conn'[p].who].at # "out"
    <2>1. CASE Used(p)
      <3>1. conn'[p].who = conn[p].who /\ conn[p].who \in Client /\ client[conn[p].who].at # "out"
        BY <1>0, <1>2, <1>5, <2>1 DEF OwnInv
      <3> QED
        BY <3>1, Comes
    <2>2. CASE ~Used(p)
      BY <1>3, <1>5, <2>2 DEF Newcomer
    <2> QED
      BY <2>1, <2>2
  <1>6. ASSUME NEW p \in Slot, Used(p)', conn'[p].sent
        PROVE  conn'[p].stage = "pass" /\ ~conn'[p].inq
    <2>1. CASE Used(p)
      <3>1. conn[p].sent => conn[p].stage = "pass" /\ ~conn[p].inq
        BY <2>1 DEF OwnInv
      <3> QED
        BY <1>1, <1>6, <2>1, <3>1 DEF Fate, Same, Announced, LinesUp
    <2>2. CASE ~Used(p)
      BY <1>3, <1>6, <2>2 DEF Newcomer
    <2> QED
      BY <2>1, <2>2
  <1> QED
    BY <1>4, <1>5, <1>6 DEF OwnInv

\* Every connection made makes for one more come or reserved.
LEMMA ConnsStep ==
    ASSUME ShapeInv, ShapeInv', ReserveInv, ReserveInv', ConnsBelow, Next
    PROVE  ConnsOn /\ ConnsBelow'
  <1> DEFINE n == Number(Came) + Gifts
             m == Number(Came') + Gifts'
  <1>0. /\ TableStep /\ PoolInv /\ PoolInv' /\ PoolOK(pool, Cap) /\ Cap \in Nat \ {0} /\ Endless \in Nat
        /\ pool.last \in [0 .. Cap - 1 -> 0 .. Endless] /\ pool'.last \in [0 .. Cap - 1 -> 0 .. Endless]
        /\ released \in Nat /\ MaxReserve \in Nat
    BY Kinds, Limits, TconndAssumption DEF ShapeInv, PoolInv, PoolOK, ReserveInv
  <1>1. Gifts \in Nat /\ Gifts' \in Nat /\ (GiftsStay \/ GiftMade)
    BY <1>0, GiftStep
  <1>2. /\ Number(Came) \in Nat /\ Number(Came') \in Nat /\ Number(Came) <= Number(Came')
        /\ Number(Came) <= Number(Client) /\ Number(Client) \in Nat
    <2>1. Came' \in SUBSET Client
      BY DEF Came
    <2>2. IsFiniteSet(Came')
      BY <2>1, Crowd, FS_Subset
    <2>3. Number(Came') \in Nat
      BY <2>2, FS_CardinalityType DEF Number
    <2>4. Number(Came) <= Number(Came')
      BY <2>2, CameGrows, FS_Subset DEF Number
    <2> QED
      BY <2>3, <2>4, Crowd
  <1>3. n \in Nat /\ m \in Nat /\ n <= m
    BY <1>1, <1>2 DEF GiftsStay, GiftMade
  <1>4. Gifts <= MaxReserve /\ Gifts' <= MaxReserve
    <2>1. down \in Seq(Frames) /\ down' \in Seq(Frames)
      BY DEF ShapeInv, WireInv
    <2>2. HowMany(down, "NOTIFY") \in Nat /\ HowMany(down', "NOTIFY") \in Nat
      BY <2>1, Placed
    <2>3. Gifts + HowMany(down, "NOTIFY") <= MaxReserve
      BY DEF ReserveInv
    <2>4. Gifts' + HowMany(down', "NOTIFY") <= MaxReserve
      BY DEF ReserveInv
    <2> QED
      BY <1>0, <1>1, <2>2, <2>3, <2>4
  <1>5. Below(pool, Cap, n)
    BY DEF ConnsBelow
  <1>6. \A s \in Slot : s \in 0 .. Cap - 1 /\ s # 0 /\ pool.last[s] \in Nat
    BY <1>0, Lasts DEF Slot
  <1> HIDE DEF n, m
  <1>7. Cap * (n + 1) <= Cap * (m + 1) /\ Cap * (n + 1) \in Nat /\ Cap * (m + 1) \in Nat
    BY <1>0, <1>3, Monotone
  <1>8. CASE NoneMade
    <2>1. pool'.last = pool.last /\ pool'.valid \subseteq pool.valid
      BY <1>8 DEF NoneMade
    <2>2. ASSUME NEW s \in Slot
          PROVE  /\ pool.last[s] <= pool'.last[s]
                 /\ Used(s)' => Used(s) /\ conn'[s].who = conn[s].who /\ pool'.last[s] = pool.last[s]
      <3>1. Used(s)' => Used(s)
        BY <2>1 DEF Used
      <3> QED
        BY <1>0, <1>6, <2>1, <3>1, Stays
    <2>3. Below(pool', Cap, m)
      <3>1. ASSUME NEW s \in 0 .. Cap - 1 PROVE pool'.last[s] < Cap * (m + 1)
        <4>1. pool.last[s] < Cap * (n + 1) /\ pool.last[s] \in Nat
          BY <1>0, <1>5 DEF Below
        <4> QED
          BY <1>7, <2>1, <4>1
      <3> QED
        BY <3>1 DEF Below
    <2> QED
      BY <2>2, <2>3 DEF ConnsOn, ConnsBelow, m
  <1>9. ASSUME NEW r, Made(r)
        PROVE  ConnsOn /\ ConnsBelow'
    <2>1. n + 1 <= m
      <3>1. CASE r.who = Nobody
        <4>1. Gifts' = Gifts + 1
          <5>1. ~GiftsStay
            <6>1. PICK p \in Slot : /\ p \notin pool.valid /\ pool'.valid = pool.valid \cup {p}
                                    /\ conn' = [conn EXCEPT ![p] = r] /\ released' = released
              BY <1>0, <1>9, PoolMade DEF Made
            <6>2. conn'[p] = r /\ \A s \in Slot \ {p} : conn'[s] = conn[s]
              BY <6>1 DEF ShapeInv, ConnInv
            <6>3. Reserved' = Reserved \cup {p} /\ p \notin Reserved
              BY <3>1, <6>1, <6>2 DEF Reserved, Used
            <6>4. Number(Reserved') = Number(Reserved) + 1 /\ Number(Reserved) \in Nat
              BY <6>3, Crowd, Joins
            <6>5. Gifts = Number(Reserved) + released /\ Gifts' = Number(Reserved') + released'
              BY DEF Gifts
            <6> QED
              BY <1>0, <6>1, <6>4, <6>5 DEF GiftsStay
          <5> QED
            BY <1>1, <5>1 DEF GiftMade
        <4> QED
          BY <1>1, <1>2, <4>1 DEF n, m
      <3>2. CASE r.who # Nobody
        <4>1. r.who \in Client /\ r.who \notin Came /\ r.who \in Came'
          BY <1>9, <3>2, MadeBy
        <4>2. Came \cup {r.who} \in SUBSET Came' /\ Came' \in SUBSET Client
          BY <4>1, CameGrows DEF Came
        <4>3. IsFiniteSet(Came) /\ IsFiniteSet(Came')
          BY <4>2, Crowd, FS_Subset
        <4>4. Number(Came \cup {r.who}) = Number(Came) + 1
          BY <4>1, <4>3, Sizes
        <4>5. Number(Came \cup {r.who}) <= Number(Came')
          BY <4>2, <4>3, FS_Subset DEF Number
        <4>6. Number(Came) + 1 <= Number(Came') /\ Gifts <= Gifts'
          BY <1>1, <1>2, <4>4, <4>5 DEF GiftsStay, GiftMade
        <4> QED
          BY <1>1, <1>2, <4>6 DEF n, m
      <3> QED
        BY <3>1, <3>2
    <2>2. n < Number(Client) + MaxReserve
      <3>1. m <= Number(Client) + MaxReserve
        <4>1. Came' \in SUBSET Client
          BY DEF Came
        <4>2. Number(Came') <= Number(Client)
          BY <4>1, Crowd, FS_Subset DEF Number
        <4> QED
          BY <1>0, <1>1, <1>2, <1>4, <4>2 DEF m
      <3> QED
        BY <1>0, <1>2, <1>3, <2>1, <3>1
    <2>3. Cap * (n + 2) <= Endless
      BY <1>3, <2>2, Enough DEF Number
    <2> DEFINE p == Head(pool.free)
    <2>4. /\ pool.free # <<>> /\ pool' = Conns!AfterAlloc(pool)
          /\ pool'.valid = pool.valid \cup {p} /\ p \in Slot
      BY <1>0, <1>9, PoolMade DEF Made
    <2>5. Allots(pool, pool', Cap)
      BY <2>4 DEF Allots, Conns!AfterAlloc, Conns!AllocIdx, Conns!NextIdx, HandleOf
    <2>6. /\ Below(pool', Cap, n + 1)
          /\ \A q \in 0 .. Cap - 1 : q # p => pool'.last[q] = pool.last[q]
          /\ p # 0 => pool.last[p] < pool'.last[p]
      <3>1. OneOn(pool, pool', Cap, n)
        BY <1>0, <1>3, <1>5, <2>3, <2>5, Grown
      <3> QED
        BY <3>1 DEF OneOn
    <2>7. p # 0 /\ pool.last[p] \in Nat /\ pool'.last[p] \in Nat
      <3>1. pool'.last[p] \in 0 .. Endless
        BY <1>0, <1>6, <2>4
      <3> QED
        BY <1>0, <1>6, <2>4, <3>1
    <2> HIDE DEF p
    <2>8. ASSUME NEW s \in Slot
          PROVE  /\ pool.last[s] <= pool'.last[s]
                 /\ Used(s)' => \/ Used(s) /\ conn'[s].who = conn[s].who /\ pool'.last[s] = pool.last[s]
                                \/ pool.last[s] < pool'.last[s]
      <3>1. CASE s = p
        BY <2>6, <2>7, <3>1
      <3>2. CASE s # p
        <4>1. pool'.last[s] = pool.last[s] /\ pool.last[s] \in Nat
          BY <1>6, <2>6, <3>2
        <4>2. Used(s)' => Used(s)
          BY <2>4, <3>2 DEF Used
        <4> QED
          BY <1>0, <4>1, <4>2, Stays
      <3> QED
        BY <3>1, <3>2
    <2>9. Below(pool', Cap, m)
      <3>1. Cap * (n + 1 + 1) <= Cap * (m + 1) /\ Cap * (n + 1 + 1) \in Nat /\ Cap * (m + 1) \in Nat
        <4>1. n + 1 + 1 \in Nat /\ m + 1 \in Nat /\ n + 1 + 1 <= m + 1
          BY <1>3, <2>1
        <4> QED
          BY <1>0, <4>1, Monotone
      <3>2. ASSUME NEW s \in 0 .. Cap - 1 PROVE pool'.last[s] < Cap * (m + 1)
        <4>1. pool'.last[s] < Cap * (n + 1 + 1) /\ pool'.last[s] \in Nat
          <5>1. pool'.last[s] \in 0 .. Endless
            BY <1>0
          <5> QED
            BY <1>0, <2>6, <5>1 DEF Below
        <4> QED
          BY <3>1, <4>1
      <3> QED
        BY <3>2 DEF Below
    <2> QED
      BY <2>8, <2>9 DEF ConnsOn, ConnsBelow, m
  <1> QED
    BY <1>0, <1>8, <1>9, Fates
-----------------------------------------------------------------------------
(***************************************************************************)
(* What a step sends                                                       *)
(***************************************************************************)
GoodThen(f) == HomeIn(pool', conn', f.idx, f.who) /\ SeatIn(seats', player', f.id, f.who)
Fit(f)      == GoodFrame(f) \/ GoodThen(f)

\* The connection at p is announced to the server.
Announces(p) == (SynAck(p) /\ conn[p].who \in VIP) \/ Activate(p)

SentFit(frames) ==
    /\ frames \in Seq(Frames) /\ SendUp(frames)
    /\ \A k \in 1 .. Len(frames) : Fit(frames[k])
    /\ \A k \in 2 .. Len(frames) : frames[k].cmd # "START"
    /\ (Len(frames) > 0 => frames[1].cmd # "START") \/ \E p \in Slot : Announces(p)

UpMoves == \/ UNCHANGED up
           \/ up # <<>> /\ up' = Tail(up)
           \/ \E frames : SentFit(frames)

AddedFit(f) == f \in Frames /\ f.cmd # "NOTIFY" /\ SendDown(f) /\ Fit(f)

DownMoves == \/ UNCHANGED down
             \/ down # <<>> /\ down' = Tail(down)
             \/ \E f : AddedFit(f)
             \/ ServerNotify /\ \E f \in Frames : f.cmd = "NOTIFY" /\ down' = Append(down, f)

\* What is sent for a connection goes to it.
LEMMA FrameOf ==
    ASSUME ShapeInv, HomeInv, NEW p \in Slot, Used(p), NEW id, id = -1 \/ id = conn[p].id,
           NEW cmd \in {"START", "INPROC", "STOP", "RELAY", "NOTIFY"}
    PROVE  LET f == Frame(cmd, id, Idx(p), conn[p].who)
           IN  f \in Frames /\ f.cmd = cmd /\ Fit(f)
  <1>1. /\ Pos(Idx(p)) = p /\ Idx(p) = pool.last[p] /\ Idx(p) \in Nat /\ conn[p] \in ConnRecord
        /\ pool.last[p] \in 0 .. Endless
    BY Lasts DEF ShapeInv, ConnInv, PoolInv, PoolOK
  <1>2. HomeIn(pool, conn, Idx(p), conn[p].who)
    BY <1>1 DEF HomeIn
  <1>3. SeatIn(seats, player, id, conn[p].who)
    BY DEF HomeInv, SeatIn
  <1>4. Idx(p) \in Idxs /\ id \in Idxs /\ conn[p].who \in Client \cup {Nobody}
    BY <1>1, Limits DEF Idxs, ConnRecord
  <1> DEFINE f == Frame(cmd, id, Idx(p), conn[p].who)
  <1>5. f \in Frames
    BY <1>4, Framed
  <1>6. f.cmd = cmd /\ f.id = id /\ f.idx = Idx(p) /\ f.who = conn[p].who
    BY DEF Frame
  <1> HIDE DEF f
  <1>7. GoodFrame(f)
    BY <1>2, <1>3, <1>6 DEF GoodFrame
  <1> QED
    BY <1>5, <1>6, <1>7 DEF Fit, f

LEMMA OneSent ==
    ASSUME NEW f \in Frames, Fit(f), SendUp(<<f>>),
           f.cmd # "START" \/ \E p \in Slot : Announces(p)
    PROVE  UpMoves
  <1> PICK frames : frames = <<f>>
    OBVIOUS
  <1>1. frames \in Seq(Frames) /\ Len(frames) = 1 /\ frames[1] = f
    BY OneFrame
  <1>2. SendUp(frames)
    OBVIOUS
  <1>3. SentFit(frames)
    BY <1>1, <1>2 DEF SentFit
  <1> QED
    BY <1>3 DEF UpMoves

LEMMA UpSends ==
    ASSUME ShapeInv, HomeInv, Next
    PROVE  UpMoves
  <1>0. WireInv /\ up \in Seq(Frames) /\ down \in Seq(Frames)
    BY DEF ShapeInv, WireInv
  <1>1. CASE UNCHANGED up
    BY <1>1 DEF UpMoves
  <1>2. ASSUME NEW p \in Slot, Used(p), NEW id, id = -1 \/ id = conn[p].id,
               NEW cmd \in {"START", "INPROC", "STOP", "RELAY", "NOTIFY"},
               SendUp(<<Frame(cmd, id, Idx(p), conn[p].who)>>),
               cmd # "START" \/ \E s \in Slot : Announces(s)
        PROVE  UpMoves
    <2> PICK f : f = Frame(cmd, id, Idx(p), conn[p].who)
      OBVIOUS
    <2>1. f \in Frames /\ f.cmd = cmd /\ Fit(f)
      BY <1>2, FrameOf
    <2>2. SendUp(<<f>>)
      BY <1>2
    <2> QED
      BY <1>2, <2>1, <2>2, OneSent
  <1>3. ASSUME NEW p \in Slot, ScanClose(p) \/ ScanIdle(p) PROVE UpMoves
    <2>1. PICK n \in BOOLEAN : SafeClose(p, n)
      BY <1>3 DEF ScanClose, ScanIdle
    <2>2. Used(p) /\ SendUp(StopFrames(p, n))
      BY <1>3, <2>1 DEF ScanClose, ScanIdle, SafeClose
    <2>3. CASE StopFrames(p, n) = <<>>
      <3> PICK frames : frames = <<>>
        OBVIOUS
      <3>1. frames \in Seq(Frames) /\ Len(frames) = 0 /\ SendUp(frames)
        BY <2>2, <2>3
      <3>2. SentFit(frames)
        BY <3>1 DEF SentFit
      <3> QED
        BY <3>2 DEF UpMoves
    <2>4. CASE StopFrames(p, n) = <<Frame("STOP", conn[p].id, Idx(p), conn[p].who)>>
      <3>1. SendUp(<<Frame("STOP", conn[p].id, Idx(p), conn[p].who)>>)
        BY <2>2, <2>4
      <3> QED
        BY <1>2, <2>2, <3>1
    <2> QED
      BY <2>3, <2>4 DEF StopFrames
  <1>4. ASSUME NEW p \in Slot, SynAck(p) PROVE UpMoves
    <2>1. CASE conn[p].who \notin VIP
      BY <1>1, <1>4, <2>1 DEF SynAck
    <2>2. CASE conn[p].who \in VIP
      <3>1. SendUp(<<Frame("START", -1, Idx(p), conn[p].who)>>) /\ Used(p) /\ Announces(p)
        BY <1>4, <2>2 DEF SynAck, Heard, Readable, Announces
      <3> QED
        BY <1>2, <3>1
    <2> QED
      BY <2>1, <2>2
  <1>5. ASSUME NEW p \in Slot, NEW old \in Slot, Relay(p, old) PROVE UpMoves
    <2>1. SendUp(<<Frame("RELAY", -1, Idx(p), conn[p].who)>>) /\ Used(p)
      BY <1>5 DEF Relay, Heard, Readable
    <2> QED
      BY <1>2, <2>1
  <1>6. ASSUME NEW p \in Slot, Data(p) PROVE UpMoves
    <2>1. SendUp(<<Frame("INPROC", conn[p].id, Idx(p), conn[p].who)>>) /\ Used(p)
      BY <1>6 DEF Data, Heard, Readable
    <2> QED
      BY <1>2, <2>1
  <1>7. ASSUME NEW p \in Slot, Activate(p) PROVE UpMoves
    <2> DEFINE g(k) == Frame(IF k = 1 THEN "START" ELSE "INPROC", -1, Idx(p), conn[p].who)
    <2>1. Used(p) /\ conn[p].kept \in Nat
      <3>1. conn[p] \in ConnRecord
        BY DEF ShapeInv, ConnInv
      <3> QED
        BY <1>7, <3>1, Limits DEF Activate, InQueue, ConnRecord
    <2>2. ASSUME NEW k \in 1 .. conn[p].kept
          PROVE  g(k) \in Frames /\ g(k).cmd = (IF k = 1 THEN "START" ELSE "INPROC") /\ Fit(g(k))
      BY <2>1, FrameOf
    <2> HIDE DEF g
    <2> PICK frames : frames = [k \in 1 .. conn[p].kept |-> g(k)]
      OBVIOUS
    <2>3. /\ frames \in Seq(Frames) /\ Len(frames) = conn[p].kept
          /\ \A k \in 1 .. conn[p].kept : frames[k] = g(k)
      BY <2>1, <2>2
    <2>4. SendUp(frames)
      BY <1>7 DEF Activate, g
    <2>5. \A k \in 1 .. Len(frames) : Fit(frames[k])
      BY <2>2, <2>3
    <2>6. \A k \in 2 .. Len(frames) : frames[k].cmd # "START"
      BY <2>1, <2>2, <2>3
    <2>7. Announces(p)
      BY <1>7 DEF Announces
    <2>8. SentFit(frames)
      BY <2>3, <2>4, <2>5, <2>6, <2>7 DEF SentFit
    <2> QED
      BY <2>8 DEF UpMoves
  <1>8. ASSUME FrameLost PROVE UpMoves
    <2> DEFINE f == [Head(down) EXCEPT !.cmd = "STOP"]
    <2>1. /\ Head(down) \in Frames /\ down # <<>> /\ Head(down).cmd # "NOTIFY" /\ SendUp(<<f>>)
      BY <1>0, <1>8, Read DEF FrameLost
    <2>2. /\ f \in Frames /\ f.cmd = "STOP" /\ f.id = Head(down).id /\ f.idx = Head(down).idx
          /\ f.who = Head(down).who
      BY <2>1 DEF Frames
    <2> HIDE DEF f
    <2>3. Head(down) \in Wire
      BY <1>0, <2>1, Ranges DEF Wire
    <2>4. GoodFrame(Head(down))
      BY <2>3 DEF HomeInv
    <2>5. GoodFrame(f)
      BY <2>2, <2>4 DEF GoodFrame
    <2> QED
      BY <2>1, <2>2, <2>5, OneSent DEF Fit
  <1>9. ASSUME FrameNotify PROVE UpMoves
    <2>1. CASE UNCHANGED up
      BY <1>1, <2>1
    <2>2. CASE ~UNCHANGED up
      <3> PICK h : h = Conns!AllocIdx(pool)
        OBVIOUS
      <3>1. /\ pool' = Conns!AfterAlloc(pool) /\ conn' = [conn EXCEPT ![Head(pool.free)] = NoConn]
            /\ pool.free # <<>> /\ SendUp(<<Frame("NOTIFY", -1, h, Nobody)>>)
        BY <1>9, <2>2 DEF FrameNotify, Conns!CanAlloc
      <3>2. /\ pool.free \in Seq(0 .. Cap - 1) /\ pool.last \in [0 .. Cap - 1 -> 0 .. Endless]
            /\ conn \in [Slot -> ConnRecord]
        BY DEF ShapeInv, PoolInv, PoolOK, ConnInv
      <3> PICK p \in 0 .. Cap - 1 : p = Head(pool.free)
        BY <3>1, <3>2, Tails
      <3>3. p \in Slot
        BY <3>1, PoolMade DEF ShapeInv
      <3>4. h \in 0 .. Endless /\ Pos(h) = p
        BY <3>2, Handles DEF Conns!AllocIdx, Pos, Conns!PosOf
      <3>5. pool'.last[p] = h
        BY <3>1, <3>2 DEF Conns!AfterAlloc
      <3>6. conn'[p].who = Nobody
        BY <3>1, <3>2, <3>3, NoRecord
      <3>7. HomeIn(pool', conn', h, Nobody)
        BY <3>3, <3>4, <3>5, <3>6, Limits DEF HomeIn
      <3>8. h \in Idxs /\ -1 \in Idxs /\ Nobody \in Client \cup {Nobody}
        BY <3>4, Limits DEF Idxs
      <3> PICK f : f = Frame("NOTIFY", -1, h, Nobody)
        OBVIOUS
      <3>9. f \in Frames
        BY <3>8, Framed
      <3>10. f.cmd = "NOTIFY" /\ f.id = -1 /\ f.idx = h /\ f.who = Nobody
        BY DEF Frame
      <3>11. GoodThen(f)
        BY <3>7, <3>10 DEF GoodThen, SeatIn
      <3>12. SendUp(<<f>>)
        BY <3>1
      <3> QED
        BY <3>9, <3>10, <3>11, <3>12, OneSent DEF Fit
    <2> QED
      BY <2>1, <2>2
  <1>10. ASSUME ServerStart \/ ServerStop \/ ServerInProc \/ ServerPass PROVE UpMoves
    <2>1. up # <<>> /\ up' = Tail(up)
      BY <1>10 DEF ServerStart, ServerStop, ServerInProc, ServerPass, Reads
    <2> QED
      BY <2>1 DEF UpMoves
  <1>11. ASSUME NEW c \in Client, Accept(c) \/ ClientClose(c) PROVE UNCHANGED up
    BY <1>11 DEF Accept, ClientClose
  <1>12. ASSUME NEW p \in Slot,
                \/ BadPkg(p) \/ Auth(p) \/ DataWaiting(p) \/ DataFull(p)
                \/ BadLength(p) \/ PeerClosed(p) \/ QueueInfo(p)
                \/ FrameStart(p) \/ FrameInProc(p) \/ FrameStop(p)
         PROVE  UNCHANGED up
    BY <1>12 DEF BadPkg, Auth, DataWaiting, DataFull, BadLength, PeerClosed, QueueInfo,
                 FrameStart, FrameInProc, FrameStop
  <1>13. ASSUME ActiveBegin \/ ServerNotify \/ \E q \in Seat : ServerKick(q) PROVE UNCHANGED up
    BY <1>13 DEF ActiveBegin, ServerNotify, ServerKick
  <1> QED
    BY <1>1, <1>3, <1>4, <1>5, <1>6, <1>7, <1>8, <1>9, <1>10, <1>11, <1>12, <1>13, Steps

\* The sessions a step ends, or the one it opens.
SeatsLess ==
    /\ seats'.last = seats.last /\ seats'.valid \subseteq seats.valid
    /\ \A q \in seats'.valid : player'[q] = player[q]

SeatMade ==
    /\ Reads("START") /\ seats' = Players!AfterAlloc(seats) /\ seats.free # <<>>
    /\ player' = [player EXCEPT ![Head(seats.free)] = [who |-> Head(up).who, idx |-> Head(up).idx]]

LEMMA SeatVacated ==
    ASSUME SeatInv, NEW id, SeatOf(id) \in seats.valid, Vacate(id)
    PROVE  SeatsLess
  <1> PICK p : p = SeatOf(id)
    OBVIOUS
  <1>1. /\ PoolOK(seats, PlayerCap) /\ player \in [Seat -> PlayerRecord] /\ p \in seats.valid
        /\ seats.valid \subseteq Seat
    BY DEF SeatInv, PoolOK, Seat
  <1>2. seats' = [seats EXCEPT !.free = Append(@, p), !.valid = @ \ {p}]
    BY DEF Vacate, Players!AfterFree, SeatOf
  <1>3. seats'.last = seats.last /\ seats'.valid = seats.valid \ {p}
    BY <1>1, <1>2 DEF PoolOK
  <1>4. player' = [player EXCEPT ![p] = NoPlayer]
    BY DEF Vacate
  <1> QED
    BY <1>1, <1>3, <1>4 DEF SeatsLess

LEMMA SeatMoves ==
    ASSUME ShapeInv, Next
    PROVE  SeatsLess \/ SeatMade
  <1>0. SeatInv
    BY DEF ShapeInv
  <1>1. CASE UNCHANGED server
    BY <1>1 DEF SeatsLess, server
  <1>2. CASE ServerStart
    BY <1>1, <1>2 DEF ServerStart, SeatMade, Players!CanAlloc, server
  <1>3. CASE ServerStop
    <2> PICK id : id = Head(up).id
      OBVIOUS
    <2>1. CASE Seated(id)
      <3>1. Vacate(id) /\ SeatOf(id) \in seats.valid
        BY <1>3, <2>1 DEF ServerStop, Seated, SeatOf, Players!Live
      <3> QED
        BY <1>0, <3>1, SeatVacated
    <2>2. CASE ~Seated(id)
      BY <1>1, <1>3, <2>2 DEF ServerStop
    <2> QED
      BY <2>1, <2>2
  <1>4. ASSUME NEW q \in Seat, ServerKick(q) PROVE SeatsLess
    <2> PICK id : id = seats.last[q]
      OBVIOUS
    <2>1. q \in seats.valid /\ Vacate(id)
      BY <1>4 DEF ServerKick
    <2>2. SeatOf(id) = q
      BY <2>1, Lasts
    <2> QED
      BY <1>0, <2>1, <2>2, SeatVacated
  <1>5. ASSUME NEW c \in Client, Accept(c) \/ ClientClose(c) PROVE UNCHANGED server
    BY <1>5 DEF Accept, ClientClose
  <1>6. ASSUME NEW p \in Slot, NEW old \in Slot, Relay(p, old) PROVE UNCHANGED server
    BY <1>6 DEF Relay
  <1>7. ASSUME NEW p \in Slot,
               \/ BadPkg(p) \/ Auth(p) \/ SynAck(p) \/ DataWaiting(p) \/ DataFull(p)
               \/ Data(p) \/ BadLength(p) \/ PeerClosed(p) \/ ScanClose(p)
               \/ ScanIdle(p) \/ QueueInfo(p) \/ Activate(p)
               \/ FrameStart(p) \/ FrameInProc(p) \/ FrameStop(p)
        PROVE  UNCHANGED server
    BY <1>7 DEF BadPkg, Auth, SynAck, DataWaiting, DataFull, Data, BadLength, PeerClosed, ScanClose,
                ScanIdle, QueueInfo, Activate, FrameStart, FrameInProc, FrameStop
  <1>8. ASSUME \/ ActiveBegin \/ FrameLost \/ FrameNotify \/ ServerInProc \/ ServerPass \/ ServerNotify
        PROVE  UNCHANGED server
    BY <1>8 DEF ActiveBegin, FrameLost, FrameNotify, ServerInProc, ServerPass, ServerNotify
  <1> QED
    BY <1>1, <1>2, <1>3, <1>4, <1>5, <1>6, <1>7, <1>8, Steps

\* The handle and the record of a session that is opened.
LEMMA SeatOpened ==
    ASSUME ShapeInv, SeatMade
    PROVE  /\ Head(seats.free) \in Seat /\ Allots(seats, seats', PlayerCap)
           /\ seats'.valid = seats.valid \cup {Head(seats.free)}
           /\ player'[Head(seats.free)].who = Head(up).who
           /\ player'[Head(seats.free)].idx = Head(up).idx
           /\ \A q \in Seat : q # Head(seats.free) => player'[q] = player[q]
           /\ Players!AllocIdx(seats) \in 0 .. Endless
           /\ SeatOf(Players!AllocIdx(seats)) = Head(seats.free)
           /\ seats'.last[Head(seats.free)] = Players!AllocIdx(seats)
  <1> PICK h : h = Players!AllocIdx(seats)
    OBVIOUS
  <1>1. /\ seats.free \in Seq(0 .. PlayerCap - 1) /\ seats.last \in [0 .. PlayerCap - 1 -> 0 .. Endless]
        /\ player \in [Seat -> PlayerRecord] /\ seats.free # <<>>
    BY DEF ShapeInv, SeatInv, PoolOK, SeatMade
  <1> PICK p \in 0 .. PlayerCap - 1 : p = Head(seats.free)
    BY <1>1, Tails
  <1>2. h \in 0 .. Endless /\ SeatOf(h) = p
    BY <1>1, Handles DEF Players!AllocIdx, SeatOf, Players!PosOf
  <1>3. seats' = Players!AfterAlloc(seats)
    BY DEF SeatMade
  <1>4. seats'.valid = seats.valid \cup {p} /\ seats'.last = [seats.last EXCEPT ![p] = h]
    BY <1>3 DEF Players!AfterAlloc
  <1>5. Allots(seats, seats', PlayerCap)
    BY <1>1, <1>4 DEF Allots, Players!AllocIdx, Players!NextIdx, HandleOf
  <1>6. /\ player'[p].who = Head(up).who /\ player'[p].idx = Head(up).idx
        /\ \A q \in Seat : q # p => player'[q] = player[q]
    BY <1>1 DEF SeatMade, Seat
  <1> QED
    BY <1>1, <1>2, <1>4, <1>5, <1>6 DEF Seat

LEMMA DownSends ==
    ASSUME ShapeInv, HomeInv, Next
    PROVE  DownMoves
  <1>0. /\ WireInv /\ up \in Seq(Frames) /\ down \in Seq(Frames)
        /\ PoolOK(seats, PlayerCap) /\ player \in [Seat -> PlayerRecord]
        /\ Endless \in Nat /\ -1 \in Idxs
    BY Limits DEF ShapeInv, WireInv, SeatInv, Idxs
  <1>1. ASSUME UNCHANGED down PROVE DownMoves
    BY <1>1 DEF DownMoves
  <1>2. ASSUME down # <<>>, down' = Tail(down) PROVE DownMoves
    BY <1>2 DEF DownMoves
  <1>3. ASSUME NEW q \in seats.valid, NEW cmd \in {"START", "INPROC", "STOP"},
               SendDown(Frame(cmd, seats.last[q], player[q].idx, player[q].who))
        PROVE  DownMoves
    <2>1. q \in Seat /\ seats.last[q] \in 0 .. Endless /\ SeatOf(seats.last[q]) = q
      BY <1>0, Lasts DEF PoolOK, Seat
    <2>2. player[q].idx \in Idxs /\ player[q].who \in Client \cup {Nobody} /\ seats.last[q] \in Idxs
      <3>1. player[q] \in PlayerRecord
        BY <1>0, <2>1
      <3> QED
        BY <1>0, <2>1, <3>1 DEF PlayerRecord, Idxs
    <2>3. HomeIn(pool, conn, player[q].idx, player[q].who)
      BY DEF HomeInv
    <2>4. SeatIn(seats, player, seats.last[q], player[q].who)
      BY <1>0, <2>1 DEF SeatIn
    <2> PICK f : f = Frame(cmd, seats.last[q], player[q].idx, player[q].who)
      OBVIOUS
    <2>5. f \in Frames
      BY <2>2, Framed
    <2>6. f.cmd # "NOTIFY" /\ f.id = seats.last[q] /\ f.idx = player[q].idx /\ f.who = player[q].who
      BY DEF Frame
    <2>7. GoodFrame(f)
      BY <2>3, <2>4, <2>6 DEF GoodFrame
    <2>8. SendDown(f)
      BY <1>3
    <2>9. AddedFit(f)
      BY <2>5, <2>6, <2>7, <2>8 DEF AddedFit, Fit
    <2> QED
      BY <2>9 DEF DownMoves
  <1>4. ASSUME ServerStart PROVE DownMoves
    <2>1. CASE UNCHANGED down
      BY <1>1, <2>1
    <2>2. CASE ~UNCHANGED down
      <3> PICK h : h = Players!AllocIdx(seats)
        OBVIOUS
      <3>1. SeatMade /\ up # <<>> /\ UNCHANGED <<pool, conn>>
        BY <1>4, <2>2 DEF ServerStart, SeatMade, Players!CanAlloc, Reads
      <3>2. SendDown(Frame("START", h, Head(up).idx, Head(up).who))
        BY <1>4, <2>2 DEF ServerStart
      <3> PICK g : g = Head(up)
        OBVIOUS
      <3>3. g \in Frames /\ g \in Wire
        BY <1>0, <3>1, Read, Ranges DEF Wire
      <3>4. g.idx \in Idxs /\ g.who \in Client \cup {Nobody}
        BY <3>3 DEF Frames
      <3>5. HomeIn(pool', conn', g.idx, g.who)
        BY <3>1, <3>3 DEF HomeInv, GoodFrame
      <3> PICK p : p = Head(seats.free)
        OBVIOUS
      <3>6. /\ p \in Seat /\ h \in 0 .. Endless /\ SeatOf(h) = p /\ seats'.last[p] = h
            /\ player'[p].who = g.who
        BY <3>1, SeatOpened
      <3>7. SeatIn(seats', player', h, g.who)
        BY <1>0, <3>6 DEF SeatIn
      <3> PICK f : f = Frame("START", h, g.idx, g.who)
        OBVIOUS
      <3>8. h \in Idxs
        BY <1>0, <3>6 DEF Idxs
      <3>9. f \in Frames
        BY <3>4, <3>8, Framed
      <3>10. f.cmd # "NOTIFY" /\ f.id = h /\ f.idx = g.idx /\ f.who = g.who
        BY DEF Frame
      <3>11. GoodThen(f)
        BY <3>5, <3>7, <3>10 DEF GoodThen
      <3>12. AddedFit(f)
        BY <3>2, <3>9, <3>10, <3>11 DEF AddedFit, Fit
      <3> QED
        BY <3>12 DEF DownMoves
    <2> QED
      BY <2>1, <2>2
  <1>5. ASSUME ServerInProc PROVE DownMoves
    <2>1. CASE UNCHANGED down
      BY <1>1, <2>1
    <2>2. CASE ~UNCHANGED down
      <3> PICK id : id = Head(up).id
        OBVIOUS
      <3>1. /\ Seated(id)
            /\ SendDown(Frame("INPROC", id, player[SeatOf(id)].idx, player[SeatOf(id)].who))
        BY <1>5, <2>2 DEF ServerInProc
      <3> PICK q : q = SeatOf(id)
        OBVIOUS
      <3>2. q \in seats.valid /\ seats.last[q] = id
        BY <3>1 DEF Seated, Players!Live, SeatOf
      <3> QED
        BY <1>3, <3>1, <3>2
    <2> QED
      BY <2>1, <2>2
  <1>6. ASSUME NEW q \in Seat, ServerKick(q) PROVE DownMoves
    BY <1>3, <1>6 DEF ServerKick
  <1>7. ASSUME ServerNotify PROVE DownMoves
    <2> PICK f : f = Frame("NOTIFY", -1, -1, Nobody)
      OBVIOUS
    <2>1. f \in Frames
      BY <1>0, Framed
    <2>2. f.cmd = "NOTIFY"
      BY DEF Frame
    <2>3. down' = Append(down, f)
      BY <1>7 DEF ServerNotify
    <2> QED
      BY <1>7, <2>1, <2>2, <2>3 DEF DownMoves
  <1>8. ASSUME NEW p \in Slot, FrameStart(p) \/ FrameInProc(p) \/ FrameStop(p) PROVE DownMoves
    BY <1>2, <1>8 DEF FrameStart, FrameInProc, FrameStop, Replies
  <1>9. ASSUME FrameLost \/ FrameNotify PROVE DownMoves
    BY <1>2, <1>9 DEF FrameLost, FrameNotify, Replies
  <1>10. ASSUME NEW c \in Client, Accept(c) \/ ClientClose(c) PROVE UNCHANGED down
    BY <1>10 DEF Accept, ClientClose
  <1>11. ASSUME NEW p \in Slot, NEW old \in Slot, Relay(p, old) PROVE UNCHANGED down
    BY <1>11 DEF Relay
  <1>12. ASSUME NEW p \in Slot,
                \/ BadPkg(p) \/ Auth(p) \/ SynAck(p) \/ DataWaiting(p) \/ DataFull(p)
                \/ Data(p) \/ BadLength(p) \/ PeerClosed(p) \/ ScanClose(p)
                \/ ScanIdle(p) \/ QueueInfo(p) \/ Activate(p)
         PROVE  UNCHANGED down
    BY <1>12 DEF BadPkg, Auth, SynAck, DataWaiting, DataFull, Data, BadLength, PeerClosed, ScanClose,
                 ScanIdle, QueueInfo, Activate
  <1>13. ASSUME ActiveBegin \/ ServerStop \/ ServerPass PROVE UNCHANGED down
    BY <1>13 DEF ActiveBegin, ServerStop, ServerPass
  <1> QED
    BY <1>1, <1>4, <1>5, <1>6, <1>7, <1>8, <1>9, <1>10, <1>11, <1>12, <1>13, Steps

\* Frames that reserve a connection are put into the channel by the server alone, as
\* long as the bound allows.
LEMMA NotesStep ==
    ASSUME ShapeInv, HomeInv, Next
    PROVE  \/ ServerNotify /\ HowMany(down', "NOTIFY") <= HowMany(down, "NOTIFY") + 1
           \/ HowMany(down', "NOTIFY") <= HowMany(down, "NOTIFY")
  <1> DEFINE N(s) == HowMany(s, "NOTIFY")
  <1>0. down \in Seq(Frames) /\ N(down) \in Nat
    BY Placed DEF ShapeInv, WireInv
  <1>1. CASE UNCHANGED down
    BY <1>0, <1>1
  <1>2. CASE down # <<>> /\ down' = Tail(down)
    BY <1>0, <1>2, TailPlaces
  <1>3. ASSUME NEW f, AddedFit(f) PROVE N(down') <= N(down)
    <2>1. f \in Frames /\ f.cmd # "NOTIFY" /\ (down' = Append(down, f) \/ down' = down)
      BY <1>3 DEF AddedFit, SendDown
    <2>2. N(Append(down, f)) = N(down)
      BY <1>0, <2>1, AppendPlaces
    <2>3. N(down') = N(down)
      BY <2>1, <2>2, Zenon
    <2> QED
      BY <1>0, <2>3
  <1>4. ASSUME NEW f \in Frames, down' = Append(down, f) PROVE N(down') <= N(down) + 1
    BY <1>0, <1>4, AppendPlaces
  <1> QED
    BY <1>1, <1>2, <1>3, <1>4, DownSends DEF DownMoves

LEMMA ReserveStep ==
    ASSUME ShapeInv, ShapeInv', HomeInv, ReserveInv, Next
    PROVE  ReserveInv'
  <1> DEFINE n == HowMany(down, "NOTIFY")
             m == HowMany(down', "NOTIFY")
  <1>0. TableStep /\ MaxReserve \in Nat /\ released \in Nat /\ Gifts + n <= MaxReserve
    BY Kinds, TconndAssumption DEF ReserveInv
  <1>1. Gifts \in Nat /\ Gifts' \in Nat /\ released' \in Nat /\ (GiftsStay \/ GiftMade)
    BY <1>0, GiftStep
  <1>2. n \in Nat /\ m \in Nat
    <2>1. down \in Seq(Frames) /\ down' \in Seq(Frames)
      BY DEF ShapeInv, WireInv
    <2> QED
      BY <2>1, Placed
  <1> HIDE DEF n, m
  <1>3. CASE GiftMade
    <2>1. FrameNotify
      BY <1>3, MadeBy, Limits DEF GiftMade
    <2>2. m + 1 <= n
      <3>1. down \in Seq(Frames) /\ down # <<>> /\ down' = Tail(down) /\ Head(down).cmd = "NOTIFY"
        BY <2>1 DEF FrameNotify, Replies, ShapeInv, WireInv
      <3> QED
        BY <3>1, TailPlaces DEF n, m
    <2>3. Gifts' + m <= MaxReserve
      BY <1>0, <1>1, <1>2, <1>3, <2>2 DEF GiftMade
    <2> QED
      BY <1>1, <2>3 DEF ReserveInv, m
  <1>4. CASE GiftsStay
    <2>1. Gifts' = Gifts
      BY <1>4 DEF GiftsStay
    <2>2. CASE m <= n
      <3>1. Gifts' + m <= MaxReserve
        BY <1>0, <1>1, <1>2, <2>1, <2>2
      <3> QED
        BY <1>1, <3>1 DEF ReserveInv, m
    <2>3. CASE ServerNotify /\ m <= n + 1
      <3>1. DOMAIN down = 1 .. Len(down)
        BY DEF ShapeInv, WireInv
      <3>2. {k \in DOMAIN down : down[k].cmd = "NOTIFY"} = Places(down, "NOTIFY")
        BY <3>1 DEF Places
      <3>3. Gifts + n < MaxReserve
        BY <2>3, <3>2 DEF ServerNotify, Gifts, Reserved, Number, n, HowMany
      <3>4. Gifts' + m <= MaxReserve
        BY <1>0, <1>1, <1>2, <2>1, <2>3, <3>3
      <3> QED
        BY <1>1, <3>4 DEF ReserveInv, m
    <2>4. m <= n \/ (ServerNotify /\ m <= n + 1)
      BY NotesStep DEF m, n
    <2> QED
      BY <2>2, <2>3, <2>4
  <1> QED
    BY <1>1, <1>3, <1>4
-----------------------------------------------------------------------------
(***************************************************************************)
(* How many sessions the server opens                                      *)
(***************************************************************************)

\* A client that has been announced has been announced.
LEMMA SentStays ==
    ASSUME ShapeInv, Next
    PROVE  Sent \subseteq Sent'
  <1>1. SUFFICES ASSUME NEW c \in Sent, NEW p \in Slot, Used(p)', conn'[p].who = c
                 PROVE  conn'[p].sent
    BY CameGrows DEF Sent
  <1>2. c \in Client /\ client[c].at # "out" /\ c # Nobody
    BY Limits DEF Sent, Came
  <1>3. Used(p)
    <2>1. SUFFICES ASSUME ~Used(p) PROVE FALSE
      OBVIOUS
    <2> QED
      BY <1>1, <1>2, <2>1, Newcomers DEF Newcomer
  <1>4. conn'[p].who = conn[p].who /\ (conn[p].sent => conn'[p].sent)
    BY <1>1, <1>3, Kinds, Stays
  <1> QED
    BY <1>1, <1>3, <1>4 DEF Sent

LEMMA SentJoins ==
    ASSUME ShapeInv, OwnInv, Next, NEW p \in Slot, Announces(p)
    PROVE  conn[p].who \notin Sent /\ Sent \cup {conn[p].who} \subseteq Sent'
  <1> PICK c : c = conn[p].who
    OBVIOUS
  <1>0. ConnInv /\ PoolInv /\ NumberInv /\ conn[p] \in ConnRecord /\ conn \in [Slot -> ConnRecord]
    BY DEF ShapeInv, ConnInv
  <1>1. Used(p) /\ c # Nobody /\ ~conn[p].sent /\ pool' = pool
    <2>1. CASE SynAck(p)
      BY <2>1 DEF SynAck, Heard, Readable, OwnInv
    <2>2. CASE Activate(p)
      BY <1>0, <2>2 DEF Activate, InQueue, OwnInv, ConnInv
    <2> QED
      BY <2>1, <2>2 DEF Announces
  <1>2. c \in Came
    BY <1>0, <1>1 DEF OwnInv, Came, ConnRecord
  <1>3. c \notin Sent
    BY <1>1 DEF Sent
  <1>4. conn'[p].sent
    <2>1. CASE SynAck(p) /\ conn[p].who \in VIP
      <3>1. conn' = [conn EXCEPT ![p].stage = "pass", ![p].bypass = TRUE, ![p].sent = TRUE]
        BY <2>1 DEF SynAck
      <3> QED
        BY <1>0, <3>1 DEF ConnRecord
    <2>2. CASE Activate(p)
      <3> DEFINE r == [conn[p] EXCEPT !.inq = FALSE, !.sent = TRUE, !.kept = 0, !.token = 0,
                                      !.prev = -1, !.next = -1]
      <3>1. conn' = [Unlinked(p) EXCEPT ![p] = r]
        BY <2>2 DEF Activate
      <3>2. r.sent
        BY <1>0 DEF ConnRecord
      <3> HIDE DEF r
      <3>3. conn'[p] = r
        BY <1>0, <3>1, UnlinkedTable
      <3> QED
        BY <3>2, <3>3
    <2> QED
      BY <2>1, <2>2 DEF Announces
  <1>5. c \in Sent'
    <2>1. c \in Came'
      BY <1>2, CameGrows
    <2>2. ASSUME NEW q \in Slot, Used(q)', conn'[q].who = c PROVE conn'[q].sent
      <3>1. Used(q)
        BY <1>1, <2>2 DEF Used
      <3>2. conn[q].who = c
        BY <2>2, <3>1, Kinds, Stays
      <3>3. q = p
        BY <1>1, <3>1, <3>2 DEF OwnInv
      <3> QED
        BY <1>4, <3>3
    <2> QED
      BY <2>1, <2>2 DEF Sent
  <1> QED
    BY <1>3, <1>5, SentStays

LEMMA StartsStep ==
    ASSUME ShapeInv, HomeInv, Next
    PROVE  \/ HowMany(up', "START") <= HowMany(up, "START")
           \/ /\ HowMany(up', "START") <= HowMany(up, "START") + 1
              /\ \E p \in Slot : Announces(p)
  <1> DEFINE N(s) == HowMany(s, "START")
  <1>0. WireInv /\ up \in Seq(Frames) /\ N(up) \in Nat
    BY Placed DEF ShapeInv, WireInv
  <1>1. CASE UNCHANGED up
    BY <1>0, <1>1
  <1>2. CASE up # <<>> /\ up' = Tail(up)
    BY <1>0, <1>2, TailPlaces
  <1>3. ASSUME NEW frames, SentFit(frames)
        PROVE  N(up') <= N(up) \/ (N(up') <= N(up) + 1 /\ \E p \in Slot : Announces(p))
    <2>1. /\ frames \in Seq(Frames) /\ SendUp(frames)
          /\ \A k \in 2 .. Len(frames) : frames[k].cmd # "START"
          /\ (Len(frames) > 0 => frames[1].cmd # "START") \/ \E p \in Slot : Announces(p)
      BY <1>3 DEF SentFit
    <2>2. PICK n \in 0 .. Len(frames) : up' = up \o SubSeq(frames, 1, n)
      BY <1>0, <2>1, SentFrames
    <2> PICK u : u = up \o SubSeq(frames, 1, n)
      OBVIOUS
    <2>3. /\ N(u) <= N(up) + 1
          /\ (Len(frames) > 0 => frames[1].cmd # "START") => N(u) <= N(up)
      BY <1>0, <2>1, ConcatPlaces
    <2>4. N(up') = N(u)
      BY <2>2
    <2> QED
      BY <2>1, <2>3, <2>4
  <1> QED
    BY <1>1, <1>2, <1>3, UpSends DEF UpMoves

LEMMA SeatsStep ==
    ASSUME ShapeInv, ShapeInv', OwnInv, HomeInv, SeatsBelow, Next
    PROVE  SeatsOn /\ SeatsBelow'
  <1>0. /\ PoolOK(seats, PlayerCap) /\ PoolOK(seats', PlayerCap) /\ PlayerCap \in Nat \ {0}
        /\ Endless \in Nat /\ up \in Seq(Frames) /\ up' \in Seq(Frames) /\ PlayerCap \in Nat
        /\ seats.last \in [0 .. PlayerCap - 1 -> 0 .. Endless]
        /\ seats'.last \in [0 .. PlayerCap - 1 -> 0 .. Endless]
    <2>1. /\ PoolOK(seats, PlayerCap) /\ PoolOK(seats', PlayerCap)
          /\ up \in Seq(Frames) /\ up' \in Seq(Frames)
      BY DEF ShapeInv, SeatInv, WireInv
    <2>2. /\ seats.last \in [0 .. PlayerCap - 1 -> 0 .. Endless]
          /\ seats'.last \in [0 .. PlayerCap - 1 -> 0 .. Endless]
      BY <2>1 DEF PoolOK
    <2> QED
      BY <2>1, <2>2, Limits
  <1> DEFINE n == HowMany(up, "START")
             m == HowMany(up', "START")
  <1>1. n \in Nat /\ m \in Nat
    BY <1>0, Placed
  <1>2. PICK a \in Nat : a + n <= Number(Sent) /\ Below(seats, PlayerCap, a)
    BY DEF SeatsBelow
  <1>3. /\ Number(Sent) \in Nat /\ Number(Sent') \in Nat /\ IsFiniteSet(Sent) /\ IsFiniteSet(Sent')
        /\ Number(Sent) <= Number(Sent') /\ Number(Sent) <= Number(Client) /\ Number(Client) \in Nat
    <2>1. IsFiniteSet(Sent')
      <3>1. Sent' \in SUBSET Client
        BY DEF Sent, Came
      <3> QED
        BY <3>1, Crowd, FS_Subset
    <2>2. Number(Sent) <= Number(Sent') /\ Number(Sent') \in Nat
      BY <2>1, SentStays, FS_Subset, FS_CardinalityType DEF Number
    <2> QED
      BY <2>1, <2>2, Crowd
  <1>4. \A q \in Seat : q \in 0 .. PlayerCap - 1 /\ seats.last[q] \in Nat /\ seats'.last[q] \in Nat
    BY <1>0 DEF Seat
  <1> HIDE DEF n, m
  <1>5. CASE SeatMade
    <2>1. m + 1 <= n
      <3>1. up # <<>> /\ up' = Tail(up) /\ Head(up).cmd = "START"
        BY <1>5 DEF SeatMade, Reads
      <3> QED
        BY <1>0, <3>1, TailPlaces DEF n, m
    <2>2. PlayerCap * (a + 2) <= Endless
      <3>1. a < Number(Client)
        BY <1>1, <1>2, <1>3, <2>1
      <3> QED
        BY <3>1, Enough DEF Number
    <2> PICK p : p = Head(seats.free)
      OBVIOUS
    <2>3. /\ p \in Seat /\ Allots(seats, seats', PlayerCap) /\ seats'.valid = seats.valid \cup {p}
          /\ \A q \in Seat : q # p => player'[q] = player[q]
      BY <1>5, SeatOpened
    <2>4. OneOn(seats, seats', PlayerCap, a)
      BY <1>0, <1>2, <2>2, <2>3, Grown
    <2>5. /\ Below(seats', PlayerCap, a + 1)
          /\ \A q \in 0 .. PlayerCap - 1 : q # p => seats'.last[q] = seats.last[q]
          /\ p # 0 => seats.last[p] < seats'.last[p]
      BY <2>4 DEF OneOn
    <2>6. SeatsOn
      <3>1. ASSUME NEW q \in Seat, q # 0
            PROVE  /\ seats.last[q] <= seats'.last[q]
                   /\ q \in seats'.valid =>
                         \/ q \in seats.valid /\ player'[q] = player[q] /\ seats'.last[q] = seats.last[q]
                         \/ seats.last[q] < seats'.last[q]
        <4>1. CASE q = p
          BY <1>4, <2>5, <3>1, <4>1
        <4>2. CASE q # p
          BY <1>4, <2>3, <2>5, <3>1, <4>2
        <4> QED
          BY <4>1, <4>2
      <3> QED
        BY <3>1 DEF SeatsOn
    <2>7. a + 1 \in Nat /\ a + 1 + m <= Number(Sent')
      BY <1>1, <1>2, <1>3, <2>1
    <2>8. SeatsBelow'
      BY <2>5, <2>7 DEF SeatsBelow, m
    <2> QED
      BY <2>6, <2>8
  <1>6. CASE SeatsLess
    <2>1. /\ seats'.last = seats.last /\ seats'.valid \subseteq seats.valid
          /\ \A q \in seats'.valid : player'[q] = player[q]
      BY <1>6 DEF SeatsLess
    <2>2. SeatsOn
      BY <1>4, <2>1 DEF SeatsOn
    <2>3. Below(seats', PlayerCap, a)
      BY <1>2, <2>1 DEF Below
    <2>4. a + m <= Number(Sent')
      <3>1. CASE m <= n
        BY <1>1, <1>2, <1>3, <3>1
      <3>2. ASSUME m <= n + 1, NEW p \in Slot, Announces(p)
            PROVE  a + m <= Number(Sent')
        <4> PICK c : c = conn[p].who
          OBVIOUS
        <4>1. c \notin Sent /\ Sent \cup {c} \in SUBSET Sent'
          BY <3>2, SentJoins
        <4>2. Number(Sent \cup {c}) = Number(Sent) + 1
          BY <1>3, <4>1, Sizes
        <4>3. Number(Sent \cup {c}) <= Number(Sent')
          BY <1>3, <4>1, FS_Subset DEF Number
        <4> QED
          BY <1>1, <1>2, <1>3, <3>2, <4>2, <4>3
      <3> QED
        BY <3>1, <3>2, StartsStep DEF m, n
    <2>5. SeatsBelow'
      BY <2>3, <2>4 DEF SeatsBelow, m
    <2> QED
      BY <2>2, <2>5
  <1> QED
    BY <1>5, <1>6, SeatMoves
-----------------------------------------------------------------------------
(***************************************************************************)
(* Every step keeps the frames on their way.                               *)
(***************************************************************************)

\* The session a connection knows of.
LEMMA IdStep ==
    ASSUME ShapeInv, Next, NEW s \in Slot, Used(s), Used(s)'
    PROVE  conn'[s].id = conn[s].id \/ (FrameStart(s) /\ conn'[s].id = Head(down).id)
  <1> DEFINE Right == conn'[s].id = conn[s].id
  <1>0. ConnInv /\ PoolInv /\ conn \in [Slot -> ConnRecord] /\ \A p \in Slot : conn[p] \in ConnRecord
    BY DEF ShapeInv, ConnInv
  <1>1. ASSUME UNCHANGED conn PROVE Right
    BY <1>1
  <1>2. ASSUME NEW p \in Slot, NEW r, conn' = [conn EXCEPT ![p] = r], p = s => r.id = conn[p].id
        PROVE  Right
    BY <1>0, <1>2
  <1>3. ASSUME NEW p \in Slot PROVE Unlinked(p)[s].id = conn[s].id
    <2> DEFINE nx(q) == IF conn[p].prev # -1 /\ q = Pos(conn[p].prev) THEN conn[p].next ELSE conn[q].next
               pv(q) == IF conn[p].next # -1 /\ q = Pos(conn[p].next) THEN conn[p].prev ELSE conn[q].prev
    <2>1. Unlinked(p) = [q \in Slot |-> [conn[q] EXCEPT !.next = nx(q), !.prev = pv(q)]]
      BY <1>0 DEF Unlinked, ConnRecord
    <2> HIDE DEF nx, pv
    <2>2. Unlinked(p)[s] = [conn[s] EXCEPT !.next = nx(s), !.prev = pv(s)]
      BY <2>1
    <2>3. [conn[s] EXCEPT !.next = nx(s), !.prev = pv(s)].id = conn[s].id
      BY <1>0 DEF ConnRecord
    <2> QED
      BY <2>2, <2>3
  <1>4. ASSUME NEW p \in Slot, p # s PROVE Closed(p)[s].id = conn[s].id
    <2>1. Closed(p)[s] = Unlinked(p)[s] \/ Closed(p)[s] = conn[s]
      BY <1>0, <1>4, ClosedTable
    <2> QED
      BY <1>3, <2>1
  <1>5. ASSUME NEW r, Made(r) PROVE Right
    <2>1. PICK p \in Slot : p \notin pool.valid /\ conn' = [conn EXCEPT ![p] = r]
      BY <1>0, <1>5, PoolMade DEF Made
    <2>2. p # s
      BY <2>1 DEF Used
    <2> QED
      BY <1>2, <2>1, <2>2
  <1>6. ASSUME NEW p \in Slot, Gone(p) PROVE Right
    <2>1. conn' = Closed(p) /\ pool'.valid = pool.valid \ {p}
      BY <1>0, <1>6, PoolGone DEF Gone
    <2>2. p # s
      BY <2>1 DEF Used
    <2> QED
      BY <1>4, <2>1, <2>2
  <1>7. ASSUME NEW p \in Slot, NEW old \in Slot, Relay(p, old) PROVE Right
    <2> DEFINE r == [conn[p] EXCEPT !.stage = "pass", !.bypass = TRUE, !.sent = TRUE]
    <2>1. conn' = [Closed(old) EXCEPT ![p] = r] /\ pool'.valid = pool.valid \ {old}
      BY <1>0, <1>7, PoolGone DEF Relay
    <2>2. r.id = conn[p].id
      BY <1>0 DEF ConnRecord
    <2> HIDE DEF r
    <2>3. old # s
      BY <2>1 DEF Used
    <2>4. Closed(old) \in [Slot -> ConnRecord]
      BY <1>0, ClosedTable
    <2> QED
      BY <1>4, <2>1, <2>2, <2>3, <2>4
  <1>8. ASSUME NEW p \in Slot, Activate(p) PROVE Right
    <2> DEFINE r == [conn[p] EXCEPT !.inq = FALSE, !.sent = TRUE, !.kept = 0, !.token = 0,
                                    !.prev = -1, !.next = -1]
    <2>1. conn' = [Unlinked(p) EXCEPT ![p] = r]
      BY <1>8 DEF Activate
    <2>2. r.id = conn[p].id
      BY <1>0 DEF ConnRecord
    <2> HIDE DEF r
    <2>3. Unlinked(p) \in [Slot -> ConnRecord]
      BY <1>0, UnlinkedTable
    <2> QED
      BY <1>3, <2>1, <2>2, <2>3
  <1>9. ASSUME NEW p \in Slot, SynAck(p) PROVE Right
    <2>1. ASSUME conn[p].who \in VIP PROVE Right
      <3> DEFINE r == [conn[p] EXCEPT !.stage = "pass", !.bypass = TRUE, !.sent = TRUE]
      <3>1. conn' = [conn EXCEPT ![p] = r]
        BY <1>0, <1>9, <2>1 DEF SynAck
      <3>2. r.id = conn[p].id
        BY <1>0 DEF ConnRecord
      <3> HIDE DEF r
      <3> QED
        BY <1>2, <3>1, <3>2
    <2>2. ASSUME conn[p].who \notin VIP PROVE Right
      <3> DEFINE r == [conn[p] EXCEPT !.stage = "pass", !.kept = 1, !.inq = TRUE,
                                      !.token = tokenAlloc + 1, !.prev = qTail, !.next = -1]
                 t(q) == IF qTail # -1 /\ q = Pos(qTail) THEN [conn[q] EXCEPT !.next = Idx(p)] ELSE conn[q]
      <3>1. conn' = [q \in Slot |-> IF q = p THEN r ELSE t(q)]
        BY <1>9, <2>2 DEF SynAck, PushQueue
      <3>2. r.id = conn[p].id /\ t(s).id = conn[s].id
        BY <1>0 DEF ConnRecord
      <3> HIDE DEF r, t
      <3> QED
        BY <3>1, <3>2
    <2> QED
      BY <2>1, <2>2
  <1>10. ASSUME NEW p \in Slot, BadPkg(p) \/ PeerClosed(p) \/ DataFull(p) \/ BadLength(p) \/ QueueInfo(p)
         PROVE  Right
    <2>1. PICK r : r \in {[conn[p] EXCEPT !.need = "quiet", !.reg = FALSE],
                          [conn[p] EXCEPT !.need = "tell", !.reg = FALSE],
                          [conn[p] EXCEPT !.need = "tell"]} /\ conn' = [conn EXCEPT ![p] = r]
      BY <1>0, <1>10 DEF BadPkg, PeerClosed, DataFull, BadLength, QueueInfo
    <2>2. r.id = conn[p].id
      BY <1>0, <2>1 DEF ConnRecord
    <2> QED
      BY <1>2, <2>1, <2>2
  <1>11. ASSUME NEW p \in Slot, Auth(p) \/ DataWaiting(p) \/ Data(p)
         PROVE  Right
    <2>1. PICK r : r \in {[conn[p] EXCEPT !.stage = "syn"], [conn[p] EXCEPT !.kept = @ + 1],
                          [conn[p] EXCEPT !.reg = (conn[p].need = "no")]}
                   /\ conn' = [conn EXCEPT ![p] = r]
      BY <1>0, <1>11 DEF Auth, DataWaiting, Data
    <2>2. r.id = conn[p].id
      BY <1>0, <2>1 DEF ConnRecord
    <2> QED
      BY <1>2, <2>1, <2>2
  <1>12. ASSUME NEW p \in Slot, FrameInProc(p) \/ FrameStop(p) PROVE Right
    <2>1. CASE UNCHANGED conn
      BY <1>1, <2>1
    <2>2. CASE \E m : conn' = [conn EXCEPT ![p].need = m]
      <3>1. PICK m : conn' = [conn EXCEPT ![p].need = m]
        BY <2>2
      <3>2. PICK r : r = [conn[p] EXCEPT !.need = m]
        OBVIOUS
      <3>3. conn' = [conn EXCEPT ![p] = r] /\ r.id = conn[p].id
        BY <1>0, <3>1, <3>2 DEF ConnRecord
      <3> QED
        BY <1>2, <3>3
    <2> QED
      BY <1>12, <2>1, <2>2 DEF FrameInProc, FrameStop
  <1>13. ASSUME NEW p \in Slot, FrameStart(p)
         PROVE  conn'[s].id = conn[s].id \/ (FrameStart(s) /\ conn'[s].id = Head(down).id)
    <2>1. PICK m : conn' = [conn EXCEPT ![p].id = Head(down).id, ![p].need = m]
      BY <1>13 DEF FrameStart
    <2>2. PICK i : i = Head(down).id
      OBVIOUS
    <2>3. PICK r : r = [conn[p] EXCEPT !.id = i, !.need = m]
      OBVIOUS
    <2>4. conn' = [conn EXCEPT ![p] = r] /\ r.id = i
      BY <1>0, <2>1, <2>2, <2>3 DEF ConnRecord
    <2> QED
      BY <1>0, <1>13, <2>2, <2>4
  <1>14. ASSUME NEW c \in Client, ClientClose(c) PROVE Right
    BY <1>1, <1>14 DEF ClientClose
  <1>15. ASSUME \/ ActiveBegin \/ FrameLost \/ ServerStart \/ ServerStop \/ ServerInProc
                \/ ServerPass \/ ServerNotify \/ \E q \in Seat : ServerKick(q)
         PROVE  Right
    <2>1. UNCHANGED conn
      BY <1>15 DEF ActiveBegin, FrameLost, ServerStart, ServerStop, ServerInProc, ServerPass,
                   ServerNotify, ServerKick
    <2> QED
      BY <1>1, <2>1
  <1>16. ASSUME NEW p \in Slot, ScanClose(p) \/ ScanIdle(p) PROVE Right
    <2>1. Gone(p)
      BY <1>16 DEF ScanClose, ScanIdle, SafeClose, Gone
    <2> QED
      BY <1>6, <2>1
  <1>17. ASSUME FrameNotify \/ \E c \in Client : Accept(c) PROVE Right
    <2>1. UNCHANGED conn \/ \E r : Made(r)
      <3>1. CASE FrameNotify
        BY <3>1, NoRecord DEF FrameNotify, Made, Conns!CanAlloc
      <3>2. ASSUME NEW c \in Client, Accept(c) PROVE UNCHANGED conn \/ \E r : Made(r)
        <4> PICK r : r = [NoConn EXCEPT !.who = c, !.reg = TRUE]
          OBVIOUS
        <4>1. r \in ConnRecord /\ r.who = c /\ r.stage = "new" /\ ~r.inq /\ ~r.sent /\ c # Nobody
          BY NewRecord, Limits
        <4>2. UNCHANGED conn \/ Made(r)
          BY <3>2, <4>1 DEF Accept, Made, Conns!CanAlloc, hist
        <4> QED
          BY <4>2
      <3> QED
        BY <1>17, <3>1, <3>2
    <2> QED
      BY <1>1, <1>5, <2>1
  <1> QED
    BY <1>7, <1>8, <1>9, <1>10, <1>11, <1>12, <1>13, <1>14, <1>15, <1>16, <1>17, Steps

LEMMA HomeStep ==
    ASSUME ShapeInv, ShapeInv', HomeInv, ConnsOn, SeatsOn, Next
    PROVE  HomeInv'
  <1>0. /\ WireInv /\ up \in Seq(Frames) /\ down \in Seq(Frames)
        /\ up' \in Seq(Frames) /\ down' \in Seq(Frames)
    BY DEF ShapeInv, WireInv
  <1>1. ASSUME NEW f, GoodFrame(f) PROVE GoodThen(f)
    BY <1>1, HomeKept, SeatKept DEF GoodFrame, GoodThen
  <1>2. ASSUME NEW f \in Range(up') PROVE GoodThen(f)
    <2>1. CASE Range(up') \subseteq Range(up)
      BY <1>1, <2>1 DEF HomeInv, Wire
    <2>2. ASSUME NEW frames, SentFit(frames) PROVE GoodThen(f)
      <3>1. frames \in Seq(Frames) /\ SendUp(frames) /\ \A k \in 1 .. Len(frames) : Fit(frames[k])
        BY <2>2 DEF SentFit
      <3>2. Range(up') \subseteq Range(up) \cup Range(frames)
        BY <1>0, <3>1, SentFrames
      <3>3. \A g \in Range(frames) : Fit(g)
        <4>1. DOMAIN frames = 1 .. Len(frames)
          BY <3>1
        <4> QED
          BY <3>1, <4>1 DEF Range
      <3>4. f \in Wire \/ Fit(f)
        BY <3>2, <3>3 DEF Wire
      <3> QED
        BY <1>1, <3>4 DEF HomeInv, Fit
    <2>3. UNCHANGED up => Range(up') \subseteq Range(up)
      OBVIOUS
    <2>4. up # <<>> /\ up' = Tail(up) => Range(up') \subseteq Range(up)
      BY <1>0, Ranges
    <2> QED
      BY <2>1, <2>2, <2>3, <2>4, UpSends DEF UpMoves
  <1>3. ASSUME NEW f \in Range(down'), f.cmd # "NOTIFY" PROVE GoodThen(f)
    <2>1. CASE f \in Range(down)
      BY <1>1, <1>3, <2>1 DEF HomeInv, Wire
    <2>2. UNCHANGED down => f \in Range(down)
      OBVIOUS
    <2>3. down # <<>> /\ down' = Tail(down) => f \in Range(down)
      BY <1>0, Ranges
    <2>4. ASSUME NEW g, AddedFit(g) PROVE GoodThen(f)
      <3>1. g \in Frames /\ Fit(g) /\ (down' = Append(down, g) \/ down' = down)
        BY <2>4 DEF AddedFit, SendDown
      <3>2. Range(Append(down, g)) \subseteq Range(down) \cup {g}
        BY <1>0, <3>1, Ranges
      <3>3. f \in Range(down) \/ f = g
        BY <3>1, <3>2, Zenon
      <3> QED
        BY <1>1, <2>1, <3>1, <3>3 DEF Fit
    <2>5. ASSUME NEW g \in Frames, g.cmd = "NOTIFY", down' = Append(down, g) PROVE GoodThen(f)
      <3>1. Range(Append(down, g)) \subseteq Range(down) \cup {g}
        BY <1>0, Ranges
      <3>2. f \in Range(down) \/ f = g
        BY <2>5, <3>1, Zenon
      <3> QED
        BY <1>3, <2>1, <2>5, <3>2
    <2> QED
      BY <2>1, <2>2, <2>3, <2>4, <2>5, DownSends DEF DownMoves
  <1>4. \A f \in Wire' : GoodFrame(f)'
    BY <1>2, <1>3 DEF Wire, GoodFrame, GoodThen
  <1>5. ASSUME NEW q \in seats'.valid PROVE HomeIn(pool', conn', player'[q].idx, player'[q].who)
    <2>1. CASE q \in seats.valid /\ player'[q] = player[q]
      <3>1. HomeIn(pool, conn, player[q].idx, player[q].who)
        BY <2>1 DEF HomeInv
      <3> PICK idx, who : idx = player[q].idx /\ who = player[q].who
        OBVIOUS
      <3>2. HomeIn(pool', conn', idx, who)
        BY <3>1, HomeKept
      <3> QED
        BY <2>1, <3>2
    <2>2. ASSUME SeatMade, q = Head(seats.free)
          PROVE  HomeIn(pool', conn', player'[q].idx, player'[q].who)
      <3> PICK g : g = Head(up)
        OBVIOUS
      <3>1. up # <<>> /\ player'[q].who = g.who /\ player'[q].idx = g.idx
        BY <2>2, SeatOpened DEF SeatMade, Reads
      <3>2. g \in Wire
        BY <1>0, <3>1, Ranges DEF Wire
      <3>3. HomeIn(pool, conn, g.idx, g.who)
        BY <3>2 DEF HomeInv, GoodFrame
      <3>4. HomeIn(pool', conn', g.idx, g.who)
        BY <3>3, HomeKept
      <3> QED
        BY <3>1, <3>4
    <2>3. SeatsLess => q \in seats.valid /\ player'[q] = player[q]
      BY DEF SeatsLess
    <2>4. SeatMade => \/ q = Head(seats.free)
                      \/ q \in seats.valid /\ player'[q] = player[q]
      <3>1. \A s \in seats.valid : s \in Seat
        BY Lasts
      <3> QED
        BY <3>1, SeatOpened
    <2> QED
      BY <2>1, <2>2, <2>3, <2>4, SeatMoves
  <1>6. ASSUME NEW p \in Slot, Used(p)' PROVE SeatIn(seats', player', conn'[p].id, conn'[p].who)
    <2>1. CASE ~Used(p)
      <3>1. conn'[p].id = -1
        BY <1>6, <2>1, Newcomers DEF Newcomer
      <3> QED
        BY <3>1 DEF SeatIn
    <2>2. CASE Used(p)
      <3> PICK who : who = conn[p].who
        OBVIOUS
      <3>1. conn'[p].who = who
        BY <1>6, <2>2, Kinds, Stays
      <3>2. CASE conn'[p].id = conn[p].id
        <4> PICK id : id = conn[p].id
          OBVIOUS
        <4>1. SeatIn(seats, player, id, who)
          BY <2>2 DEF HomeInv
        <4>2. SeatIn(seats', player', id, who)
          BY <4>1, SeatKept
        <4> QED
          BY <3>1, <3>2, <4>2
      <3>3. CASE FrameStart(p) /\ conn'[p].id = Head(down).id
        <4> PICK g : g = Head(down)
          OBVIOUS
        <4>1. down # <<>> /\ g.cmd = "START" /\ g.idx = Idx(p)
          BY <3>3 DEF FrameStart, Replies
        <4>2. g \in Wire
          BY <1>0, <4>1, Ranges DEF Wire
        <4>3. HomeIn(pool, conn, g.idx, g.who) /\ SeatIn(seats, player, g.id, g.who)
          BY <4>2 DEF HomeInv, GoodFrame
        <4>4. g.who = who
          <5>1. Pos(g.idx) = p /\ g.idx = pool.last[p]
            BY <2>2, <4>1, Lasts
          <5> QED
            BY <2>2, <4>3, <5>1 DEF HomeIn, Used
        <4>5. SeatIn(seats', player', g.id, who)
          BY <4>3, <4>4, SeatKept
        <4> QED
          BY <3>1, <3>3, <4>5
      <3> QED
        BY <1>6, <2>2, <3>2, <3>3, IdStep
    <2> QED
      BY <2>1, <2>2
  <1> QED
    BY <1>4, <1>5, <1>6 DEF HomeInv

LEMMA WayStep ==
    ASSUME ShapeInv, ShapeInv', WayInv, Next
    PROVE  WayInv'
  <1>1. OwnInv' /\ ReserveInv'
    BY OwnStep, ReserveStep DEF WayInv
  <1>2. ConnsOn /\ ConnsBelow' /\ SeatsOn /\ SeatsBelow'
    BY <1>1, ConnsStep, SeatsStep DEF WayInv
  <1>3. HomeInv'
    BY <1>2, HomeStep DEF WayInv
  <1> QED
    BY <1>1, <1>2, <1>3 DEF WayInv

LEMMA WayStill ==
    ASSUME WayInv, UNCHANGED vars
    PROVE  WayInv'
  <1>1. UNCHANGED <<client, pool, conn, up, down, seats, player, released>>
    BY DEF vars
  <1>2. Came' = Came /\ Sent' = Sent /\ Reserved' = Reserved /\ Wire' = Wire
    BY <1>1 DEF Came, Sent, Reserved, Used, Wire
  <1>3. HomeInv'
    BY <1>1, <1>2 DEF WayInv, HomeInv, GoodFrame, Used
  <1>4. OwnInv'
    BY <1>1 DEF WayInv, OwnInv, Used
  <1>5. Gifts' = Gifts
    BY <1>1, <1>2 DEF Gifts
  <1>6. ReserveInv' /\ ConnsBelow' /\ SeatsBelow'
    BY <1>1, <1>2, <1>5 DEF WayInv, ReserveInv, ConnsBelow, SeatsBelow
  <1> QED
    BY <1>3, <1>4, <1>6 DEF WayInv

LEMMA WayStart ==
    ASSUME Init
    PROVE  WayInv
  <1>0. ShapeInv
    BY Start DEF Inv
  <1>1. /\ \A p \in Slot : ~Used(p)
        /\ \A p \in 0 .. Cap - 1 : pool.last[p] = 0
    <2>0. Cap \in Nat \ {0}
      BY Limits
    <2> DEFINE pl == Conns!NewPool
    <2>1. pl = [free |-> [k \in 1 .. Cap |-> k - 1], last |-> [q \in 0 .. Cap - 1 |-> 0], valid |-> {}]
      BY DEF Conns!NewPool, Conns!Position
    <2>2. pl.valid = {} /\ pl.last = [q \in 0 .. Cap - 1 |-> 0]
      BY <2>1
    <2> HIDE DEF pl
    <2>3. Head(pl.free) = 0
      BY <2>0, <2>1, NewPools
    <2>4. Conns!AllocIdx(pl) = 0
      BY <2>0, <2>2, <2>3 DEF Conns!AllocIdx, Conns!NextIdx
    <2>5. pool = Conns!AfterAlloc(pl)
      BY DEF Init, pl
    <2>6. pool.valid = {0} /\ pool.last = [pl.last EXCEPT ![0] = 0]
      BY <2>2, <2>3, <2>4, <2>5 DEF Conns!AfterAlloc
    <2> QED
      BY <2>0, <2>2, <2>6 DEF Used, Slot
  <1>2. seats.valid = {} /\ \A q \in 0 .. PlayerCap - 1 : seats.last[q] = 0
    BY DEF Init, Players!NewPool, Players!Position
  <1>3. up = <<>> /\ down = <<>> /\ released = 0 /\ \A c \in Client : client[c].at = "out"
    BY DEF Init
  <1>4. Came = {} /\ Reserved = {} /\ Number({}) = 0 /\ Sent = {}
    BY <1>1, <1>3, FS_EmptySet DEF Came, Reserved, Sent, Number
  <1>5. HowMany(up, "START") = 0 /\ HowMany(down, "NOTIFY") = 0
    <2>1. \A cmd : Places(<<>>, cmd) = {}
      BY DEF Places
    <2> QED
      BY <1>3, <2>1, FS_EmptySet DEF HowMany
  <1>6. HomeInv
    <2>1. Wire = {}
      BY <1>3 DEF Wire, Range
    <2> QED
      BY <1>1, <1>2, <2>1 DEF HomeInv
  <1>7. OwnInv
    BY <1>1 DEF OwnInv
  <1>8. Gifts = 0
    BY <1>3, <1>4 DEF Gifts
  <1>9. ReserveInv
    BY <1>3, <1>5, <1>8, TconndAssumption DEF ReserveInv
  <1>10. ConnsBelow /\ SeatsBelow
    <2>1. Cap * 1 > 0 /\ PlayerCap * 1 > 0
      BY Limits
    <2>2. Below(pool, Cap, 0) /\ Below(seats, PlayerCap, 0)
      BY <1>1, <1>2, <2>1 DEF Below
    <2>3. ConnsBelow
      BY <1>4, <1>8, <2>2 DEF ConnsBelow
    <2>4. SeatsBelow
      BY <1>4, <1>5, <2>2 DEF SeatsBelow
    <2> QED
      BY <2>3, <2>4
  <1> QED
    BY <1>6, <1>7, <1>9, <1>10 DEF WayInv

\* Frames come home: a frame that names a live connection or session was sent for the
\* client that has it now.  The counters of the pools never come to where they
\* start anew, a client has one connection, and a handle was never ahead of its
\* block, wherever it is kept.
THEOREM HomeComing == Spec => []FramesComeHome
  <1>1. Init => WayInv
    BY WayStart
  <1>2. Inv /\ Inv' /\ WayInv /\ [Next]_vars => WayInv'
    BY WayStep, WayStill DEF Inv
  <1>3. ASSUME Inv, WayInv PROVE FramesComeHome
    <2>1. ASSUME NEW f \in Range(down), f.cmd # "NOTIFY", Alive(f.idx)
          PROVE  conn[Pos(f.idx)].who = f.who
      <3>1. HomeIn(pool, conn, f.idx, f.who)
        BY <1>3, <2>1 DEF WayInv, HomeInv, Wire, GoodFrame
      <3> QED
        BY <2>1, <3>1 DEF HomeIn, Alive, Conns!Live, Pos
    <2>2. ASSUME NEW f \in Range(up), f.id # -1, SeatOf(f.id) # 0, Seated(f.id)
          PROVE  player[SeatOf(f.id)].who = f.who
      <3>1. SeatIn(seats, player, f.id, f.who)
        BY <1>3 DEF WayInv, HomeInv, Wire, GoodFrame
      <3> QED
        BY <2>2, <3>1 DEF SeatIn, Seated, Players!Live, SeatOf
    <2> QED
      BY <2>1, <2>2 DEF FramesComeHome
  <1> QED
    BY <1>1, <1>2, <1>3, Invariance, PTL DEF Spec
=============================================================================
