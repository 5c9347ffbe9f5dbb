----------------------------- MODULE TbusRecvProofs -----------------------------
(***************************************************************************)
(* Proofs about TbusRecv: for any channels, requests, configurations and   *)
(* limit, the set of channels of a handle is free of duplicates and the    *)
(* one the recorded version lists; and, if polls are open or name one      *)
(* channel, no channel waits for more than TBUS_MAX_RECV_CNT messages of   *)
(* each other one.                                                         *)
(***************************************************************************)
EXTENDS TbusRecv, FiniteSetTheorems, TLAPS

\* The application leaves both addresses open or names both.
OpenOrOne == \A r \in Requests : Unspecified(r) => r.src = AnyAddr /\ r.dst = AnyAddr

\* A scan of all channels begins at iRecvPos and has passed over channels that are not
\* selected only: an empty one moves iRecvPos behind it.
ScanInv ==
    pc = "scan" /\ Unspecified(req) =>
        /\ iRecvPos >= 0 /\ dwRecvPkgCnt < MaxRecv
        /\ i < Cnt => /\ iRecvPos <= i
                      /\ \A k \in iRecvPos .. i - 1 : ~Selected(chans[k + 1])

\* While channels are closed and attached nobody is passed over.
CloseInv == pc = "close" => \A c \in Chan : bypass[c] = 0

\* How many places lie between position p and place k, of n.
Ahead(n, k, p) == IF k - 1 >= p THEN k - 1 - p ELSE k - 1 - p + n

\* The channel at place k of n, of which b messages were preferred while the position is p
\* and m messages were taken there: each place the position has left had its share.
Turn(n, k, p, m, b) ==
    /\ p \notin 0 .. n - 1 => b = 0
    /\ p = k - 1 => b <= MaxRecv * (n - 1) /\ (m > 0 => b = 0)
    /\ p \in 0 .. n - 1 /\ p # k - 1 => b <= MaxRecv * (n - 1 - Ahead(n, k, p)) + m

TurnInv ==
    \A k \in 1 .. Cnt :
        Waiting(chans[k]) => Turn(Cnt, k, iRecvPos, dwRecvPkgCnt, bypass[chans[k]])

\* The inductive invariants: of the set of channels, and of the turns.
SetInv == TypeOK /\ ScanInv /\ NoDuplicate /\ InSync
IInv   == SetInv /\ CloseInv /\ TurnInv
-----------------------------------------------------------------------------
\* The bounds are numbers.
LEMMA Limits ==
    MaxRecv \in Nat \ {0} /\ MaxQueue \in Nat \ {0} /\ \A G \in Configs : G \subseteq Chan
  BY RecvAssumption

(***************************************************************************)
(* Arithmetic of the turns                                                 *)
(***************************************************************************)

\* Shares of whole turns: one place more is MaxRecv messages more.
LEMMA Shares ==
    ASSUME NEW a \in Nat, NEW b \in Nat, a < b
    PROVE  MaxRecv * a \in Nat /\ MaxRecv * b \in Nat /\ MaxRecv * a + MaxRecv <= MaxRecv * b
  <1>1. MaxRecv \in Nat \ {0}
    BY Limits
  <1>2. PICK d \in Nat : b = a + 1 + d
    <2>1. b - a - 1 \in Nat /\ b = a + 1 + (b - a - 1)
      OBVIOUS
    <2> QED
      BY <2>1
  <1>3. MaxRecv * a \in Nat /\ MaxRecv * d \in Nat
    BY <1>1
  <1>4. MaxRecv * b = MaxRecv * a + MaxRecv + MaxRecv * d
    BY <1>1, <1>2
  <1> QED
    BY <1>1, <1>3, <1>4

\* A scan that begins has passed over nobody.
LEMMA NoPlaces ==
    \A a \in Nat : a <= a /\ a .. a - 1 = {}
  OBVIOUS

\* The remainder of the next position.
LEMMA NextPlace ==
    ASSUME NEW n \in Nat \ {0}, NEW p \in Nat
    PROVE  /\ (p + 1) % n \in 0 .. n - 1
           /\ p < n => (p + 1) % n = IF p + 1 = n THEN 0 ELSE p + 1
  <1>1. (p + 1) % n \in 0 .. n - 1
    OBVIOUS
  <1>2. ASSUME p + 1 = n PROVE (p + 1) % n = 0
    BY <1>2
  <1>3. ASSUME p + 1 < n PROVE (p + 1) % n = p + 1
    BY <1>3
  <1> QED
    BY <1>1, <1>2, <1>3

\* Nobody has been passed over: the turn is anybody's.
LEMMA TurnZero ==
    ASSUME NEW n \in Nat, NEW k \in 1 .. n, NEW p \in Int, NEW m \in Nat
    PROVE  Turn(n, k, p, m, 0)
  <1>1. MaxRecv * (n - 1) \in Nat
    BY Limits
  <1>2. p \in 0 .. n - 1 => n - 1 - Ahead(n, k, p) \in Nat
    BY DEF Ahead
  <1>3. p \in 0 .. n - 1 => MaxRecv * (n - 1 - Ahead(n, k, p)) \in Nat
    BY <1>2, Limits
  <1> QED
    BY <1>1, <1>3 DEF Turn

\* The position moves on to behind place j, not past k.
LEMMA TurnMove ==
    ASSUME NEW n \in Nat, NEW k \in 1 .. n, NEW p \in 0 .. n - 1, NEW j \in p .. n - 1,
           NEW m \in 0 .. MaxRecv, NEW b \in Nat, Turn(n, k, p, m, b), k - 1 \notin p .. j
    PROVE  Turn(n, k, (j + 1) % n, 0, b)
  <1> DEFINE q == (j + 1) % n
             u == n - 1 - Ahead(n, k, p)
             v == n - 1 - Ahead(n, k, q)
  <1>1. n \in Nat \ {0} /\ j \in Nat /\ j < n
    OBVIOUS
  <1>2. q = IF j + 1 = n THEN 0 ELSE j + 1
    BY <1>1, NextPlace
  <1>3. p # k - 1 /\ b <= MaxRecv * u + m
    BY DEF Turn
  <1>4. u \in Nat /\ u < n - 1 /\ n - 1 \in Nat
    BY <1>3 DEF Ahead
  <1>5. MaxRecv * u \in Nat /\ MaxRecv * u + MaxRecv <= MaxRecv * (n - 1) /\ MaxRecv * (n - 1) \in Nat
    BY <1>4, Shares
  <1>6. MaxRecv \in Nat
    BY Limits
  <1>7. b <= MaxRecv * (n - 1)
    BY <1>3, <1>5, <1>6
  <1>8. q \in 0 .. n - 1
    BY <1>1, <1>2
  <1>9. ASSUME q # k - 1 PROVE b <= MaxRecv * v + 0
    <2>1. v \in Nat /\ u < v
      BY <1>1, <1>2, <1>3, <1>9 DEF Ahead
    <2>2. MaxRecv * v \in Nat /\ MaxRecv * u + MaxRecv <= MaxRecv * v
      BY <1>4, <2>1, Shares
    <2> QED
      BY <1>3, <1>5, <1>6, <2>2
  <1> HIDE DEF q, u, v
  <1>10. Turn(n, k, q, 0, b)
    BY <1>7, <1>8, <1>9 DEF Turn, v
  <1> QED
    BY <1>10 DEF q

\* A message of another channel is taken where the position stands.
LEMMA TurnTake ==
    ASSUME NEW n \in Nat, NEW k \in 1 .. n, NEW p \in 0 .. n - 1, p # k - 1,
           NEW m \in Nat, NEW b \in Nat, Turn(n, k, p, m, b)
    PROVE  Turn(n, k, p, m + 1, b + 1)
  <1> DEFINE s == MaxRecv * (n - 1 - Ahead(n, k, p))
  <1>1. n - 1 - Ahead(n, k, p) \in Nat
    BY DEF Ahead
  <1>2. s \in Nat
    BY <1>1, Limits
  <1>3. b <= s + m
    BY DEF Turn
  <1>4. b + 1 <= s + (m + 1)
    BY <1>2, <1>3
  <1> QED
    BY <1>4 DEF Turn

\* Nobody waits for more than the shares of the others.
LEMMA TurnBound ==
    ASSUME NEW n \in Nat, NEW k \in 1 .. n, NEW p \in Int, NEW m \in 0 .. MaxRecv,
           NEW b \in Nat, Turn(n, k, p, m, b)
    PROVE  b <= MaxRecv * (n - 1)
  <1> DEFINE u == n - 1 - Ahead(n, k, p)
  <1>1. MaxRecv \in Nat /\ MaxRecv * (n - 1) \in Nat
    BY Limits
  <1>2. CASE p \notin 0 .. n - 1
    BY <1>1, <1>2 DEF Turn
  <1>3. CASE p = k - 1
    BY <1>3 DEF Turn
  <1>4. CASE p \in 0 .. n - 1 /\ p # k - 1
    <2>1. u \in Nat /\ u < n - 1 /\ n - 1 \in Nat
      BY <1>4 DEF Ahead
    <2>2. MaxRecv * u \in Nat /\ MaxRecv * u + MaxRecv <= MaxRecv * (n - 1)
      BY <2>1, Shares
    <2>3. b <= MaxRecv * u + m
      BY <1>4 DEF Turn
    <2> HIDE DEF u
    <2> QED
      BY <1>1, <2>2, <2>3
  <1> QED
    BY <1>2, <1>3, <1>4
-----------------------------------------------------------------------------
(***************************************************************************)
(* The sequence of channels                                                *)
(***************************************************************************)

\* What stands in a sequence.
LEMMA Standing ==
    ASSUME NEW s \in Seq(Chan)
    PROVE  /\ Range(s) \subseteq Chan
           /\ \A c : c \in Range(s) <=> \E k \in 1 .. Len(s) : s[k] = c
  BY DEF Range

\* The orders of a set of channels: each of them, once.
LEMMA Orders ==
    ASSUME NEW S \in SUBSET Chan, NEW s \in SetToSeqs(S)
    PROVE  /\ s \in Seq(Chan) /\ Range(s) = S
           /\ \A j, k \in 1 .. Len(s) : s[j] = s[k] => j = k
  <1> DEFINE n == Cardinality(S)
  <1>1. IsFiniteSet(S) /\ n \in Nat
    BY RecvAssumption, FS_Subset, FS_CardinalityType
  <1>2. s \in [1 .. n -> S] /\ \A j, k \in 1 .. n : j # k => s[j] # s[k]
    BY DEF SetToSeqs
  <1>3. s \in Seq(Chan) /\ Len(s) = n
    BY <1>1, <1>2
  <1>4. s \in Injection(1 .. n, S)
    BY <1>2 DEF Injection, IsInjective
  <1>5. Cardinality(1 .. n) = n
    BY <1>1, FS_Interval
  <1>6. s \in Surjection(1 .. n, S)
    BY <1>1, <1>4, <1>5, FS_Injection
  <1>7. Range(s) = S
    BY <1>2, <1>6 DEF Range, Surjection
  <1> QED
    BY <1>2, <1>3, <1>7

\* A channel is closed: the last one takes its place.
LEMMA Closed ==
    ASSUME NEW s \in Seq(Chan), NEW k \in 1 .. Len(s)
    PROVE  LET t == SubSeq([s EXCEPT ![k] = s[Len(s)]], 1, Len(s) - 1)
           IN  /\ t \in Seq(Chan) /\ Len(t) = Len(s) - 1
               /\ \A j \in 1 .. Len(t) : t[j] = IF j = k THEN s[Len(s)] ELSE s[j]
               /\ Range(t) \subseteq Range(s) /\ Range(s) \subseteq Range(t) \cup {s[k]}
  <1> DEFINE n == Len(s)
             e == [s EXCEPT ![k] = s[n]]
             t == SubSeq(e, 1, n - 1)
  <1>1. n \in Nat /\ n >= 1 /\ s \in [1 .. n -> Chan]
    OBVIOUS
  <1>2. e \in Seq(Chan) /\ Len(e) = n
    BY <1>1
  <1>3. \A j \in 1 .. n : e[j] = IF j = k THEN s[n] ELSE s[j]
    BY <1>1
  <1> HIDE DEF e
  <1>4. t \in Seq(Chan) /\ Len(t) = n - 1 /\ \A j \in 1 .. n - 1 : t[j] = e[j]
    BY <1>1, <1>2
  <1> HIDE DEF t
  <1>5. \A j \in 1 .. n - 1 : t[j] = IF j = k THEN s[n] ELSE s[j]
    BY <1>1, <1>3, <1>4
  <1>6. Range(t) \subseteq Range(s)
    BY <1>1, <1>4, <1>5, Standing
  <1>7. ASSUME NEW j \in 1 .. n, s[j] # s[k] PROVE s[j] \in Range(t)
    <2>1. CASE j = n
      <3>1. k \in 1 .. n - 1 /\ k # n
        BY <1>7, <2>1
      <3>2. t[k] = s[n]
        BY <1>5, <3>1
      <3> QED
        BY <1>4, <2>1, <3>1, <3>2, Standing
    <2>2. CASE j # n
      <3>1. j \in 1 .. n - 1 /\ j # k
        BY <1>7, <2>2
      <3>2. t[j] = s[j]
        BY <1>5, <3>1
      <3> QED
        BY <1>4, <3>1, <3>2, Standing
    <2> QED
      BY <2>1, <2>2
  <1>8. ASSUME NEW c \in Range(s) PROVE c \in Range(t) \cup {s[k]}
    <2>1. PICK j \in 1 .. n : s[j] = c
      BY Standing
    <2> QED
      BY <1>7, <2>1
  <1> QED
    BY <1>1, <1>4, <1>5, <1>6, <1>8 DEF t, e

\* Channels are attached behind the others.
LEMMA Attached ==
    ASSUME NEW s \in Seq(Chan), NEW t \in Seq(Chan)
    PROVE  /\ s \o t \in Seq(Chan) /\ Len(s \o t) = Len(s) + Len(t)
           /\ \A j \in 1 .. Len(s) + Len(t) : (s \o t)[j] = IF j <= Len(s) THEN s[j] ELSE t[j - Len(s)]
           /\ Range(s \o t) = Range(s) \cup Range(t)
  <1> DEFINE u == s \o t
  <1>1. u \in Seq(Chan) /\ Len(u) = Len(s) + Len(t)
    OBVIOUS
  <1>2. \A j \in 1 .. Len(s) + Len(t) : u[j] = IF j <= Len(s) THEN s[j] ELSE t[j - Len(s)]
    OBVIOUS
  <1> HIDE DEF u
  <1>3. Range(u) \subseteq Range(s) \cup Range(t)
    <2>1. SUFFICES ASSUME NEW j \in 1 .. Len(u) PROVE u[j] \in Range(s) \cup Range(t)
      BY <1>1, Standing
    <2>2. CASE j <= Len(s)
      BY <1>1, <1>2, <2>2, Standing
    <2>3. CASE j > Len(s)
      <3>1. j - Len(s) \in 1 .. Len(t)
        BY <1>1, <2>3
      <3> QED
        BY <1>1, <1>2, <2>3, <3>1, Standing
    <2> QED
      BY <2>2, <2>3
  <1>4. ASSUME NEW j \in 1 .. Len(s) PROVE s[j] \in Range(u)
    <2>1. j \in 1 .. Len(u) /\ u[j] = s[j]
      BY <1>1, <1>2
    <2> QED
      BY <1>1, <2>1, Standing
  <1>5. ASSUME NEW j \in 1 .. Len(t) PROVE t[j] \in Range(u)
    <2>1. Len(s) + j \in 1 .. Len(u) /\ u[Len(s) + j] = t[j]
      BY <1>1, <1>2
    <2> QED
      BY <1>1, <2>1, Standing
  <1>6. Range(s) \cup Range(t) \subseteq Range(u)
    BY <1>4, <1>5, Standing
  <1> QED
    BY <1>1, <1>2, <1>3, <1>6 DEF u
-----------------------------------------------------------------------------
(***************************************************************************)
(* Types and the scan                                                      *)
(***************************************************************************)

\* What Next can be.
LEMMA Steps ==
    ASSUME Next
    PROVE  \/ \E c \in Chan : \/ Arrive(c) \/ RecvSkip(c) \/ RecvEmpty(c) \/ RecvTake(c)
                              \/ DeleteMsg(c)
           \/ \E o \in {"recv", "peek"}, r \in Requests : RecvBegin(o, r)
           \/ RecvEnd
           \/ \E a, on, all : PeerCtrl(a, on, all)
           \/ \E G \in Configs : Reconfigure(G)
           \/ RefreshBegin \/ CloseNot \/ CloseOverdue \/ RefreshUnchanged
           \/ \E D \in SUBSET Chan : RefreshMap(D)
  <1>1. CASE \E c \in Chan : Arrive(c) \/ RecvStep(c) \/ DeleteMsg(c)
    BY <1>1 DEF RecvStep
  <1>2. CASE \E c \in Chan, on, all \in BOOLEAN : Peer(c) \in CtrlPeers /\ PeerCtrl(Peer(c), on, all)
    BY <1>2
  <1>3. CASE RefreshStep
    BY <1>3 DEF RefreshStep
  <1> QED
    BY <1>1, <1>2, <1>3 DEF Next

\* The set of channels while they are closed and attached.
LEMMA CloseType ==
    ASSUME TypeOK, CloseOverdue
    PROVE  /\ chans' \in Seq(Chan) /\ Cnt' = Cnt - 1 /\ i + 1 \in 1 .. Cnt
           /\ \A j \in 1 .. Cnt' : chans'[j] = IF j = i + 1 THEN chans[Cnt] ELSE chans[j]
           /\ Range(chans') \subseteq Range(chans)
           /\ Range(chans) \subseteq Range(chans') \cup {chans[i + 1]}
  <1>1. chans \in Seq(Chan) /\ i + 1 \in 1 .. Len(chans)
    BY DEF TypeOK, CloseOverdue, Cnt
  <1>2. chans' = SubSeq([chans EXCEPT ![i + 1] = chans[Len(chans)]], 1, Len(chans) - 1)
    BY DEF CloseOverdue, Cnt
  <1> QED
    BY <1>1, <1>2, Closed DEF Cnt

LEMMA MapType ==
    ASSUME TypeOK, NEW D \in SUBSET Chan, RefreshMap(D)
    PROVE  \E s \in Seq(Chan) :
              /\ Range(s) = D \ Range(chans)
              /\ \A j, k \in 1 .. Len(s) : s[j] = s[k] => j = k
              /\ chans' = chans \o s /\ chans' \in Seq(Chan) /\ Cnt' = Cnt + Len(s)
              /\ \A j \in 1 .. Cnt' : chans'[j] = IF j <= Cnt THEN chans[j] ELSE s[j - Cnt]
              /\ Range(chans') = Range(chans) \cup D
  <1>1. D \ Range(chans) \in SUBSET Chan
    OBVIOUS
  <1>2. PICK s \in SetToSeqs(D \ Range(chans)) : chans' = chans \o s
    BY DEF RefreshMap
  <1>3. /\ s \in Seq(Chan) /\ Range(s) = D \ Range(chans)
        /\ \A j, k \in 1 .. Len(s) : s[j] = s[k] => j = k
    BY <1>1, Orders
  <1>4. chans \in Seq(Chan)
    BY DEF TypeOK
  <1>5. /\ chans' \in Seq(Chan) /\ Len(chans') = Len(chans) + Len(s)
        /\ \A j \in 1 .. Len(chans') :
              chans'[j] = IF j <= Len(chans) THEN chans[j] ELSE s[j - Len(chans)]
        /\ Range(chans') = Range(chans) \cup Range(s)
    BY <1>2, <1>3, <1>4, Attached
  <1>6. Range(chans') = Range(chans) \cup D
    BY <1>3, <1>5
  <1> QED
    BY <1>2, <1>3, <1>5, <1>6 DEF Cnt

\* The initial states.
LEMMA SetStart ==
    ASSUME Init
    PROVE  SetInv
  <1>1. /\ chans \in Seq(Chan) /\ Range(chans) = Chan
        /\ \A j, k \in 1 .. Len(chans) : chans[j] = chans[k] => j = k
    BY Orders DEF Init
  <1>2. TypeOK
    <2>1. iRecvPos \in Int /\ -1 <= iRecvPos /\ dwRecvPkgCnt \in 0 .. MaxRecv /\ i \in Nat
      BY Limits DEF Init
    <2>2. queue \in [Chan -> 0 .. MaxQueue] /\ bypass \in [Chan -> Nat]
      BY Limits DEF Init
    <2> QED
      BY <1>1, <2>1, <2>2 DEF Init, TypeOK
  <1>3. ScanInv
    BY DEF Init, ScanInv
  <1>4. NoDuplicate /\ InSync
    BY <1>1 DEF Init, NoDuplicate, InSync, Cnt
  <1> QED
    BY <1>2, <1>3, <1>4 DEF SetInv

\* A step keeps the types.
LEMMA TypeStep ==
    ASSUME TypeOK, ScanInv, [Next]_vars
    PROVE  TypeOK'
  <1> USE Limits DEF handle, pos, gcim, call
  <1>0. /\ chans \in Seq(Chan) /\ Cnt \in Nat /\ MaxRecv \in Nat \ {0}
        /\ iRecvPos \in Int /\ iRecvPos >= -1 /\ i \in Nat
    BY DEF TypeOK, Cnt
  <1>1. ASSUME NEW c \in Chan, Arrive(c) PROVE TypeOK'
    BY <1>1 DEF Arrive, TypeOK
  <1>2. ASSUME NEW c \in Chan, RecvSkip(c) PROVE TypeOK'
    BY <1>2 DEF RecvSkip, TypeOK
  <1>3. ASSUME NEW c \in Chan, RecvEmpty(c) PROVE TypeOK'
    <2>1. i < Cnt
      BY <1>3 DEF RecvEmpty, At
    <2> DEFINE q == (i + 1) % Cnt
    <2>2. q \in Nat
      BY <1>0, <2>1, NextPlace
    <2>3. iRecvPos' = q \/ iRecvPos' = iRecvPos
      BY <1>3 DEF RecvEmpty
    <2> HIDE DEF q
    <2>4. iRecvPos' \in Int /\ -1 <= iRecvPos'
      BY <1>0, <2>2, <2>3
    <2>5. dwRecvPkgCnt' \in 0 .. MaxRecv /\ i' \in Nat /\ pc' \in {"idle", "scan", "close"}
      BY <1>0, <1>3 DEF RecvEmpty, TypeOK
    <2> QED
      BY <1>3, <2>4, <2>5 DEF RecvEmpty, TypeOK
  <1>4. ASSUME NEW c \in Chan, RecvTake(c) PROVE TypeOK'
    <2>1. dwRecvPkgCnt' \in 0 .. MaxRecv
      <3>1. Unspecified(req) => dwRecvPkgCnt < MaxRecv
        BY <1>4 DEF RecvTake, At, ScanInv
      <3> QED
        BY <1>0, <1>4, <3>1 DEF RecvTake, TypeOK
    <2>2. bypass' \in [Chan -> Nat]
      BY <1>4 DEF RecvTake, TypeOK
    <2>3. queue' \in [Chan -> 0 .. MaxQueue]
      BY <1>4 DEF RecvTake, TypeOK
    <2> QED
      BY <1>4, <2>1, <2>2, <2>3 DEF RecvTake, TypeOK
  <1>5. ASSUME NEW c \in Chan, DeleteMsg(c) PROVE TypeOK'
    BY <1>5 DEF DeleteMsg, TypeOK
  <1>6. ASSUME NEW o \in {"recv", "peek"}, NEW r \in Requests, RecvBegin(o, r) PROVE TypeOK'
    <2>1. Cnt \in Nat \ {0}
      BY <1>0, <1>6 DEF RecvBegin
    <2> DEFINE q == (iRecvPos + 1) % Cnt
    <2>2. iRecvPos # -1 => iRecvPos \in Nat /\ q \in Nat
      BY <1>0, <2>1, NextPlace
    <2>3. \/ iRecvPos' = iRecvPos /\ (i' = 0 \/ (iRecvPos # -1 /\ i' = iRecvPos))
          \/ iRecvPos' = 0 /\ i' = 0
          \/ iRecvPos # -1 /\ iRecvPos' = q /\ i' = q
      BY <1>6 DEF RecvBegin
    <2>4. dwRecvPkgCnt' = 0 \/ dwRecvPkgCnt' = dwRecvPkgCnt
      BY <1>6 DEF RecvBegin
    <2> HIDE DEF q
    <2>5. iRecvPos' \in Int /\ -1 <= iRecvPos' /\ i' \in Nat
      BY <1>0, <2>2, <2>3
    <2>6. dwRecvPkgCnt' \in 0 .. MaxRecv
      BY <1>0, <2>4 DEF TypeOK
    <2> QED
      BY <1>6, <2>5, <2>6 DEF RecvBegin, TypeOK
  <1>7. ASSUME RecvEnd PROVE TypeOK'
    BY <1>7 DEF RecvEnd, TypeOK
  <1>8. ASSUME NEW a, NEW on, NEW all, PeerCtrl(a, on, all) PROVE TypeOK'
    <2> DEFINE peers == {k \in 1 .. Cnt : chans[k] \in enabled /\ Peer(chans[k]) = a}
               hit   == {chans[k] : k \in {k \in peers : all \/ \A j \in peers : k <= j}}
    <2>1. hit \subseteq Chan
      BY <1>0 DEF Cnt
    <2>2. /\ dstEnabled' = IF on THEN dstEnabled \cup hit ELSE dstEnabled \ hit
          /\ bypass' = [c \in Chan |-> IF c \in hit THEN 0 ELSE bypass[c]]
          /\ UNCHANGED <<chans, enabled, pos, gcim, queue, call>>
      BY <1>8 DEF PeerCtrl
    <2> HIDE DEF hit
    <2>3. dstEnabled' \subseteq Chan /\ bypass' \in [Chan -> Nat]
      BY <2>1, <2>2 DEF TypeOK
    <2> QED
      BY <2>2, <2>3 DEF TypeOK
  <1>9. ASSUME NEW G \in Configs, Reconfigure(G) PROVE TypeOK'
    BY <1>9 DEF Reconfigure, TypeOK
  <1>10. ASSUME RefreshBegin PROVE TypeOK'
    BY <1>10 DEF RefreshBegin, TypeOK
  <1>11. ASSUME CloseNot PROVE TypeOK'
    BY <1>11 DEF CloseNot, TypeOK
  <1>12. ASSUME CloseOverdue PROVE TypeOK'
    <2>1. chans' \in Seq(Chan)
      BY <1>12, CloseType
    <2> QED
      BY <1>12, <2>1 DEF CloseOverdue, TypeOK
  <1>13. ASSUME RefreshUnchanged PROVE TypeOK'
    BY <1>13 DEF RefreshUnchanged, TypeOK
  <1>14. ASSUME NEW D \in SUBSET Chan, RefreshMap(D) PROVE TypeOK'
    <2>1. chans' \in Seq(Chan)
      BY <1>14, MapType
    <2> QED
      BY <1>14, <2>1 DEF RefreshMap, TypeOK
  <1>15. CASE UNCHANGED vars
    BY <1>15 DEF vars, TypeOK
  <1> QED
    BY <1>1, <1>2, <1>3, <1>4, <1>5, <1>6, <1>7, <1>8, <1>9, <1>10, <1>11, <1>12, <1>13, <1>14,
       <1>15, Steps

\* A step keeps the scan.
LEMMA ScanStep ==
    ASSUME TypeOK, ScanInv, [Next]_vars
    PROVE  ScanInv'
  <1> USE DEF handle, pos, gcim, call
  <1>0. /\ chans \in Seq(Chan) /\ Cnt \in Nat /\ i \in Nat
        /\ iRecvPos \in Int /\ iRecvPos >= -1 /\ dwRecvPkgCnt \in Nat
    BY Limits DEF TypeOK, Cnt
  <1>1. ASSUME UNCHANGED <<pc, req, i, iRecvPos, dwRecvPkgCnt, chans, enabled, dstEnabled>>
        PROVE  ScanInv'
    BY <1>1 DEF ScanInv, Selected, Matches, Unspecified, Cnt
  <1>2. ASSUME pc' # "scan" PROVE ScanInv'
    BY <1>2 DEF ScanInv
  <1>3. ASSUME NEW c \in Chan, RecvSkip(c) PROVE ScanInv'
    <2>1. /\ pc = "scan" /\ i < Cnt /\ ~Selected(chans[i + 1])
          /\ i' = i + 1 /\ UNCHANGED <<pc, req, iRecvPos, dwRecvPkgCnt, chans, enabled, dstEnabled>>
      BY <1>3 DEF RecvSkip, At
    <2>2. \A d : Selected(d)' = Selected(d)
      BY <2>1 DEF Selected, Matches
    <2>3. Cnt' = Cnt /\ Unspecified(req)' = Unspecified(req)
      BY <2>1 DEF Cnt, Unspecified
    <2>4. ASSUME Unspecified(req)
          PROVE  /\ iRecvPos >= 0 /\ dwRecvPkgCnt < MaxRecv /\ iRecvPos <= i
                 /\ \A k \in iRecvPos .. i - 1 : ~Selected(chans[k + 1])
      BY <2>1, <2>4 DEF ScanInv
    <2>5. ASSUME Unspecified(req), NEW k \in iRecvPos .. i PROVE ~Selected(chans[k + 1])
      <3>1. CASE k = i
        BY <2>1, <3>1
      <3>2. CASE k # i
        BY <1>0, <2>4, <2>5, <3>2
      <3> QED
        BY <3>1, <3>2
    <2>6. ASSUME Unspecified(req), NEW k \in iRecvPos' .. i' - 1 PROVE ~Selected(chans[k + 1])'
      <3>1. k \in iRecvPos .. i /\ chans' = chans
        BY <1>0, <2>1
      <3>2. ~Selected(chans[k + 1])
        BY <2>5, <2>6, <3>1
      <3> QED
        BY <2>1, <3>1, <3>2 DEF Selected, Matches
    <2>7. Unspecified(req) => iRecvPos' <= i'
      BY <1>0, <2>1, <2>4
    <2> QED
      BY <2>1, <2>3, <2>4, <2>6, <2>7 DEF ScanInv
  <1>4. ASSUME NEW c \in Chan, RecvEmpty(c) PROVE ScanInv'
    <2>1. i < Cnt /\ UNCHANGED <<req, chans>>
      BY <1>4 DEF RecvEmpty, At
    <2>2. CASE ~Unspecified(req)
      BY <2>1, <2>2 DEF ScanInv, Unspecified
    <2>3. CASE Unspecified(req)
      <3> DEFINE q == (i + 1) % Cnt
      <3>1. iRecvPos' = q /\ dwRecvPkgCnt' = 0 /\ i' = i + 1
        BY <1>4, <2>3 DEF RecvEmpty
      <3>6. Cnt \in Nat \ {0}
        BY <1>0, <2>1
      <3>2. q = IF i + 1 = Cnt THEN 0 ELSE i + 1
        BY <1>0, <2>1, <3>6, NextPlace
      <3> HIDE DEF q
      <3>3. iRecvPos' >= 0 /\ dwRecvPkgCnt' < MaxRecv
        BY <1>0, <3>1, <3>2, Limits
      <3>4. ASSUME i' < Cnt' PROVE iRecvPos' = i'
        BY <1>0, <2>1, <3>1, <3>2, <3>4 DEF Cnt
      <3>5. i' < Cnt' => iRecvPos' <= i' /\ \A k \in iRecvPos' .. i' - 1 : FALSE
        BY <1>0, <3>1, <3>4
      <3> QED
        BY <3>3, <3>5 DEF ScanInv
    <2> QED
      BY <2>2, <2>3
  <1>5. ASSUME NEW o, NEW r \in Requests, RecvBegin(o, r) PROVE ScanInv'
    <2>1. req' = r /\ chans' = chans /\ Cnt > 0
      BY <1>5 DEF RecvBegin
    <2>2. CASE ~Unspecified(r)
      BY <2>1, <2>2 DEF ScanInv, Unspecified
    <2>3. CASE Unspecified(r)
      <3> DEFINE q == (iRecvPos + 1) % Cnt
      <3>1. iRecvPos # -1 => q \in Nat
        BY <1>0, <2>1, NextPlace
      <3>2. /\ i' = iRecvPos'
            /\ \/ iRecvPos' = 0 /\ dwRecvPkgCnt' = 0
               \/ iRecvPos # -1 /\ iRecvPos' = q /\ dwRecvPkgCnt' = 0
               \/ iRecvPos # -1 /\ iRecvPos' = iRecvPos /\ dwRecvPkgCnt' = dwRecvPkgCnt /\ dwRecvPkgCnt < MaxRecv
        BY <1>5, <2>3 DEF RecvBegin
      <3> HIDE DEF q
      <3>3. iRecvPos' \in Nat /\ dwRecvPkgCnt' < MaxRecv
        BY <1>0, <3>1, <3>2, Limits
      <3>5. i' = iRecvPos'
        BY <3>2
      <3>4. iRecvPos' <= i' /\ iRecvPos' .. i' - 1 = {}
        BY <3>3, <3>5, NoPlaces
      <3> QED
        BY <3>3, <3>4 DEF ScanInv
    <2> QED
      BY <2>2, <2>3
  <1>6. ASSUME NEW c \in Chan, Arrive(c) \/ DeleteMsg(c) PROVE ScanInv'
    BY <1>1, <1>6 DEF Arrive, DeleteMsg
  <1>7. ASSUME NEW c \in Chan, RecvTake(c) PROVE ScanInv'
    BY <1>2, <1>7 DEF RecvTake
  <1>8. ASSUME RecvEnd \/ RefreshBegin \/ RefreshUnchanged PROVE ScanInv'
    BY <1>2, <1>8 DEF RecvEnd, RefreshBegin, RefreshUnchanged
  <1>9. ASSUME CloseNot \/ CloseOverdue PROVE ScanInv'
    BY <1>2, <1>9 DEF CloseNot, CloseOverdue
  <1>10. ASSUME NEW D \in SUBSET Chan, RefreshMap(D) PROVE ScanInv'
    BY <1>2, <1>10 DEF RefreshMap
  <1>11. ASSUME NEW a, NEW on, NEW all, PeerCtrl(a, on, all) PROVE ScanInv'
    BY <1>2, <1>11 DEF PeerCtrl
  <1>12. ASSUME NEW G \in Configs, Reconfigure(G) PROVE ScanInv'
    BY <1>1, <1>12 DEF Reconfigure
  <1>13. CASE UNCHANGED vars
    BY <1>1, <1>13 DEF vars
  <1> QED
    BY <1>3, <1>4, <1>5, <1>6, <1>7, <1>8, <1>9, <1>10, <1>11, <1>12, <1>13, Steps
-----------------------------------------------------------------------------
(***************************************************************************)
(* The set of channels                                                     *)
(***************************************************************************)

\* What most steps leave alone.
LEMMA SameSet ==
    ASSUME [Next]_vars
    PROVE  \/ UNCHANGED <<chans, enabled, config, changed>>
           \/ \E G \in Configs : Reconfigure(G)
           \/ CloseOverdue
           \/ \E D \in SUBSET Chan : RefreshMap(D)
  <1> USE DEF handle, pos, gcim, call
  <1>1. ASSUME NEW c \in Chan, Arrive(c) \/ RecvSkip(c) \/ RecvEmpty(c) \/ RecvTake(c) \/ DeleteMsg(c)
        PROVE  UNCHANGED <<chans, enabled, config, changed>>
    BY <1>1 DEF Arrive, RecvSkip, RecvEmpty, RecvTake, DeleteMsg
  <1>2. ASSUME NEW o, NEW r, RecvBegin(o, r)
        PROVE  UNCHANGED <<chans, enabled, config, changed>>
    BY <1>2 DEF RecvBegin
  <1>3. ASSUME RecvEnd \/ RefreshBegin \/ CloseNot \/ RefreshUnchanged
        PROVE  UNCHANGED <<chans, enabled, config, changed>>
    BY <1>3 DEF RecvEnd, RefreshBegin, CloseNot, RefreshUnchanged
  <1>4. ASSUME NEW a, NEW on, NEW all, PeerCtrl(a, on, all)
        PROVE  UNCHANGED <<chans, enabled, config, changed>>
    BY <1>4 DEF PeerCtrl
  <1>5. CASE UNCHANGED vars
    BY <1>5 DEF vars
  <1> QED
    BY <1>1, <1>2, <1>3, <1>4, <1>5, Steps

\* A step attaches no channel twice.
LEMMA NoDuplicateStep ==
    ASSUME TypeOK, NoDuplicate, [Next]_vars
    PROVE  NoDuplicate'
  <1>1. chans \in Seq(Chan) /\ Cnt \in Nat /\ i \in Nat
    BY DEF TypeOK, Cnt
  <1>2. ASSUME UNCHANGED chans PROVE NoDuplicate'
    BY <1>2 DEF NoDuplicate, Cnt
  <1>3. ASSUME CloseOverdue PROVE NoDuplicate'
    <2>1. /\ Cnt' = Cnt - 1 /\ i + 1 \in 1 .. Cnt
          /\ \A j \in 1 .. Cnt' : chans'[j] = IF j = i + 1 THEN chans[Cnt] ELSE chans[j]
      BY <1>3, CloseType
    <2>2. SUFFICES ASSUME NEW j \in 1 .. Cnt', NEW k \in 1 .. Cnt', chans'[j] = chans'[k]
                   PROVE  j = k
      BY DEF NoDuplicate
    <2>3. \A a, b \in 1 .. Cnt : chans[a] = chans[b] => a = b
      BY DEF NoDuplicate
    <2>4. j \in 1 .. Cnt /\ k \in 1 .. Cnt /\ j # Cnt /\ k # Cnt /\ Cnt \in 1 .. Cnt
      BY <1>1, <2>1
    <2>5. CASE j = i + 1 /\ k # i + 1
      BY <2>1, <2>2, <2>3, <2>4, <2>5
    <2>6. CASE j # i + 1 /\ k = i + 1
      BY <2>1, <2>2, <2>3, <2>4, <2>6
    <2>7. CASE j # i + 1 /\ k # i + 1
      BY <2>1, <2>2, <2>3, <2>4, <2>7
    <2> QED
      BY <2>5, <2>6, <2>7
  <1>4. ASSUME NEW D \in SUBSET Chan, RefreshMap(D) PROVE NoDuplicate'
    <2>1. PICK s \in Seq(Chan) :
              /\ Range(s) = D \ Range(chans)
              /\ \A j, k \in 1 .. Len(s) : s[j] = s[k] => j = k
              /\ Cnt' = Cnt + Len(s)
              /\ \A j \in 1 .. Cnt' : chans'[j] = IF j <= Cnt THEN chans[j] ELSE s[j - Cnt]
      BY <1>4, MapType
    <2>2. ASSUME NEW j \in 1 .. Cnt', NEW k \in 1 .. Cnt', j <= Cnt, ~(k <= Cnt)
          PROVE  chans'[j] # chans'[k]
      <3>1. j \in 1 .. Cnt /\ k - Cnt \in 1 .. Len(s)
        BY <1>1, <2>1, <2>2
      <3>2. chans'[j] \in Range(chans) /\ chans'[k] \in Range(s)
        <4>1. chans'[j] = chans[j] /\ chans'[k] = s[k - Cnt]
          BY <2>1, <2>2
        <4>2. Cnt = Len(chans)
          BY DEF Cnt
        <4> QED
          BY <1>1, <3>1, <4>1, <4>2, Standing
      <3> QED
        BY <2>1, <3>2
    <2>3. ASSUME NEW j \in 1 .. Cnt', NEW k \in 1 .. Cnt', chans'[j] = chans'[k], j <= Cnt, k <= Cnt
          PROVE  j = k
      <3>1. j \in 1 .. Cnt /\ k \in 1 .. Cnt /\ chans[j] = chans[k]
        BY <1>1, <2>1, <2>3
      <3> QED
        BY <3>1 DEF NoDuplicate
    <2>4. ASSUME NEW j \in 1 .. Cnt', NEW k \in 1 .. Cnt', chans'[j] = chans'[k], ~(j <= Cnt), ~(k <= Cnt)
          PROVE  j = k
      <3>1. j - Cnt \in 1 .. Len(s) /\ k - Cnt \in 1 .. Len(s) /\ s[j - Cnt] = s[k - Cnt]
        BY <1>1, <2>1, <2>4
      <3>2. j - Cnt = k - Cnt
        BY <2>1, <3>1
      <3> QED
        BY <1>1, <2>1, <3>2
    <2> QED
      BY <2>2, <2>3, <2>4 DEF NoDuplicate
  <1> QED
    BY <1>2, <1>3, <1>4, SameSet DEF Reconfigure, handle

\* A step that records the version has the channels it lists.
LEMMA InSyncStep ==
    ASSUME TypeOK, InSync, [Next]_vars
    PROVE  InSync'
  <1>1. CASE UNCHANGED <<chans, enabled, config, changed>>
    BY <1>1 DEF InSync
  <1>2. ASSUME NEW G \in Configs, Reconfigure(G) PROVE InSync'
    BY <1>2 DEF Reconfigure, InSync
  <1>3. CASE CloseOverdue
    <2>1. /\ Range(chans') \subseteq Range(chans)
          /\ Range(chans) \subseteq Range(chans') \cup {chans[i + 1]}
      BY <1>3, CloseType
    <2>2. chans[i + 1] \notin enabled /\ UNCHANGED <<enabled, config, changed>>
      BY <1>3 DEF CloseOverdue, gcim
    <2>3. Range(chans') \cap enabled = Range(chans) \cap enabled
      BY <2>1, <2>2
    <2> QED
      BY <2>2, <2>3 DEF InSync
  <1>4. ASSUME NEW D \in SUBSET Chan, RefreshMap(D) PROVE InSync'
    <2>1. Range(chans') = Range(chans) \cup D
      BY <1>4, MapType
    <2>2. enabled' = (enabled \cap config) \cup D /\ config' = config /\ changed' = (D # config)
      BY <1>4 DEF RefreshMap
    <2> QED
      BY <2>1, <2>2 DEF InSync
  <1> QED
    BY <1>1, <1>2, <1>3, <1>4, SameSet

\* The inductive invariant of the set of channels.
LEMMA SetStep ==
    ASSUME SetInv, [Next]_vars
    PROVE  SetInv'
  BY TypeStep, ScanStep, NoDuplicateStep, InSyncStep DEF SetInv

LEMMA SetCorrect == Spec => []SetInv
  BY SetStart, SetStep, PTL DEF Spec

\* Type correctness for any channels, requests and configurations.
THEOREM RecvTypeCorrect == Spec => []TypeOK
  <1>1. SetInv => TypeOK
    BY DEF SetInv
  <1> QED
    BY <1>1, SetCorrect, PTL

\* A handle never holds a channel twice (tbus_refresh_handle looks for it first).
THEOREM NeverTwice == Spec => []NoDuplicate
  <1>1. SetInv => NoDuplicate
    BY DEF SetInv
  <1> QED
    BY <1>1, SetCorrect, PTL

\* A handle that has recorded the version of the GCIM has its channels.
THEOREM StaysInSync == Spec => []InSync
  <1>1. SetInv => InSync
    BY DEF SetInv
  <1> QED
    BY <1>1, SetCorrect, PTL
-----------------------------------------------------------------------------
(***************************************************************************)
(* The turns                                                               *)
(***************************************************************************)

\* A poll of one channel matches that channel only.
LEMMA OneMatch ==
    ASSUME TypeOK, OpenOrOne, NEW r \in Requests, NEW c \in Chan, NEW d \in Chan,
           Matches(c, r), Matches(d, r), c # d
    PROVE  Unspecified(r)
  <1>1. c = <<c[1], c[2]>> /\ d = <<d[1], d[2]>>
    BY RecvAssumption
  <1>2. SUFFICES ASSUME ~Unspecified(r) PROVE FALSE
    OBVIOUS
  <1>3. r.src = c[2] /\ r.dst = c[1] /\ r.src = d[2] /\ r.dst = d[1]
    BY <1>2 DEF Matches, Unspecified, Peer, Local
  <1> QED
    BY <1>1, <1>3

\* An open poll matches every channel.
LEMMA OpenMatch ==
    ASSUME OpenOrOne, NEW r \in Requests, Unspecified(r), NEW c \in Chan
    PROVE  Matches(c, r)
  BY DEF OpenOrOne, Matches

\* Nobody has been passed over, or only whom this step does not concern.
LEMMA TurnReset ==
    ASSUME TypeOK', \A c \in Chan : bypass'[c] = 0
    PROVE  TurnInv'
  <1>1. Cnt' \in Nat /\ iRecvPos' \in Int /\ dwRecvPkgCnt' \in Nat /\ chans' \in Seq(Chan)
    BY Limits DEF TypeOK, Cnt
  <1>2. SUFFICES ASSUME NEW k \in 1 .. Cnt'
                 PROVE  Turn(Cnt', k, iRecvPos', dwRecvPkgCnt', bypass'[chans'[k]])
    BY DEF TurnInv, Turn, Ahead
  <1>3. chans'[k] \in Chan
    BY <1>1 DEF Cnt
  <1>4. bypass'[chans'[k]] = 0
    BY <1>3
  <1> QED
    BY <1>1, <1>4, TurnZero

LEMMA TurnSame ==
    ASSUME TypeOK, TypeOK', TurnInv, UNCHANGED <<chans, iRecvPos, dwRecvPkgCnt>>,
           \A c \in Chan : Waiting(c)' => bypass'[c] = 0 \/ (Waiting(c) /\ bypass'[c] = bypass[c])
    PROVE  TurnInv'
  <1>1. /\ Cnt \in Nat /\ iRecvPos \in Int /\ dwRecvPkgCnt \in Nat /\ chans \in Seq(Chan)
        /\ Cnt' = Cnt
    BY Limits DEF TypeOK, Cnt
  <1>2. SUFFICES ASSUME NEW k \in 1 .. Cnt, Waiting(chans[k])'
                 PROVE  Turn(Cnt, k, iRecvPos, dwRecvPkgCnt, bypass'[chans[k]])
    BY <1>1 DEF TurnInv, Turn, Ahead
  <1> DEFINE c == chans[k]
  <1>3. c \in Chan /\ c' = c
    BY <1>1 DEF Cnt
  <1>4. bypass'[c] = 0 \/ (Waiting(c) /\ bypass'[c] = bypass[c])
    BY <1>2, <1>3
  <1>5. CASE bypass'[c] = 0
    BY <1>1, <1>5, TurnZero
  <1>6. CASE Waiting(c) /\ bypass'[c] = bypass[c]
    BY <1>6 DEF TurnInv
  <1> QED
    BY <1>4, <1>5, <1>6

\* The turns when a call begins ...
LEMMA TurnBegin ==
    ASSUME TypeOK, TypeOK', TurnInv, NEW o, NEW r \in Requests, RecvBegin(o, r)
    PROVE  TurnInv'
  <1> USE DEF handle, pos, gcim, call
  <1>0. /\ Cnt \in Nat \ {0} /\ iRecvPos \in Int /\ iRecvPos >= -1 /\ dwRecvPkgCnt \in 0 .. MaxRecv
        /\ chans \in Seq(Chan) /\ bypass \in [Chan -> Nat]
    BY DEF TypeOK, Cnt, RecvBegin
  <1>1. UNCHANGED <<chans, enabled, dstEnabled, queue, bypass>>
    BY DEF RecvBegin
  <1>2. \A c : Waiting(c)' = Waiting(c)
    BY <1>1 DEF Waiting
  <1>3. CASE UNCHANGED pos
    BY <1>1, <1>2, <1>3, TurnSame
  <1>4. CASE ~UNCHANGED pos
    <2> DEFINE q == (iRecvPos + 1) % Cnt
    <2>1. \/ iRecvPos = -1 /\ iRecvPos' = 0 /\ dwRecvPkgCnt' = 0
          \/ iRecvPos # -1 /\ dwRecvPkgCnt >= MaxRecv /\ iRecvPos' = q /\ dwRecvPkgCnt' = 0
      BY <1>4 DEF RecvBegin
    <2>2. SUFFICES ASSUME NEW k \in 1 .. Cnt, Waiting(chans[k])
                   PROVE  Turn(Cnt, k, iRecvPos', 0, bypass[chans[k]])
      BY <1>1, <1>2, <2>1 DEF TurnInv, Turn, Ahead, Cnt
    <2> DEFINE b == bypass[chans[k]]
    <2>3. Turn(Cnt, k, iRecvPos, dwRecvPkgCnt, b)
      BY <2>2 DEF TurnInv
    <2>7. chans[k] \in Chan
      BY <1>0 DEF Cnt
    <2>8. iRecvPos' \in Int
      BY DEF TypeOK
    <2>4. iRecvPos' \in Int /\ b \in Nat
      BY <1>0, <2>7, <2>8
    <2>5. CASE b = 0
      BY <1>0, <2>4, <2>5, TurnZero
    <2>6. CASE b # 0
      <3>1. iRecvPos \in 0 .. Cnt - 1
        BY <2>3, <2>6 DEF Turn
      <3>2. iRecvPos # -1 /\ dwRecvPkgCnt >= MaxRecv /\ iRecvPos' = q
        BY <1>0, <2>1, <3>1
      <3>3. iRecvPos # k - 1
        BY <1>0, <2>3, <2>6, <3>2, Limits DEF Turn
      <3>4. k - 1 \notin iRecvPos .. iRecvPos /\ iRecvPos \in iRecvPos .. Cnt - 1
        BY <1>0, <3>1, <3>3
      <3> HIDE DEF b
      <3>5. Turn(Cnt, k, q, 0, b)
        BY <1>0, <2>3, <2>4, <3>1, <3>4, TurnMove
      <3> QED
        BY <3>2, <3>5 DEF b
    <2> QED
      BY <2>5, <2>6
  <1> QED
    BY <1>3, <1>4

\* Who waits where an open scan has passed would have been selected.
LEMMA NotPassed ==
    ASSUME TypeOK, ScanInv, OpenOrOne, pc = "scan", Unspecified(req), i < Cnt,
           NEW k \in 1 .. Cnt, Waiting(chans[k])
    PROVE  /\ iRecvPos \in 0 .. Cnt - 1 /\ i \in iRecvPos .. Cnt - 1
           /\ k - 1 \notin iRecvPos .. i - 1
  <1>1. Cnt \in Nat /\ i \in Nat /\ iRecvPos \in Int /\ chans \in Seq(Chan) /\ req \in Requests
    BY DEF TypeOK, Cnt
  <1>2. iRecvPos >= 0 /\ iRecvPos <= i /\ \A j \in iRecvPos .. i - 1 : ~Selected(chans[j + 1])
    BY DEF ScanInv
  <1>3. Selected(chans[k])
    <2>1. chans[k] \in Chan
      BY <1>1 DEF Cnt
    <2> QED
      BY <1>1, <2>1, OpenMatch DEF Selected, Waiting
  <1>4. ASSUME k - 1 \in iRecvPos .. i - 1 PROVE FALSE
    <2>1. ~Selected(chans[(k - 1) + 1])
      BY <1>2, <1>4
    <2>2. (k - 1) + 1 = k
      OBVIOUS
    <2> QED
      BY <1>3, <2>1, <2>2
  <1> QED
    BY <1>1, <1>2, <1>4

\* ... passes over an empty channel ...
LEMMA TurnEmpty ==
    ASSUME TypeOK, TypeOK', ScanInv, TurnInv, OpenOrOne, NEW c \in Chan, RecvEmpty(c)
    PROVE  TurnInv'
  <1> USE DEF handle, pos, gcim, call
  <1>0. /\ Cnt \in Nat /\ iRecvPos \in Int /\ dwRecvPkgCnt \in 0 .. MaxRecv /\ i \in Nat
        /\ chans \in Seq(Chan) /\ bypass \in [Chan -> Nat]
    BY DEF TypeOK, Cnt
  <1>1. UNCHANGED <<chans, enabled, dstEnabled, queue, bypass>>
    BY DEF RecvEmpty
  <1>2. \A d : Waiting(d)' = Waiting(d)
    BY <1>1 DEF Waiting
  <1>3. CASE ~Unspecified(req)
    <2>1. UNCHANGED pos
      BY <1>3 DEF RecvEmpty
    <2> QED
      BY <1>1, <1>2, <2>1, TurnSame
  <1>4. CASE Unspecified(req)
    <2> DEFINE q == (i + 1) % Cnt
    <2>1. /\ iRecvPos' = q /\ dwRecvPkgCnt' = 0
          /\ pc = "scan" /\ i < Cnt /\ c = chans[i + 1] /\ queue[c] = 0
      BY <1>4 DEF RecvEmpty, At
    <2>2. SUFFICES ASSUME NEW k \in 1 .. Cnt, Waiting(chans[k])
                   PROVE  Turn(Cnt, k, q, 0, bypass[chans[k]])
      BY <1>1, <1>2, <2>1 DEF TurnInv, Turn, Ahead, Cnt
    <2> DEFINE b == bypass[chans[k]]
    <2>3. Turn(Cnt, k, iRecvPos, dwRecvPkgCnt, b) /\ b \in Nat
      BY <1>0, <2>2 DEF TurnInv, Cnt
    <2>4. /\ iRecvPos \in 0 .. Cnt - 1 /\ i \in iRecvPos .. Cnt - 1
          /\ k - 1 \notin iRecvPos .. i - 1
      BY <1>4, <2>1, <2>2, NotPassed
    <2>5. k # i + 1
      BY <2>1, <2>2 DEF Waiting
    <2>6. k - 1 \notin iRecvPos .. i
      BY <1>0, <2>4, <2>5
    <2> HIDE DEF b
    <2>7. Turn(Cnt, k, q, 0, b)
      BY <1>0, <2>3, <2>4, <2>6, TurnMove
    <2> QED
      BY <2>7 DEF b
  <1> QED
    BY <1>3, <1>4

\* ... and takes a message.
LEMMA TurnTaken ==
    ASSUME TypeOK, TypeOK', ScanInv, TurnInv, OpenOrOne, NEW c \in Chan, RecvTake(c)
    PROVE  TurnInv'
  <1> USE DEF handle, pos, gcim, call
  <1>0. /\ Cnt \in Nat /\ iRecvPos \in Int /\ dwRecvPkgCnt \in 0 .. MaxRecv /\ i \in Nat
        /\ chans \in Seq(Chan) /\ bypass \in [Chan -> Nat] /\ queue \in [Chan -> Nat] /\ req \in Requests
    BY DEF TypeOK, Cnt
  <1>1. /\ pc = "scan" /\ i < Cnt /\ c = chans[i + 1] /\ Selected(c)
        /\ UNCHANGED <<chans, enabled, dstEnabled, iRecvPos>>
        /\ queue' = queue \/ queue' = [queue EXCEPT ![c] = @ - 1]
        /\ dwRecvPkgCnt' = IF Unspecified(req) THEN dwRecvPkgCnt + 1 ELSE dwRecvPkgCnt
        /\ bypass' = [d \in Chan |->
                        IF d = c \/ ~Waiting(d) THEN 0
                        ELSE IF Matches(d, req) THEN bypass[d] + 1 ELSE bypass[d]]
    BY DEF RecvTake, At
  <1>2. ASSUME NEW d \in Chan, Waiting(d)' PROVE Waiting(d)
    <2>1. queue'[d] \in Nat /\ queue[d] \in Nat /\ queue'[d] > 0
      <3>1. queue' \in [Chan -> 0 .. MaxQueue]
        BY DEF TypeOK
      <3> QED
        BY <1>0, <1>2, <3>1, Limits DEF Waiting
    <2>2. queue[d] > 0
      <3>1. queue'[d] = queue[d] \/ queue'[d] = queue[d] - 1
        BY <1>0, <1>1
      <3> QED
        BY <2>1, <3>1
    <2> QED
      BY <1>1, <1>2, <2>2 DEF Waiting
  <1>3. CASE ~Unspecified(req)
    <2>1. ASSUME NEW d \in Chan, Waiting(d)' PROVE bypass'[d] = 0 \/ (Waiting(d) /\ bypass'[d] = bypass[d])
      <3>1. CASE d = c
        BY <1>1, <3>1
      <3>2. CASE d # c
        <4>1. ~Matches(d, req)
          BY <1>0, <1>1, <1>3, <3>2, OneMatch DEF Selected
        <4> QED
          BY <1>1, <1>2, <2>1, <3>2, <4>1
      <3> QED
        BY <3>1, <3>2
    <2>2. UNCHANGED <<chans, iRecvPos, dwRecvPkgCnt>>
      BY <1>1, <1>3
    <2> QED
      BY <2>1, <2>2, TurnSame
  <1>4. CASE Unspecified(req)
    <2>1. SUFFICES ASSUME NEW k \in 1 .. Cnt, Waiting(chans[k])'
                   PROVE  Turn(Cnt, k, iRecvPos, dwRecvPkgCnt + 1, bypass'[chans[k]])
      BY <1>1, <1>4 DEF TurnInv, Turn, Ahead, Cnt
    <2> DEFINE d == chans[k]
    <2>2. d \in Chan /\ Waiting(d)' /\ d' = d
      BY <1>0, <1>1, <2>1 DEF Cnt
    <2>3. Waiting(d)
      BY <1>2, <2>2
    <2>4. CASE d = c
      <3>1. bypass'[d] = 0 /\ dwRecvPkgCnt + 1 \in Nat
        BY <1>0, <1>1, <2>2, <2>4, Limits
      <3> QED
        BY <1>0, <3>1, TurnZero
    <2>5. CASE d # c
      <3>1. bypass'[d] = bypass[d] + 1
        BY <1>0, <1>1, <1>4, <2>2, <2>3, <2>5, OpenMatch
      <3>2. iRecvPos \in 0 .. Cnt - 1 /\ i \in iRecvPos .. Cnt - 1 /\ k - 1 \notin iRecvPos .. i - 1
        BY <1>1, <1>4, <2>3, NotPassed
      <3>3. k # i + 1
        BY <1>1, <2>5
      <3>4. iRecvPos # k - 1
        BY <1>0, <3>2, <3>3
      <3>5. Turn(Cnt, k, iRecvPos, dwRecvPkgCnt, bypass[d])
        BY <2>3 DEF TurnInv
      <3>6. bypass[d] \in Nat /\ dwRecvPkgCnt \in Nat
        BY <1>0, <2>2, Limits
      <3> QED
        BY <1>0, <3>1, <3>2, <3>4, <3>5, <3>6, TurnTake
    <2> QED
      BY <2>4, <2>5
  <1> QED
    BY <1>3, <1>4

\* While channels are closed nobody is passed over.
LEMMA CloseStep ==
    ASSUME TypeOK, CloseInv, [Next]_vars
    PROVE  CloseInv'
  <1> USE DEF handle, pos, gcim, call
  <1>0. bypass \in [Chan -> Nat]
    BY DEF TypeOK
  <1>1. ASSUME pc' # "close" PROVE CloseInv'
    BY <1>1 DEF CloseInv
  <1>2. ASSUME pc' = pc, UNCHANGED bypass PROVE CloseInv'
    BY <1>2 DEF CloseInv
  <1>3. ASSUME NEW c \in Chan, Arrive(c) PROVE CloseInv'
    BY <1>0, <1>3 DEF Arrive, CloseInv
  <1>4. ASSUME NEW c \in Chan, RecvSkip(c) \/ RecvEmpty(c) \/ RecvTake(c) \/ DeleteMsg(c)
        PROVE  CloseInv'
    BY <1>1, <1>4 DEF RecvSkip, RecvEmpty, RecvTake, DeleteMsg, At
  <1>5. ASSUME NEW o, NEW r, RecvBegin(o, r) PROVE CloseInv'
    BY <1>1, <1>5 DEF RecvBegin
  <1>6. ASSUME RecvEnd \/ RefreshUnchanged PROVE CloseInv'
    BY <1>1, <1>6 DEF RecvEnd, RefreshUnchanged
  <1>7. ASSUME NEW a, NEW on, NEW all, PeerCtrl(a, on, all) PROVE CloseInv'
    BY <1>1, <1>7 DEF PeerCtrl
  <1>8. ASSUME NEW G, Reconfigure(G) PROVE CloseInv'
    BY <1>2, <1>8 DEF Reconfigure
  <1>9. ASSUME RefreshBegin PROVE CloseInv'
    BY <1>9 DEF RefreshBegin, CloseInv
  <1>10. ASSUME CloseNot \/ CloseOverdue PROVE CloseInv'
    BY <1>2, <1>10 DEF CloseNot, CloseOverdue
  <1>11. ASSUME NEW D, RefreshMap(D) PROVE CloseInv'
    BY <1>1, <1>11 DEF RefreshMap
  <1>12. CASE UNCHANGED vars
    BY <1>2, <1>12 DEF vars
  <1> QED
    BY <1>3, <1>4, <1>5, <1>6, <1>7, <1>8, <1>9, <1>10, <1>11, <1>12, Steps

\* A step keeps the turns.
LEMMA TurnStep ==
    ASSUME IInv, TypeOK', OpenOrOne, [Next]_vars
    PROVE  TurnInv'
  <1> USE DEF handle, pos, gcim, call
  <1>0. TypeOK /\ ScanInv /\ CloseInv /\ TurnInv
    BY DEF IInv, SetInv
  <1>1. bypass \in [Chan -> Nat] /\ queue \in [Chan -> Nat]
    BY <1>0, Limits DEF TypeOK
  <1>2. ASSUME UNCHANGED <<chans, enabled, dstEnabled, queue, iRecvPos, dwRecvPkgCnt, bypass>>
        PROVE  TurnInv'
    <2>1. \A c : Waiting(c)' = Waiting(c)
      BY <1>2 DEF Waiting
    <2> QED
      BY <1>0, <1>2, <2>1, TurnSame
  <1>3. ASSUME NEW c \in Chan, Arrive(c) PROVE TurnInv'
    <2>1. ASSUME NEW d \in Chan, Waiting(d)' PROVE bypass'[d] = 0 \/ (Waiting(d) /\ bypass'[d] = bypass[d])
      <3>1. CASE d = c /\ queue[c] = 0
        BY <1>1, <1>3, <3>1 DEF Arrive
      <3>2. CASE d = c /\ queue[c] # 0
        BY <1>1, <1>3, <2>1, <3>2 DEF Arrive, Waiting
      <3>3. CASE d # c
        BY <1>1, <1>3, <2>1, <3>3 DEF Arrive, Waiting
      <3> QED
        BY <3>1, <3>2, <3>3
    <2> QED
      BY <1>0, <1>3, <2>1, TurnSame DEF Arrive
  <1>4. ASSUME NEW c \in Chan, DeleteMsg(c) PROVE TurnInv'
    <2>1. ASSUME NEW d \in Chan, Waiting(d)' PROVE Waiting(d) /\ bypass'[d] = bypass[d]
      <3>1. CASE d = c
        BY <1>1, <1>4, <2>1, <3>1 DEF DeleteMsg, Waiting
      <3>2. CASE d # c
        BY <1>1, <1>4, <2>1, <3>2 DEF DeleteMsg, Waiting
      <3> QED
        BY <3>1, <3>2
    <2> QED
      BY <1>0, <1>4, <2>1, TurnSame DEF DeleteMsg
  <1>5. ASSUME NEW c \in Chan, RecvSkip(c) PROVE TurnInv'
    BY <1>2, <1>5 DEF RecvSkip
  <1>6. ASSUME NEW c \in Chan, RecvEmpty(c) PROVE TurnInv'
    BY <1>0, <1>6, TurnEmpty
  <1>7. ASSUME NEW c \in Chan, RecvTake(c) PROVE TurnInv'
    BY <1>0, <1>7, TurnTaken
  <1>8. ASSUME NEW o, NEW r \in Requests, RecvBegin(o, r) PROVE TurnInv'
    BY <1>0, <1>8, TurnBegin
  <1>9. ASSUME RecvEnd \/ CloseNot \/ RefreshUnchanged PROVE TurnInv'
    BY <1>2, <1>9 DEF RecvEnd, CloseNot, RefreshUnchanged
  <1>10. ASSUME NEW a, NEW on, NEW all, PeerCtrl(a, on, all) PROVE TurnInv'
    <2> DEFINE peers == {k \in 1 .. Cnt : chans[k] \in enabled /\ Peer(chans[k]) = a}
               hit   == {chans[k] : k \in {k \in peers : all \/ \A j \in peers : k <= j}}
    <2>1. /\ dstEnabled' = IF on THEN dstEnabled \cup hit ELSE dstEnabled \ hit
          /\ bypass' = [c \in Chan |-> IF c \in hit THEN 0 ELSE bypass[c]]
          /\ UNCHANGED <<chans, enabled, pos, gcim, queue, call>>
      BY <1>10 DEF PeerCtrl
    <2> HIDE DEF hit
    <2>2. ASSUME NEW d \in Chan, Waiting(d)' PROVE bypass'[d] = 0 \/ (Waiting(d) /\ bypass'[d] = bypass[d])
      <3>1. CASE d \in hit
        BY <2>1, <3>1
      <3>2. CASE d \notin hit
        <4>1. d \in dstEnabled
          BY <2>1, <2>2, <3>2 DEF Waiting
        <4> QED
          BY <2>1, <2>2, <3>2, <4>1 DEF Waiting
      <3> QED
        BY <3>1, <3>2
    <2> QED
      BY <1>0, <2>1, <2>2, TurnSame
  <1>11. ASSUME NEW G, Reconfigure(G) PROVE TurnInv'
    BY <1>2, <1>11 DEF Reconfigure
  <1>12. ASSUME RefreshBegin PROVE TurnInv'
    BY <1>12, TurnReset DEF RefreshBegin
  <1>13. ASSUME CloseOverdue PROVE TurnInv'
    BY <1>0, <1>13, TurnReset DEF CloseOverdue, CloseInv
  <1>14. ASSUME NEW D, RefreshMap(D) PROVE TurnInv'
    BY <1>0, <1>14, TurnReset DEF RefreshMap, CloseInv
  <1>15. CASE UNCHANGED vars
    BY <1>2, <1>15 DEF vars
  <1> QED
    BY <1>3, <1>4, <1>5, <1>6, <1>7, <1>8, <1>9, <1>10, <1>11, <1>12, <1>13, <1>14, <1>15, Steps

\* The invariant holds and bounds the wait.
LEMMA IStart ==
    ASSUME Init
    PROVE  IInv
  <1>1. SetInv
    BY SetStart
  <1>2. CloseInv
    BY DEF Init, CloseInv
  <1>3. \A c \in Chan : ~Waiting(c)
    BY DEF Init, Waiting
  <1>4. TurnInv
    BY <1>1, <1>3 DEF SetInv, TypeOK, TurnInv, Cnt
  <1> QED
    BY <1>1, <1>2, <1>4 DEF IInv

LEMMA IStep ==
    ASSUME IInv, OpenOrOne, [Next]_vars
    PROVE  IInv'
  <1>1. SetInv' /\ TypeOK'
    BY SetStep DEF IInv, SetInv
  <1>2. CloseInv'
    BY CloseStep DEF IInv, SetInv
  <1>3. TurnInv'
    BY <1>1, TurnStep
  <1> QED
    BY <1>1, <1>2, <1>3 DEF IInv

LEMMA IBound ==
    ASSUME IInv
    PROVE  BypassBound
  <1>1. TypeOK /\ TurnInv
    BY DEF IInv, SetInv
  <1>2. /\ Cnt \in Nat /\ iRecvPos \in Int /\ dwRecvPkgCnt \in 0 .. MaxRecv
        /\ chans \in Seq(Chan) /\ bypass \in [Chan -> Nat]
    BY <1>1 DEF TypeOK, Cnt
  <1>3. SUFFICES ASSUME NEW c \in Chan, Waiting(c) PROVE bypass[c] <= MaxRecv * (Cnt - 1)
    BY DEF BypassBound
  <1>4. PICK k \in 1 .. Cnt : chans[k] = c
    BY <1>2, <1>3, Standing DEF Waiting, Cnt
  <1>5. Turn(Cnt, k, iRecvPos, dwRecvPkgCnt, bypass[c]) /\ bypass[c] \in Nat
    BY <1>1, <1>2, <1>3, <1>4 DEF TurnInv
  <1> QED
    BY <1>2, <1>5, TurnBound

\* No channel is starved: while a message waits in one, each other channel of the handle
\* gets at most TBUS_MAX_RECV_CNT messages through (tbus_recv and tbus_peek_msg).
THEOREM NoneIsStarved ==
    ASSUME OpenOrOne
    PROVE  Spec => []BypassBound
  <1>1. IInv /\ [Next]_vars => IInv'
    BY IStep
  <1> QED
    BY <1>1, IStart, IBound, PTL DEF Spec
=============================================================================
