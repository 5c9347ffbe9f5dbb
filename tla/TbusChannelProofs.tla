--------------------------- MODULE TbusChannelProofs ---------------------------
(***************************************************************************)
(* Proofs about TbusChannel for every queue size, counterfeit length and   *)
(* set of message lengths, of a channel whose counterfeit message was      *)
(* generated (tbus_init_ex): the ring stays in shape and loses nothing but *)
(* what a receiver throws away; and it loses nothing if the receiver       *)
(* deletes only what it has peeked.                                        *)
(***************************************************************************)
EXTENDS TbusChannel, TLAPS

Marked == MarkLen > 0
Proper == Marked /\ ~BareDelete

\* Where the reader's way leads to from dwHead.
Ahead == IF taken < Len(sent) THEN where[taken + 1] ELSE dwTail

\* A reader on its way there with the dwTail t finds the oldest message covered; or it
\* has to go round, and t was 0.
InSight(t) ==
    /\ taken < Len(sent) /\ where[taken + 1] # t
    /\ sent[taken + 1].len <= DataLen(where[taken + 1], t)
Around(t)  == t = 0 /\ dwHead # 0 /\ Ahead = 0

\* What the reader knows in the middle of a call, whoever deletes: it is at the oldest
\* message, or sees an empty queue, which a delete clears.
ReachInv ==
    /\ rpc = "check" /\ rop = "delete" => InSight(rtail) \/ Around(rtail)
    /\ rpc = "decode" => \/ AtMessage /\ Covered(rtail)
                         \/ rop = "delete" /\ dwHead = rtail
    /\ rpc = "move" => AtMessage /\ rpkg = sent[taken + 1]

IInv == TypeOK /\ RingInv /\ ReachInv

\* The types of the constants.
LEMMA Consts == Size \in Nat \ {0} /\ MarkLen \in Nat /\ MaxMsg \in Nat
  BY ChannelAssumption

\* What the types of the history say of one message.
LEMMA MessageTypes ==
    ASSUME TypeOK, NEW i \in 1 .. Len(sent)
    PROVE  /\ where[i] \in 0 .. Size - 1
           /\ sent[i] \in Pkg
           /\ sent[i].len \in Nat /\ sent[i].len > MarkLen
           /\ sent[i].kind = "pkg"
  <1>1. sent \in Seq(Pkg) /\ where \in Seq(0 .. Size - 1) /\ Len(where) = Len(sent)
    BY DEF TypeOK
  <1>2. where[i] \in 0 .. Size - 1
    <2> DEFINE S == 0 .. Size - 1
    <2>1. where \in Seq(S) /\ i \in 1 .. Len(where)
      BY <1>1
    <2> HIDE DEF S
    <2>2. where[i] \in S
      BY <2>1
    <2> QED
      BY <2>2 DEF S
  <1>3. sent[i] \in Pkg
    BY <1>1
  <1>4. sent[i].len \in PkgLens /\ sent[i].kind = "pkg"
    BY <1>3 DEF Pkg
  <1>5. sent[i].len \in Nat /\ sent[i].len > MarkLen
    BY <1>4, ChannelAssumption
  <1> QED
    BY <1>2, <1>3, <1>4, <1>5

\* An unread message starts inside the queue, not at its end.
LEMMA NotAtEnd ==
    ASSUME TypeOK, RingInv, NEW i \in Unread
    PROVE  ~AtEnd(where[i])
  <1>1. i \in 1 .. Len(sent)
    BY DEF Unread, TypeOK
  <1>2. /\ queue[where[i]] = sent[i] /\ EndOf(i) <= Size
    BY DEF RingInv, PlacedInv
  <1>3. sent[i] # Marker
    BY <1>1, MessageTypes DEF Marker, Cell
  <1>4. Size - where[i] > MarkLen
    BY <1>1, <1>2, MessageTypes, Consts DEF EndOf
  <1> QED
    BY <1>1, <1>2, <1>3, <1>4, MessageTypes, Consts DEF AtEnd

\* A reader at an unread message finds it covered by the dwTail of now.
LEMMA AtMessageCovered ==
    ASSUME TypeOK, RingInv, AtMessage
    PROVE  Covered(dwTail) /\ queue[dwHead] = sent[taken + 1] /\ Decodes
  <1> DEFINE i == taken + 1
  <1>1. i \in 1 .. Len(sent) /\ i \in Unread
    BY DEF AtMessage, TypeOK, Unread
  <1>2. /\ queue[dwHead] = sent[i] /\ EndOf(i) <= Size
        /\ dwHead <= dwTail => EndOf(i) <= dwTail
    BY <1>1 DEF RingInv, PlacedInv, AtMessage
  <1>3. dwHead + sent[i].len <= Size /\ (dwHead <= dwTail => dwHead + sent[i].len <= dwTail)
    BY <1>2 DEF EndOf, AtMessage
  <1>4. sent[i].len \in Nat /\ sent[i].len > 0 /\ sent[i].kind = "pkg"
    BY <1>1, MessageTypes, Consts
  <1>5. dwHead \in Nat /\ dwTail \in Nat /\ Size \in Nat
    BY Consts DEF TypeOK
  <1>6. Covered(dwTail)
    BY <1>3, <1>4, <1>5 DEF Covered, DataLen
  <1> QED
    BY <1>2, <1>4, <1>6 DEF Decodes

-----------------------------------------------------------------------------
LEMMA InitIInv == Init => IInv /\ SeenInv
  <1> SUFFICES ASSUME Init PROVE IInv /\ SeenInv
    OBVIOUS
  <1> USE Consts DEF Init
  <1>1. TypeOK
    BY DEF TypeOK, Cells, Cell, Junk, NoPkg
  <1>2. Unread = {}
    BY DEF Unread
  <1>3. RingInv
    BY <1>2 DEF RingInv, PlacedInv, OrderInv, LinkInv, WriterInv, ReaderInv, Link
  <1>4. SeenInv /\ ReachInv
    BY DEF SeenInv, ReachInv
  <1> QED
    BY <1>1, <1>3, <1>4 DEF IInv
-----------------------------------------------------------------------------
(***************************************************************************)
(* The ring: PlacedInv, OrderInv and LinkInv under each kind of step.      *)
(***************************************************************************)
Layout == PlacedInv /\ OrderInv /\ LinkInv

LEMMA LayoutFrame ==
    ASSUME Layout, UNCHANGED <<dwHead, dwTail, queue, sent, where, taken>>
    PROVE  Layout'
  BY DEF Layout, PlacedInv, OrderInv, LinkInv, Unread, EndOf, Link, AtEnd

\* What PlacedInv says of one unread message, in numbers.
LEMMA UnreadBounds ==
    ASSUME TypeOK, Layout, NEW i \in Unread
    PROVE  /\ i \in 1 .. Len(sent) /\ i \in Nat
           /\ where[i] \in Nat /\ where[i] < Size
           /\ sent[i].len \in Nat /\ sent[i].len > 0 /\ sent[i].len > MarkLen
           /\ EndOf(i) = where[i] + sent[i].len /\ EndOf(i) \in Nat
           /\ EndOf(i) <= Size /\ where[i] < EndOf(i)
           /\ queue[where[i]] = sent[i] /\ sent[i] \in Pkg
           /\ dwHead <= dwTail => dwHead <= where[i] /\ EndOf(i) <= dwTail
           /\ dwTail < dwHead => dwHead <= where[i] \/ EndOf(i) <= dwTail
  <1>1. i \in 1 .. Len(sent) /\ i \in Nat
    BY DEF Unread, TypeOK
  <1>2. /\ where[i] \in 0 .. Size - 1 /\ sent[i] \in Pkg
        /\ sent[i].len \in Nat /\ sent[i].len > MarkLen
    BY <1>1, MessageTypes
  <1>3. EndOf(i) = where[i] + sent[i].len
    BY DEF EndOf
  <1>4. /\ queue[where[i]] = sent[i] /\ EndOf(i) <= Size
        /\ dwHead <= dwTail => dwHead <= where[i] /\ EndOf(i) <= dwTail
        /\ dwTail < dwHead => dwHead <= where[i] \/ EndOf(i) <= dwTail
    BY DEF Layout, PlacedInv
  <1> QED
    BY <1>1, <1>2, <1>3, <1>4, Consts

\* A jump of the reader to 0 starts behind dwTail.
LEMMA JumpBehindTail ==
    ASSUME TypeOK, Layout
    PROVE  /\ LET q == IF taken < Len(sent) THEN where[taken + 1] ELSE dwTail
              IN  q # dwHead /\ q = 0 => dwTail < dwHead
           /\ \A i \in Unread :
                LET q == IF i < Len(sent) THEN where[i + 1] ELSE dwTail
                IN  q # EndOf(i) /\ q = 0 => dwTail < dwHead /\ dwHead < EndOf(i)
  <1> DEFINE hq == IF taken < Len(sent) THEN where[taken + 1] ELSE dwTail
             nq(i) == IF i < Len(sent) THEN where[i + 1] ELSE dwTail
  <1>0. dwHead \in Nat /\ dwTail \in Nat /\ taken \in Nat /\ Len(sent) \in Nat
    BY Consts DEF TypeOK
  <1>1. ASSUME hq # dwHead, hq = 0 PROVE dwTail < dwHead
    <2>1. CASE taken < Len(sent)
      <3>1. taken + 1 \in Unread
        BY <2>1, <1>0 DEF Unread
      <3> QED
        BY <1>0, <1>1, <2>1, <3>1, UnreadBounds
    <2>2. CASE ~(taken < Len(sent))
      BY <1>0, <1>1, <2>2
    <2> QED
      BY <2>1, <2>2
  <1>2. ASSUME NEW i \in Unread, nq(i) # EndOf(i), nq(i) = 0
        PROVE  dwTail < dwHead /\ dwHead < EndOf(i)
    <2>1. CASE i < Len(sent)
      <3>1. i + 1 \in Unread /\ i < i + 1
        BY <2>1, <1>0 DEF Unread
      <3>2. \/ EndOf(i) <= where[i + 1]
            \/ dwTail < dwHead /\ dwHead <= where[i]
        BY <3>1 DEF Layout, OrderInv
      <3> QED
        BY <1>0, <1>2, <2>1, <3>2, UnreadBounds
    <2>2. CASE ~(i < Len(sent))
      BY <1>0, <1>2, <2>2, UnreadBounds
    <2> QED
      BY <2>1, <2>2
  <1> QED
    BY <1>1, <1>2

\* The writer changes the queue only outside the unread region.
LEMMA LayoutWrite ==
    ASSUME TypeOK, Layout, NEW n \in Nat, n > 0, NEW c,
           \/ dwHead <= dwTail /\ dwTail + n <= Size
           \/ dwTail < dwHead /\ dwTail + n < dwHead,
           queue' = Overwrite(dwTail, n, c),
           UNCHANGED <<dwHead, dwTail, sent, where, taken>>
    PROVE  Layout' /\ queue'[dwTail] = c
  <1>0. /\ dwHead \in Nat /\ dwTail \in Nat /\ dwHead <= Size /\ Size \in Nat
        /\ MarkLen \in Nat
    BY Consts DEF TypeOK
  <1>1. dwTail < Size
    BY <1>0
  <1>2. queue'[dwTail] = c
    BY <1>0, <1>1 DEF Overwrite
  <1>3. ASSUME NEW p \in 0 .. Size - 1, p < dwTail \/ dwTail + n <= p
        PROVE  queue'[p] = queue[p]
    BY <1>0, <1>3 DEF Overwrite
  <1>4. Unread' = Unread /\ \A i \in Unread : EndOf(i)' = EndOf(i)
    BY DEF Unread, EndOf
  <1>5. PlacedInv'
    <2> SUFFICES ASSUME NEW i \in Unread
                 PROVE  queue'[where[i]] = sent[i]
      BY <1>4 DEF Layout, PlacedInv
    <2> QED
      BY <1>0, <1>3, UnreadBounds
  <1>6. OrderInv'
    BY <1>4 DEF Layout, OrderInv
  <1>7. ASSUME NEW p \in 0 .. Size, NEW q, Link(p, q),
               q # p /\ q = 0 => dwTail < dwHead /\ dwHead <= p
        PROVE  Link(p, q)'
    <2>1. CASE q = p
      BY <2>1 DEF Link
    <2>2. CASE q # p
      <3>1. q = 0 /\ AtEnd(p) /\ dwTail + n < p
        BY <2>2, <1>7, <1>0 DEF Link
      <3>2. CASE Size - p <= MarkLen
        BY <3>1, <3>2 DEF Link, AtEnd
      <3>3. CASE ~(Size - p <= MarkLen)
        <4>1. p \in 0 .. Size - 1 /\ queue'[p] = queue[p]
          BY <3>1, <3>3, <1>0, <1>3
        <4> QED
          BY <3>1, <3>3, <4>1 DEF Link, AtEnd
      <3> QED
        BY <3>2, <3>3
    <2> QED
      BY <2>1, <2>2
  <1>8. LinkInv'
    <2>1. Link(dwHead, IF taken < Len(sent) THEN where[taken + 1] ELSE dwTail)'
      <3> DEFINE q == IF taken < Len(sent) THEN where[taken + 1] ELSE dwTail
      <3>1. Link(dwHead, q) /\ (q # dwHead /\ q = 0 => dwTail < dwHead)
        BY JumpBehindTail DEF Layout, LinkInv
      <3>2. dwHead \in 0 .. Size /\ q' = q /\ dwHead' = dwHead
        BY <1>0
      <3> HIDE DEF q
      <3>3. Link(dwHead, q)'
        BY <3>1, <3>2, <1>7, <1>0 DEF Link, AtEnd
      <3> QED
        BY <3>3 DEF q
    <2>2. ASSUME NEW i \in Unread
          PROVE  Link(EndOf(i), IF i < Len(sent) THEN where[i + 1] ELSE dwTail)'
      <3> DEFINE q == IF i < Len(sent) THEN where[i + 1] ELSE dwTail
      <3>1. Link(EndOf(i), q) /\ (q # EndOf(i) /\ q = 0 => dwTail < dwHead /\ dwHead < EndOf(i))
        BY JumpBehindTail DEF Layout, LinkInv
      <3>2. EndOf(i) \in 0 .. Size /\ q' = q /\ EndOf(i)' = EndOf(i)
        BY UnreadBounds, <1>0, <1>4
      <3> HIDE DEF q
      <3>3. Link(EndOf(i), q)'
        BY <3>1, <3>2, <1>7, <1>0 DEF Link, AtEnd
      <3> QED
        BY <3>3 DEF q
    <2> QED
      BY <1>4, <2>1, <2>2 DEF LinkInv
  <1> QED
    BY <1>2, <1>5, <1>6, <1>8 DEF Layout
\* dwTail goes to 0, the end of the queue being marked.
LEMMA LayoutWrap ==
    ASSUME TypeOK, Layout, 1 <= dwHead, dwHead <= dwTail, AtEnd(dwTail),
           dwTail' = 0, UNCHANGED <<dwHead, queue, sent, where, taken>>
    PROVE  Layout'
  <1>0. dwHead \in Nat /\ dwTail \in Nat /\ dwTail' < dwHead' /\ dwHead' = dwHead
    BY DEF TypeOK
  <1>1. Unread' = Unread /\ \A i \in Unread : EndOf(i)' = EndOf(i)
    BY DEF Unread, EndOf
  <1>2. PlacedInv'
    BY <1>0, <1>1, UnreadBounds DEF PlacedInv
  <1>3. OrderInv'
    <2> SUFFICES ASSUME NEW i \in Unread, NEW j \in Unread, i < j
                 PROVE  /\ EndOf(i) <= where[j]
                        /\ ~(EndOf(i) <= 0)
      BY <1>0, <1>1 DEF OrderInv
    <2>1. EndOf(i) <= where[j]
      BY <1>0 DEF Layout, OrderInv
    <2> QED
      BY <2>1, UnreadBounds
  <1>4. \A p : Link(p, dwTail) => Link(p, 0)'
    BY <1>0 DEF Link, AtEnd
  <1>5. \A p, q : Link(p, q) => Link(p, q)'
    BY DEF Link, AtEnd
  <1>6. LinkInv'
    BY <1>1, <1>4, <1>5 DEF Layout, LinkInv
  <1> QED
    BY <1>2, <1>3, <1>6 DEF Layout

\* A message the writer has copied becomes the last unread one.
LEMMA LayoutPublish ==
    ASSUME TypeOK, Layout, NEW n \in Nat, n = Len(sent), taken <= n,
           wpkg \in Pkg, queue[dwTail] = wpkg,
           \/ dwHead <= dwTail /\ dwTail + wpkg.len <= Size
           \/ dwTail < dwHead /\ dwTail + wpkg.len < dwHead,
           dwTail' = dwTail + wpkg.len,
           sent' = Append(sent, wpkg), where' = Append(where, dwTail),
           UNCHANGED <<dwHead, queue, taken>>
    PROVE  Layout'
  <1>0. /\ dwHead \in Nat /\ dwTail \in Nat /\ dwHead <= Size /\ Size \in Nat
        /\ n \in Nat /\ taken \in Nat
        /\ wpkg.len \in Nat /\ wpkg.len > 0
    BY ChannelAssumption DEF TypeOK, Pkg
  <1>1. /\ Len(sent') = n + 1 /\ Len(where') = n + 1 /\ Len(where) = n
        /\ sent'[n + 1] = wpkg /\ where'[n + 1] = dwTail
        /\ \A i \in 1 .. n : sent'[i] = sent[i] /\ where'[i] = where[i]
    BY DEF TypeOK
  <1>2. /\ Unread' = Unread \cup {n + 1} /\ n + 1 \notin Unread
        /\ \A i \in Unread : i < n + 1 /\ i \in 1 .. n
    BY <1>0, <1>1 DEF Unread
  <1>3. \A i \in Unread : EndOf(i)' = EndOf(i) /\ where'[i] = where[i] /\ sent'[i] = sent[i]
    BY <1>1, <1>2 DEF EndOf
  <1>4. EndOf(n + 1)' = dwTail'
    BY <1>1 DEF EndOf
  <1>5. PlacedInv'
    <2>1. ASSUME NEW i \in Unread
          PROVE  /\ queue'[where'[i]] = sent'[i]
                 /\ EndOf(i)' <= Size
                 /\ dwHead' <= dwTail' => dwHead' <= where'[i] /\ EndOf(i)' <= dwTail'
                 /\ dwTail' < dwHead' => dwHead' <= where'[i] \/ EndOf(i)' <= dwTail'
      <3>1. /\ where[i] \in Nat /\ EndOf(i) \in Nat /\ where[i] < EndOf(i)
            /\ queue[where[i]] = sent[i] /\ EndOf(i) <= Size
            /\ dwHead <= dwTail => dwHead <= where[i] /\ EndOf(i) <= dwTail
            /\ dwTail < dwHead => dwHead <= where[i] \/ EndOf(i) <= dwTail
        BY UnreadBounds
      <3>2. EndOf(i)' = EndOf(i) /\ where'[i] = where[i] /\ sent'[i] = sent[i]
        BY <1>3
      <3> QED
        BY <1>0, <3>1, <3>2
    <2>2. /\ queue'[where'[n + 1]] = sent'[n + 1]
          /\ EndOf(n + 1)' <= Size
          /\ dwHead' <= dwTail' => dwHead' <= where'[n + 1] /\ EndOf(n + 1)' <= dwTail'
          /\ dwTail' < dwHead' => dwHead' <= where'[n + 1] \/ EndOf(n + 1)' <= dwTail'
      BY <1>0, <1>1, <1>4
    <2> QED
      BY <1>2, <2>1, <2>2 DEF PlacedInv
  <1>6. OrderInv'
    <2>1. ASSUME NEW i \in Unread, NEW j \in Unread, i < j
          PROVE  /\ \/ EndOf(i)' <= where'[j]
                    \/ dwTail' < dwHead' /\ dwHead' <= where'[i] /\ EndOf(j)' <= dwTail'
                 /\ dwTail' < dwHead' /\ EndOf(i)' <= dwTail' => EndOf(j)' <= dwTail'
      <3>1. /\ \/ EndOf(i) <= where[j]
               \/ dwTail < dwHead /\ dwHead <= where[i] /\ EndOf(j) <= dwTail
            /\ dwTail < dwHead /\ EndOf(i) <= dwTail => EndOf(j) <= dwTail
        BY <2>1 DEF Layout, OrderInv
      <3>2. /\ where[i] \in Nat /\ EndOf(i) \in Nat /\ where[i] < EndOf(i)
            /\ where[j] \in Nat /\ EndOf(j) \in Nat
            /\ dwHead <= dwTail => EndOf(i) <= dwTail /\ EndOf(j) <= dwTail
            /\ dwTail < dwHead => dwHead <= where[i] \/ EndOf(i) <= dwTail
        BY UnreadBounds
      <3>3. /\ EndOf(i)' = EndOf(i) /\ where'[i] = where[i]
            /\ EndOf(j)' = EndOf(j) /\ where'[j] = where[j]
        BY <1>3
      <3>4. CASE dwHead <= dwTail
        <4>1. EndOf(i) <= where[j] /\ ~(dwTail' < dwHead')
          BY <1>0, <3>1, <3>4
        <4> QED
          BY <3>3, <4>1
      <3>5. CASE dwTail < dwHead
        <4>1. dwTail' < dwHead' /\ dwTail <= dwTail' /\ dwHead' = dwHead
          BY <1>0, <3>5
        <4>2. \/ EndOf(i) <= where[j]
              \/ dwHead <= where[i] /\ EndOf(j) <= dwTail'
          BY <1>0, <3>1, <3>2, <4>1
        <4>3. EndOf(i) <= dwTail' => EndOf(j) <= dwTail'
          BY <1>0, <3>1, <3>2, <3>5, <4>1
        <4> QED
          BY <3>3, <4>1, <4>2, <4>3
      <3> QED
        BY <1>0, <3>4, <3>5
    <2>2. ASSUME NEW i \in Unread
          PROVE  /\ \/ EndOf(i)' <= where'[n + 1]
                    \/ dwTail' < dwHead' /\ dwHead' <= where'[i] /\ EndOf(n + 1)' <= dwTail'
                 /\ EndOf(n + 1)' <= dwTail'
      BY <1>0, <1>1, <1>3, <1>4, UnreadBounds
    <2>3. (\A i \in Unread : ~(n + 1 < i)) /\ ~(n + 1 < n + 1)
      BY <1>0, <1>2
    <2> SUFFICES ASSUME NEW i \in Unread', NEW j \in Unread', i < j
                 PROVE  /\ \/ EndOf(i)' <= where'[j]
                           \/ dwTail' < dwHead' /\ dwHead' <= where'[i] /\ EndOf(j)' <= dwTail'
                        /\ dwTail' < dwHead' /\ EndOf(i)' <= dwTail' => EndOf(j)' <= dwTail'
      BY DEF OrderInv
    <2>4. i \in Unread /\ (j \in Unread \/ j = n + 1)
      BY <1>2, <2>3
    <2> QED
      BY <2>1, <2>2, <2>4
  <1>7. \A p, q : Link(p, q) => Link(p, q)'
    BY DEF Link, AtEnd
  <1>8. LinkInv'
    <2>1. Link(dwHead, IF taken < Len(sent) THEN where[taken + 1] ELSE dwTail)'
      <3>1. CASE taken < n
        <4>1. Link(dwHead, where[taken + 1]) /\ where'[taken + 1] = where[taken + 1]
          BY <3>1, <1>0, <1>1 DEF Layout, LinkInv
        <4> QED
          BY <3>1, <4>1, <1>0, <1>7
      <3>2. CASE taken = n
        <4>1. Link(dwHead, dwTail)
          BY <3>2, <1>0 DEF Layout, LinkInv
        <4> QED
          BY <3>2, <4>1, <1>0, <1>1, <1>7
      <3>3. taken < n \/ taken = n
        BY <1>0
      <3> QED
        BY <3>1, <3>2, <3>3
    <2>2. ASSUME NEW i \in Unread
          PROVE  Link(EndOf(i), IF i < Len(sent) THEN where[i + 1] ELSE dwTail)'
      <3>1. CASE i < n
        <4>1. Link(EndOf(i), where[i + 1]) /\ where'[i + 1] = where[i + 1]
          BY <3>1, <1>0, <1>1, <1>2 DEF Layout, LinkInv
        <4> QED
          BY <3>1, <4>1, <1>0, <1>2, <1>3, <1>7
      <3>2. CASE i = n
        <4>1. Link(EndOf(i), dwTail)
          BY <3>2, <1>0 DEF Layout, LinkInv
        <4> QED
          BY <3>2, <4>1, <1>0, <1>1, <1>3, <1>7
      <3>3. i < n \/ i = n
        BY <1>0, <1>2
      <3> QED
        BY <3>1, <3>2, <3>3
    <2>3. (dwTail = EndOf(n + 1))'
      BY <1>4
    <2> QED
      BY <1>0, <1>1, <1>2, <2>1, <2>2, <2>3 DEF LinkInv, Link
  <1> QED
    BY <1>5, <1>6, <1>8 DEF Layout

\* The macro leaves dwHead at an unread message, or at 0 in an empty queue.
LEMMA LayoutCheck ==
    ASSUME TypeOK, RingInv, dwHead # dwTail,
           dwHead' = IF AtEnd(dwHead) THEN 0 ELSE dwHead,
           UNCHANGED <<dwTail, queue, sent, where, taken>>
    PROVE  /\ Layout'
           /\ AtMessage' \/ (taken = Len(sent) /\ dwHead' = 0 /\ dwTail = 0)
           /\ AtMessage => dwHead' = dwHead
           /\ dwHead' # dwHead => dwHead' = 0 /\ dwTail < dwHead
  <1> DEFINE n == Len(sent)
  <1>0. /\ dwHead \in Nat /\ dwTail \in Nat /\ dwHead <= Size /\ Size \in Nat
        /\ n \in Nat /\ taken \in Nat /\ taken <= n
    BY Consts DEF TypeOK, RingInv, ReaderInv
  <1>L. Layout
    BY DEF RingInv, Layout
  <1>1. AtMessage => ~AtEnd(dwHead)
    BY <1>0, NotAtEnd DEF AtMessage, Unread
  <1>2. CASE ~AtEnd(dwHead)
    <2>1. dwHead' = dwHead
      BY <1>2
    <2>2. AtMessage
      BY <1>0, <1>2, <1>L DEF Layout, LinkInv, Link, AtMessage
    <2>3. AtMessage'
      BY <2>1, <2>2 DEF AtMessage
    <2> QED
      BY <1>L, <2>1, <2>3, LayoutFrame
  <1>3. CASE AtEnd(dwHead)
    <2>1. dwHead' = 0 /\ ~AtMessage
      BY <1>1, <1>3
    <2>2. \/ taken < n /\ where[taken + 1] = 0 /\ dwHead # 0
          \/ taken = n /\ dwTail = 0
      BY <1>0, <1>L, <2>1 DEF Layout, LinkInv, Link, AtMessage
    <2>3. dwTail < dwHead
      BY <1>0, <1>L, <2>2, JumpBehindTail
    <2>4. Unread' = Unread /\ (\A i \in Unread : EndOf(i)' = EndOf(i)) /\ dwHead' <= dwTail'
      BY <1>0, <2>1 DEF Unread, EndOf
    <2>5. ASSUME NEW i \in Unread PROVE EndOf(i) <= dwTail
      <3>1. taken < n /\ where[taken + 1] = 0 /\ taken + 1 \in Unread
        BY <1>0, <2>2 DEF Unread
      <3>2. EndOf(taken + 1) <= dwTail
        BY <1>0, <1>L, <2>3, <3>1, UnreadBounds
      <3>3. CASE i = taken + 1
        BY <3>2, <3>3
      <3>4. CASE i # taken + 1
        <4>1. taken + 1 < i
          BY <1>0, <3>4 DEF Unread
        <4> QED
          BY <1>L, <2>3, <3>1, <3>2, <4>1 DEF Layout, OrderInv
      <3> QED
        BY <3>3, <3>4
    <2>6. PlacedInv'
      BY <1>0, <1>L, <2>1, <2>4, <2>5, UnreadBounds DEF PlacedInv
    <2>7. OrderInv'
      <3> SUFFICES ASSUME NEW i \in Unread, NEW j \in Unread, i < j
                   PROVE  EndOf(i) <= where[j]
        BY <1>0, <2>1, <2>3, <2>4 DEF OrderInv
      <3>1. \/ EndOf(i) <= where[j]
            \/ dwHead <= where[i]
        BY <1>L DEF Layout, OrderInv
      <3> QED
        BY <1>0, <1>L, <2>3, <2>5, <3>1, UnreadBounds
    <2>8. \A p, q : Link(p, q) => Link(p, q)'
      BY DEF Link, AtEnd
    <2>9. LinkInv'
      BY <1>0, <1>L, <2>1, <2>2, <2>4, <2>8 DEF Layout, LinkInv, Link
    <2>10. AtMessage' \/ (taken = n /\ dwHead' = 0 /\ dwTail = 0)
      BY <2>1, <2>2 DEF AtMessage
    <2> QED
      BY <2>1, <2>3, <2>6, <2>7, <2>9, <2>10 DEF Layout
  <1> QED
    BY <1>2, <1>3
\* The reader steps over the message it is at.
LEMMA LayoutMove ==
    ASSUME TypeOK, Layout, AtMessage,
           dwHead' = dwHead + sent[taken + 1].len, taken' = taken + 1,
           UNCHANGED <<dwTail, queue, sent, where>>
    PROVE  /\ Layout'
           /\ dwHead' <= Size /\ taken' <= Len(sent)
           /\ dwHead <= dwTail => dwHead' <= dwTail
           /\ dwTail < dwHead => dwTail < dwHead'
           /\ dwHead < dwHead'
  <1> DEFINE k == taken + 1
  <1>0. /\ dwHead \in Nat /\ dwTail \in Nat /\ Size \in Nat
        /\ Len(sent) \in Nat /\ taken \in Nat /\ taken < Len(sent)
    BY Consts DEF TypeOK, AtMessage
  <1>1. k \in Unread /\ Unread' = Unread \ {k} /\ \A i \in Unread' : k < i
    BY <1>0 DEF Unread
  <1>2. \A i \in Unread : EndOf(i)' = EndOf(i)
    BY DEF EndOf
  <1>3. /\ dwHead = where[k] /\ dwHead' = EndOf(k) /\ EndOf(k) \in Nat
        /\ dwHead < EndOf(k) /\ EndOf(k) <= Size
        /\ dwHead <= dwTail => EndOf(k) <= dwTail
    BY <1>1, UnreadBounds DEF EndOf, AtMessage
  <1>4. dwTail < dwHead => dwTail < dwHead'
    BY <1>0, <1>3
  <1>5. ASSUME NEW i \in Unread'
        PROVE  EndOf(k) <= where[i] \/ (dwTail < dwHead /\ EndOf(i) <= dwTail)
    <2>1. i \in Unread /\ k < i
      BY <1>1
    <2> QED
      BY <1>1, <2>1 DEF Layout, OrderInv
  <1>6. PlacedInv'
    <2> SUFFICES ASSUME NEW i \in Unread'
                 PROVE  /\ queue'[where'[i]] = sent'[i]
                        /\ EndOf(i)' <= Size
                        /\ dwHead' <= dwTail' => dwHead' <= where'[i] /\ EndOf(i)' <= dwTail'
                        /\ dwTail' < dwHead' => dwHead' <= where'[i] \/ EndOf(i)' <= dwTail'
      BY DEF PlacedInv
    <2>1. /\ where[i] \in Nat /\ EndOf(i) \in Nat /\ EndOf(i)' = EndOf(i)
          /\ queue[where[i]] = sent[i] /\ EndOf(i) <= Size
          /\ dwHead <= dwTail => dwHead <= where[i] /\ EndOf(i) <= dwTail
      BY <1>1, <1>2, UnreadBounds
    <2> QED
      BY <1>0, <1>3, <1>4, <1>5, <2>1
  <1>7. OrderInv'
    <2> SUFFICES ASSUME NEW i \in Unread', NEW j \in Unread', i < j
                 PROVE  /\ \/ EndOf(i)' <= where'[j]
                           \/ dwTail' < dwHead' /\ dwHead' <= where'[i] /\ EndOf(j)' <= dwTail'
                        /\ dwTail' < dwHead' /\ EndOf(i)' <= dwTail' => EndOf(j)' <= dwTail'
      BY DEF OrderInv
    <2>1. /\ \/ EndOf(i) <= where[j]
             \/ dwTail < dwHead /\ dwHead <= where[i] /\ EndOf(j) <= dwTail
          /\ dwTail < dwHead /\ EndOf(i) <= dwTail => EndOf(j) <= dwTail
      BY <1>1 DEF Layout, OrderInv
    <2>2. /\ where[i] \in Nat /\ EndOf(i) \in Nat /\ where[i] < EndOf(i)
          /\ where[j] \in Nat /\ EndOf(j) \in Nat
          /\ EndOf(i)' = EndOf(i) /\ EndOf(j)' = EndOf(j)
          /\ dwHead <= dwTail => EndOf(i) <= dwTail /\ EndOf(j) <= dwTail
      BY <1>1, <1>2, UnreadBounds
    <2>3. EndOf(k) <= where[i] \/ (dwTail < dwHead /\ EndOf(i) <= dwTail)
      BY <1>5
    <2> QED
      BY <1>0, <1>3, <1>4, <2>1, <2>2, <2>3
  <1>8. \A p, q : Link(p, q) => Link(p, q)'
    BY DEF Link, AtEnd
  <1>9. LinkInv'
    <2>1. Link(EndOf(k), IF k < Len(sent) THEN where[k + 1] ELSE dwTail)
      BY <1>1 DEF Layout, LinkInv
    <2>2. ASSUME NEW i \in Unread'
          PROVE  Link(EndOf(i), IF i < Len(sent) THEN where[i + 1] ELSE dwTail)
      BY <1>1 DEF Layout, LinkInv
    <2> QED
      BY <1>1, <1>2, <1>3, <1>8, <2>1, <2>2 DEF LinkInv
  <1> QED
    BY <1>0, <1>3, <1>4, <1>6, <1>7, <1>9 DEF Layout
-----------------------------------------------------------------------------
(***************************************************************************)
(* The other conjuncts under the steps of the other process.               *)
(***************************************************************************)

\* What a step of the writer leaves alone.
WriterAlone ==
    /\ UNCHANGED <<dwHead, reader, taken, out>>
    /\ \/ UNCHANGED <<sent, where>> /\ (dwTail' = dwTail \/ dwTail' = 0)
       \/ sent' = Append(sent, wpkg) /\ where' = Append(where, dwTail) /\ wpkg \in Pkg

\* A message that was the oldest stays the oldest.
LEMMA OldestStays ==
    ASSUME TypeOK, WriterAlone
    PROVE  /\ taken < Len(sent) => /\ taken' < Len(sent') /\ taken' = taken
                                   /\ sent'[taken + 1] = sent[taken + 1]
                                   /\ where'[taken + 1] = where[taken + 1]
           /\ AtMessage => AtMessage'
           /\ taken = Len(sent) => Ahead' = dwTail \/ Ahead' = dwTail'
  <1>0. taken \in Nat /\ Len(sent) \in Nat /\ Len(where) = Len(sent) /\ taken' = taken
    BY DEF TypeOK, WriterAlone
  <1>1. CASE UNCHANGED <<sent, where>>
    BY <1>0, <1>1 DEF AtMessage, Ahead, WriterAlone
  <1>2. CASE sent' = Append(sent, wpkg) /\ where' = Append(where, dwTail) /\ wpkg \in Pkg
    <2>1. /\ Len(sent') = Len(sent) + 1 /\ where'[Len(sent) + 1] = dwTail
          /\ \A i \in 1 .. Len(sent) : sent'[i] = sent[i] /\ where'[i] = where[i]
      BY <1>2 DEF TypeOK
    <2> QED
      BY <1>0, <2>1 DEF AtMessage, Ahead, WriterAlone
  <1> QED
    BY <1>1, <1>2 DEF WriterAlone

\* A step of the writer does not disturb what the reader has established.
LEMMA ReachFrame ==
    ASSUME TypeOK, ReaderInv, ReachInv, WriterAlone
    PROVE  ReachInv' /\ (AtMessage => AtMessage')
  <1>0. UNCHANGED <<dwHead, rpc, rop, rtail, rpkg, out, taken>>
    BY DEF WriterAlone, reader
  <1>1. AtMessage => AtMessage' /\ sent'[taken + 1] = sent[taken + 1]
    BY OldestStays DEF AtMessage
  <1>2. AtMessage /\ Covered(rtail) => Covered(rtail)'
    BY <1>0, <1>1 DEF Covered, DataLen
  <1>3. InSight(rtail) => InSight(rtail)'
    BY <1>0, OldestStays DEF InSight, DataLen
  <1>4. Around(rtail) => Around(rtail)'
    <2> SUFFICES ASSUME Around(rtail) PROVE Around(rtail)'
      OBVIOUS
    <2>0. taken <= Len(sent) /\ taken \in Nat /\ Len(sent) \in Nat
      BY DEF ReaderInv, TypeOK
    <2>1. rtail' = 0 /\ dwHead' # 0 /\ Ahead = 0
      BY <1>0 DEF Around
    <2>2. CASE taken < Len(sent)
      <3>1. Ahead' = Ahead
        BY <1>0, <2>2, OldestStays DEF Ahead
      <3> QED
        BY <2>1, <3>1 DEF Around
    <2>3. CASE taken = Len(sent)
      <3>1. dwTail = 0
        BY <2>0, <2>1, <2>3 DEF Ahead
      <3>2. Ahead' = 0
        <4>1. CASE sent' = sent
          <5>1. dwTail' = 0
            BY <3>1, <4>1 DEF WriterAlone, TypeOK
          <5> QED
            BY <3>1, <5>1, <2>3, OldestStays
        <4>2. CASE sent' # sent
          <5>1. sent' = Append(sent, wpkg) /\ where' = Append(where, dwTail)
            BY <4>2 DEF WriterAlone
          <5>2. Len(sent') = Len(sent) + 1 /\ where'[Len(sent) + 1] = dwTail
            BY <5>1 DEF TypeOK, WriterAlone
          <5> QED
            BY <1>0, <2>0, <2>3, <3>1, <5>2 DEF Ahead
        <4> QED
          BY <4>1, <4>2
      <3> QED
        BY <2>1, <3>2 DEF Around
    <2> QED
      BY <2>0, <2>2, <2>3
  <1> QED
    BY <1>0, <1>1, <1>2, <1>3, <1>4 DEF ReachInv

LEMMA SeenFrame ==
    ASSUME TypeOK, SeenInv, WriterAlone
    PROVE  SeenInv'
  <1>1. AtMessage => AtMessage' /\ sent'[taken + 1] = sent[taken + 1]
    BY OldestStays DEF AtMessage
  <1>2. UNCHANGED <<dwHead, rpc, rop, rtail, rpkg, held, out, taken>>
    BY DEF WriterAlone, reader
  <1>3. AtMessage /\ Covered(rtail) => Covered(rtail)'
    BY <1>1, <1>2 DEF Covered, DataLen
  <1> QED
    BY <1>1, <1>2, <1>3 DEF SeenInv

\* A step of the reader within its part of the ring keeps the writer's view.
LEMMA WriterFrame ==
    ASSUME TypeOK, WriterInv,
           UNCHANGED <<dwTail, iSeq, queue, writer, sent>>, dwHead' \in 0 .. Size,
           dwHead <= dwTail => dwHead' <= dwTail /\ dwHead <= dwHead',
           dwTail < dwHead => dwHead' = 0 \/ dwHead <= dwHead'
    PROVE  WriterInv'
  <1>1. wpc \in {"copy", "publish"} =>
         \/ dwHead' <= dwTail /\ dwTail + wpkg.len <= Size
         \/ dwTail < dwHead' /\ dwTail + wpkg.len < dwHead'
    <2>1. ASSUME wpc \in {"copy", "publish"} PROVE wpkg.len \in Nat
      BY <2>1, ChannelAssumption DEF WriterInv, Pkg
    <2>2. dwHead \in 0 .. Size /\ dwTail \in 0 .. Size /\ Size \in Nat
      BY Consts DEF TypeOK
    <2> QED
      BY <2>1, <2>2 DEF WriterInv
  <1>2. wpc \in {"mark", "wrap"} => 1 <= dwHead' /\ dwHead' <= dwTail
    BY Consts DEF WriterInv, TypeOK
  <1> QED
    BY <1>1, <1>2 DEF WriterInv, writer, AtEnd

\* Splitting and rebuilding the invariant.
LEMMA IInvParts == IInv <=> TypeOK /\ Layout /\ WriterInv /\ ReaderInv /\ ReachInv
  BY DEF IInv, RingInv, Layout

LEMMA IInvPartsPrime == TypeOK' /\ Layout' /\ WriterInv' /\ ReaderInv' /\ ReachInv' => IInv'
  BY DEF IInv, RingInv, Layout

-----------------------------------------------------------------------------
(***************************************************************************)
(* The steps of the writer.                                                *)
(***************************************************************************)
LEMMA WriterTypes ==
    ASSUME TypeOK, WriterInv, (\E len \in PkgLens : PushBegin(len)) \/ WriterStep \/ CrashWriter
    PROVE  TypeOK'
  <1> USE Consts DEF shm, reader, hist
  <1>1. ASSUME NEW len \in PkgLens, PushBegin(len) PROVE TypeOK'
    <2>1. wpkg' \in Pkg
      BY <1>1 DEF TypeOK, PushBegin, Pkg, Cell
    <2> QED
      BY <1>1, <2>1 DEF TypeOK, PushBegin
  <1>2. CASE PushMark
    <2>1. queue' \in [0 .. Size - 1 -> Cells]
      BY <1>2 DEF PushMark, TypeOK, Overwrite, Cells
    <2> QED
      BY <1>2, <2>1 DEF TypeOK, PushMark
  <1>3. CASE PushWrap
    BY <1>3 DEF TypeOK, PushWrap
  <1>4. CASE PushRecheck
    BY <1>4 DEF TypeOK, PushRecheck
  <1>5. CASE PushCopy
    <2>1. queue' \in [0 .. Size - 1 -> Cells]
      BY <1>5 DEF PushCopy, WriterInv, TypeOK, Overwrite, Cells
    <2> QED
      BY <1>5, <2>1 DEF TypeOK, PushCopy
  <1>6. CASE PushPublish
    <2>1. wpkg \in Pkg /\ wpkg.len \in Nat /\ wpkg.len > 0 /\ dwTail + wpkg.len <= Size
      BY <1>6, ChannelAssumption DEF PushPublish, WriterInv, Pkg, TypeOK
    <2>2. dwTail' \in 0 .. Size /\ dwTail \in 0 .. Size - 1
      BY <1>6, <2>1 DEF PushPublish, TypeOK
    <2>3. sent' \in Seq(Pkg) /\ Len(sent') = Len(sent) + 1
      BY <1>6, <2>1 DEF PushPublish, TypeOK
    <2>4. where' \in Seq(0 .. Size - 1) /\ Len(where') = Len(where) + 1
      <3> DEFINE S == 0 .. Size - 1
      <3>1. where \in Seq(S) /\ dwTail \in S /\ where' = Append(where, dwTail)
        BY <1>6, <2>2 DEF PushPublish, TypeOK
      <3> HIDE DEF S
      <3>2. where' \in Seq(S) /\ Len(where') = Len(where) + 1
        BY <3>1
      <3> QED
        BY <3>2 DEF S
    <2> QED
      BY <1>6, <2>2, <2>3, <2>4 DEF TypeOK, PushPublish
  <1>7. CASE PushCount
    BY <1>7 DEF TypeOK, PushCount, WriterInv
  <1>8. CASE CrashWriter
    BY <1>8 DEF TypeOK, CrashWriter
  <1> QED
    BY <1>1, <1>2, <1>3, <1>4, <1>5, <1>6, <1>7, <1>8 DEF WriterStep
LEMMA WriterStepIInv ==
    ASSUME IInv, Marked,
           (\E len \in PkgLens : PushBegin(len)) \/ WriterStep \/ CrashWriter
    PROVE  IInv' /\ WriterAlone
  <1>0. TypeOK /\ RingInv /\ Layout /\ WriterInv /\ ReaderInv /\ ReachInv
    BY IInvParts DEF IInv
  <1>T. TypeOK'
    BY <1>0, WriterTypes
  <1>N. /\ dwHead \in Nat /\ dwTail \in Nat /\ Size \in Nat /\ MarkLen \in Nat /\ MarkLen > 0
        /\ dwHead <= Size /\ Len(sent) \in Nat /\ iSeq \in Nat /\ taken \in Nat
    BY <1>0, Consts DEF TypeOK, Marked
  <1>A. ASSUME WriterAlone PROVE WriterAlone /\ ReachInv' /\ (AtMessage => AtMessage')
    BY <1>0, <1>A, ReachFrame
  <1> USE DEF reader, hist, shm
  <1>1. ASSUME NEW len \in PkgLens, PushBegin(len) PROVE IInv' /\ WriterAlone
    <2>1. Layout'
      BY <1>0, <1>1, LayoutFrame DEF PushBegin
    <2>2. WriterAlone /\ ReachInv' /\ (AtMessage => AtMessage')
      BY <1>1, <1>A DEF PushBegin, WriterAlone
    <2>3. ReaderInv'
      BY <1>0, <1>1, <2>2 DEF PushBegin, ReaderInv
    <2>4. WriterInv'
      <3>1. wpkg' \in Pkg /\ wpkg'.len = len /\ len \in Nat
        BY <1>1, <1>0, ChannelAssumption DEF TypeOK, PushBegin, Pkg, Cell
      <3>2. wpc = "idle" /\ Len(sent) < MaxMsg
        BY <1>1 DEF PushBegin
      <3>3. wpc' = "mark" => 1 <= dwHead /\ dwHead <= dwTail /\ Size - dwTail < len
        BY <1>1, <1>N, <3>1, <3>2 DEF PushBegin, Room
      <3>4. wpc' = "copy" =>
               \/ dwHead <= dwTail /\ dwTail + len <= Size
               \/ dwTail < dwHead /\ dwTail + len < dwHead
        BY <1>1, <1>N, <3>1, <3>2 DEF PushBegin, Room
      <3>5. wpc' \in {"idle", "mark", "copy"}
        BY <1>1, <3>2 DEF PushBegin
      <3> QED
        BY <1>0, <1>1, <3>1, <3>2, <3>3, <3>4, <3>5 DEF PushBegin, WriterInv
    <2> QED
      BY <1>1, <1>0, <1>T, <2>1, <2>2, <2>3, <2>4, IInvPartsPrime
  <1>2. CASE PushMark
    <2>1. Layout' /\ (Size - dwTail > MarkLen => queue'[dwTail] = Marker)
      <3>1. CASE Size - dwTail > MarkLen
        <4>1. dwHead <= dwTail /\ dwTail + MarkLen <= Size
          BY <1>0, <1>2, <1>N, <3>1 DEF PushMark, WriterInv
        <4>2. queue' = Overwrite(dwTail, MarkLen, Marker)
          BY <1>2, <1>N, <3>1 DEF PushMark
        <4> QED
          BY <1>0, <1>2, <1>N, <4>1, <4>2, LayoutWrite DEF PushMark
      <3>2. CASE ~(Size - dwTail > MarkLen)
        <4>1. Layout'
          BY <1>0, <1>2, <3>2, LayoutFrame DEF PushMark
        <4> QED
          BY <3>2, <4>1
      <3> QED
        BY <3>1, <3>2
    <2>2. AtEnd(dwTail)'
      BY <1>2, <1>N, <2>1 DEF PushMark, AtEnd
    <2>3. WriterAlone /\ ReachInv' /\ (AtMessage => AtMessage')
      BY <1>2, <1>A DEF PushMark, WriterAlone
    <2>4. ReaderInv'
      BY <1>0, <1>2, <2>3 DEF PushMark, ReaderInv
    <2>5. WriterInv'
      BY <1>0, <1>2, <2>2 DEF PushMark, WriterInv
    <2> QED
      BY <1>T, <2>1, <2>3, <2>4, <2>5, IInvPartsPrime
  <1>3. CASE PushWrap
    <2>1. Layout'
      BY <1>0, <1>3, LayoutWrap DEF PushWrap, WriterInv
    <2>2. WriterAlone /\ ReachInv' /\ (AtMessage => AtMessage')
      BY <1>3, <1>A DEF PushWrap, WriterAlone
    <2>3. 1 <= dwHead
      BY <1>0, <1>3 DEF PushWrap, WriterInv
    <2>4. ReaderInv'
      BY <1>0, <1>3, <1>N, <2>2, <2>3 DEF PushWrap, ReaderInv
    <2>5. WriterInv'
      BY <1>0, <1>3 DEF PushWrap, WriterInv
    <2> QED
      BY <1>T, <2>1, <2>2, <2>4, <2>5, IInvPartsPrime
  <1>4. CASE PushRecheck
    <2>1. Layout'
      BY <1>0, <1>4, LayoutFrame DEF PushRecheck
    <2>2. WriterAlone /\ ReachInv' /\ (AtMessage => AtMessage')
      BY <1>4, <1>A DEF PushRecheck, WriterAlone
    <2>3. ReaderInv'
      BY <1>0, <1>4, <2>2 DEF PushRecheck, ReaderInv
    <2>4. wpkg \in Pkg /\ wpkg.len \in Nat /\ wpkg.len > 0
      BY <1>0, <1>4, ChannelAssumption, <1>N DEF PushRecheck, WriterInv, Pkg
    <2>5. wpc' = "copy" => dwTail < dwHead /\ dwTail + wpkg.len < dwHead
      BY <1>4, <1>N, <2>4 DEF PushRecheck
    <2>6. WriterInv'
      BY <1>0, <1>4, <2>4, <2>5 DEF PushRecheck, WriterInv
    <2> QED
      BY <1>T, <2>1, <2>2, <2>3, <2>6, IInvPartsPrime
  <1>5. CASE PushCopy
    <2>1. wpkg \in Pkg /\ wpkg.len \in Nat /\ wpkg.len > 0
      BY <1>0, <1>5, ChannelAssumption, <1>N DEF PushCopy, WriterInv, Pkg
    <2>2. \/ dwHead <= dwTail /\ dwTail + wpkg.len <= Size
          \/ dwTail < dwHead /\ dwTail + wpkg.len < dwHead
      BY <1>0, <1>5 DEF PushCopy, WriterInv
    <2>3. Layout' /\ queue'[dwTail] = wpkg
      BY <1>0, <1>5, <2>1, <2>2, LayoutWrite DEF PushCopy
    <2>4. WriterAlone /\ ReachInv' /\ (AtMessage => AtMessage')
      BY <1>5, <1>A DEF PushCopy, WriterAlone
    <2>5. ReaderInv'
      BY <1>0, <1>5, <2>4 DEF PushCopy, ReaderInv
    <2>6. WriterInv'
      BY <1>0, <1>5, <2>1, <2>2, <2>3 DEF PushCopy, WriterInv
    <2> QED
      BY <1>T, <2>3, <2>4, <2>5, <2>6, IInvPartsPrime
  <1>6. CASE PushPublish
    <2>1. wpkg \in Pkg /\ wpkg.len \in Nat /\ wpkg.len > 0
      BY <1>0, <1>6, ChannelAssumption, <1>N DEF PushPublish, WriterInv, Pkg
    <2>2. /\ queue[dwTail] = wpkg
          /\ \/ dwHead <= dwTail /\ dwTail + wpkg.len <= Size
             \/ dwTail < dwHead /\ dwTail + wpkg.len < dwHead
      BY <1>0, <1>6 DEF PushPublish, WriterInv
    <2>3. taken <= Len(sent)
      BY <1>0 DEF ReaderInv
    <2>4. Layout'
      <3> DEFINE n == Len(sent)
      <3>1. n \in Nat /\ n = Len(sent) /\ taken <= n
        BY <1>N, <2>3
      <3> HIDE DEF n
      <3> QED
        BY <1>0, <1>6, <2>1, <2>2, <3>1, LayoutPublish DEF PushPublish
    <2>5. WriterAlone /\ ReachInv' /\ (AtMessage => AtMessage')
      BY <1>6, <2>1, <1>A DEF PushPublish, WriterAlone
    <2>6. /\ Len(sent') = Len(sent) + 1 /\ where'[Len(sent) + 1] = dwTail
          /\ dwTail' = dwTail + wpkg.len
      BY <1>0, <1>6, <2>1 DEF PushPublish, TypeOK
    <2>7. taken = Len(sent) /\ dwHead = dwTail => AtMessage'
      <3>1. taken' = taken /\ dwHead' = dwHead
        BY <1>6 DEF PushPublish
      <3> QED
        BY <1>N, <2>6, <3>1 DEF AtMessage
    <2>8. ReaderInv'
      <3>1. taken' <= Len(sent')
        BY <1>N, <1>6, <2>3, <2>6 DEF PushPublish
      <3>2. rpc' = "tail" => AtMessage'
        BY <1>0, <1>6, <2>5, <2>7 DEF PushPublish, ReaderInv
      <3> QED
        BY <1>0, <1>6, <1>N, <2>1, <2>2, <2>6, <3>1, <3>2 DEF PushPublish, ReaderInv
    <2>9. WriterInv'
      BY <1>0, <1>6, <1>N, <2>1, <2>6, Consts DEF PushPublish, WriterInv
    <2> QED
      BY <1>T, <2>4, <2>5, <2>8, <2>9, IInvPartsPrime
  <1>7. CASE PushCount
    <2>1. Layout'
      BY <1>0, <1>7, LayoutFrame DEF PushCount
    <2>2. WriterAlone /\ ReachInv' /\ (AtMessage => AtMessage')
      BY <1>7, <1>A DEF PushCount, WriterAlone
    <2>3. ReaderInv'
      BY <1>0, <1>7, <2>2 DEF PushCount, ReaderInv
    <2>4. WriterInv'
      BY <1>0, <1>7, <1>N DEF PushCount, WriterInv
    <2> QED
      BY <1>T, <2>1, <2>2, <2>3, <2>4, IInvPartsPrime
  <1>8. CASE CrashWriter
    <2>1. Layout'
      BY <1>0, <1>8, LayoutFrame DEF CrashWriter
    <2>2. WriterAlone /\ ReachInv' /\ (AtMessage => AtMessage')
      BY <1>8, <1>A DEF CrashWriter, WriterAlone
    <2>3. ReaderInv'
      BY <1>0, <1>8, <2>2 DEF CrashWriter, ReaderInv
    <2>4. WriterInv'
      BY <1>0, <1>8 DEF CrashWriter, WriterInv
    <2> QED
      BY <1>T, <2>1, <2>2, <2>3, <2>4, IInvPartsPrime
  <1> QED
    BY <1>1, <1>2, <1>3, <1>4, <1>5, <1>6, <1>7, <1>8 DEF WriterStep
-----------------------------------------------------------------------------
(***************************************************************************)
(* The steps of the reader.                                                *)
(***************************************************************************)

\* A reader at an unread message never finds it damaged.
LEMMA NeverBad ==
    ASSUME IInv, rpc = "decode", rop # "delete" \/ dwHead # rtail
    PROVE  /\ queue[dwHead] = sent[taken + 1] /\ sent[taken + 1] \in Pkg
           /\ AtMessage /\ Decodes /\ Fits /\ dwHead # rtail
  <1>1. AtMessage /\ Covered(rtail) /\ TypeOK /\ RingInv /\ Layout
    BY IInvParts DEF IInv, ReachInv
  <1>2. queue[dwHead] = sent[taken + 1] /\ Decodes
    BY <1>1, AtMessageCovered
  <1>3. taken + 1 \in Unread
    BY <1>1 DEF AtMessage, Unread, TypeOK
  <1>4. sent[taken + 1] \in Pkg /\ sent[taken + 1].len <= Size
    BY <1>1, <1>3, UnreadBounds, Consts
  <1> QED
    BY <1>1, <1>2, <1>4 DEF Covered, Fits

\* A delete that sees the queue not empty sees the oldest message, or the way round.
LEMMA ArgSees ==
    ASSUME TypeOK, Layout, ReaderInv, dwHead # dwTail
    PROVE  InSight(dwTail) \/ Around(dwTail)
  <1>0. /\ dwHead \in Nat /\ dwTail \in Nat /\ Size \in Nat /\ taken \in Nat /\ Len(sent) \in Nat
        /\ taken <= Len(sent) /\ dwTail <= Size
    BY Consts DEF TypeOK, ReaderInv
  <1>1. CASE taken < Len(sent)
    <2>1. taken + 1 \in Unread
      BY <1>0, <1>1 DEF Unread
    <2>2. /\ where[taken + 1] \in Nat /\ sent[taken + 1].len \in Nat /\ sent[taken + 1].len > 0
          /\ where[taken + 1] + sent[taken + 1].len <= Size
          /\ dwHead <= dwTail => where[taken + 1] + sent[taken + 1].len <= dwTail
          /\ dwTail < dwHead => \/ dwHead <= where[taken + 1]
                               \/ where[taken + 1] + sent[taken + 1].len <= dwTail
      BY <2>1, UnreadBounds
    <2> QED
      BY <1>0, <1>1, <2>2 DEF InSight, DataLen
  <1>2. CASE taken = Len(sent)
    <2>1. Link(dwHead, dwTail)
      BY <1>0, <1>2 DEF Layout, LinkInv
    <2> QED
      BY <1>0, <1>2, <2>1 DEF Link, Around, Ahead
  <1> QED
    BY <1>0, <1>1, <1>2

\* A delete that clears the queue leaves it in shape, empty.
LEMMA LayoutClear ==
    ASSUME TypeOK, WriterInv, dwHead' = dwTail, taken' = Len(sent),
           UNCHANGED <<dwTail, iSeq, queue, writer, sent, where>>
    PROVE  Layout' /\ WriterInv'
  <1>0. /\ dwHead \in Nat /\ dwTail \in Nat /\ Size \in Nat /\ Len(sent) \in Nat
        /\ dwHead <= Size /\ dwTail <= Size
    BY Consts DEF TypeOK
  <1>1. Unread' = {}
    BY <1>0 DEF Unread
  <1>2. PlacedInv' /\ OrderInv'
    BY <1>1 DEF PlacedInv, OrderInv
  <1>3. LinkInv'
    BY <1>0, <1>1 DEF LinkInv, Link
  <1>4. UNCHANGED <<wpc, wpkg, wres>>
    BY DEF writer
  <1>5. wpc \in {"copy", "publish"} => dwTail + wpkg.len <= Size
    <2> SUFFICES ASSUME wpc \in {"copy", "publish"} PROVE dwTail + wpkg.len <= Size
      OBVIOUS
    <2>1. wpkg.len \in Nat
      BY ChannelAssumption DEF WriterInv, Pkg
    <2> QED
      BY <1>0, <2>1 DEF WriterInv
  <1>6. wpc \in {"mark", "wrap"} => 1 <= dwTail
    BY <1>0 DEF WriterInv
  <1>7. WriterInv'
    BY <1>0, <1>4, <1>5, <1>6 DEF WriterInv, AtEnd
  <1> QED
    BY <1>2, <1>3, <1>7 DEF Layout

LEMMA ReaderStepIInv ==
    ASSUME IInv, Marked,
           \/ \E op \in {"peek", "get"} : ReadBegin(op)
           \/ DeleteBegin \/ ReaderStep \/ CrashReader
    PROVE  IInv'
  <1>0. TypeOK /\ RingInv /\ Layout /\ WriterInv /\ ReaderInv /\ ReachInv
    BY IInvParts DEF IInv
  <1>N. /\ dwHead \in Nat /\ dwTail \in Nat /\ Size \in Nat /\ MarkLen \in Nat /\ MarkLen > 0
        /\ dwHead <= Size /\ dwTail <= Size /\ Len(sent) \in Nat /\ taken \in Nat
    BY <1>0, Consts DEF TypeOK, Marked
  <1> USE DEF writer, hist, shm, Return
  <1>F. ASSUME UNCHANGED <<shm, writer, sent, where, taken>>
        PROVE  Layout' /\ WriterInv' /\ (AtMessage' <=> AtMessage)
    <2>1. Layout'
      BY <1>0, <1>F, LayoutFrame
    <2>2. WriterInv' /\ (AtMessage' <=> AtMessage)
      BY <1>0, <1>F DEF WriterInv, AtEnd, AtMessage
    <2> QED
      BY <2>1, <2>2
  <1>1. ASSUME NEW op \in {"peek", "get"}, ReadBegin(op) PROVE IInv'
    <2>1. TypeOK'
      BY <1>0, <1>1 DEF TypeOK, ReadBegin
    <2>2. Layout' /\ WriterInv' /\ (AtMessage' <=> AtMessage)
      BY <1>1, <1>F DEF ReadBegin
    <2>3. ReaderInv'
      BY <1>0, <1>1 DEF ReadBegin, ReaderInv
    <2>4. ReachInv'
      BY <1>1 DEF ReadBegin, ReachInv
    <2> QED
      BY <2>1, <2>2, <2>3, <2>4, IInvPartsPrime
  <1>2. CASE DeleteBegin
    <2>1. TypeOK'
      BY <1>0, <1>2 DEF TypeOK, DeleteBegin
    <2>2. Layout' /\ WriterInv' /\ (AtMessage' <=> AtMessage)
      BY <1>2, <1>F DEF DeleteBegin
    <2>3. ReaderInv'
      BY <1>0, <1>2 DEF DeleteBegin, ReaderInv
    <2>4. ReachInv'
      BY <1>2 DEF DeleteBegin, ReachInv
    <2> QED
      BY <2>1, <2>2, <2>3, <2>4, IInvPartsPrime
  <1>3. CASE DeleteArg
    <2>1. TypeOK'
      BY <1>0, <1>3 DEF TypeOK, DeleteArg
    <2>2. Layout' /\ WriterInv' /\ (AtMessage' <=> AtMessage)
      BY <1>3, <1>F DEF DeleteArg
    <2>3. ReaderInv'
      BY <1>0, <1>3 DEF DeleteArg, ReaderInv
    <2>4. dwHead # dwTail => InSight(dwTail) \/ Around(dwTail)
      BY <1>0, ArgSees
    <2>5. /\ InSight(dwTail) => InSight(rtail)'
          /\ Around(dwTail) => Around(rtail)'
      BY <1>3 DEF DeleteArg, InSight, Around, Ahead, DataLen
    <2>6. ReachInv'
      BY <1>3, <2>4, <2>5 DEF DeleteArg, ReachInv
    <2> QED
      BY <2>1, <2>2, <2>3, <2>6, IInvPartsPrime
  <1>4. CASE ReadCheck
    <2>1. dwHead # dwTail
      BY <1>0, <1>4 DEF ReadCheck, ReaderInv
    <2>2. /\ Layout'
          /\ AtMessage' \/ (taken = Len(sent) /\ dwHead' = 0 /\ dwTail = 0)
          /\ AtMessage => dwHead' = dwHead
          /\ dwHead' # dwHead => dwHead' = 0 /\ dwTail < dwHead
      BY <1>0, <1>4, <2>1, LayoutCheck DEF ReadCheck
    <2>3. dwHead' \in 0 .. Size
      BY <1>N, <2>2
    <2>4. TypeOK'
      BY <1>0, <1>4, <2>3 DEF TypeOK, ReadCheck
    <2>5. WriterInv'
      BY <1>0, <1>4, <1>N, <2>2, <2>3, WriterFrame DEF ReadCheck
    <2>6. ReaderInv'
      BY <1>0, <1>4, <2>2 DEF ReadCheck, ReaderInv
    <2>7. ASSUME rop = "delete" PROVE (AtMessage /\ Covered(rtail))' \/ (dwHead = rtail)'
      <3>1. rtail' = rtail /\ UNCHANGED <<sent, where, taken>>
        BY <1>4 DEF ReadCheck
      <3>2. CASE InSight(rtail)
        <4>1. AtMessage' /\ dwHead' = where[taken + 1]
          BY <1>N, <2>2, <3>1, <3>2 DEF InSight, AtMessage
        <4> QED
          BY <3>1, <3>2, <4>1 DEF InSight, Covered, DataLen
      <3>3. CASE Around(rtail)
        <4>1. dwHead' = 0
          BY <2>2, <3>1, <3>3 DEF Around, Ahead, AtMessage
        <4> QED
          BY <3>1, <3>3, <4>1 DEF Around
      <3> QED
        BY <1>0, <1>4, <2>7, <3>2, <3>3 DEF ReadCheck, ReachInv
    <2>8. ReachInv'
      BY <1>4, <2>7 DEF ReadCheck, ReachInv
    <2> QED
      BY <2>2, <2>4, <2>5, <2>6, <2>8, IInvPartsPrime
  <1>5. CASE ReadTail
    <2>1. TypeOK'
      BY <1>0, <1>5 DEF TypeOK, ReadTail
    <2>2. Layout' /\ WriterInv' /\ (AtMessage' <=> AtMessage)
      BY <1>5, <1>F DEF ReadTail
    <2>3. ReaderInv'
      BY <1>0, <1>5 DEF ReadTail, ReaderInv
    <2>4. rpc' = "decode" => AtMessage /\ Covered(dwTail)
      BY <1>0, <1>5, AtMessageCovered DEF ReadTail, ReaderInv
    <2>5. AtMessage /\ Covered(dwTail) => Covered(rtail)'
      BY <1>5 DEF ReadTail, Covered, DataLen
    <2>6. rop' # "delete"
      BY <1>0, <1>5 DEF ReadTail, ReaderInv
    <2>7. ReachInv'
      BY <1>5, <2>2, <2>4, <2>5, <2>6 DEF ReadTail, ReachInv
    <2> QED
      BY <2>1, <2>2, <2>3, <2>7, IInvPartsPrime
  <1>6. CASE DecodePeek \/ DecodeGet \/ DecodeLimited \/ DecodeDelete
    <2>1. rpc = "decode" /\ (rop # "delete" \/ dwHead # rtail)
      BY <1>6 DEF DecodePeek, DecodeGet, DecodeLimited, DecodeDelete
    <2>2. queue[dwHead] = sent[taken + 1] /\ sent[taken + 1] \in Pkg /\ AtMessage
      BY <2>1, NeverBad
    <2>3. TypeOK'
      BY <1>0, <1>6, <2>2 DEF TypeOK, DecodePeek, DecodeGet, DecodeLimited, DecodeDelete
    <2>4. Layout' /\ WriterInv' /\ (AtMessage' <=> AtMessage)
      BY <1>6, <1>F DEF DecodePeek, DecodeGet, DecodeLimited, DecodeDelete
    <2>5. ReaderInv'
      BY <1>0, <1>6 DEF ReaderInv, DecodePeek, DecodeGet, DecodeLimited, DecodeDelete
    <2>6. ReachInv'
      BY <1>6, <2>2, <2>4
         DEF ReachInv, DecodePeek, DecodeGet, DecodeLimited, DecodeDelete
    <2> QED
      BY <2>3, <2>4, <2>5, <2>6, IInvPartsPrime
  <1>7. CASE DecodeBad
    <2>1. TypeOK'
      BY <1>0, <1>7 DEF TypeOK, DecodeBad
    <2>2. Layout' /\ WriterInv' /\ (AtMessage' <=> AtMessage)
      BY <1>7, <1>F DEF DecodeBad
    <2>3. ReaderInv' /\ ReachInv'
      BY <1>0, <1>7 DEF DecodeBad, ReaderInv, ReachInv
    <2> QED
      BY <2>1, <2>2, <2>3, IInvPartsPrime
  <1>8. CASE ReadClear
    <2>1. TypeOK'
      <3>1. dwHead' = dwTail /\ taken' \in Nat
        BY <1>8, <1>N DEF ReadClear
      <3> QED
        BY <1>0, <1>8, <3>1 DEF TypeOK, ReadClear
    <2>2. Layout' /\ WriterInv'
      BY <1>0, <1>8, LayoutClear DEF ReadClear
    <2>3. ReaderInv' /\ ReachInv'
      BY <1>0, <1>8, <1>N DEF ReadClear, ReaderInv, ReachInv
    <2> QED
      BY <2>1, <2>2, <2>3, IInvPartsPrime
  <1>9. CASE ReadMove
    <2>1. AtMessage /\ rpkg = sent[taken + 1] /\ rop # "peek" /\ ~held
      BY <1>0, <1>9 DEF ReadMove, ReachInv, ReaderInv
    <2>2. ReaderInv' /\ ReachInv' /\ rpc' = "idle"
      <3>1. taken' <= Len(sent')
        BY <1>0, <1>9, <1>N, <2>1 DEF ReadMove, AtMessage
      <3> QED
        BY <1>0, <1>9, <2>1, <3>1 DEF ReadMove, ReachInv, ReaderInv
    <2>3. CASE UNCHANGED <<dwHead, taken>>
      <3>1. TypeOK'
        BY <1>0, <1>9, <2>3 DEF TypeOK, ReadMove
      <3>2. Layout' /\ WriterInv'
        BY <1>9, <1>F, <2>3 DEF ReadMove
      <3> QED
        BY <2>2, <3>1, <3>2, IInvPartsPrime
    <2>4. CASE dwHead' = dwHead + rpkg.len /\ taken' = taken + 1
      <3>1. /\ Layout'
            /\ dwHead' <= Size /\ taken' <= Len(sent)
            /\ dwHead <= dwTail => dwHead' <= dwTail
            /\ dwHead < dwHead'
        BY <1>0, <1>9, <2>1, <2>4, LayoutMove DEF ReadMove
      <3>2. rpkg.len \in Nat
        BY <1>0, <2>1, MessageTypes DEF AtMessage, TypeOK
      <3>3. dwHead' \in 0 .. Size /\ taken' \in Nat
        BY <1>N, <2>4, <3>1, <3>2
      <3>4. TypeOK'
        BY <1>0, <1>9, <3>3 DEF TypeOK, ReadMove
      <3>5. WriterInv'
        BY <1>0, <1>9, <1>N, <3>1, <3>3, WriterFrame DEF ReadMove
      <3> QED
        BY <2>2, <3>1, <3>4, <3>5, IInvPartsPrime
    <2> QED
      BY <1>9, <2>3, <2>4 DEF ReadMove
  <1>10. CASE CrashReader
    <2>1. TypeOK'
      <3>1. /\ crashes' \in Nat /\ rpc' = "idle" /\ rres' = "none" /\ held' = FALSE
            /\ UNCHANGED <<shm, writer, rop, rtail, rpkg, hist>>
        BY <1>0, <1>10 DEF TypeOK, CrashReader
      <3> QED
        BY <1>0, <3>1 DEF TypeOK
    <2>2. Layout' /\ WriterInv' /\ (AtMessage' <=> AtMessage)
      BY <1>10, <1>F DEF CrashReader
    <2>3. ReaderInv' /\ ReachInv'
      BY <1>0, <1>10 DEF CrashReader, ReaderInv, ReachInv
    <2> QED
      BY <2>1, <2>2, <2>3, IInvPartsPrime
  <1> QED
    BY <1>1, <1>2, <1>3, <1>4, <1>5, <1>6, <1>7, <1>8, <1>9, <1>10 DEF ReaderStep


\* A receiver that deletes only what it has peeked sees the oldest message in all it does.
LEMMA SeenStep ==
    ASSUME IInv, SeenInv, Proper,
           \/ \E op \in {"peek", "get"} : ReadBegin(op)
           \/ DeleteBegin \/ ReaderStep \/ CrashReader
    PROVE  SeenInv'
  <1>0. TypeOK /\ RingInv /\ Layout /\ ReaderInv
    BY IInvParts DEF IInv
  <1> USE DEF writer, hist, shm, Return
  <1>F. ASSUME UNCHANGED <<dwHead, sent, where, taken>> PROVE AtMessage' <=> AtMessage
    BY <1>F DEF AtMessage
  <1>1. ASSUME NEW op \in {"peek", "get"}, ReadBegin(op) PROVE SeenInv'
    <2>1. AtMessage' <=> AtMessage
      BY <1>1, <1>F DEF ReadBegin
    <2> QED
      BY <1>1, <2>1 DEF ReadBegin, SeenInv
  <1>2. CASE DeleteBegin
    <2>1. held /\ (AtMessage' <=> AtMessage)
      BY <1>2, <1>F DEF DeleteBegin, Proper
    <2> QED
      BY <1>2, <2>1 DEF DeleteBegin, SeenInv
  <1>3. CASE DeleteArg
    <2>1. AtMessage /\ out = sent[taken + 1] /\ rop = "delete" /\ ~held
      BY <1>0, <1>3 DEF DeleteArg, SeenInv, ReaderInv
    <2>2. Covered(dwTail) /\ dwHead # dwTail /\ AtMessage'
      BY <1>0, <1>3, <2>1, <1>F, AtMessageCovered DEF Covered, DeleteArg
    <2>3. Covered(rtail)'
      BY <1>3, <2>2 DEF DeleteArg, Covered, DataLen
    <2> QED
      BY <1>3, <2>1, <2>2, <2>3 DEF DeleteArg, SeenInv
  <1>4. CASE ReadCheck
    <2>1. AtMessage => dwHead' = dwHead
      BY <1>0, <1>4, LayoutCheck DEF ReadCheck, ReaderInv
    <2>2. AtMessage => AtMessage' /\ (Covered(rtail) => Covered(rtail)')
      BY <1>4, <2>1 DEF ReadCheck, AtMessage, Covered, DataLen
    <2> QED
      BY <1>4, <2>2 DEF ReadCheck, SeenInv
  <1>5. CASE ReadTail
    <2>1. rop' # "delete" /\ (AtMessage' <=> AtMessage)
      BY <1>0, <1>5, <1>F DEF ReadTail, ReaderInv
    <2>2. rpc' = "decode" => AtMessage /\ Covered(dwTail)
      BY <1>0, <1>5, AtMessageCovered DEF ReadTail, ReaderInv
    <2>3. Covered(dwTail) => Covered(rtail)'
      BY <1>5 DEF ReadTail, Covered, DataLen
    <2> QED
      BY <1>5, <2>1, <2>2, <2>3 DEF ReadTail, SeenInv
  <1>6. CASE DecodePeek \/ DecodeGet \/ DecodeLimited \/ DecodeDelete
    <2>1. rpc = "decode" /\ (rop # "delete" \/ dwHead # rtail)
      BY <1>6 DEF DecodePeek, DecodeGet, DecodeLimited, DecodeDelete
    <2>2. queue[dwHead] = sent[taken + 1] /\ (AtMessage' <=> AtMessage)
      BY <1>6, <1>F, <2>1, NeverBad DEF DecodePeek, DecodeGet, DecodeLimited, DecodeDelete
    <2> QED
      BY <1>0, <1>6, <2>1, <2>2
         DEF SeenInv, ReaderInv, DecodePeek, DecodeGet, DecodeLimited, DecodeDelete
  <1>7. ~DecodeBad
    <2> SUFFICES ASSUME DecodeBad PROVE FALSE
      OBVIOUS
    <2>1. rpc = "decode" /\ dwHead # rtail
      BY DEF DecodeBad, SeenInv, Covered
    <2> QED
      BY <2>1, NeverBad DEF DecodeBad
  <1>8. ~ReadClear
    BY DEF ReadClear, SeenInv
  <1>9. CASE ReadMove
    <2>1. rpc' = "idle" /\ held' = FALSE
      BY <1>0, <1>9 DEF ReadMove, ReaderInv, SeenInv, TypeOK
    <2> QED
      BY <2>1 DEF SeenInv
  <1>10. CASE CrashReader
    BY <1>10 DEF CrashReader, SeenInv
  <1> QED
    BY <1>1, <1>2, <1>3, <1>4, <1>5, <1>6, <1>7, <1>8, <1>9, <1>10 DEF ReaderStep

-----------------------------------------------------------------------------
(***************************************************************************)
(* The theorems.                                                           *)
(***************************************************************************)

LEMMA StutterIInv ==
    ASSUME IInv, UNCHANGED vars
    PROVE  IInv' /\ (SeenInv => SeenInv')
  <1>1. TypeOK /\ Layout /\ WriterInv /\ ReaderInv /\ ReachInv
    BY IInvParts DEF IInv
  <1>2. /\ UNCHANGED <<shm, writer, reader, sent, where, taken>>
        /\ UNCHANGED <<crashes, out>>
    BY DEF vars, shm, writer, reader
  <1>3. TypeOK'
    BY <1>1, <1>2 DEF TypeOK, shm, writer, reader
  <1>4. Layout'
    BY <1>1, <1>2, LayoutFrame DEF shm
  <1>5. WriterInv' /\ ReaderInv'
    BY <1>1, <1>2 DEF WriterInv, ReaderInv, AtEnd, AtMessage, shm, writer, reader
  <1>6. WriterAlone
    BY <1>2 DEF WriterAlone, shm, reader
  <1> QED
    BY <1>1, <1>3, <1>4, <1>5, <1>6, ReachFrame, SeenFrame, IInvPartsPrime

\* The conjunction of the type invariant, the ring's layout and what the two
\* processes know holds in every state, whatever the receiver deletes.
THEOREM Invariance == ASSUME Marked PROVE Spec => []IInv
  <1>1. Init => IInv
    BY InitIInv
  <1>2. ASSUME IInv, [Next]_vars PROVE IInv'
    <2>1. CASE (\E len \in PkgLens : PushBegin(len)) \/ WriterStep \/ CrashWriter
      BY <1>2, <2>1, WriterStepIInv
    <2>2. CASE \/ \E op \in {"peek", "get"} : ReadBegin(op)
               \/ DeleteBegin \/ ReaderStep \/ CrashReader
      BY <1>2, <2>2, ReaderStepIInv
    <2>3. CASE UNCHANGED vars
      BY <1>2, <2>3, StutterIInv
    <2> QED
      BY <1>2, <2>1, <2>2, <2>3 DEF Next
  <1> QED
    BY <1>1, <1>2, PTL DEF Spec

\* Type correctness, for every value of the constants.
THEOREM TypeCorrect == ASSUME Marked PROVE Spec => []TypeOK
  <1>1. IInv => TypeOK
    BY DEF IInv
  <1> QED
    BY <1>1, Invariance, PTL

\* The unread messages always lie intact and in order between dwHead and
\* dwTail, wherever the two processes are in their calls.
THEOREM RingCorrect == ASSUME Marked PROVE Spec => []RingInv
  <1>1. IInv => RingInv
    BY DEF IInv
  <1> QED
    BY <1>1, Invariance, PTL

\* What the reader looks at is the oldest unread message; the queue is never
\* cleared, if the receiver deletes only what it has peeked.
THEOREM ReaderSeesOldest == ASSUME Proper PROVE Spec => []SeenInv
  <1>0. Marked
    BY DEF Proper
  <1>1. Init => SeenInv
    BY InitIInv
  <1>2. ASSUME IInv, SeenInv, [Next]_vars PROVE SeenInv'
    <2>1. CASE (\E len \in PkgLens : PushBegin(len)) \/ WriterStep \/ CrashWriter
      BY <1>0, <1>2, <2>1, WriterStepIInv, SeenFrame DEF IInv
    <2>2. CASE \/ \E op \in {"peek", "get"} : ReadBegin(op)
               \/ DeleteBegin \/ ReaderStep \/ CrashReader
      BY <1>2, <2>2, SeenStep
    <2>3. CASE UNCHANGED vars
      BY <1>2, <2>3, StutterIInv
    <2> QED
      BY <1>2, <2>1, <2>2, <2>3 DEF Next
  <1>3. Spec => []IInv
    BY <1>0, Invariance
  <1> QED
    BY <1>1, <1>2, <1>3, PTL DEF Spec

\* tbus_push_channel_pkgv never writes over what the receiver has still to
\* read, although it works with a dwHead that may have moved on.
THEOREM WriterKeepsOut == ASSUME Marked PROVE Spec => []NoOverwrite
  <1>1. ASSUME IInv PROVE NoOverwrite
    <2>1. TypeOK /\ RingInv /\ PlacedInv /\ WriterInv
      BY <1>1 DEF IInv, RingInv
    <2>2. /\ dwHead \in 0 .. Size /\ dwTail \in 0 .. Size
          /\ Size \in Nat /\ MarkLen \in Nat /\ MarkLen > 0
          /\ wpc # "idle" => wpkg.len \in Nat
      BY <2>1, Consts, ChannelAssumption DEF TypeOK, WriterInv, Marked, Pkg
    <2>3. ASSUME NEW i \in Unread
          PROVE  /\ where[i] \in 0 .. Size - 1 /\ EndOf(i) \in Nat /\ EndOf(i) <= Size
                 /\ dwHead <= dwTail => dwHead <= where[i] /\ EndOf(i) <= dwTail
                 /\ dwTail < dwHead => dwHead <= where[i] \/ EndOf(i) <= dwTail
      <3>1. i \in 1 .. Len(sent)
        BY <2>1 DEF Unread, TypeOK
      <3> QED
        BY <2>1, <2>2, <2>3, <3>1, MessageTypes DEF PlacedInv, EndOf
    <2>4. CASE wpc = "copy"
      <3>1. WriteRegion = dwTail .. dwTail + wpkg.len - 1
        BY <2>4 DEF WriteRegion
      <3>2. \/ dwHead <= dwTail /\ dwTail + wpkg.len <= Size
            \/ dwTail < dwHead /\ dwTail + wpkg.len < dwHead
        BY <2>1, <2>4 DEF WriterInv
      <3>3. wpkg.len \in Nat
        BY <2>2, <2>4
      <3>4. WriteRegion \subseteq 0 .. Size - 1
        BY <2>2, <3>1, <3>2, <3>3
      <3>5. ASSUME NEW i \in Unread
            PROVE  (dwTail .. dwTail + wpkg.len - 1) \cap (where[i] .. EndOf(i) - 1) = {}
        BY <2>2, <2>3, <3>2, <3>3
      <3> QED
        BY <3>1, <3>4, <3>5 DEF NoOverwrite
    <2>5. CASE wpc = "mark" /\ Size - dwTail > MarkLen
      <3>1. WriteRegion = dwTail .. dwTail + MarkLen - 1
        BY <2>5 DEF WriteRegion
      <3>2. dwHead <= dwTail
        BY <2>1, <2>5 DEF WriterInv
      <3> QED
        BY <2>2, <2>3, <2>5, <3>1, <3>2 DEF NoOverwrite
    <2>6. CASE wpc # "copy" /\ ~(wpc = "mark" /\ Size - dwTail > MarkLen)
      BY <2>6 DEF WriteRegion, NoOverwrite
    <2> QED
      BY <2>4, <2>5, <2>6
  <1> QED
    BY <1>1, Invariance, PTL

\* iSeq falls behind the messages sent by at most one per crash.
THEOREM SeqLagBounded == ASSUME Marked PROVE Spec => []SeqLag
  <1>1. Init => SeqLag
    BY DEF Init, SeqLag
  <1>2. ASSUME SeqLag, IInv, [Next]_vars PROVE SeqLag'
    <2>1. /\ sent \in Seq(Pkg) /\ Len(sent) \in Nat /\ iSeq \in Nat /\ crashes \in Nat
          /\ wpc = "publish" => wpkg \in Pkg
      BY <1>2 DEF IInv, TypeOK, RingInv, WriterInv
    <2>2. /\ Len(sent) - iSeq >= 0
          /\ Len(sent) - iSeq <= crashes + (IF wpc = "count" THEN 1 ELSE 0)
          /\ wpc = "count" => Len(sent) - iSeq >= 1
      BY <1>2, <2>1 DEF SeqLag, IInv, RingInv, WriterInv
    <2>3. CASE PushPublish
      <3>1. Len(sent') = Len(sent) + 1 /\ wpc' = "count" /\ wpc # "count"
            /\ UNCHANGED <<iSeq, crashes>>
        BY <2>1, <2>3 DEF PushPublish, reader
      <3> QED
        BY <2>1, <2>2, <3>1 DEF SeqLag
    <2>4. CASE PushCount
      <3>1. wpc = "count" /\ wpc' = "idle" /\ iSeq' = iSeq + 1
            /\ UNCHANGED <<sent, crashes>>
        BY <2>4 DEF PushCount, hist
      <3> QED
        BY <2>1, <2>2, <3>1 DEF SeqLag
    <2>5. CASE CrashWriter \/ CrashReader
      <3>1. crashes' = crashes + 1 /\ UNCHANGED <<sent, iSeq>>
            /\ (wpc' = wpc \/ wpc' = "idle")
        BY <2>5 DEF CrashWriter, CrashReader, shm, hist, writer
      <3> QED
        BY <2>1, <2>2, <3>1 DEF SeqLag
    <2>6. CASE \/ \E len \in PkgLens : PushBegin(len)
               \/ PushMark \/ PushWrap \/ PushRecheck \/ PushCopy
      <3>1. wpc # "count" /\ wpc' # "count" /\ UNCHANGED <<sent, iSeq, crashes>>
        BY <2>6 DEF PushBegin, PushMark, PushWrap, PushRecheck, PushCopy, shm, hist
      <3> QED
        BY <1>2, <3>1 DEF SeqLag
    <2>7. CASE \/ \E op \in {"peek", "get"} : ReadBegin(op)
               \/ DeleteBegin \/ ReaderStep \/ UNCHANGED vars
      <3>1. UNCHANGED <<sent, iSeq, crashes, wpc>>
        BY <2>7 DEF ReadBegin, DeleteBegin, ReaderStep, DeleteArg, ReadCheck, ReadTail,
                    DecodePeek, DecodeGet, DecodeLimited, DecodeDelete, DecodeBad,
                    ReadClear, ReadMove, shm, hist, writer, vars
      <3> QED
        BY <1>2, <3>1 DEF SeqLag
    <2> QED
      BY <1>2, <2>3, <2>4, <2>5, <2>6, <2>7 DEF Next, WriterStep
  <1> QED
    BY <1>1, <1>2, Invariance, PTL DEF Spec

\* The steps of the two processes as steps of TbusFifo.  A message is sent when dwTail
\* moves over it.
LEMMA SendSteps ==
    ASSUME IInv, PushPublish
    PROVE  Fifo!Next
  <1>1. wpkg \in Pkg
    BY DEF IInv, RingInv, WriterInv, PushPublish
  <1>2. Fifo!Send(wpkg)
    BY DEF Fifo!Send, PushPublish
  <1> QED
    BY <1>1, <1>2 DEF Fifo!Next

\* What a peek or a get hands out is the oldest message.
LEMMA ShowSteps ==
    ASSUME IInv, DecodePeek \/ DecodeGet
    PROVE  Fifo!Next
  <1>1. /\ rpc = "decode" /\ rop # "delete" /\ out' = queue[dwHead]
        /\ UNCHANGED <<sent, taken>>
    BY DEF DecodePeek, DecodeGet
  <1>2. taken < Len(sent) /\ queue[dwHead] = sent[taken + 1]
    BY <1>1, NeverBad DEF AtMessage
  <1> QED
    BY <1>1, <1>2 DEF Fifo!Next, Fifo!Show

\* A move takes one message away, the oldest.
LEMMA MoveSteps ==
    ASSUME IInv, ReadMove
    PROVE  /\ UNCHANGED <<sent, out>> /\ (taken' = taken + 1 \/ taken' = taken)
           /\ taken < Len(sent)
  BY DEF IInv, ReachInv, AtMessage, ReadMove

\* The other steps, but for the clearing of the queue, change nothing TbusFifo speaks of.
LEMMA SilentSteps ==
    ASSUME [Next]_vars
    PROVE  \/ PushPublish \/ DecodePeek \/ DecodeGet \/ ReadMove \/ ReadClear
           \/ UNCHANGED Fifo!vars
  <1>1. CASE \/ \E len \in PkgLens : PushBegin(len)
             \/ PushMark \/ PushWrap \/ PushRecheck \/ PushCopy \/ PushCount
             \/ CrashWriter \/ CrashReader \/ UNCHANGED vars
    BY <1>1 DEF PushBegin, PushMark, PushWrap, PushRecheck, PushCopy, PushCount,
                CrashWriter, CrashReader, hist, vars, Fifo!vars
  <1>2. CASE \/ \E op \in {"peek", "get"} : ReadBegin(op)
             \/ DeleteBegin \/ DeleteArg \/ ReadCheck \/ ReadTail
             \/ DecodeLimited \/ DecodeDelete \/ DecodeBad
    BY <1>2 DEF ReadBegin, DeleteBegin, DeleteArg, ReadCheck, ReadTail,
                DecodeLimited, DecodeDelete, DecodeBad, hist, Fifo!vars
  <1> QED
    BY <1>1, <1>2 DEF Next, WriterStep, ReaderStep

\* The ring in shared memory implements the channel TbusFifo promises: every
\* step of the two processes is a send, a show or a removal, or invisible.
THEOREM Refinement == ASSUME Proper PROVE Spec => FifoSpec
  <1>0. Marked
    BY DEF Proper
  <1>1. Init => Fifo!Init
    BY DEF Init, Fifo!Init
  <1>2. ASSUME IInv, SeenInv, [Next]_vars PROVE [Fifo!Next]_Fifo!vars
    <2>1. CASE ReadMove
      <3>1. out = sent[taken + 1]
        BY <1>2, <2>1 DEF SeenInv, ReadMove
      <3> QED
        BY <1>2, <2>1, <3>1, MoveSteps DEF Fifo!Next, Fifo!Remove, Fifo!vars
    <2>2. ~ReadClear
      BY <1>2 DEF SeenInv, ReadClear
    <2> QED
      BY <1>2, <2>1, <2>2, SendSteps, ShowSteps, SilentSteps
  <1>3. Spec => []IInv
    BY <1>0, Invariance
  <1> QED
    BY <1>1, <1>2, <1>3, ReaderSeesOldest, PTL DEF Spec, FifoSpec, Fifo!Spec

\* With a receiver that deletes what it has not looked at the ring implements the weaker
\* promise: what it shows, it shows in order, and what is lost is the oldest that is queued,
\* although the delete works on a dwTail that is out of date.
THEOREM LossyRefinement == ASSUME Marked PROVE Spec => LossyFifoSpec
  <1>1. Init => Fifo!Init
    BY DEF Init, Fifo!Init
  <1>2. ASSUME IInv, [Next]_vars PROVE [Fifo!Next \/ Fifo!Discard]_Fifo!vars
    <2>0. taken \in Nat /\ Len(sent) \in Nat /\ taken <= Len(sent)
      BY <1>2 DEF IInv, TypeOK, RingInv, ReaderInv
    <2>1. CASE ReadMove
      <3>1. /\ UNCHANGED <<sent, out>> /\ (taken' = taken + 1 \/ taken' = taken)
            /\ taken < Len(sent)
        BY <1>2, <2>1, MoveSteps
      <3>2. taken' = taken + 1 => Fifo!Discard
        <4>1. taken + 1 \in taken + 1 .. Len(sent)
          BY <2>0, <3>1
        <4> QED
          BY <3>1, <4>1 DEF Fifo!Discard
      <3> QED
        BY <3>1, <3>2 DEF Fifo!vars
    <2>2. CASE ReadClear
      <3>1. UNCHANGED <<sent, out>> /\ taken' = Len(sent)
        BY <2>2 DEF ReadClear
      <3>2. taken < Len(sent) => Fifo!Discard
        <4>1. taken < Len(sent) => Len(sent) \in taken + 1 .. Len(sent)
          BY <2>0
        <4> QED
          BY <3>1, <4>1 DEF Fifo!Discard
      <3> QED
        BY <2>0, <3>1, <3>2 DEF Fifo!vars
    <2> QED
      BY <1>2, <2>1, <2>2, SendSteps, ShowSteps, SilentSteps
  <1> QED
    BY <1>1, <1>2, Invariance, PTL DEF Spec, LossyFifoSpec, Fifo!LossySpec
=============================================================================
