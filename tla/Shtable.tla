-------------------------------- MODULE Shtable ---------------------------------
(***************************************************************************)
(* The hash table of comm/shtable.c in shared memory: items at fixed       *)
(* positions, linked both ways into the list of free ones or the chain of  *)
(* a bucket.  A call takes a step for every item, bucket or word of the    *)
(* head it writes, and the process may die between two of them; the next   *)
(* one attaches (sht_check sees no harm) and calls sht_rebuild, which      *)
(* trusts nothing but fValid and uCode.                                    *)
(*                                                                         *)
(* An insertion only reserves an item: the caller copies the data in       *)
(* afterwards.  Until then the item has the data of its last use.          *)
(***************************************************************************)
EXTENDS Integers, FiniteSets

CONSTANTS
    Key,        \* what pfnCmp compares
    Code,       \* pfnHashCode, a number for each key
    Cap,        \* iMax
    Buckets     \* iBucket

Item   == 0 .. Cap - 1
Bucket == 0 .. Buckets - 1
NoKey  == "none"

VARIABLES
    iFreeHead, iItem, item, bucket, \* the table
    pc,     \* "idle", "down" or the next write of a call
    node,   \* iNode of the call
    key,    \* pvData of the call
    found   \* history: for each key, insertions that ended less removals that
            \* began (after a death: what was there to be rebuilt)

vars == <<iFreeHead, iItem, item, bucket, pc, node, key, found>>

Free(n) == [fValid |-> FALSE, uCode |-> 0, iPrev |-> -1, iNext |-> n, data |-> NoKey]

\* sht_init, sht_make_free_chain_i
Init ==
    /\ iFreeHead = 0 /\ iItem = 0
    /\ item = [i \in Item |->
                 [Free(IF i = Cap - 1 THEN -1 ELSE i + 1) EXCEPT !.iPrev = i - 1]]
    /\ bucket = [b \in Bucket |-> [iCount |-> 0, iHead |-> 0]]
    /\ pc = "idle" /\ node = 0 /\ key \in Key
    /\ found = [k \in Key |-> 0]

BucketOf(code) == code % Buckets

Linked(i) == i \in Item

\* iNext of the item before or iPrev of the item behind, if there is one.
SetNext(i, n) == IF Linked(i) THEN [item EXCEPT ![i].iNext = n] ELSE item
SetPrev(i, n) == IF Linked(i) THEN [item EXCEPT ![i].iPrev = n] ELSE item

\* What sht_find_i can meet under a key: valid, the code, the data.
Holds(i, k) == item[i].fValid /\ item[i].uCode = Code[k] /\ item[i].data = k

Count(k) == Cardinality({i \in Item : Holds(i, k)})

Goto(from, to) == pc = from /\ pc' = to

\* Mutant of Same: equal codes are enough.
SameCode(i, k) == item[i].uCode = Code[k]

\* The code and pfnCmp.
Same(i, k) == item[i].uCode = Code[k] /\ item[i].data = k

\* The first m items of the chain of a bucket.
Leads(p, m, b) == p[1] = bucket[b].iHead /\ \A j \in 1 .. m - 1 : p[j + 1] = item[p[j]].iNext

\* sht_find_i walks at most iCount items of the chain, to the first that is the same.
Hits(k, b) ==
    {i \in Item : \E m \in 1 .. bucket[b].iCount : \E p \in [1 .. m -> Item] :
        /\ Leads(p, m, b) /\ p[m] = i
        /\ \A j \in 1 .. m : Same(p[j], k) <=> j = m}

Find(k) ==
    LET hits == Hits(k, BucketOf(Code[k]))
    IN  IF hits = {} THEN -1 ELSE CHOOSE i \in hits : TRUE
-----------------------------------------------------------------------------
(***************************************************************************)
(* sht_insert_multi and sht_insert_unique: sht_alloc_node_i, sht_insert_i, *)
(* and the copy of the data.                                               *)
(***************************************************************************)
InsertBegin(k, unique) ==
    /\ Goto("idle", "alloc")
    /\ Linked(iFreeHead) /\ (unique => Find(k) = -1)
    /\ node' = iFreeHead /\ key' = k
    /\ iFreeHead' = item[iFreeHead].iNext
    /\ UNCHANGED <<iItem, item, bucket, found>>

InsertAlloc ==
    /\ Goto("alloc", "newhead")
    /\ item' = [item EXCEPT ![node] = [fValid |-> TRUE, uCode |-> 0, iPrev |-> -1,
                                       iNext |-> -1, data |-> @.data]]
    /\ UNCHANGED <<iFreeHead, iItem, bucket, node, key, found>>

InsertNewHead ==
    /\ Goto("newhead", "link")
    /\ item' = SetPrev(iFreeHead, -1)
    /\ iItem' = iItem + 1
    /\ UNCHANGED <<iFreeHead, bucket, node, key, found>>

InsertLink ==
    /\ Goto("link", "back")
    /\ LET b == bucket[BucketOf(Code[key])]
       IN  item' = [item EXCEPT ![node].uCode = Code[key],
                                ![node].iNext = IF b.iCount > 0 THEN b.iHead ELSE -1]
    /\ UNCHANGED <<iFreeHead, iItem, bucket, node, key, found>>

\* Mutant of InsertBack: the former head is not linked back.
InsertBackNot ==
    /\ Goto("back", "bucket")
    /\ UNCHANGED <<iFreeHead, iItem, item, bucket, node, key, found>>

InsertBack ==
    /\ Goto("back", "bucket")
    /\ LET b == bucket[BucketOf(Code[key])]
       IN  item' = IF b.iCount > 0 THEN SetPrev(b.iHead, node) ELSE item
    /\ UNCHANGED <<iFreeHead, iItem, bucket, node, key, found>>

InsertBucket ==
    /\ Goto("bucket", "copy")
    /\ bucket' = [bucket EXCEPT ![BucketOf(Code[key])] =
                    [iCount |-> @.iCount + 1, iHead |-> node]]
    /\ UNCHANGED <<iFreeHead, iItem, item, node, key, found>>

InsertCopy ==
    /\ Goto("copy", "idle")
    /\ item' = [item EXCEPT ![node].data = key]
    /\ found' = [found EXCEPT ![key] = @ + 1]
    /\ UNCHANGED <<iFreeHead, iItem, bucket, node, key>>
-----------------------------------------------------------------------------
(***************************************************************************)
(* sht_remove and sht_remove_by_pos of a valid item: sht_remove_i,         *)
(* sht_free_node_i.                                                        *)
(***************************************************************************)
RemoveBegin(k) ==
    /\ Goto("idle", "forward")
    /\ Find(k) # -1
    /\ node' = Find(k) /\ key' = k
    /\ found' = [found EXCEPT ![k] = @ - 1]
    /\ UNCHANGED <<iFreeHead, iItem, item, bucket>>

RemovePos(i) ==
    /\ Goto("idle", "forward")
    /\ item[i].fValid
    /\ node' = i /\ key' = item[i].data
    /\ found' = [k \in Key |-> IF Holds(i, k) THEN found[k] - 1 ELSE found[k]]
    /\ UNCHANGED <<iFreeHead, iItem, item, bucket>>

RemoveForward ==
    /\ Goto("forward", "backward")
    /\ item' = SetNext(item[node].iPrev, item[node].iNext)
    /\ UNCHANGED <<iFreeHead, iItem, bucket, node, key, found>>

RemoveBackward ==
    /\ Goto("backward", "unhead")
    /\ item' = SetPrev(item[node].iNext, item[node].iPrev)
    /\ UNCHANGED <<iFreeHead, iItem, bucket, node, key, found>>

RemoveBucket ==
    /\ Goto("unhead", "clear")
    /\ bucket' = [bucket EXCEPT ![BucketOf(item[node].uCode)] =
                    [iCount |-> @.iCount - 1,
                     iHead |-> IF @.iHead = node THEN item[node].iNext ELSE @.iHead]]
    /\ UNCHANGED <<iFreeHead, iItem, item, node, key, found>>

RemoveClear ==
    /\ Goto("clear", "freehead")
    /\ item' = [item EXCEPT ![node] = [Free(-1) EXCEPT !.data = item[node].data]]
    /\ UNCHANGED <<iFreeHead, iItem, bucket, node, key, found>>

RemoveFreeHead ==
    /\ Goto("freehead", "freelink")
    /\ item' = SetPrev(iFreeHead, node)
    /\ UNCHANGED <<iFreeHead, iItem, bucket, node, key, found>>

RemoveFreeLink ==
    /\ Goto("freelink", "done")
    /\ item' = [item EXCEPT ![node].iNext = iFreeHead]
    /\ UNCHANGED <<iFreeHead, iItem, bucket, node, key, found>>

RemoveDone ==
    /\ Goto("done", "idle")
    /\ iFreeHead' = node /\ iItem' = iItem - 1
    /\ UNCHANGED <<item, bucket, node, key, found>>
-----------------------------------------------------------------------------
Crash ==
    /\ pc # "down" /\ pc' = "down"
    /\ found' = [k \in Key |-> Count(k)]
    /\ UNCHANGED <<iFreeHead, iItem, item, bucket, node, key>>

First(P) == IF P = {} THEN -1 ELSE CHOOSE p \in P : \A q \in P : p <= q
Last(P)  == IF P = {} THEN -1 ELSE CHOOSE p \in P : \A q \in P : q <= p

Valid == {i \in Item : item[i].fValid}

\* The valid items of the bucket of i.
Mates(i) == {j \in Valid : BucketOf(item[j].uCode) = BucketOf(item[i].uCode)}

\* The links sht_rebuild makes: free items in the order of their positions, the
\* chain of a bucket from the last position to the first.
Rebuilt(i) ==
    IF item[i].fValid
    THEN [item[i] EXCEPT !.iPrev = First({j \in Mates(i) : j > i}),
                         !.iNext = Last({j \in Mates(i) : j < i})]
    ELSE [item[i] EXCEPT !.iPrev = Last({j \in Item \ Valid : j < i}),
                         !.iNext = First({j \in Item \ Valid : j > i})]

\* sht_attach and sht_rebuild, which may be repeated if it dies itself: it does
\* not write what it reads.
Rebuild ==
    /\ pc \in {"down", "idle"} /\ pc' = "idle"
    /\ item' = [i \in Item |-> Rebuilt(i)]
    /\ iFreeHead' = First(Item \ Valid) /\ iItem' = Cardinality(Valid)
    /\ bucket' = [b \in Bucket |->
                    LET V == {i \in Valid : BucketOf(item[i].uCode) = b}
                    IN  [iCount |-> Cardinality(V), iHead |-> Last(V)]]
    /\ UNCHANGED <<node, key, found>>
-----------------------------------------------------------------------------
Next ==
    \/ \E k \in Key : (\E unique \in BOOLEAN : InsertBegin(k, unique)) \/ RemoveBegin(k)
    \/ InsertAlloc \/ InsertNewHead \/ InsertLink \/ InsertBack \/ InsertBucket \/ InsertCopy
    \/ \E i \in Item : RemovePos(i)
    \/ RemoveForward \/ RemoveBackward \/ RemoveBucket \/ RemoveClear
    \/ RemoveFreeHead \/ RemoveFreeLink \/ RemoveDone
    \/ Crash \/ Rebuild

Spec == Init /\ [][Next]_vars
-----------------------------------------------------------------------------
TypeOK ==
    /\ iFreeHead \in Item \cup {-1} /\ iItem \in 0 .. Cap
    /\ item \in [Item -> [fValid : BOOLEAN, uCode : Nat, iPrev : Item \cup {-1},
                          iNext : Item \cup {-1}, data : Key \cup {NoKey}]]
    /\ bucket \in [Bucket -> [iCount : 0 .. Cap, iHead : Item \cup {-1}]]
    /\ node \in Item /\ key \in Key \cup {NoKey}

\* The items of P are linked into a list, both ways, from first.
IsList(P, first) ==
    LET n == Cardinality(P)
    IN  \E f \in [1 .. n -> P] :
          /\ \A i \in P : \E j \in 1 .. n : f[j] = i
          /\ n > 0 => first = f[1]
          /\ \A j \in 1 .. n : /\ item[f[j]].iPrev = IF j = 1 THEN -1 ELSE f[j - 1]
                              /\ item[f[j]].iNext = IF j = n THEN -1 ELSE f[j + 1]

\* Between two calls every item is in the list of free items or in the chain of
\* the bucket its code says, once, linked both ways, and the counts are right --
\* also after a death inside a call, once the table was rebuilt.
ChainInv ==
    pc = "idle" =>
        /\ IsList(Item \ Valid, iFreeHead) /\ (Valid = Item => iFreeHead = -1)
        /\ iItem = Cardinality(Valid)
        /\ \A b \in Bucket :
              LET V == {i \in Valid : BucketOf(item[i].uCode) = b}
              IN  bucket[b].iCount = Cardinality(V) /\ IsList(V, bucket[b].iHead)

\* Between two calls a key is found exactly if it was inserted more often than
\* removed.
FindsAll == pc = "idle" => \A k \in Key : found[k] = Count(k) /\ (Find(k) # -1 <=> found[k] > 0)

\* A process that dies in a call takes nothing but what it was to remove.  (It may
\* add one: an item reserved but not copied has old data, and is found under it if
\* the code is the same; or the removal has not gone far enough.)
CrashKeeps ==
    [][Crash => \A k \in Key :
          /\ found'[k] >= found[k]
          /\ found'[k] > found[k] => Code[k] \in {0, Code[key]}]_vars
=============================================================================
