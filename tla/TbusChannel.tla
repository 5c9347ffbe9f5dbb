------------------------------ MODULE TbusChannel ------------------------------
(***************************************************************************)
(* One direction of a tbus channel: the recycle queue in shared memory     *)
(* (tbus_channel.c, default build), written by one process and read by     *)
(* another with no lock.  dwHead belongs to the reader and dwTail to the   *)
(* writer; each reads the other's at arbitrary moments, so every access to *)
(* a shared word is a step of its own.                                     *)
(*                                                                         *)
(* A message is never split: if it does not fit between dwTail and the end *)
(* of the queue, the writer marks the unused rest with a counterfeit       *)
(* message (when one fits), sets dwTail to 0 and tries again there.        *)
(***************************************************************************)
EXTENDS Integers, Sequences

CONSTANTS
    Size,        \* dwSize, the bytes (here: units) of the queue
    MarkLen,     \* g_stBusGlobal.iCounterfeitPkgLen, 0 if never generated
    PkgLens,     \* aligned lengths of the messages that are sent
    BareDelete,  \* may the receiver delete without having peeked?
    MaxMsg,      \* bound: messages accepted in a behaviour
    MaxCrash     \* bound: crashes of either process in a behaviour

\* tbus_encode_head gives every message a header of at least MarkLen bytes
\* and tbus_push_channel_pkgv refuses an empty body.
ASSUME ChannelAssumption ==
    /\ Size \in Nat \ {0}
    /\ MarkLen \in Nat
    /\ \A l \in PkgLens : l \in Nat /\ l > MarkLen
    /\ BareDelete \in BOOLEAN
    /\ MaxMsg \in Nat
    /\ MaxCrash \in Nat

VARIABLES
    dwHead, dwTail, iSeq,   \* CHANNELVAR, in shared memory
    queue,                  \* what starts at each position of the queue
    wpc, wpkg, wres,        \* the writer: next step, its message, last result
    rpc, rop, rtail, rpkg, rres,  \* the reader: step, call, locals, result
    held,                   \* the receiver has peeked and not yet deleted
    crashes,                \* crashes so far
    sent, where, taken, out \* history: accepted messages, their positions,
                            \* how many were removed, the last one shown

shm    == <<dwHead, dwTail, iSeq, queue>>
writer == <<wpc, wpkg, wres>>
reader == <<rpc, rop, rtail, rpkg, rres, held>>
hist   == <<sent, where, taken, out>>
vars   == <<dwHead, dwTail, iSeq, queue, wpc, wpkg, wres, rpc, rop, rtail,
            rpkg, rres, held, crashes, sent, where, taken, out>>

Cell(kind, id, seq, len) == [kind |-> kind, id |-> id, seq |-> seq, len |-> len]

Junk   == Cell("junk", 0, 0, 0)     \* bytes that do not decode as a header
Marker == Cell("mark", 0, 0, 0)     \* a counterfeit message
NoPkg  == Junk
Pkg    == [kind : {"pkg"}, id : 1 .. MaxMsg, seq : 0 .. MaxMsg, len : PkgLens]
Cells  == Pkg \cup {Junk, Marker}

\* memcpy of n units to position p: c starts there, what started inside is gone.
Overwrite(p, n, c) ==
    [q \in 0 .. Size - 1 |-> IF q = p THEN c
                             ELSE IF p < q /\ q < p + n THEN Junk ELSE queue[q]]

\* Mutant of Room: no unit stays free, a full queue looks like an empty one.
RoomAll(h, t) == IF h - t <= 0 THEN h - t + Size ELSE h - t

\* iRoom: the units the writer may use, one always stays free.
Room(h, t) == IF h - t - 1 < 0 THEN h - t - 1 + Size ELSE h - t - 1

\* iDataLen: the units between head and tail as the reader computes them.
DataLen(h, t) == IF t - h < 0 THEN t - h + Size ELSE t - h

\* TBUS_CHECK_QUEUE_HEAD_VAR: nothing of use from p to the end of the queue.
AtEnd(p) == Size - p <= MarkLen \/ queue[p] = Marker

Init ==
    /\ dwHead = 0 /\ dwTail = 0 /\ iSeq = 0
    /\ queue = [p \in 0 .. Size - 1 |-> Junk]
    /\ wpc = "idle" /\ wpkg = NoPkg /\ wres = "none"
    /\ rpc = "idle" /\ rop = "get" /\ rtail = 0 /\ rpkg = NoPkg /\ rres = "none"
    /\ held = FALSE /\ crashes = 0
    /\ sent = <<>> /\ where = <<>> /\ taken = 0 /\ out = NoPkg
-----------------------------------------------------------------------------
(***************************************************************************)
(* The writer: tbus_push_channel_pkgv.                                     *)
(***************************************************************************)

\* Mutants of PushBegin: the end of the queue is not looked at; a message that
\* does not fit there is refused.
PushBeginAcross(len) ==
    /\ wpc = "idle" /\ Len(sent) < MaxMsg
    /\ wpkg' = Cell("pkg", Len(sent) + 1, iSeq, len)
    /\ \/ Room(dwHead, dwTail) < len /\ wres' = "full" /\ UNCHANGED wpc
       \/ Room(dwHead, dwTail) >= len /\ wpc' = "copy" /\ wres' = "none"
    /\ UNCHANGED <<shm, reader, crashes, hist>>

PushBeginRefuse(len) ==
    /\ wpc = "idle" /\ Len(sent) < MaxMsg
    /\ wpkg' = Cell("pkg", Len(sent) + 1, iSeq, len)
    /\ \/ /\ Room(dwHead, dwTail) < len \/ Size - dwTail < len
          /\ wres' = "full" /\ UNCHANGED wpc
       \/ /\ Room(dwHead, dwTail) >= len /\ Size - dwTail >= len
          /\ wpc' = "copy" /\ wres' = "none"
    /\ UNCHANGED <<shm, reader, crashes, hist>>

\* The header is stamped with iSeq; then the room is computed and checked.
PushBegin(len) ==
    /\ wpc = "idle" /\ Len(sent) < MaxMsg
    /\ wpkg' = Cell("pkg", Len(sent) + 1, iSeq, len)
    /\ \/ /\ Room(dwHead, dwTail) < len
          /\ wres' = "full" /\ UNCHANGED wpc
       \/ /\ Room(dwHead, dwTail) >= len /\ Size - dwTail >= len
          /\ wpc' = "copy" /\ wres' = "none"
       \/ /\ Room(dwHead, dwTail) >= len /\ Size - dwTail < len
          /\ wpc' = "mark" /\ wres' = "none"
    /\ UNCHANGED <<shm, reader, crashes, hist>>

\* Mutant of PushMark: the rest of the queue is not marked.
PushNoMark ==
    /\ wpc = "mark" /\ wpc' = "wrap"
    /\ UNCHANGED <<shm, wpkg, wres, reader, crashes, hist>>

\* The counterfeit message is copied only if more than its length is left.
PushMark ==
    /\ wpc = "mark" /\ wpc' = "wrap"
    /\ queue' = IF Size - dwTail > MarkLen /\ MarkLen > 0
                THEN Overwrite(dwTail, MarkLen, Marker) ELSE queue
    /\ UNCHANGED <<dwHead, dwTail, iSeq, wpkg, wres, reader, crashes, hist>>

PushWrap ==
    /\ wpc = "wrap" /\ wpc' = "recheck"
    /\ dwTail' = 0
    /\ UNCHANGED <<dwHead, iSeq, queue, wpkg, wres, reader, crashes, hist>>

\* Mutant of PushRecheck: the room at the start of the queue is not checked.
PushNoRecheck ==
    /\ wpc = "recheck" /\ wpc' = "copy"
    /\ UNCHANGED <<shm, wpkg, wres, reader, crashes, hist>>

\* The second room check; dwTail stays 0 even if the message is refused.
PushRecheck ==
    /\ wpc = "recheck"
    /\ \/ dwHead - dwTail - 1 < wpkg.len /\ wpc' = "idle" /\ wres' = "full"
       \/ dwHead - dwTail - 1 >= wpkg.len /\ wpc' = "copy" /\ UNCHANGED wres
    /\ UNCHANGED <<shm, wpkg, reader, crashes, hist>>

PushCopy ==
    /\ wpc = "copy" /\ wpc' = "publish"
    /\ queue' = Overwrite(dwTail, wpkg.len, wpkg)
    /\ UNCHANGED <<dwHead, dwTail, iSeq, wpkg, wres, reader, crashes, hist>>

\* dwTail += iPkgLen makes the message visible; dwTail may become Size.
PushPublish ==
    /\ wpc = "publish" /\ wpc' = "count"
    /\ dwTail' = dwTail + wpkg.len
    /\ sent' = Append(sent, wpkg) /\ where' = Append(where, dwTail)
    /\ UNCHANGED <<dwHead, iSeq, queue, wpkg, wres, reader, crashes, taken, out>>

\* Mutant of PushCount: iSeq is not incremented.
PushNoCount ==
    /\ wpc = "count" /\ wpc' = "idle" /\ wres' = "ok"
    /\ UNCHANGED <<shm, wpkg, reader, crashes, hist>>

PushCount ==
    /\ wpc = "count" /\ wpc' = "idle" /\ wres' = "ok"
    /\ iSeq' = iSeq + 1
    /\ UNCHANGED <<dwHead, dwTail, queue, wpkg, reader, crashes, hist>>
-----------------------------------------------------------------------------
(***************************************************************************)
(* The reader: tbus_peek_channel_pkgv, tbus_get_channel_pkgv (a peek, a    *)
(* copy and tbus_moveto_next_pkg) and tbus_delete_channel_headpkg, which   *)
(* works on the value of dwTail passed to tbus_get_pkghead.                *)
(***************************************************************************)

Return(res) == rpc' = "idle" /\ rres' = res

ReadBegin(op) ==
    /\ rpc = "idle" /\ rop' = op
    /\ held' = (held /\ op = "peek")
    /\ \/ dwHead = dwTail /\ Return("empty")
       \/ dwHead # dwTail /\ rpc' = "check" /\ rres' = "none"
    /\ UNCHANGED <<shm, writer, rtail, rpkg, crashes, hist>>

DeleteBegin ==
    /\ rpc = "idle" /\ rop' = "delete"
    /\ held \/ BareDelete
    /\ held' = FALSE
    /\ \/ dwHead = dwTail /\ Return("empty")
       \/ dwHead # dwTail /\ rpc' = "arg" /\ rres' = "none"
    /\ UNCHANGED <<shm, writer, rtail, rpkg, crashes, hist>>

\* The arguments of tbus_get_pkghead; it reports an empty queue as an error.
DeleteArg ==
    /\ rpc = "arg" /\ rtail' = dwTail
    /\ rpc' = IF dwHead = dwTail THEN "clear" ELSE "check"
    /\ UNCHANGED <<shm, writer, rop, rpkg, rres, held, crashes, hist>>

\* The macro moves the shared dwHead to 0 at once.
ReadCheck ==
    /\ rpc = "check"
    /\ dwHead' = IF AtEnd(dwHead) THEN 0 ELSE dwHead
    /\ rpc' = IF rop = "delete" THEN "decode" ELSE "tail"
    /\ UNCHANGED <<dwTail, iSeq, queue, writer, rop, rtail, rpkg, rres, held, crashes, hist>>

ReadTail ==
    /\ rpc = "tail" /\ rtail' = dwTail
    /\ \/ dwTail = dwHead /\ Return("empty")
       \/ dwTail # dwHead /\ rpc' = "decode" /\ UNCHANGED rres
    /\ UNCHANGED <<shm, writer, rop, rpkg, held, crashes, hist>>

Decodes == queue[dwHead].kind = "pkg"
Fits    == queue[dwHead].len <= Size /\ queue[dwHead].len <= DataLen(dwHead, rtail)

\* The header is good: a peek shows the message where it lies.
DecodePeek ==
    /\ rpc = "decode" /\ rop = "peek" /\ Decodes /\ Fits
    /\ out' = queue[dwHead] /\ rpkg' = queue[dwHead] /\ held' = TRUE
    /\ Return("ok")
    /\ UNCHANGED <<shm, writer, rop, rtail, crashes, sent, where, taken>>

\* A get copies it to the caller's buffer ...
DecodeGet ==
    /\ rpc = "decode" /\ rop = "get" /\ Decodes /\ Fits
    /\ out' = queue[dwHead] /\ rpkg' = queue[dwHead]
    /\ rpc' = "move"
    /\ UNCHANGED <<shm, writer, rop, rtail, rres, held, crashes, sent, where, taken>>

\* Mutant of DecodeLimited: a message that did not fit is removed all the same.
DecodeLimitedDrop ==
    /\ rpc = "decode" /\ rop = "get" /\ Decodes /\ Fits
    /\ rpkg' = queue[dwHead] /\ rpc' = "move"
    /\ UNCHANGED <<shm, writer, rop, rtail, rres, held, crashes, hist>>

\* ... or leaves it in the queue if the buffer is too small.
DecodeLimited ==
    /\ rpc = "decode" /\ rop = "get" /\ Decodes /\ Fits
    /\ Return("limited")
    /\ UNCHANGED <<shm, writer, rop, rtail, rpkg, held, crashes, hist>>

\* A delete checks the header only.
DecodeDelete ==
    /\ rpc = "decode" /\ rop = "delete" /\ dwHead # rtail /\ Decodes
    /\ rpkg' = queue[dwHead] /\ rpc' = "move"
    /\ UNCHANGED <<shm, writer, rop, rtail, rres, held, crashes, hist>>

\* Every error clears the queue; so does a delete that finds it empty now.
DecodeBad ==
    /\ rpc = "decode"
    /\ \/ ~Decodes
       \/ rop # "delete" /\ ~Fits
       \/ rop = "delete" /\ dwHead = rtail
    /\ rpc' = "clear"
    /\ UNCHANGED <<shm, writer, rop, rtail, rpkg, rres, held, crashes, hist>>

\* dwHead = dwTail, with the dwTail of this moment.
ReadClear ==
    /\ rpc = "clear"
    /\ dwHead' = dwTail /\ taken' = Len(sent)
    /\ Return("error")
    /\ UNCHANGED <<dwTail, iSeq, queue, writer, rop, rtail, rpkg, held, crashes,
                   sent, where, out>>

\* Mutant of ReadMove: one unit of the queue too many is required.
ReadMoveShort ==
    /\ rpc = "move"
    /\ \/ /\ rpkg.len <= DataLen(dwHead, dwTail) /\ rpkg.len < Size - 1
          /\ dwHead' = dwHead + rpkg.len /\ taken' = taken + 1
          /\ Return("ok")
       \/ /\ rpkg.len > DataLen(dwHead, dwTail) \/ rpkg.len >= Size - 1
          /\ Return(IF rop = "get" THEN "ok" ELSE "error")
          /\ UNCHANGED <<dwHead, taken>>
    /\ UNCHANGED <<dwTail, iSeq, queue, writer, rop, rtail, rpkg, held, crashes,
                   sent, where, out>>

\* tbus_moveto_next_pkg; a get ignores its result.
ReadMove ==
    /\ rpc = "move"
    /\ \/ dwHead = dwTail /\ Return("ok") /\ UNCHANGED <<dwHead, taken>>
       \/ /\ dwHead # dwTail /\ rpkg.len <= DataLen(dwHead, dwTail) /\ rpkg.len < Size
          /\ dwHead' = dwHead + rpkg.len /\ taken' = taken + 1
          /\ Return("ok")
       \/ /\ dwHead # dwTail
          /\ rpkg.len > DataLen(dwHead, dwTail) \/ rpkg.len >= Size
          /\ Return(IF rop = "get" THEN "ok" ELSE "error")
          /\ UNCHANGED <<dwHead, taken>>
    /\ UNCHANGED <<dwTail, iSeq, queue, writer, rop, rtail, rpkg, held, crashes,
                   sent, where, out>>
-----------------------------------------------------------------------------
(***************************************************************************)
(* A process dies between any two steps and is started again: it attaches  *)
(* the same shared memory (tbus_open_channel, tbus_attach_channel) and     *)
(* keeps dwHead, dwTail, iSeq and the queue as they are.                   *)
(***************************************************************************)
CrashWriter ==
    /\ crashes < MaxCrash /\ crashes' = crashes + 1
    /\ wpc # "idle" /\ wpc' = "idle" /\ wres' = "none"
    /\ UNCHANGED <<shm, wpkg, reader, hist>>

CrashReader ==
    /\ crashes < MaxCrash /\ crashes' = crashes + 1
    /\ (rpc # "idle" \/ held) /\ Return("none") /\ held' = FALSE
    /\ UNCHANGED <<shm, writer, rop, rtail, rpkg, hist>>

WriterStep == \/ PushMark \/ PushWrap \/ PushRecheck
              \/ PushCopy \/ PushPublish \/ PushCount

ReaderStep == \/ DeleteArg \/ ReadCheck \/ ReadTail
              \/ DecodePeek \/ DecodeGet \/ DecodeLimited \/ DecodeDelete
              \/ DecodeBad \/ ReadClear \/ ReadMove

Next == \/ \E len \in PkgLens : PushBegin(len)
        \/ WriterStep
        \/ \E op \in {"peek", "get"} : ReadBegin(op)
        \/ DeleteBegin
        \/ ReaderStep
        \/ CrashWriter \/ CrashReader

Spec == Init /\ [][Next]_vars

\* Both processes are scheduled; the receiver's main loop keeps calling
\* tbus_recv and, sooner or later, with a buffer that is large enough.
FairSpec == /\ Spec
            /\ WF_vars(WriterStep)
            /\ WF_vars(ReaderStep)
            /\ SF_vars(ReadBegin("get"))
            /\ SF_vars(DecodeGet)

\* The application sends a message that was refused again.
PushRetry == wres = "full" /\ PushBegin(wpkg.len)

RetrySpec == FairSpec /\ WF_vars(PushRetry)
-----------------------------------------------------------------------------
TypeOK ==
    /\ dwHead \in 0 .. Size /\ dwTail \in 0 .. Size /\ iSeq \in 0 .. MaxMsg
    /\ queue \in [0 .. Size - 1 -> Cells]
    /\ wpc \in {"idle", "mark", "wrap", "recheck", "copy", "publish", "count"}
    /\ wpkg \in Pkg \cup {NoPkg}
    /\ wres \in {"none", "ok", "full"}
    /\ rpc \in {"idle", "arg", "check", "tail", "decode", "move", "clear"}
    /\ rop \in {"peek", "get", "delete"}
    /\ rtail \in 0 .. Size
    /\ rpkg \in Pkg \cup {NoPkg}
    /\ rres \in {"none", "ok", "empty", "limited", "error"}
    /\ held \in BOOLEAN /\ crashes \in Nat
    /\ sent \in Seq(Pkg) /\ where \in Seq(0 .. Size - 1) /\ Len(where) = Len(sent)
    /\ taken \in Nat
    /\ out \in Pkg \cup {NoPkg}
(***************************************************************************)
(* The inductive invariant.  The unread messages lie one after another     *)
(* from dwHead to dwTail, with at most one jump from the end of the queue  *)
(* to 0.                                                                   *)
(***************************************************************************)

Unread  == taken + 1 .. Len(sent)
EndOf(i) == where[i] + sent[i].len

\* The reader at p goes on to q.
Link(p, q) == q = p \/ (q = 0 /\ AtEnd(p))

\* Each unread message is intact and lies inside the unread region.
PlacedInv ==
    \A i \in Unread :
        /\ queue[where[i]] = sent[i]
        /\ EndOf(i) <= Size
        /\ dwHead <= dwTail => dwHead <= where[i] /\ EndOf(i) <= dwTail
        /\ dwTail < dwHead => dwHead <= where[i] \/ EndOf(i) <= dwTail

\* They do not overlap, and those in front of dwTail come last.
OrderInv ==
    \A i, j \in Unread : i < j =>
        /\ \/ EndOf(i) <= where[j]
           \/ dwTail < dwHead /\ dwHead <= where[i] /\ EndOf(j) <= dwTail
        /\ dwTail < dwHead /\ EndOf(i) <= dwTail => EndOf(j) <= dwTail

\* The reader's way from dwHead through every unread message to dwTail.
LinkInv ==
    /\ Link(dwHead, IF taken < Len(sent) THEN where[taken + 1] ELSE dwTail)
    /\ \A i \in Unread : Link(EndOf(i), IF i < Len(sent) THEN where[i + 1] ELSE dwTail)

\* What the writer knows between its reads of dwHead and its last step.
WriterInv ==
    /\ wpc # "idle" => wpkg \in Pkg
    /\ wpc \notin {"idle", "count"} => Len(sent) < MaxMsg
    /\ wpc \in {"mark", "wrap"} =>
         1 <= dwHead /\ dwHead <= dwTail /\ Size - dwTail < wpkg.len
    /\ wpc = "wrap" => AtEnd(dwTail)
    /\ wpc = "recheck" => dwTail = 0
    /\ wpc \in {"copy", "publish"} =>
         \/ dwHead <= dwTail /\ dwTail + wpkg.len <= Size
         \/ dwTail < dwHead /\ dwTail + wpkg.len < dwHead
    /\ wpc = "publish" => queue[dwTail] = wpkg
    /\ iSeq <= Len(sent) /\ (wpc = "count" => iSeq < Len(sent))
    /\ Len(sent) <= MaxMsg

\* dwHead is at an unread message; the reader saw a dwTail that includes it.
AtMessage == taken < Len(sent) /\ dwHead = where[taken + 1]
Covered(t) == sent[taken + 1].len <= DataLen(dwHead, t) /\ dwHead # t

ReaderInv ==
    /\ taken <= Len(sent)
    /\ rpc \in {"arg", "check"} => dwHead # dwTail
    /\ rpc = "tail" => AtMessage \/ (taken = Len(sent) /\ dwHead = 0 /\ dwTail = 0)
    /\ rpc = "tail" => rop # "delete"
    /\ rpc = "move" => rop # "peek"
    /\ rpc = "arg" => rop = "delete"
    /\ held => rop = "peek"

\* What the reader looks at is the oldest unread message, and it is shown
\* before it is removed (MarkLen > 0, no bare deletes).
SeenInv ==
    /\ held \/ (rop = "delete" /\ rpc \in {"arg", "check", "decode", "move"})
         => AtMessage /\ out = sent[taken + 1]
    /\ rpc = "decode" \/ (rpc = "check" /\ rop = "delete") => AtMessage /\ Covered(rtail)
    /\ rpc = "move" => AtMessage /\ rpkg = sent[taken + 1] /\ out = rpkg
    /\ rpc # "clear"

RingInv == PlacedInv /\ OrderInv /\ LinkInv /\ WriterInv /\ ReaderInv
-----------------------------------------------------------------------------
(***************************************************************************)
(* Properties.                                                             *)
(***************************************************************************)

\* The bytes the writer is about to change (the message, or the mark it puts
\* over the unused end) are none of those the receiver has still to read,
\* among them the message a peek handed out by pointer.
WriteRegion == CASE wpc = "copy" -> dwTail .. dwTail + wpkg.len - 1
                 [] wpc = "mark" /\ Size - dwTail > MarkLen -> dwTail .. dwTail + MarkLen - 1
                 [] OTHER -> {}

NoOverwrite ==
    /\ WriteRegion \subseteq 0 .. Size - 1
    /\ \A i \in Unread : WriteRegion \cap (where[i] .. EndOf(i) - 1) = {}

\* Each crash costs at most one number: iSeq falls behind the messages sent,
\* and two messages share a number, only when the writer died after it
\* published a message and before it counted it.
SeqLag == Len(sent) - iSeq \in 0 .. crashes + (IF wpc = "count" THEN 1 ELSE 0)

\* The ring implements the channel's promise: in order, at least once, no loss.
Fifo == INSTANCE TbusFifo WITH Msg <- Pkg, NoMsg <- NoPkg
FifoSpec == Fifo!Spec

\* A receiver that deletes blindly may lose messages, but order is kept.
LossyFifoSpec == Fifo!LossySpec

\* Everything accepted is received by a receiver that keeps calling tbus_recv.
AllReceived == \A i \in 1 .. MaxMsg : Len(sent) >= i ~> taken >= i

\* A full channel does not stay full: a sender that keeps trying gets its
\* message through (or turns to another, or dies), however the room is split
\* over the end and the start of the queue, as long as length < Size.
FullClears ==
    \A l \in PkgLens : l < Size =>
        (wres = "full" /\ wpkg.len = l)
            ~> (wres = "ok" \/ wpkg.len # l \/ (wpc = "idle" /\ wres = "none"))
=============================================================================
