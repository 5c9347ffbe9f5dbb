------------------------------- MODULE TbusFifo -------------------------------
(***************************************************************************)
(* What one direction of a tbus channel promises its two ends, without the *)
(* ring buffer in shared memory that implements it.                        *)
(*                                                                         *)
(* The sender appends messages; the receiver is shown the oldest message   *)
(* that was not removed, possibly several times, and removes it.  A        *)
(* message is removed only after it was shown: delivery is in order and at *)
(* least once, and nothing is lost.  LossySpec is the weaker promise of a  *)
(* channel whose receiver may throw away what is queued.                   *)
(***************************************************************************)
EXTENDS Naturals, Sequences

CONSTANTS Msg,      \* the messages that can be sent
          NoMsg     \* what the receiver holds before the first message

VARIABLES sent,     \* every message accepted by the channel, in order
          taken,    \* how many of them have been removed
          out       \* the message last shown to the receiver

vars == <<sent, taken, out>>

Init == sent = <<>> /\ taken = 0 /\ out = NoMsg

Send(m) == /\ sent' = Append(sent, m)
           /\ UNCHANGED <<taken, out>>

Show == /\ taken < Len(sent)
        /\ out' = sent[taken + 1]
        /\ UNCHANGED <<sent, taken>>

\* Only the message that was shown can be removed.
Remove == /\ taken < Len(sent)
          /\ out = sent[taken + 1]
          /\ taken' = taken + 1
          /\ UNCHANGED <<sent, out>>

\* Some of what is queued disappears unseen, the oldest first.
Discard == /\ \E k \in taken + 1 .. Len(sent) : taken' = k
           /\ UNCHANGED <<sent, out>>

Next == (\E m \in Msg : Send(m)) \/ Show \/ Remove

Spec == Init /\ [][Next]_vars

LossySpec == Init /\ [][Next \/ Discard]_vars
=============================================================================
