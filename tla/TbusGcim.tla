-------------------------------- MODULE TbusGcim --------------------------------
(***************************************************************************)
(* The life of a channel's shared memory segment.  The manager writes the  *)
(* configuration into the global channel map (GCIM; tbus_config_mng.c:     *)
(* tbus_set_gcim, tbus_delete_channel_by_index) and creates and removes    *)
(* segments; the processes attach the segments of their channels           *)
(* (tbus_bind, tbus_refresh_handle in tbus.c, tbus_enable_addr and         *)
(* tbus_attach_channel in tbus_channel.c) and let go of them some time     *)
(* after the channel has left the map.  All of this but the closing of     *)
(* channels happens under the lock of the map: an action is one critical   *)
(* section.                                                                *)
(***************************************************************************)
EXTENDS Naturals, FiniteSets

CONSTANTS
    Proc, Chan,
    Ends,       \* the processes at the two ends of each channel
    Seg, NoSeg, \* shared memory ids (bound: as many at a time)
    Align,      \* values of iChannelDataAlign that give different header lengths
    RawAlign,   \* values TBUS_NORMALIZE_ALIGN would change
    Gap,        \* TBUS_DISABLE_CHANNEL_CLEAR_DISABLE_TIMEOUTGAP, in ticks
    Configs,    \* the lists of channels the manager is given
    ByIndex     \* is tbus_delete_channel_by_index used?

ASSUME GcimAssumption ==
    /\ \A c \in Chan : Ends[c] \subseteq Proc
    /\ NoSeg \notin Seg /\ Gap \in Nat \ {0} /\ Align \subseteq Nat \ {0}
    /\ Align # {} /\ RawAlign \subseteq Nat \ Align
    /\ \A G \in Configs : G \subseteq Chan
    /\ ByIndex \in BOOLEAN

VARIABLES
    entry,   \* by channel: its entry in the map, if its seg is not NoSeg
    seg,     \* by id: the alignment its size was computed with, or none
    iAlign,  \* the alignment in the head of the map
    att,     \* by process and channel: what the handle has attached
    bound,   \* processes that have a handle and have bound their address
    lost,    \* segments mapped by a process that has forgotten them
    changed  \* processes whose recorded version is not that of the map

vars == <<entry, seg, iAlign, att, bound, lost, changed>>

\* on: the enable flag; age: time since it was cleared, up to Gap.
Ref(s, on)  == [seg |-> s, on |-> on, age |-> 0]
NoRef       == Ref(NoSeg, FALSE)
Removed     == 0
Exists(s)   == s \in Seg /\ seg[s] # Removed
Listed      == {c \in Chan : entry[c].seg # NoSeg}
Enabled     == {c \in Listed : entry[c].on}
\* Fault: the bound address is not compared with those of the channel.
AnyChannel(p) == Chan

\* The channels of the addresses p has bound.
Mine(p) == {c \in Chan : p \in Ends[c]}
Mapped == {att[p][c].seg : p \in Proc, c \in Chan} \cup {l[2] : l \in lost}

Init ==
    /\ entry = [c \in Chan |-> NoRef]
    /\ seg = [s \in Seg |-> Removed]
    /\ iAlign \in Align
    /\ att = [p \in Proc |-> [c \in Chan |-> NoRef]]
    /\ bound = {} /\ lost = {}
    /\ changed = Proc
-----------------------------------------------------------------------------
\* Fault: the number of attached processes is not looked at.
RemovableAnyway(C) == {entry[c].seg : c \in C}

\* tbus_delete_channel_shm_i: a segment somebody has mapped stays.
Removable(C) == {entry[c].seg : c \in C} \ Mapped

\* Fault: a channel that has left the list is dropped at once.
OverdueNow(G) == Listed \ G

\* Entries whose channel left the configuration Gap ago.
Overdue(G) == {c \in Listed \ G : ~entry[c].on /\ entry[c].age = Gap}

\* An old entry: enabled if G has it, deleted when overdue, else disabled.
Updated(c, G) ==
    IF c \in Overdue(G) THEN NoRef
    ELSE IF c \in Enabled \cup (Listed \cap G) THEN Ref(entry[c].seg, c \in G)
    ELSE entry[c]

\* The body of tbus_set_gcim for a list G it accepts: entries of G are enabled,
\* others disabled, or deleted when overdue; D are the new channels whose
\* segment could be created before one failed.
SetGcim(G, a, D) ==
    /\ D \subseteq G \ Listed
    /\ \E new \in [D -> {s \in Seg : ~Exists(s)}] :
         /\ \A c, d \in D : c # d => new[c] # new[d]
         /\ entry' = [c \in Chan |-> IF c \in D THEN Ref(new[c], TRUE) ELSE Updated(c, G)]
         /\ seg' = [s \in Seg |-> IF \E c \in D : new[c] = s THEN a
                                  ELSE IF s \in Removable(Overdue(G)) THEN Removed
                                  ELSE seg[s]]
    /\ iAlign' = a /\ changed' = Proc /\ UNCHANGED <<att, bound, lost>>

\* tbus_set_gcim with a list that fails its check: the alignment is that of the
\* list, which nothing has normalized, and the version is counted all the same.
SetGcimRefused(a) ==
    /\ iAlign' = a /\ changed' = Proc
    /\ UNCHANGED <<entry, seg, att, bound, lost>>

DeleteByIndex(c) ==
    /\ ByIndex /\ c \in Listed
    /\ seg' = [s \in Seg |-> IF s \in Removable({c}) THEN Removed ELSE seg[s]]
    /\ entry' = [entry EXCEPT ![c] = NoRef]
    /\ changed' = Proc /\ UNCHANGED <<iAlign, att, bound, lost>>
-----------------------------------------------------------------------------
\* tbus_attach_channel: the size of the segment must be what the present
\* alignment gives.
Attachable(c) == seg[entry[c].seg] = iAlign

\* tbus_add_channels_associated_addr and tbus_enable_addr, for the channels D of
\* the map: a channel the handle has is enabled, by its addresses; others are
\* attached.
Enable(refs, D) ==
    [c \in Chan |-> IF c \notin D THEN refs[c]
                    ELSE IF refs[c].seg # NoSeg THEN Ref(refs[c].seg, TRUE)
                    ELSE Ref(entry[c].seg, TRUE)]

\* tbus_new and tbus_bind that succeed.  The version is recorded before the lock
\* is taken.
Bind(p) ==
    /\ p \notin bound /\ bound' = bound \cup {p} /\ Mine(p) \cap Enabled # {}
    /\ \A c \in Mine(p) \cap Enabled : Attachable(c)
    /\ att' = [att EXCEPT ![p] = Enable(@, Mine(p) \cap Enabled)]
    /\ changed' \in {changed, changed \ {p}}
    /\ UNCHANGED <<entry, seg, iAlign, lost>>

\* tbus_refresh_handle, first part: channels disabled for Gap are closed.
Kept(p) == [c \in Chan |-> IF ~att[p][c].on /\ att[p][c].age = Gap THEN NoRef ELSE att[p][c]]

\* Second part, the version differs: channels the map does not have enabled are
\* disabled (again) ...
Checked(p) == [c \in Chan |->
    IF Kept(p)[c].seg # NoSeg /\ c \notin Enabled THEN Ref(Kept(p)[c].seg, FALSE) ELSE Kept(p)[c]]

\* ... and those of the map enabled, until one fails to attach.  The failing one
\* stays mapped.  With the version unchanged, or the lock not to be had, the first
\* part is all.
Refresh(p) ==
    /\ p \in bound
    /\ \/ att' = [att EXCEPT ![p] = Kept(p)] /\ UNCHANGED <<lost, changed>>
       \/ /\ p \in changed
          /\ LET want   == Mine(p) \cap Enabled
                 misfit == {c \in want : Kept(p)[c].seg = NoSeg /\ ~Attachable(c)}
             IN  \/ /\ misfit = {}
                    /\ att' = [att EXCEPT ![p] = Enable(Checked(p), want)]
                    /\ changed' = changed \ {p} /\ UNCHANGED lost
                 \/ \E c \in misfit, D \in SUBSET (want \ misfit) :
                    /\ att' = [att EXCEPT ![p] = Enable(Checked(p), D)]
                    /\ lost' = lost \cup {<<p, entry[c].seg>>} /\ UNCHANGED changed
    /\ UNCHANGED <<entry, seg, iAlign, bound>>

\* The process ends: the kernel unmaps what it had.
Exit(p) ==
    /\ p \in bound /\ bound' = bound \ {p}
    /\ att' = [att EXCEPT ![p] = [c \in Chan |-> NoRef]]
    /\ lost' = {l \in lost : l[1] # p} /\ changed' = changed \cup {p}
    /\ UNCHANGED <<entry, seg, iAlign>>

Older(r) == IF r.seg # NoSeg /\ ~r.on /\ r.age < Gap THEN [r EXCEPT !.age = @ + 1] ELSE r

Tick ==
    /\ entry' = [c \in Chan |-> Older(entry[c])]
    /\ att' = [p \in Proc |-> [c \in Chan |-> Older(att[p][c])]]
    /\ UNCHANGED <<seg, iAlign, bound, lost, changed>>

Next ==
    \/ \E G \in Configs, a \in Align, D \in SUBSET Chan : SetGcim(G, a, D)
    \/ \E a \in Align \cup RawAlign : SetGcimRefused(a)
    \/ \E c \in Chan : DeleteByIndex(c)
    \/ \E p \in Proc : Bind(p) \/ Refresh(p) \/ Exit(p)
    \/ Tick

Spec == Init /\ [][Next]_vars
-----------------------------------------------------------------------------
Refs == [seg : Seg \cup {NoSeg}, on : BOOLEAN, age : 0 .. Gap]

TypeOK ==
    /\ entry \in [Chan -> Refs] /\ att \in [Proc -> [Chan -> Refs]]
    /\ seg \in [Seg -> Align \cup {Removed}] /\ iAlign \in Nat
    /\ \A p \in Proc, c \in Chan : att[p][c].seg # NoSeg => p \in Ends[c]
    /\ bound \subseteq Proc /\ lost \subseteq Proc \X Seg /\ changed \subseteq Proc

\* No segment is removed under a process that uses it, and the map names no
\* segment that does not exist, nor one twice.
SegmentsLive ==
    /\ \A s \in Mapped \ {NoSeg} : Exists(s)
    /\ \A c \in Listed : Exists(entry[c].seg)
    /\ \A c, d \in Listed : c # d => entry[c].seg # entry[d].seg

\* A channel that is taken out of the configuration and put back before the
\* time is over keeps its segment and what is in it, unless the operator deletes
\* the channel by hand.
GraceKept == [][\A c \in Listed : entry[c].on \/ entry[c].age < Gap =>
                    entry'[c].seg = entry[c].seg \/ DeleteByIndex(c)]_vars

\* The two ends of a channel that both have it enabled, with the version of the
\* map, use the same segment: else each sends into memory the other never reads.
SameSegment ==
    \A p, q \in bound \ changed, c \in Chan :
        att[p][c].on /\ att[q][c].on => att[p][c].seg = att[q][c].seg
=================================================================================
