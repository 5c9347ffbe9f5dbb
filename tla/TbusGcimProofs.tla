----------------------------- MODULE TbusGcimProofs -----------------------------
(***************************************************************************)
(* Proofs about TbusGcim: for any processes, channels, configurations and  *)
(* grace period no segment is removed while it is mapped or named by the   *)
(* map, and a channel that comes back in time finds its segment.           *)
(***************************************************************************)
EXTENDS TbusGcim, TLAPS

\* SegmentsLive, with the set of mapped segments taken apart.
AttLive  == \A p \in Proc, c \in Chan : att[p][c].seg # NoSeg => Exists(att[p][c].seg)
LostLive == \A l \in lost : Exists(l[2])
Named    == \A c \in Chan : entry[c].seg # NoSeg => Exists(entry[c].seg)
Distinct == \A c, d \in Chan :
                c # d /\ entry[c].seg # NoSeg => entry[c].seg # entry[d].seg
Live     == AttLive /\ LostLive /\ Named /\ Distinct

\* The inductive invariant.
IInv == TypeOK /\ Live

\* What process p may have attached: segments that exist, of its own channels.
Good(p, refs) ==
    /\ refs \in [Chan -> Refs]
    /\ \A c \in Chan : refs[c].seg # NoSeg => p \in Ends[c] /\ Exists(refs[c].seg)
-----------------------------------------------------------------------------
LEMMA InMapped ==
    /\ \A p \in Proc, c \in Chan : att[p][c].seg \in Mapped
    /\ \A l \in lost : l[2] \in Mapped
    /\ \A s \in Mapped : \/ \E p \in Proc, c \in Chan : s = att[p][c].seg
                         \/ \E l \in lost : s = l[2]
  BY DEF Mapped

\* The invariant gives the property of the runs.
LEMMA LiveShows == IInv => TypeOK /\ SegmentsLive
  <1> SUFFICES ASSUME TypeOK, Live PROVE SegmentsLive
    BY DEF IInv
  <1>1. \A s \in Mapped \ {NoSeg} : Exists(s)
    BY InMapped DEF Live, AttLive, LostLive
  <1>2. \A c \in Listed : Exists(entry[c].seg)
    BY DEF Listed, Live, Named
  <1>3. \A c, d \in Listed : c # d => entry[c].seg # entry[d].seg
    BY DEF Listed, Live, Distinct
  <1> QED
    BY <1>1, <1>2, <1>3 DEF SegmentsLive

LEMMA RefTypes ==
    ASSUME NEW s \in Seg \cup {NoSeg}, NEW on \in BOOLEAN
    PROVE  /\ Ref(s, on) \in Refs /\ Ref(s, on).seg = s
           /\ NoRef \in Refs /\ NoRef.seg = NoSeg
  BY GcimAssumption DEF Ref, NoRef, Refs

\* A reference that ages keeps its segment.
LEMMA OlderKeeps == ASSUME NEW r \in Refs PROVE Older(r) \in Refs /\ Older(r).seg = r.seg
  BY GcimAssumption DEF Older, Refs

\* What is removed is neither mapped nor named by another entry.
LEMMA RemovalSafe ==
    ASSUME IInv, NEW C \in SUBSET Chan
    PROVE  /\ \A p \in Proc, c \in Chan : att[p][c].seg \notin Removable(C)
           /\ \A l \in lost : l[2] \notin Removable(C)
           /\ \A c \in Chan \ C : entry[c].seg # NoSeg => entry[c].seg \notin Removable(C)
  <1>1. \A s \in Removable(C) : s \notin Mapped /\ \E c \in C : s = entry[c].seg
    BY DEF Removable
  <1> QED
    BY <1>1, InMapped DEF IInv, Live, Distinct
-----------------------------------------------------------------------------
LEMMA InitIInv == Init => IInv
  <1> SUFFICES ASSUME Init PROVE TypeOK /\ Live
    BY DEF IInv
  <1>1. NoRef \in Refs /\ NoRef.seg = NoSeg
    BY GcimAssumption DEF NoRef, Ref, Refs
  <1>2. TypeOK
    BY <1>1, GcimAssumption DEF Init, TypeOK
  <1>3. Live
    BY <1>1 DEF Init, Live, AttLive, LostLive, Named, Distinct
  <1> QED
    BY <1>2, <1>3

\* An old entry keeps its segment or is overdue and deleted.
LEMMA UpdatedCases ==
    ASSUME IInv, NEW c \in Chan, NEW G
    PROVE  /\ Updated(c, G) \in Refs
           /\ Updated(c, G).seg = IF c \in Overdue(G) THEN NoSeg ELSE entry[c].seg
  <1>1. entry[c] \in Refs /\ entry[c].seg \in Seg \cup {NoSeg}
    BY DEF IInv, TypeOK, Refs
  <1>2. (c \in G) \in BOOLEAN
    OBVIOUS
  <1> QED
    BY <1>1, <1>2, RefTypes DEF Updated

\* Where an entry comes from: it is new, deleted, or has the segment it had.
Origin(c, G, D, new) ==
    \/ c \in D /\ entry'[c].seg = new[c]
    \/ c \in Overdue(G) /\ c \notin D /\ entry'[c].seg = NoSeg
    \/ c \notin Overdue(G) /\ c \notin D /\ entry'[c].seg = entry[c].seg

LEMMA EntryCases ==
    ASSUME IInv, NEW G \in Configs, NEW D \in SUBSET (G \ Listed),
           NEW new \in [D -> {s \in Seg : ~Exists(s)}],
           entry' = [c \in Chan |-> IF c \in D THEN Ref(new[c], TRUE) ELSE Updated(c, G)]
    PROVE  /\ entry' \in [Chan -> Refs]
           /\ \A c \in Chan : Origin(c, G, D, new)
  <1>1. ASSUME NEW c \in D PROVE entry'[c] \in Refs /\ entry'[c].seg = new[c]
    BY RefTypes, GcimAssumption
  <1>2. ASSUME NEW c \in Chan \ D
        PROVE  /\ entry'[c] \in Refs
               /\ entry'[c].seg = IF c \in Overdue(G) THEN NoSeg ELSE entry[c].seg
    BY UpdatedCases
  <1> QED
    BY <1>1, <1>2 DEF Origin

LEMMA SetGcimIInv ==
    ASSUME IInv, NEW G \in Configs, NEW a \in Align, NEW D \in SUBSET Chan, SetGcim(G, a, D)
    PROVE  IInv'
  <1> DEFINE Gone == Removable(Overdue(G))
  <1>1. D \subseteq G \ Listed /\ Overdue(G) \subseteq Listed /\ Listed \subseteq Chan
    BY DEF SetGcim, Overdue, Listed
  <1>2. PICK new \in [D -> {s \in Seg : ~Exists(s)}] :
          /\ \A c, d \in D : c # d => new[c] # new[d]
          /\ entry' = [c \in Chan |-> IF c \in D THEN Ref(new[c], TRUE) ELSE Updated(c, G)]
          /\ seg' = [s \in Seg |-> IF \E c \in D : new[c] = s THEN a
                                   ELSE IF s \in Gone THEN Removed
                                   ELSE seg[s]]
    BY DEF SetGcim
  <1>3. UNCHANGED <<att, bound, lost>> /\ iAlign' = a /\ changed' = Proc
    BY DEF SetGcim
  <1>4. a \in Nat /\ a # Removed
    BY GcimAssumption DEF Removed
  <1>4a. D \in SUBSET (G \ Listed)
    BY <1>1
  <1>4b. entry' = [c \in Chan |-> IF c \in D THEN Ref(new[c], TRUE) ELSE Updated(c, G)]
    BY <1>2
  <1>5. entry' \in [Chan -> Refs]
    BY <1>4a, <1>4b, EntryCases
  <1>6. \A c \in Chan : Origin(c, G, D, new)
    BY <1>4a, <1>4b, EntryCases
  <1>7. /\ \A p \in Proc, c \in Chan : att[p][c].seg \notin Gone
        /\ \A l \in lost : l[2] \notin Gone
        /\ \A c \in Chan \ Overdue(G) : entry[c].seg # NoSeg => entry[c].seg \notin Gone
    BY <1>1, RemovalSafe
  <1>8. TypeOK'
    <2>1. seg' \in [Seg -> Align \cup {Removed}]
      BY <1>2 DEF IInv, TypeOK
    <2> QED
      BY <2>1, <1>3, <1>4, <1>5 DEF IInv, TypeOK
  <1>9. \A s \in Seg : Exists(s) /\ s \notin Gone => Exists(s)'
    BY <1>2, <1>4 DEF Exists
  <1>10. \A c \in D : new[c] \in Seg /\ ~Exists(new[c]) /\ Exists(new[c])'
    BY <1>2, <1>4 DEF Exists
  <1>11. AttLive' /\ LostLive'
    BY <1>3, <1>7, <1>9 DEF IInv, Live, AttLive, LostLive, Exists
  <1>12. ASSUME NEW c \in Chan, entry'[c].seg # NoSeg PROVE Exists(entry[c].seg)'
    <2>1. CASE c \in D /\ entry'[c].seg = new[c]
      BY <2>1, <1>10 DEF Exists
    <2>2. CASE c \notin Overdue(G) /\ entry'[c].seg = entry[c].seg
      <3>1. Exists(entry[c].seg) /\ entry[c].seg \notin Gone
        BY <2>2, <1>12, <1>7 DEF IInv, Live, Named
      <3> QED
        BY <3>1, <2>2, <1>9 DEF Exists
    <2> QED
      BY <2>1, <2>2, <1>6, <1>12 DEF Origin
  <1>13. ASSUME NEW c \in Chan, NEW d \in Chan, c # d, entry'[c].seg # NoSeg
         PROVE  entry'[c].seg # entry'[d].seg
    <2> DEFINE New(e) == e \in D /\ entry'[e].seg = new[e]
               Old(e) == e \notin D /\ entry'[e].seg = entry[e].seg
    <2>1. \A e \in Chan : New(e) \/ entry'[e].seg = NoSeg \/ Old(e)
      BY <1>6 DEF Origin
    <2>2. CASE New(c) /\ New(d)
      BY <2>2, <1>2, <1>13
    <2>3. CASE New(c) /\ Old(d)
      BY <2>3, <1>10, GcimAssumption DEF IInv, Live, Named
    <2>4. CASE Old(c) /\ New(d)
      BY <2>4, <1>10, <1>13 DEF IInv, Live, Named
    <2>5. CASE Old(c) /\ Old(d)
      BY <2>5, <1>13 DEF IInv, Live, Distinct
    <2>6. CASE entry'[d].seg = NoSeg
      BY <2>6, <1>13
    <2> QED
      BY <2>1, <2>2, <2>3, <2>4, <2>5, <2>6, <1>13
  <1> QED
    BY <1>8, <1>11, <1>12, <1>13 DEF IInv, Live, Named, Distinct

LEMMA RefusedIInv ==
    ASSUME IInv, NEW a \in Align \cup RawAlign, SetGcimRefused(a)
    PROVE  IInv'
  BY GcimAssumption
  DEF SetGcimRefused, IInv, TypeOK, Live, AttLive, LostLive, Named, Distinct, Exists

LEMMA DeleteByIndexIInv ==
    ASSUME IInv, NEW x \in Chan, DeleteByIndex(x)
    PROVE  IInv'
  <1> DEFINE Gone == Removable({x})
  <1>1. /\ seg' = [s \in Seg |-> IF s \in Gone THEN Removed ELSE seg[s]]
        /\ entry' = [entry EXCEPT ![x] = NoRef] /\ changed' = Proc
        /\ UNCHANGED <<iAlign, att, bound, lost>>
    BY DEF DeleteByIndex
  <1>2. /\ \A p \in Proc, c \in Chan : att[p][c].seg \notin Gone
        /\ \A l \in lost : l[2] \notin Gone
        /\ \A c \in Chan \ {x} : entry[c].seg # NoSeg => entry[c].seg \notin Gone
    BY RemovalSafe
  <1>3. NoRef \in Refs /\ NoRef.seg = NoSeg
    BY GcimAssumption DEF NoRef, Ref, Refs
  <1>4. TypeOK'
    BY <1>1, <1>3 DEF IInv, TypeOK
  <1>5. \A s \in Seg : Exists(s) /\ s \notin Gone => Exists(s)'
    BY <1>1 DEF Exists
  <1>6. AttLive' /\ LostLive'
    BY <1>1, <1>2, <1>5 DEF IInv, Live, AttLive, LostLive, Exists
  <1>7. \A c \in Chan : entry'[c] = IF c = x THEN NoRef ELSE entry[c]
    BY <1>1 DEF IInv, TypeOK
  <1>8. Named'
    BY <1>2, <1>3, <1>5, <1>7 DEF IInv, Live, Named, Exists
  <1>9. Distinct'
    BY <1>3, <1>7 DEF IInv, Live, Distinct
  <1> QED
    BY <1>4, <1>6, <1>8, <1>9 DEF IInv, Live
-----------------------------------------------------------------------------
\* What a process has is good, and stays so under the operators of a refresh.
LEMMA AttGood == ASSUME IInv, NEW p \in Proc PROVE Good(p, att[p])
  BY DEF IInv, TypeOK, Live, AttLive, Good

LEMMA EnableGood ==
    ASSUME IInv, NEW p \in Proc, NEW refs, Good(p, refs),
           NEW D \in SUBSET (Mine(p) \cap Enabled)
    PROVE  Good(p, Enable(refs, D))
  <1>1. \A c \in Chan : refs[c] \in Refs /\ refs[c].seg \in Seg \cup {NoSeg}
    BY DEF Good, Refs
  <1>2. \A c \in D : /\ c \in Chan /\ p \in Ends[c]
                     /\ entry[c].seg \in Seg \cup {NoSeg} /\ Exists(entry[c].seg)
    BY DEF Mine, Enabled, Listed, IInv, TypeOK, Live, Named, Refs
  <1>3. ASSUME NEW c \in Chan
        PROVE  /\ Enable(refs, D)[c] \in Refs
               /\ \/ Enable(refs, D)[c].seg = refs[c].seg
                  \/ c \in D /\ Enable(refs, D)[c].seg = entry[c].seg
    BY <1>1, <1>2, RefTypes DEF Enable
  <1>4. Enable(refs, D) \in [Chan -> Refs]
    <2>1. Enable(refs, D) = [c \in Chan |-> Enable(refs, D)[c]]
      BY DEF Enable
    <2> QED
      BY <2>1, <1>3
  <1> QED
    BY <1>2, <1>3, <1>4 DEF Good

LEMMA KeptGood == ASSUME IInv, NEW p \in Proc PROVE Good(p, Kept(p))
  BY AttGood, GcimAssumption DEF Good, Kept, NoRef, Ref, Refs

LEMMA CheckedGood == ASSUME IInv, NEW p \in Proc PROVE Good(p, Checked(p))
  <1>1. Good(p, Kept(p))
    BY KeptGood
  <1>2. \A c \in Chan : Kept(p)[c] \in Refs /\ Kept(p)[c].seg \in Seg \cup {NoSeg}
    BY <1>1 DEF Good, Refs
  <1>3. ASSUME NEW c \in Chan
        PROVE  Checked(p)[c] \in Refs /\ Checked(p)[c].seg = Kept(p)[c].seg
    BY <1>2, RefTypes DEF Checked
  <1>4. Checked(p) \in [Chan -> Refs]
    <2>1. Checked(p) = [c \in Chan |-> Checked(p)[c]]
      BY DEF Checked
    <2> QED
      BY <2>1, <1>3
  <1> QED
    BY <1>1, <1>3, <1>4 DEF Good

\* A step that replaces what p has by something good, and forgets at most one
\* segment the map names.
LEMMA AttStep ==
    ASSUME IInv, NEW p \in Proc, NEW refs, Good(p, refs),
           att' = [att EXCEPT ![p] = refs],
           \/ lost' \subseteq lost
           \/ \E c \in Enabled : lost' = lost \cup {<<p, entry[c].seg>>},
           bound' \subseteq Proc, changed' \subseteq Proc,
           UNCHANGED <<entry, seg, iAlign>>
    PROVE  IInv'
  <1>1. \A q \in Proc : att'[q] = IF q = p THEN refs ELSE att[q]
    BY DEF IInv, TypeOK
  <1>2. \A q \in Proc : Good(q, att'[q])
    BY <1>1, AttGood
  <1>3. att' \in [Proc -> [Chan -> Refs]] /\ AttLive'
        /\ \A q \in Proc, c \in Chan : att'[q][c].seg # NoSeg => q \in Ends[c]
    <2>1. att' = [q \in Proc |-> att'[q]]
      BY DEF IInv, TypeOK
    <2> QED
      BY <2>1, <1>2 DEF Good, AttLive, Exists
  <1>4. \A c \in Enabled : entry[c].seg \in Seg /\ Exists(entry[c].seg)
    BY DEF Enabled, Listed, IInv, TypeOK, Refs, Live, Named
  <1>5. \A l \in lost' : l \in Proc \X Seg /\ Exists(l[2])
    BY <1>4 DEF IInv, TypeOK, Live, LostLive
  <1> QED
    BY <1>3, <1>5 DEF IInv, TypeOK, Live, LostLive, Named, Distinct, Exists

LEMMA BindIInv == ASSUME IInv, NEW p \in Proc, Bind(p) PROVE IInv'
  <1> DEFINE refs == Enable(att[p], Mine(p) \cap Enabled)
  <1>1. Good(p, refs)
    BY AttGood, EnableGood
  <1>2. att' = [att EXCEPT ![p] = refs]
    BY DEF Bind
  <1>3. bound' \subseteq Proc /\ changed' \subseteq Proc
    BY DEF Bind, IInv, TypeOK
  <1>4. lost' \subseteq lost /\ UNCHANGED <<entry, seg, iAlign>>
    BY DEF Bind
  <1> QED
    BY <1>1, <1>2, <1>3, <1>4, AttStep

LEMMA RefreshIInv == ASSUME IInv, NEW p \in Proc, Refresh(p) PROVE IInv'
  <1> DEFINE want   == Mine(p) \cap Enabled
             misfit == {c \in want : Kept(p)[c].seg = NoSeg /\ ~Attachable(c)}
  <1>1. UNCHANGED <<entry, seg, iAlign>> /\ bound' \subseteq Proc
    BY DEF Refresh, IInv, TypeOK
  <1>2. CASE att' = [att EXCEPT ![p] = Kept(p)] /\ UNCHANGED <<lost, changed>>
    <2>1. changed' \subseteq Proc /\ lost' \subseteq lost
      BY <1>2 DEF IInv, TypeOK
    <2> QED
      BY <1>1, <1>2, <2>1, KeptGood, AttStep
  <1>3. CASE /\ att' = [att EXCEPT ![p] = Enable(Checked(p), want)]
             /\ changed' = changed \ {p} /\ UNCHANGED lost
    <2>1. changed' \subseteq Proc /\ lost' \subseteq lost
      BY <1>3 DEF IInv, TypeOK
    <2>2. Good(p, Enable(Checked(p), want))
      BY CheckedGood, EnableGood
    <2> QED
      BY <1>1, <1>3, <2>1, <2>2, AttStep
  <1>4. ASSUME NEW x \in misfit, NEW D \in SUBSET (want \ misfit),
               att' = [att EXCEPT ![p] = Enable(Checked(p), D)],
               lost' = lost \cup {<<p, entry[x].seg>>}, UNCHANGED changed
        PROVE  IInv'
    <2>1. changed' \subseteq Proc /\ x \in Enabled
      BY <1>4 DEF IInv, TypeOK
    <2>2. Good(p, Enable(Checked(p), D))
      BY CheckedGood, EnableGood
    <2>3. \E c \in Enabled : lost' = lost \cup {<<p, entry[c].seg>>}
      BY <1>4, <2>1
    <2> QED
      BY <1>1, <1>4, <2>1, <2>2, <2>3, AttStep
  <1> QED
    BY <1>2, <1>3, <1>4 DEF Refresh

LEMMA ExitIInv == ASSUME IInv, NEW p \in Proc, Exit(p) PROVE IInv'
  <1> DEFINE refs == [c \in Chan |-> NoRef]
  <1>1. NoRef \in Refs /\ NoRef.seg = NoSeg
    BY GcimAssumption DEF NoRef, Ref, Refs
  <1>2. Good(p, refs)
    BY <1>1 DEF Good
  <1>3. /\ att' = [att EXCEPT ![p] = refs]
        /\ lost' \subseteq lost /\ UNCHANGED <<entry, seg, iAlign>>
    BY DEF Exit
  <1>4. bound' \subseteq Proc /\ changed' \subseteq Proc
    BY DEF Exit, IInv, TypeOK
  <1> QED
    BY <1>2, <1>3, <1>4, AttStep

LEMMA TickIInv == ASSUME IInv, Tick PROVE IInv'
  <1>1. entry \in [Chan -> Refs] /\ att \in [Proc -> [Chan -> Refs]]
    BY DEF IInv, TypeOK
  <1>2. \A c \in Chan : entry'[c] \in Refs /\ entry'[c].seg = entry[c].seg
    BY <1>1, OlderKeeps DEF Tick
  <1>3. \A p \in Proc, c \in Chan : att'[p][c] \in Refs /\ att'[p][c].seg = att[p][c].seg
    BY <1>1, OlderKeeps DEF Tick
  <1>4. entry' \in [Chan -> Refs] /\ att' \in [Proc -> [Chan -> Refs]]
    BY <1>1, OlderKeeps DEF Tick
  <1>5. UNCHANGED <<seg, iAlign, bound, lost, changed>>
    BY DEF Tick
  <1>6. TypeOK'
    BY <1>3, <1>4, <1>5 DEF IInv, TypeOK
  <1> QED
    BY <1>2, <1>3, <1>5, <1>6
    DEF IInv, Live, AttLive, LostLive, Named, Distinct, Exists

LEMMA StepIInv == IInv /\ [Next]_vars => IInv'
  <1> SUFFICES ASSUME IInv, [Next]_vars PROVE IInv'
    OBVIOUS
  <1>1. ASSUME NEW G \in Configs, NEW a \in Align, NEW D \in SUBSET Chan, SetGcim(G, a, D)
        PROVE  IInv'
    BY <1>1, SetGcimIInv
  <1>2. ASSUME NEW a \in Align \cup RawAlign, SetGcimRefused(a) PROVE IInv'
    BY <1>2, RefusedIInv
  <1>3. ASSUME NEW c \in Chan, DeleteByIndex(c) PROVE IInv'
    BY <1>3, DeleteByIndexIInv
  <1>4. ASSUME NEW p \in Proc, Bind(p) \/ Refresh(p) \/ Exit(p) PROVE IInv'
    BY <1>4, BindIInv, RefreshIInv, ExitIInv
  <1>5. CASE Tick
    BY <1>5, TickIInv
  <1>6. CASE UNCHANGED vars
    BY <1>6 DEF vars, IInv, TypeOK, Live, AttLive, LostLive, Named, Distinct, Exists
  <1> QED
    BY <1>1, <1>2, <1>3, <1>4, <1>5, <1>6 DEF Next

\* The invariant holds in every state.
LEMMA Invariant == Spec => []IInv
  BY InitIInv, StepIInv, PTL DEF Spec
-----------------------------------------------------------------------------
\* The map, the segments and what the processes have attached are well formed;
\* no process attaches a channel that is not one of its addresses'.
THEOREM GcimTypeCorrect == Spec => []TypeOK
  BY Invariant, LiveShows, PTL

\* No segment is removed while a process has it mapped or the map names it
\* (tbus_delete_channel_shm_i asks shmctl first), and no two channels share one.
THEOREM SegmentsStayLive == Spec => []SegmentsLive
  BY Invariant, LiveShows, PTL

\* A channel that returns to the configuration within the gap of
\* tbus_check_gcim_channels has the segment it had.
THEOREM GraceIsKept == Spec => GraceKept
  <1> DEFINE Kept0 == \A c \in Listed : entry[c].on \/ entry[c].age < Gap =>
                          entry'[c].seg = entry[c].seg \/ DeleteByIndex(c)
  <1>1. ASSUME IInv, [Next]_vars PROVE [Kept0]_vars
    <2> SUFFICES ASSUME Next, NEW c \in Listed, entry[c].on \/ entry[c].age < Gap
                 PROVE  entry'[c].seg = entry[c].seg \/ DeleteByIndex(c)
      BY <1>1
    <2>0. c \in Chan /\ entry \in [Chan -> Refs] /\ c \notin Overdue({}) 
      BY <1>1, GcimAssumption DEF Listed, IInv, TypeOK, Overdue, Refs
    <2>1. ASSUME NEW G \in Configs, NEW a \in Align, NEW D \in SUBSET Chan, SetGcim(G, a, D)
          PROVE  entry'[c].seg = entry[c].seg
      <3>1. D \in SUBSET (G \ Listed)
        BY <2>1 DEF SetGcim
      <3>2. PICK new \in [D -> {s \in Seg : ~Exists(s)}] :
              entry' = [d \in Chan |-> IF d \in D THEN Ref(new[d], TRUE) ELSE Updated(d, G)]
        BY <2>1 DEF SetGcim
      <3>3. Origin(c, G, D, new)
        BY <1>1, <2>0, <3>1, <3>2, EntryCases
      <3>4. c \notin D /\ c \notin Overdue(G)
        BY <2>0, <3>1 DEF Overdue
      <3> QED
        BY <3>3, <3>4 DEF Origin
    <2>2. ASSUME NEW d \in Chan, DeleteByIndex(d), d # c PROVE entry'[c].seg = entry[c].seg
      BY <2>0, <2>2 DEF DeleteByIndex
    <2>3. CASE Tick
      BY <2>0, <2>3, OlderKeeps DEF Tick
    <2>4. ASSUME NEW p \in Proc, Bind(p) \/ Refresh(p) \/ Exit(p)
          PROVE  entry' = entry
      BY <2>4 DEF Bind, Refresh, Exit
    <2>5. ASSUME NEW a \in Align \cup RawAlign, SetGcimRefused(a) PROVE entry' = entry
      BY <2>5 DEF SetGcimRefused
    <2> QED
      BY <2>1, <2>2, <2>3, <2>4, <2>5 DEF Next
  <1> QED
    BY <1>1, Invariant, PTL DEF Spec, GraceKept
=============================================================================
