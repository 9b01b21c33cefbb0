---------------------------- MODULE CaptionStore ----------------------------
(***************************************************************************)
(* The caption projection: CaptionStore of captions.py.  The gateway keeps *)
(* one and the desktop client keeps one; both run the operators below, and *)
(* every operator is one locked method, so a store is a value.             *)
(*                                                                         *)
(* A caption is                                                            *)
(*   res  0 no result, 1 a preview, k + 1 a completed result of            *)
(*        result_revision k,                                               *)
(*   spk, rev, man   speaker_id, speaker_revision, speaker_manual,         *)
(*   sup  superseded_by, non-empty on a tombstone,                         *)
(*   par  parent_segment_ids, non-empty on an overlap child,               *)
(*   span the audio cells it covers (start_ns .. end_ns).                  *)
(* The engine gives every caption source revision 1 and never replaces its *)
(* provider, so revisions of the source and provider generations compare   *)
(* equal and are left out.                                                 *)
(***************************************************************************)
EXTENDS Naturals, FiniteSets

CONSTANT NoSpeaker

Preview == 1
Completed == 2

\* dict.update and item assignment: the entries of f before those of g.
Over(f, g) == [x \in DOMAIN f \cup DOMAIN g |-> IF x \in DOMAIN f THEN f[x] ELSE g[x]]
Entry(id, value) == [x \in {id} |-> value]

NewCaption(span) ==
  [res |-> 0, spk |-> NoSpeaker, rev |-> 0, man |-> FALSE, sup |-> {},
   par |-> {}, span |-> span]

\* seg: _segments; groups: _groups; held: _held_groups.
EmptyStore == [seg |-> <<>>, groups |-> <<>>, held |-> {}]

Kids(g) == DOMAIN g.kids
HeldKids(st) == UNION {Kids(st.groups[g]) : g \in st.held}
Ids(st) == DOMAIN st.seg \cup HeldKids(st)
HeldGroupOf(st, id) == {g \in st.held : id \in Kids(st.groups[g])}

\* A held alternative is read and written inside its group.
Lookup(st, id) ==
  IF id \in HeldKids(st)
  THEN st.groups[CHOOSE g \in HeldGroupOf(st, id) : TRUE].kids[id]
  ELSE st.seg[id]

Put(st, id, caption) ==
  IF id \in HeldKids(st)
  THEN [st EXCEPT !.groups[CHOOSE g \in HeldGroupOf(st, id) : TRUE].kids[id] = caption]
  ELSE [st EXCEPT !.seg = Over(Entry(id, caption), @)]

Hidden(caption) == caption.sup # {}
Visible(st) == {id \in DOMAIN st.seg : ~Hidden(st.seg[id])}

-----------------------------------------------------------------------------
\* A repeated source is not newer, a held child is revised only as a group.
UpsertSource(st, id, span) ==
  IF id \in Ids(st) THEN st ELSE Put(st, id, NewCaption(span))

\* A check that forgets that the caption may have been replaced meanwhile.
TakesResultLate(st, id, res) ==
  /\ id \in Ids(st)
  /\ Lookup(st, id).res < res
\* A completed result is final here, a repeated preview changes nothing and
\* a held alternative takes no preview.
TakesResult(st, id, res) ==
  /\ id \in Ids(st)
  /\ ~Hidden(Lookup(st, id))
  /\ Lookup(st, id).res < res
  /\ res = Preview => id \notin HeldKids(st)
ApplyTranslation(st, id, res) == Put(st, id, [Lookup(st, id) EXCEPT !.res = res])

\* A batch maps caption ids to the result revision each correction is based
\* on.  One refused correction refuses the batch.
TakesRevision(st, batch) ==
  \A id \in DOMAIN batch :
    /\ id \in DOMAIN st.seg
    /\ ~Hidden(st.seg[id])
    /\ ~st.seg[id].man
    /\ batch[id] >= Completed
    /\ st.seg[id].res = batch[id]
ReviseTranslations(st, batch) ==
  [st EXCEPT !.seg = Over([id \in DOMAIN batch |-> [st.seg[id] EXCEPT !.res = @ + 1]], @)]

\* A check of the revision alone.
TakesSpeakerByRevision(st, id, rev, manual) ==
  /\ id \in Ids(st)
  /\ ~Hidden(Lookup(st, id))
  /\ rev > Lookup(st, id).rev

TakesSpeaker(st, id, rev, manual) ==
  /\ id \in Ids(st)
  /\ ~Hidden(Lookup(st, id))
  /\ manual => id \notin HeldKids(st)
  /\ rev > Lookup(st, id).rev
  /\ manual \/ ~Lookup(st, id).man
UpdateSpeaker(st, id, spk, rev, manual) ==
  Put(st, id, [Lookup(st, id) EXCEPT !.spk = spk, !.rev = rev, !.man = manual])

-----------------------------------------------------------------------------
(***************************************************************************)
(* A group replaces its parents by its children: [parents, kids].          *)
(***************************************************************************)
WellFormedGroup(g) ==
  /\ g.parents # {}
  /\ Cardinality(Kids(g)) >= 2
  /\ g.parents \cap Kids(g) = {}
  /\ UNION {g.kids[k].par : k \in Kids(g)} = g.parents
  /\ \A k \in Kids(g) : ~Hidden(g.kids[k]) /\ ~g.kids[k].man /\ g.kids[k].res # Preview

\* Children have fresh ids, every parent is shown and every child lies in
\* the time of the parents it names.
ValidGroup(st, g, reusable) ==
  /\ Kids(g) \cap (Ids(st) \ reusable) = {}
  /\ \A p \in g.parents :
       /\ p \in Visible(st)
       /\ \A k \in Kids(g) : p \in g.kids[k].par => g.kids[k].span \cap st.seg[p].span # {}

Tombstones(st, g) ==
  [p \in g.parents |-> [st.seg[p] EXCEPT !.sup = {k \in Kids(g) : p \in g.kids[k].par}]]
\* A commit that leaves the mixed parents on the screen.
CommitGroupBeside(st, gid, g, status) ==
  IF status = "held"
  THEN [st EXCEPT !.groups = Over(Entry(gid, g), @), !.held = @ \cup {gid}]
  ELSE [st EXCEPT !.groups = Over(Entry(gid, g), @), !.held = @ \ {gid}, !.seg = Over(g.kids, @)]

CommitGroup(st, gid, g, status) ==
  IF status = "held"
  THEN [st EXCEPT !.groups = Over(Entry(gid, g), @), !.held = @ \cup {gid}]
  ELSE [st EXCEPT !.groups = Over(Entry(gid, g), @), !.held = @ \ {gid},
                  !.seg = Over(Tombstones(st, g), Over(g.kids, @))]
\* A parent the user assigned by hand keeps its place; the group waits.
GroupStatus(st, gid, g) ==
  IF gid \in DOMAIN st.groups \/ ~ValidGroup(st, g, {}) THEN "stale"
  ELSE IF \E p \in g.parents : st.seg[p].man THEN "held"
  ELSE "applied"
TakesHeldGroup(st, gid) ==
  /\ gid \in st.held
  /\ ValidGroup(st, st.groups[gid], Kids(st.groups[gid]))
ApplyHeldGroup(st, gid) == CommitGroup(st, gid, st.groups[gid], "applied")

-----------------------------------------------------------------------------
(***************************************************************************)
(* The archive.  A snapshot has the captions and the held groups, not the  *)
(* applied ones; decode_snapshot and from_snapshot check it again.         *)
(***************************************************************************)
Snapshot(st) == [seg |-> st.seg, held |-> [g \in st.held |-> st.groups[g]]]

Decodes(snap) ==
  /\ \A g \in DOMAIN snap.held : WellFormedGroup(snap.held[g])
  /\ \A g, h \in DOMAIN snap.held :
       g # h => Kids(snap.held[g]) \cap Kids(snap.held[h]) = {}
FromSnapshotAccepts(snap) ==
  /\ \A k \in DOMAIN snap.seg : \A p \in snap.seg[k].par :
       /\ p \in DOMAIN snap.seg
       /\ k \in snap.seg[p].sup
       /\ snap.seg[k].span \cap snap.seg[p].span # {}
  /\ \A g \in DOMAIN snap.held :
       /\ snap.held[g].parents \subseteq DOMAIN snap.seg
       /\ Kids(snap.held[g]) \cap DOMAIN snap.seg = {}
FromSnapshot(snap) == [seg |-> snap.seg, groups |-> snap.held, held |-> DOMAIN snap.held]
=============================================================================
