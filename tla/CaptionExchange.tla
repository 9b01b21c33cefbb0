-------------------------- MODULE CaptionExchange ---------------------------
(***************************************************************************)
(* Captions from the engine to the reader.  The gateway's caption store is *)
(* written by four tasks (the recogniser's clauses, their translations,    *)
(* the speaker mapper, and the two correctors: context review and overlap  *)
(* separation); each accepted change is one event on the session's ordered *)
(* stream (pipeline.py, context_refinement.py, overlap_pipeline.py).  The  *)
(* client reduces the stream into a store of its own                       *)
(* (remote_captions.py) in which the user may assign speakers and accept   *)
(* held alternatives, and saves it (caption_archive.py).                   *)
(*                                                                         *)
(* Caption n covers the cells 2n - 1 and 2n.  Overlap separation of n puts *)
(* a child on each of two lanes in cell 2n and keeps the words outside the *)
(* overlap, cell 2n - 1, as a context child.                               *)
(***************************************************************************)
EXTENDS CaptionStore, Sequences, SequencesExt, FiniteSetsExt

CONSTANTS
  Speakers,       \* identities the speaker tracker may confirm
  MaxCaptions,    \* bound: captions spoken
  Overlapped,     \* bound: captions with simultaneous speech
  Voiced,         \* bound: captions the speaker tracker has evidence for
  MaxPatches,     \* bound: automatic speaker revisions of a caption
  MaxEdits,       \* bound: manual speaker revisions
  MaxWire,        \* bound: events on the way
  MaxGaps,        \* bound: audio gaps
  MaxHistory,     \* max_clauses of the review
  MaxTargets,     \* max_targets of one review
  MaxRevisions    \* max_revisions_per_target

ASSUME ExchangeAssumption ==
  /\ MaxCaptions \in Nat /\ MaxTargets \in 1..2 /\ MaxHistory \in Nat \ {0}

VARIABLES
  srv,      \* the gateway's store
  asked,    \* captions whose translation has not ended
  review,   \* ContextRefinementCoordinator
  overlap,  \* OverlapCaptionCoordinator
  wire,     \* events emitted and not yet received
  cli,      \* the client's store
  settled,  \* _translation_status: captions whose translation ended
  broken,   \* the client raised RemoteCaptionError
  gaps      \* gaps so far
vars == <<srv, asked, review, overlap, wire, cli, settled, broken, gaps>>

None == [none |-> TRUE]
Idle(job) == job = None
Captions == 1..MaxCaptions
Kid(n, lane) == MaxCaptions + 3 * (n - 1) + lane
Lanes == 1..3
Context == 3
Cells(n) == {2 * n - 1, 2 * n}

NewReview == [hist |-> {}, revs |-> <<>>, seen |-> <<>>, version |-> 0,
              tried |-> 0, pending |-> FALSE, job |-> None]
NewOverlap == [parents |-> {}, regions |-> {}, tried |-> {}, queue |-> {}, job |-> None]

Init ==
  /\ srv = EmptyStore /\ cli = EmptyStore
  /\ asked = {} /\ settled = {} /\ wire = <<>>
  /\ review = NewReview /\ overlap = NewOverlap
  /\ broken = FALSE /\ gaps = 0

Emits(events) == Len(wire) < MaxWire /\ wire' = wire \o events

-----------------------------------------------------------------------------
(***************************************************************************)
(* Context review.  Captions enter a bounded history; a new context        *)
(* schedules one review, which may revise the results of older captions.   *)
(***************************************************************************)
EndOf(st, id) == Max(st.seg[id].span)
CountOf(f, id) == IF id \in DOMAIN f THEN f[id] ELSE 0

\* The oldest captions leave the history.
Evicted(st, hist) ==
  CHOOSE out \in SUBSET hist :
    /\ Cardinality(out) = Max({0, Cardinality(hist) - MaxHistory})
    /\ \A o \in out, k \in hist \ out : EndOf(st, o) <= EndOf(st, k)

Schedule(r) ==
  IF r.version = r.tried \/ Cardinality(r.hist) < 2 THEN r ELSE [r EXCEPT !.pending = TRUE]

RegisterCaption(r, st, id) ==
  LET hist == r.hist \cup {id}
      kept == hist \ Evicted(st, hist)
      Keep(f) == [k \in DOMAIN f \cap kept |-> f[k]]
  IN IF id \in r.hist \/ id \notin Visible(st) THEN r
     ELSE Schedule([r EXCEPT !.hist = kept, !.revs = Keep(@), !.seen = Keep(@),
                             !.version = @ + 1])

OnTranslationCompleted(r, id) == IF id \in r.hist THEN Schedule(r) ELSE r

\* What may be revised: a shown, untouched, translated caption that is not
\* the newest and has revisions left; the least recently considered first.
Reviewable(r, st) ==
  LET sources == r.hist \cap Visible(st)
      newest == Max({EndOf(st, id) : id \in sources})
  IN {id \in sources : /\ EndOf(st, id) < newest
                       /\ CountOf(r.revs, id) < MaxRevisions
                       /\ ~st.seg[id].man
                       /\ st.seg[id].res >= Completed}
Earlier(r, st, a, b) ==
  \/ CountOf(r.seen, a) < CountOf(r.seen, b)
  \/ CountOf(r.seen, a) = CountOf(r.seen, b) /\ EndOf(st, a) < EndOf(st, b)
Targets(r, st) ==
  LET can == Reviewable(r, st)
  IN {T \in SUBSET can :
        /\ Cardinality(T) = Min({MaxTargets, Cardinality(can)})
        /\ \A t \in T, o \in can \ T : ~Earlier(r, st, o, t)}

\* One turn of _loop: take the pending context, and start a review if there
\* is something to review.
ReviewStarts ==
  /\ review.pending /\ Idle(review.job)
  /\ LET r == [review EXCEPT !.pending = FALSE]
         sources == r.hist \cap Visible(srv)
     IN IF Cardinality(sources) < 2 \/ Reviewable(r, srv) = {}
        THEN review' = r
        ELSE \E T \in Targets(r, srv) :
               review' = [r EXCEPT
                 !.tried = r.version,
                 !.seen = [t \in T |-> r.version] @@ @,
                 !.job = [sources |-> sources, live |-> TRUE,
                          targets |-> [t \in T |-> srv.seg[t].res]]]
  /\ UNCHANGED <<srv, asked, overlap, wire, cli, settled, broken, gaps>>

\* is_current: nothing the review read has changed.
IsCurrent(job, st) ==
  /\ job.live
  /\ job.sources \subseteq Visible(st)
  /\ \A t \in DOMAIN job.targets : ~st.seg[t].man /\ st.seg[t].res = job.targets[t]

\* The reviewer answers with corrections for some of its targets.
ReviewAnswers ==
  /\ ~Idle(review.job)
  /\ \E T \in SUBSET DOMAIN review.job.targets :
       LET batch == [t \in T |-> review.job.targets[t]]
           accepted == T # {} /\ IsCurrent(review.job, srv) /\ TakesRevision(srv, batch)
       IN /\ srv' = IF accepted THEN ReviseTranslations(srv, batch) ELSE srv
          /\ IF accepted THEN Emits(<<[kind |-> "revised", batch |-> batch]>>)
                         ELSE UNCHANGED wire
          /\ review' = [review EXCEPT
               !.job = None,
               !.revs = IF accepted THEN [t \in T \cap review.hist |-> CountOf(@, t) + 1] @@ @
                                    ELSE @]
  /\ UNCHANGED <<asked, overlap, cli, settled, broken, gaps>>

\* A timeout, an invalid answer, a provider error or a cancellation.
ReviewFails ==
  /\ ~Idle(review.job)
  /\ review' = [review EXCEPT !.job = None]
  /\ UNCHANGED <<srv, asked, overlap, wire, cli, settled, broken, gaps>>

ReviewGap(r) ==
  [r EXCEPT !.hist = {}, !.revs = <<>>, !.seen = <<>>, !.version = @ + 1, !.pending = FALSE,
            !.job = IF Idle(@) THEN @ ELSE [@ EXCEPT !.live = FALSE]]

-----------------------------------------------------------------------------
(***************************************************************************)
(* Overlap correction.  A caption with words in a detected overlap is      *)
(* separated once; its children are translated before anything is shown.   *)
(***************************************************************************)
\* One attempt owns a parent; an attempt without timing, time or audio is
\* skipped, which the choice of those that start stands for.
Separable(o) == (o.parents \cap o.regions) \ o.tried
Scheduled(o, start) == [o EXCEPT !.tried = @ \cup Separable(o), !.queue = @ \cup start]

RegisterParent(o, n) == [o EXCEPT !.parents = @ \cup {n}]

ObserveAnalysis(n) ==
  /\ n \in Overlapped \ overlap.regions
  /\ LET o == [overlap EXCEPT !.regions = @ \cup {n}]
     IN \E start \in SUBSET Separable(o) : overlap' = Scheduled(o, start)
  /\ UNCHANGED <<srv, asked, review, wire, cli, settled, broken, gaps>>

\* _on_result up to its first await: the separated words of a parent that
\* is still known and shown become children.
Separated(n) ==
  /\ n \in overlap.queue /\ Idle(overlap.job)
  /\ overlap' = [overlap EXCEPT
       !.queue = @ \ {n},
       !.job = IF n \in overlap.parents /\ n \in Visible(srv) THEN [of |-> n, live |-> TRUE] ELSE @]
  /\ UNCHANGED <<srv, asked, review, wire, cli, settled, broken, gaps>>

\* The speaker of the parent, as it is now, goes to the context child only.
Children(n, context, st) ==
  [k \in {Kid(n, lane) : lane \in IF context THEN Lanes ELSE Lanes \ {Context}} |->
     [NewCaption(IF k = Kid(n, Context) THEN {2 * n - 1} ELSE {2 * n}) EXCEPT
        !.res = Completed, !.par = {n},
        !.spk = IF k = Kid(n, Context) THEN st.seg[n].spk ELSE @]]

RegisterKids(r, st, kids) ==
  LET ordered == SetToSortSeq(kids, LAMBDA a, b : EndOf(st, a) < EndOf(st, b))
      listed == FoldLeft(LAMBDA acc, k : RegisterCaption(acc, st, k), r, ordered)
  IN IF kids \cap listed.hist = {} THEN listed ELSE Schedule(listed)

\* _on_result after the translations: everything is checked again, then the
\* group is stored, emitted and offered to the review.
GroupReady(o, st) == o.job.live /\ o.job.of \in Visible(st)
OverlapCommits(context) ==
  /\ ~Idle(overlap.job)
  /\ GroupReady(overlap, srv)
  /\ \E g \in {[parents |-> {overlap.job.of}, kids |-> Children(overlap.job.of, context, srv)]} :
       /\ GroupStatus(srv, overlap.job.of, g) = "applied"
       /\ srv' = CommitGroup(srv, overlap.job.of, g, "applied")
       /\ Emits(<<[kind |-> "group", id |-> overlap.job.of, group |-> g]>>)
       /\ review' = RegisterKids(review, srv', Kids(g))
  /\ overlap' = [overlap EXCEPT !.job = None]
  /\ UNCHANGED <<asked, cli, settled, broken, gaps>>

\* The parent or the run changed, the deadline passed or the provider failed.
OverlapSkips ==
  /\ ~Idle(overlap.job)
  /\ overlap' = [overlap EXCEPT !.job = None]
  /\ UNCHANGED <<srv, asked, review, wire, cli, settled, broken, gaps>>

OverlapGap(o) ==
  [o EXCEPT !.parents = {}, !.tried = {}, !.regions = {},
            !.job = IF Idle(@) THEN @ ELSE [@ EXCEPT !.live = FALSE]]

-----------------------------------------------------------------------------
(***************************************************************************)
(* The live path.                                                          *)
(***************************************************************************)
\* _emit_clauses: store, review, event, speakers, overlap, translation.
Caption(n) ==
  /\ n \in Captions \ Ids(srv)
  /\ \A m \in Captions : m < n => m \in Ids(srv)
  /\ srv' = UpsertSource(srv, n, Cells(n))
  /\ review' = RegisterCaption(review, srv', n)
  /\ Emits(<<[kind |-> "source", id |-> n, span |-> Cells(n)]>>)
  /\ LET o == RegisterParent(overlap, n)
     IN \E start \in SUBSET Separable(o) : overlap' = Scheduled(o, start)
  /\ asked' = asked \cup {n}
  /\ UNCHANGED <<cli, settled, broken, gaps>>

\* _on_translation: what the store refuses is not emitted.
Translated(n, res) ==
  /\ n \in asked
  /\ asked' = IF res = Completed THEN asked \ {n} ELSE asked
  /\ IF TakesResult(srv, n, res)
     THEN /\ srv' = ApplyTranslation(srv, n, res)
          /\ Emits(<<[kind |-> "result", id |-> n, res |-> res]>>)
          /\ review' = IF res = Completed THEN OnTranslationCompleted(review, n) ELSE review
     ELSE UNCHANGED <<srv, wire, review>>
  /\ UNCHANGED <<overlap, cli, settled, broken, gaps>>

\* A failed or cancelled translation is emitted in any case.
TranslationFails(n) ==
  /\ n \in asked
  /\ asked' = asked \ {n}
  /\ Emits(<<[kind |-> "failed", id |-> n]>>)
  /\ UNCHANGED <<srv, review, overlap, cli, settled, broken, gaps>>

\* SpeakerCaptionMapper._patch: a decision that differs from the caption's
\* speaker is stored under the next speaker revision and emitted.
SpeakerPatch(n, spk) ==
  /\ n \in Voiced \cap Ids(srv)
  /\ srv.seg[n].rev < MaxPatches
  /\ spk # srv.seg[n].spk
  /\ TakesSpeaker(srv, n, srv.seg[n].rev + 1, FALSE)
  /\ srv' = UpdateSpeaker(srv, n, spk, srv.seg[n].rev + 1, FALSE)
  /\ Emits(<<[kind |-> "speaker", id |-> n, spk |-> spk, rev |-> srv.seg[n].rev + 1]>>)
  /\ UNCHANGED <<asked, review, overlap, cli, settled, broken, gaps>>

Gap ==
  /\ gaps < MaxGaps /\ gaps' = gaps + 1
  /\ review' = ReviewGap(review)
  /\ overlap' = OverlapGap(overlap)
  /\ UNCHANGED <<srv, asked, wire, cli, settled, broken>>

-----------------------------------------------------------------------------
(***************************************************************************)
(* The client: RemoteCaptionProjection._apply_typed, one event at a time.  *)
(***************************************************************************)
ReduceSource(e) ==
  /\ cli' = UpsertSource(cli, e.id, e.span)
  /\ UNCHANGED <<settled, broken>>

Reduced(e) ==
  /\ e.id \in Ids(cli)
  /\ ~Hidden(Lookup(cli, e.id))
  /\ e.id \notin settled
\* A preview that is recorded as the end of the translation.
ReduceResultSettling(e) ==
  /\ IF Reduced(e) /\ TakesResult(cli, e.id, e.res)
     THEN cli' = ApplyTranslation(cli, e.id, e.res) /\ settled' = settled \cup {e.id}
     ELSE UNCHANGED <<cli, settled>>
  /\ UNCHANGED broken
ReduceResult(e) ==
  /\ IF Reduced(e) /\ TakesResult(cli, e.id, e.res)
     THEN /\ cli' = ApplyTranslation(cli, e.id, e.res)
          /\ settled' = IF e.res = Completed THEN settled \cup {e.id} ELSE settled
     ELSE UNCHANGED <<cli, settled>>
  /\ UNCHANGED broken
ReduceFailed(e) ==
  /\ settled' = IF Reduced(e) THEN settled \cup {e.id} ELSE settled
  /\ UNCHANGED <<cli, broken>>

ReduceRevised(e) ==
  /\ cli' = IF TakesRevision(cli, e.batch) THEN ReviseTranslations(cli, e.batch) ELSE cli
  /\ UNCHANGED <<settled, broken>>

ReduceSpeaker(e) ==
  /\ cli' = IF TakesSpeaker(cli, e.id, e.rev, FALSE)
            THEN UpdateSpeaker(cli, e.id, e.spk, e.rev, FALSE) ELSE cli
  /\ UNCHANGED <<settled, broken>>

\* An ill-formed group or a reused child id is a protocol error.
ReduceGroup(e) ==
  IF ~WellFormedGroup(e.group) \/ Kids(e.group) \cap Ids(cli) # {}
  THEN broken' = TRUE /\ UNCHANGED <<cli, settled>>
  ELSE LET status == GroupStatus(cli, e.id, e.group)
       IN /\ cli' = IF status = "stale" THEN cli ELSE CommitGroup(cli, e.id, e.group, status)
          /\ settled' = IF status = "stale" THEN settled ELSE settled \cup Kids(e.group)
          /\ UNCHANGED broken

Deliver ==
  /\ wire # <<>> /\ ~broken
  /\ wire' = Tail(wire)
  /\ \E e \in {Head(wire)} :
       CASE e.kind = "source"  -> ReduceSource(e)
         [] e.kind = "result"  -> ReduceResult(e)
         [] e.kind = "failed"  -> ReduceFailed(e)
         [] e.kind = "revised" -> ReduceRevised(e)
         [] e.kind = "speaker" -> ReduceSpeaker(e)
         [] e.kind = "group"   -> ReduceGroup(e)
  /\ UNCHANGED <<srv, asked, review, overlap, gaps>>

\* The user's own changes, desktop_bridge.py's assign_speaker and
\* apply_caption_group.
AssignSpeaker(id, spk) ==
  /\ id \in Visible(cli)
  /\ cli.seg[id].rev < MaxPatches + MaxEdits
  /\ Cardinality({k \in DOMAIN cli.seg : cli.seg[k].man}) < MaxEdits \/ cli.seg[id].man
  /\ cli' = UpdateSpeaker(cli, id, spk, cli.seg[id].rev + 1, TRUE)
  /\ UNCHANGED <<srv, asked, review, overlap, wire, settled, broken, gaps>>

ApplyCaptionGroup(g) ==
  /\ TakesHeldGroup(cli, g)
  /\ cli' = ApplyHeldGroup(cli, g)
  /\ UNCHANGED <<srv, asked, review, overlap, wire, settled, broken, gaps>>

-----------------------------------------------------------------------------
Next ==
  \/ \E n \in Captions :
       \/ Caption(n) \/ TranslationFails(n) \/ ObserveAnalysis(n) \/ Separated(n)
       \/ \E res \in {Preview, Completed} : Translated(n, res)
       \/ \E spk \in Speakers \cup {NoSpeaker} : SpeakerPatch(n, spk)
  \/ ReviewStarts \/ ReviewAnswers \/ ReviewFails
  \/ \E context \in BOOLEAN : OverlapCommits(context)
  \/ OverlapSkips
  \/ Gap
  \/ Deliver
  \/ \E id \in DOMAIN cli.seg, spk \in Speakers \cup {NoSpeaker} : AssignSpeaker(id, spk)
  \/ \E g \in cli.held : ApplyCaptionGroup(g)

Spec == Init /\ [][Next]_vars

-----------------------------------------------------------------------------
(***************************************************************************)
(* Properties                                                              *)
(***************************************************************************)

\* The copies of the captions agree with their original.  The client's are
\* the gateway's once every event has arrived, unless the user changed one:
\* no event is refused that the gateway's own store accepted
\* (remote_captions.apply), whatever the order in which translations,
\* speakers, reviews and groups were written.  And every state of the
\* client's store can be saved and opened again: the archive's checks
\* (decode_snapshot, from_snapshot) accept it, with the same captions and
\* the same alternatives to accept.
Reopens(st) ==
  LET snap == Snapshot(st)
  IN /\ Decodes(snap) /\ FromSnapshotAccepts(snap)
     /\ FromSnapshot(snap).seg = st.seg
     /\ \A g \in st.held : TakesHeldGroup(FromSnapshot(snap), g) <=> TakesHeldGroup(st, g)
CopiesAgree ==
  /\ ~broken
  /\ (wire = <<>> /\ \A id \in Ids(cli) : ~Lookup(cli, id).man) => cli.seg = srv.seg
  /\ Reopens(cli)

\* Nothing said is lost or shown twice: a caption is on the screen or all
\* its replacements are, in the gateway's store and in the reader's
\* (replace_group, apply_held_group, _commit_group).
Shown(st) ==
  \A id \in DOMAIN st.seg :
    /\ Hidden(st.seg[id]) => st.seg[id].sup \subseteq Visible(st)
    /\ \A p \in st.seg[id].par : p \in DOMAIN st.seg \ Visible(st)
NoHole == Shown(srv) /\ Shown(cli)

\* The user's word is final: an arriving event changes neither the speaker
\* nor the text nor the place of a caption the user assigned
\* (update_speaker, replace_group, revise_translations), except that its
\* first translation may still arrive.
UserWins ==
  [][wire' # wire =>
       \A id \in DOMAIN cli.seg :
         cli.seg[id].man =>
           /\ cli'.seg[id] = [cli.seg[id] EXCEPT !.res = cli'.seg[id].res]
           /\ cli.seg[id].res >= Completed => cli'.seg[id].res = cli.seg[id].res]_vars

\* Results only improve and nothing is written behind a tombstone: a late
\* translation, speaker decision or review of a replaced caption is dropped
\* on both sides.
ForwardOnly ==
  [][\A st \in {<<srv, srv'>>, <<cli, cli'>>} : \A id \in DOMAIN st[1].seg :
       /\ id \in DOMAIN st[2].seg
       /\ st[2].seg[id].res >= st[1].seg[id].res
       /\ Hidden(st[1].seg[id]) => st[2].seg[id] = st[1].seg[id]]_vars
=============================================================================
