------------------------- MODULE TranslationSession -------------------------
(***************************************************************************)
(* app/session/state.py, class TranslationSession: the state machine of    *)
(* one streaming session, between its websocket, its timers and the shared *)
(* scheduler.  Every method takes the session lock and, inside it, awaits  *)
(* only scheduler calls, so a locked method is one step.                   *)
(*                                                                         *)
(* The words of an utterance are the business of UtteranceSource.  Here an *)
(* utterance only has source left to select or not (left), and a segment   *)
(* is an identifier.  What the words decide (where a revision rolls back,  *)
(* where the policy cuts, whether a draft is old enough to commit) may be  *)
(* decided in any way UtteranceSource allows; torn is the one outcome it   *)
(* exhibits that makes segment_prefix raise: selected_end inside a word.   *)
(*                                                                         *)
(* Of the scheduler a session sees TranslationService: its own queue and   *)
(* its own server.                                                         *)
(***************************************************************************)
EXTENDS Integers, Sequences, FiniteSets, FiniteSetsExt, Functions, Deques

CONSTANTS
  Utterances,            \* utterance identifiers; max_utterances of them
  MaxSegments,           \* max_segments
  MaxPendingPerSession,  \* max_pending_per_session
  ContextSegments,       \* context_segments
  MaxSegmentIds,         \* bound on _next_segment
  MaxGeneration          \* bound on generation_id

NoSegment == 0
SegmentIds == 1 .. MaxSegmentIds

VARIABLES
  attached,    \* _queue is not None
  closed,      \* closed
  generation,  \* generation_id
  known,       \* the keys of utterances, in insertion order
  src,         \* the Utterance of each key
  segments,    \* segments
  nextSegment, \* _next_segment
  active,      \* _active_segment
  armed,       \* keys of _timers: utterances with a decision timer
  commits,     \* keys of _timers: segments with a commit timer
  queue,       \* this session's jobs in the scheduler, not begun
  serving      \* the scheduler's work for this session

timerVars == <<armed, commits>>
vars == <<attached, closed, generation, known, src, segments, nextSegment, active,
          armed, commits, queue, serving>>

Unheard == [left |-> FALSE, final |-> FALSE, incomplete |-> FALSE, torn |-> FALSE]

(* A job: the fields of TranslationJob the session reads back, and the     *)
(* segments whose translations are its context.                            *)
Job == [segment: SegmentIds, generation: 0 .. MaxGeneration, final: BOOLEAN,
        context: SUBSET SegmentIds]
NoJob == [segment |-> NoSegment, generation |-> 0, final |-> FALSE, context |-> {}]

Live(j) == j.segment = active /\ j.generation = generation

Init ==
  /\ attached = FALSE /\ closed = FALSE /\ generation = 0
  /\ known = <<>>
  /\ src = [u \in Utterances |-> Unheard]
  /\ segments = <<>> /\ nextSegment = 0 /\ active = NoSegment
  /\ armed = {} /\ commits = {}
  /\ queue = <<>>
  /\ serving = [phase |-> "idle", job |-> NoJob]

-----------------------------------------------------------------------------
(* The scheduler calls.                                                    *)

Voided == IF serving.phase = "working" THEN [serving EXCEPT !.phase = "void"] ELSE serving

(* Variant bug, for the mutation runs: cancel_session frees the slot. *)
CancelSessionFreeing == queue' = <<>> /\ serving' = [phase |-> "idle", job |-> NoJob]

(* cancel_session. *)
CancelSession == queue' = <<>> /\ serving' = Voided

(* invalidate(ids). *)
Invalidate(ids) ==
  /\ queue' = Filter(queue, LAMBDA j : j.segment \notin ids)
  /\ serving' = IF serving.job.segment \in ids THEN Voided ELSE serving

-----------------------------------------------------------------------------
(* _dispatch_next, once the segments are segs, no segment or act is active *)
(* and the timers are those of timers: the first ready segment, with the   *)
(* nearest translated ones before it as context.  submit accepts it, or    *)
(* raises QueueCapacityError.                                              *)
Ready(segs) == {k \in DOMAIN segs : segs[k].status = "ready"}

(* Variant bug: segments without a translation count as context. *)
ContextOfAll(segs, k) ==
  {segs[i].id : i \in {n \in 1 .. (k - 1) : k - n <= ContextSegments}}

ContextOf(segs, k) ==
  LET done == {i \in 1 .. (k - 1) : segs[i].status = "complete"}
  IN  {segs[i].id : i \in {n \in done : Cardinality({m \in done : m >= n}) <= ContextSegments}}

JobOf(segs, k) ==
  [segment |-> segs[k].id, generation |-> generation, final |-> segs[k].final,
   context |-> ContextOf(segs, k)]

Submitted(segs, timers) ==
  LET k == Min(Ready(segs))
  IN  /\ segments' = [segs EXCEPT ![k].status = "running"]
      /\ active' = segs[k].id
      /\ queue' = Append(queue, JobOf(segs, k))
      /\ armed' = timers

Overflow(segs, timers) ==
  /\ segments' = segs
  /\ active' = NoSegment
  /\ queue' = queue
  /\ armed' = timers \cup {segs[Min(Ready(segs))].utterance}

DispatchNext(segs, act, timers) ==
  IF act # NoSegment \/ Ready(segs) = {} \/ closed
  THEN segments' = segs /\ active' = act /\ queue' = queue /\ armed' = timers
  ELSE Submitted(segs, timers) \/ Overflow(segs, timers)

(* _commit of the segments at the positions in due. *)
Committed(segs, due) ==
  [k \in DOMAIN segs |-> IF k \in due THEN [segs[k] EXCEPT !.committed = TRUE] ELSE segs[k]]

Drafts(segs) == {k \in DOMAIN segs : segs[k].status = "complete" /\ ~segs[k].committed}

-----------------------------------------------------------------------------
(* Variant bug: attach sets no commit timers. *)
AttachWithoutCommits ==
  /\ ~attached /\ ~closed
  /\ attached' = TRUE
  /\ \E due \in SUBSET Drafts(segments) :
       DispatchNext(Committed(segments, due), active, Range(known))
  /\ UNCHANGED <<closed, generation, known, src, nextSegment, commits, serving>>

(* attach: drafts that ripened meanwhile commit, the others get a timer. *)
Attach ==
  /\ ~attached /\ ~closed
  /\ attached' = TRUE
  /\ \E due \in SUBSET Drafts(segments) :
       /\ DispatchNext(Committed(segments, due), active, Range(known))
       /\ commits' = {segments[k].id : k \in Drafts(segments) \ due}
  /\ UNCHANGED <<closed, generation, known, src, nextSegment, serving>>

(* Variant bug: the segment in work is not made ready again. *)
DetachStillRunning ==
  /\ attached /\ generation < MaxGeneration
  /\ attached' = FALSE
  /\ generation' = generation + 1
  /\ armed' = {} /\ commits' = {}
  /\ CancelSession
  /\ active' = NoSegment
  /\ UNCHANGED <<closed, known, src, nextSegment, segments>>

(* detach, when the websocket ends. *)
Detach ==
  /\ attached /\ generation < MaxGeneration
  /\ attached' = FALSE
  /\ generation' = generation + 1
  /\ armed' = {} /\ commits' = {}
  /\ CancelSession
  /\ segments' = [k \in DOMAIN segments |->
       IF segments[k].status = "running" THEN [segments[k] EXCEPT !.status = "ready"]
       ELSE segments[k]]
  /\ active' = NoSegment
  /\ UNCHANGED <<closed, known, src, nextSegment>>

(* ingest: the Utterance of u after the event.  A text equal to the old    *)
(* one keeps incomplete_reported; a new one may leave source or not, and   *)
(* only a final's may end a retained segment inside a word.                *)
Heard(u, isFinal, changed, left, torn) ==
  [left |-> IF changed THEN left ELSE src[u].left,
   final |-> isFinal,
   incomplete |-> src[u].incomplete /\ ~changed,
   torn |-> IF changed THEN torn ELSE src[u].torn]

Retold == [left |-> TRUE, final |-> FALSE, incomplete |-> FALSE, torn |-> FALSE]

(* The segments before position first, after the loop that ends ingest:    *)
(* a final commits ripe drafts of u and gives failed segments of u another *)
(* try.                                                                    *)
Confirmed(u, isFinal, first, due) ==
  LET kept == Committed(SubSeq(segments, 1, first - 1), due)
  IN  [k \in DOMAIN kept |->
         IF isFinal /\ kept[k].utterance = u /\ kept[k].status = "failed"
         THEN [kept[k] EXCEPT !.status = "ready"] ELSE kept[k]]

(* ingest, with the rollback of every segment from position first on.  A   *)
(* partial that contradicts protected source changes nothing but the       *)
(* tracker and is left out.                                                *)
Ingest(u, isFinal) ==
  /\ attached
  /\ src[u].final => isFinal
  /\ \E changed, left, torn \in BOOLEAN,
        first \in {k \in DOMAIN segments : segments[k].utterance = u} \cup {Len(segments) + 1} :
       LET gone == first .. Len(segments)
           ids == {segments[k].id : k \in gone}
           touched == {segments[k].utterance : k \in gone}
           mine == {k \in 1 .. (first - 1) : segments[k].utterance = u}
       IN  /\ gone # {} => isFinal /\ changed
           /\ torn => isFinal /\ changed /\ left /\ mine # {}
           /\ left => changed
           /\ src' = [v \in Utterances |->
                IF v = u THEN Heard(u, isFinal, changed, left, torn)
                ELSE IF v \in touched THEN [Retold EXCEPT !.final = src[v].final] ELSE src[v]]
           /\ \E due \in SUBSET (Drafts(segments) \cap mine) :
                /\ due # {} => isFinal
                /\ segments' = Confirmed(u, isFinal, first, due)
           /\ active' = IF active \in ids THEN NoSegment ELSE active
           /\ Invalidate(ids)
           /\ armed' = IF closed THEN armed ELSE armed \cup {u} \cup touched
  /\ known' = IF u \in Range(known) THEN known ELSE Append(known, u)
  /\ UNCHANGED <<attached, closed, generation, nextSegment, commits>>

-----------------------------------------------------------------------------
(* _evaluate: a timer visits the utterances in source order.  A visit is   *)
(* described by cutFrom, the position in known of the utterance each new   *)
(* segment is cut from, by stop, the position where _select_utterance      *)
(* returns False (or past the end), and by done, the positions before stop *)
(* whose source is used up; the others before it are reported incomplete.  *)
Eligible(i) == src[known[i]].left /\ ~src[known[i]].incomplete

CutUpTo(cutFrom, i) == Cardinality({j \in DOMAIN cutFrom : cutFrom[j] <= i})

Waiting == Cardinality({k \in DOMAIN segments : segments[k].status \in {"ready", "running"}})

(* _select_utterance at position i, after its cuts: SESSION_LIMIT, and     *)
(* backpressure.                                                           *)
Full(cutFrom, i) == Len(segments) + CutUpTo(cutFrom, i) >= MaxSegments
Busy(cutFrom, i) == Waiting + CutUpTo(cutFrom, i) >= MaxPendingPerSession

(* Both are tested before each cut; retries may have used more than all.   *)
Room == Min({MaxSegments - Len(segments), MaxPendingPerSession - Waiting,
             MaxSegmentIds - nextSegment})

Cuttings == UNION {[1 .. n -> DOMAIN known] : n \in 0 .. Max({0, Room})}

Visit(cutFrom, stop, done) ==
  /\ \A j \in DOMAIN cutFrom :
       /\ cutFrom[j] <= stop /\ Eligible(cutFrom[j]) /\ ~src[known[cutFrom[j]]].torn
       /\ \A i \in 1 .. j : cutFrom[i] <= cutFrom[j]
  /\ \A i \in 1 .. (stop - 1) : Eligible(i) =>
       /\ ~src[known[i]].torn
       /\ IF i \in done THEN i \in Range(cutFrom)
          ELSE ~Full(cutFrom, i) /\ ~Busy(cutFrom, i)
  /\ \A i \in done : i < stop /\ Eligible(i)
  /\ stop <= Len(known) => Eligible(stop)

(* The segments and utterances after a visit. *)
Grown(cutFrom) == segments \o
  [j \in DOMAIN cutFrom |->
     [id |-> nextSegment + j, utterance |-> known[cutFrom[j]],
      final |-> src[known[cutFrom[j]]].final, status |-> "ready", committed |-> FALSE]]

Visited(stop, done) ==
  [u \in Utterances |->
     IF \E i \in 1 .. (stop - 1) : known[i] = u /\ Eligible(i)
     THEN LET usedUp == \E i \in done : known[i] = u
          IN  [src[u] EXCEPT !.left = ~usedUp, !.incomplete = ~usedUp]
     ELSE src[u]]

(* How the visit ends: past the end, at the segment limit, or at an        *)
(* utterance whose timer is set again, for backpressure or because the     *)
(* policy reads on.                                                        *)
Rearmed(cutFrom, stop) ==
  IF stop > Len(known) \/ Full(cutFrom, stop) THEN {} ELSE {known[stop]}

EndsVisit(cutFrom, stop) ==
  stop <= Len(known) =>
    \/ Full(cutFrom, stop)
    \/ Busy(cutFrom, stop)
    \/ ~src[known[stop]].torn /\ ~src[known[stop]].final

Evaluate(u) ==
  /\ u \in armed
  /\ \E cutFrom \in Cuttings, stop \in 1 .. (Len(known) + 1), done \in SUBSET DOMAIN known :
       /\ Visit(cutFrom, stop, done)
       /\ EndsVisit(cutFrom, stop)
       /\ src' = Visited(stop, done)
       /\ nextSegment' = nextSegment + Len(cutFrom)
       /\ DispatchNext(Grown(cutFrom), active, (armed \ {u}) \cup Rearmed(cutFrom, stop))
  /\ UNCHANGED <<attached, closed, generation, known, commits, serving>>

(* segment_prefix raises at a torn utterance: the timer's task reports     *)
(* PIPELINE_ERROR and ends, nothing is dispatched.                         *)
EvaluateFails(u) ==
  /\ u \in armed
  /\ \E cutFrom \in Cuttings, stop \in DOMAIN known, done \in SUBSET DOMAIN known :
       /\ Visit(cutFrom, stop, done)
       /\ src[known[stop]].torn /\ ~Full(cutFrom, stop) /\ ~Busy(cutFrom, stop)
       /\ src' = Visited(stop, done)
       /\ nextSegment' = nextSegment + Len(cutFrom)
       /\ segments' = Grown(cutFrom)
  /\ armed' = armed \ {u}
  /\ UNCHANGED <<attached, closed, generation, known, active, commits, queue, serving>>

-----------------------------------------------------------------------------
(* _result, the callback of the job being delivered.                       *)
Current(j) ==
  /\ ~closed /\ j.generation = generation /\ active = j.segment
  /\ \E k \in DOMAIN segments : segments[k].id = j.segment /\ segments[k].status = "running"

Answered == serving' = [serving EXCEPT !.phase = "answered"]

ResultDiscarded ==
  /\ serving.phase = "delivering" /\ ~Current(serving.job)
  /\ Answered
  /\ UNCHANGED <<attached, closed, generation, known, src, segments, nextSegment, active,
                 armed, commits, queue>>

(* A translation is a draft that commits at once or gets a timer; an error *)
(* or a translation over the limits fails the segment.                     *)
ResultApplied(outcome) ==
  /\ serving.phase = "delivering" /\ Current(serving.job)
  /\ LET segs == [k \in DOMAIN segments |->
           IF segments[k].id # serving.job.segment THEN segments[k]
           ELSE [segments[k] EXCEPT !.status = IF outcome = "failed" THEN "failed" ELSE "complete",
                                    !.committed = outcome = "committed"]]
         resumed == {u \in Range(known) : src[u].left /\ ~src[u].incomplete}
     IN  DispatchNext(segs, NoSegment, armed \cup resumed)
  /\ commits' = IF outcome = "draft" THEN commits \cup {serving.job.segment} ELSE commits
  /\ Answered
  /\ UNCHANGED <<attached, closed, generation, known, src, nextSegment>>

(* The commit timer of segment id; a segment rolled back is gone. *)
CommitTimer(id) ==
  /\ id \in commits
  /\ commits' = commits \ {id}
  /\ segments' = Committed(segments, {k \in Drafts(segments) : segments[k].id = id})
  /\ UNCHANGED <<attached, closed, generation, known, src, nextSegment, active, armed,
                 queue, serving>>

(* reset. *)
Reset ==
  /\ attached /\ generation < MaxGeneration
  /\ generation' = generation + 1
  /\ armed' = {} /\ commits' = {}
  /\ known' = <<>> /\ src' = [u \in Utterances |-> Unheard]
  /\ segments' = <<>> /\ active' = NoSegment
  /\ CancelSession
  /\ UNCHANGED <<attached, closed, nextSegment>>

(* close, by the manager's delete. *)
Close ==
  /\ ~closed /\ generation < MaxGeneration
  /\ closed' = TRUE
  /\ generation' = generation + 1
  /\ armed' = {} /\ commits' = {}
  /\ CancelSession
  /\ UNCHANGED <<attached, known, src, segments, nextSegment, active>>

-----------------------------------------------------------------------------
(* The scheduler's server for this session. *)
Begin ==
  /\ serving.phase = "idle" /\ queue # <<>>
  /\ serving' = [phase |-> "working", job |-> Head(queue)]
  /\ queue' = Tail(queue)
  /\ UNCHANGED <<attached, closed, generation, known, src, segments, nextSegment, active, timerVars>>

Serve(from, to) ==
  /\ serving.phase = from
  /\ serving' = [serving EXCEPT !.phase = to]
  /\ UNCHANGED <<attached, closed, generation, known, src, segments, nextSegment, active,
                 timerVars, queue>>

BecomeIdle ==
  /\ serving.phase = "over"
  /\ serving' = [phase |-> "idle", job |-> NoJob]
  /\ UNCHANGED <<attached, closed, generation, known, src, segments, nextSegment, active,
                 timerVars, queue>>

SchedulerStep ==
  \/ Begin \/ BecomeIdle
  \/ Serve("working", "delivering") \/ Serve("answered", "over") \/ Serve("void", "over")

Result == ResultDiscarded \/ \E outcome \in {"draft", "committed", "failed"} : ResultApplied(outcome)

Timer(u) == Evaluate(u) \/ EvaluateFails(u)

Next ==
  \/ Attach \/ Detach \/ Reset \/ Close
  \/ \E u \in Utterances, isFinal \in BOOLEAN : Ingest(u, isFinal)
  \/ \E u \in Utterances : Timer(u)
  \/ \E id \in SegmentIds : CommitTimer(id)
  \/ Result
  \/ SchedulerStep

(***************************************************************************)
(* Fairness: a timer that stays set fires (hypotheses pause for longer     *)
(* than the debounce), the scheduler serves (TranslationService), its      *)
(* callback gets the lock, and a session that keeps asking is not refused  *)
(* for ever, because the jobs of the other sessions end.                   *)
(***************************************************************************)
Fairness ==
  /\ \A u \in Utterances : WF_vars(Timer(u))
  /\ \A id \in SegmentIds : WF_vars(CommitTimer(id))
  /\ WF_vars(Result) /\ WF_vars(SchedulerStep)
  /\ SF_vars(\E u \in Utterances : Evaluate(u) /\ active = NoSegment /\ active' # NoSegment)

Spec == Init /\ [][Next]_vars /\ Fairness

-----------------------------------------------------------------------------

Open == attached /\ ~closed

(* The jobs whose outcome the scheduler still owes to this session. *)
Owed == Range(queue) \cup
  (IF serving.phase \in {"working", "delivering"} THEN {serving.job} ELSE {})

(* The context of a job in work is still there: every segment it was made  *)
(* from is retained, translated, and before it, so no translation rests on *)
(* source that a revision has replaced.                                    *)
ContextIsCurrent ==
  ~closed => \A j \in Owed : Live(j) =>
    \E k \in DOMAIN segments :
      segments[k].id = j.segment /\ j.context \subseteq
        {segments[i].id : i \in {n \in 1 .. (k - 1) : segments[n].status = "complete"}}

(* While an utterance is torn, timers end with PIPELINE_ERROR and the      *)
(* session waits for a final that mends it.                                *)
NoTorn == \A u \in Utterances : ~src[u].torn

(* What the session sees is the promise of the scheduler. *)
Me == "session"
Scheduler == INSTANCE TranslationService WITH
  Sessions <- {Me},
  queue <- [s \in {Me} |-> queue],
  serving <- [s \in {Me} |->
     IF serving.phase = "answered" THEN [serving EXCEPT !.phase = "delivering"] ELSE serving],
  open <- TRUE
UsesService == Scheduler!Spec

(* Every segment of a connected session gets an outcome, through refusals  *)
(* of a full queue, reconnections and rollbacks; only segments that fail,  *)
(* and that finals submit again and again, can keep a later one waiting.   *)
Position(id) == {k \in DOMAIN segments : segments[k].id = id}
Unresolved(id) == \E k \in Position(id) : segments[k].status \in {"ready", "running"}
AnyFailed == \E k \in DOMAIN segments : segments[k].status = "failed"
SegmentsResolve ==
  \A id \in SegmentIds : []<>(~Unresolved(id) \/ ~Open \/ ~NoTorn \/ AnyFailed)

(* Every draft of a connected session is committed or rolled back. *)
IsDraft(id) == \E k \in Position(id) : k \in Drafts(segments)
DraftsSettle == \A id \in SegmentIds : []<>(~IsDraft(id) \/ ~Open)
=============================================================================
