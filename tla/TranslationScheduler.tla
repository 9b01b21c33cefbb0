------------------------ MODULE TranslationScheduler ------------------------
(***************************************************************************)
(* app/translation/scheduler.py, class TranslationScheduler: the bounded   *)
(* round-robin queue between the streaming sessions and the translation    *)
(* backend.  Every operation is a coroutine that takes the scheduler's     *)
(* asyncio.Condition and awaits nothing but Condition.wait inside it, so a *)
(* critical section is one step here, and every point where a coroutine    *)
(* may suspend (an await, an async with) is a boundary between two steps.  *)
(*                                                                         *)
(* The _Active object a worker creates in _take lives exactly as long as   *)
(* that worker works on it, so it is named by the worker: active[s] is the *)
(* worker whose _Active the table _active holds for session s, job[w] and  *)
(* stale[w] are its fields.                                                *)
(***************************************************************************)
EXTENDS Integers, Sequences, FiniteSets, Functions, Deques

CONSTANTS
  Sessions,              \* session identifiers
  Workers,               \* the worker tasks start() creates
  Generations,           \* session generations a job may carry
  Segments,              \* segment identifiers
  Revisions,             \* source revisions a job may carry
  Submissions,           \* the jobs the sessions may submit
  MaxPending,            \* max_pending
  MaxPendingPerSession,  \* max_pending_per_session
  NoWorker,              \* "no entry in _active"
  NoJob                  \* a worker that holds no _Active

(* __init__ refuses capacities that are not positive integers. *)
ASSUME SchedulerAssumption ==
  /\ IsFiniteSet(Sessions)
  /\ Workers # {} /\ NoWorker \notin Workers
  /\ Revisions \subseteq Nat
  /\ MaxPending \in Nat \ {0} /\ MaxPendingPerSession \in Nat \ {0}

(* TranslationJob, reduced to the fields the scheduler reads. *)
Job == [session: Sessions, generation: Generations, segment: Segments,
        revision: Revisions, final: BOOLEAN]

ASSUME JobAssumption == NoJob \notin Job /\ Submissions \subseteq Job

VARIABLES
  pending,    \* _pending; a session without a key has the empty queue
  ready,      \* _ready
  readySet,   \* _ready_set
  active,     \* _active
  pc,         \* where each worker is
  job,        \* active.entry.job of the _Active the worker holds
  stale,      \* active.stale of the _Active the worker holds
  started,    \* _started
  closing,    \* _closing
  closer      \* where the caller of close() is

queueVars == <<pending, ready, readySet>>
workerVars == <<active, pc, job, stale>>
vars == <<pending, ready, readySet, active, pc, job, stale, started, closing, closer>>

(***************************************************************************)
(* A worker's program counter:                                             *)
(*   unstarted  start() has not created it                                 *)
(*   take       about to run the loop of _take under the lock              *)
(*   waiting    suspended in Condition.wait                                *)
(*   start      _take has returned an entry, _execute has not begun        *)
(*   running    the backend request of its job is in flight                *)
(*   returned   the request is over, the worker has not resumed yet        *)
(*   callback   awaiting the session's callback                            *)
(*   release    about to run the finally block of _worker                  *)
(*   exited     _take returned None                                        *)
(***************************************************************************)
Requesting == {"start", "running", "returned"}
Holding == Requesting \cup {"callback", "release"}
PC == {"unstarted", "take", "waiting", "exited"} \cup Holding

Holds(w) == pc[w] \in Holding

Init ==
  /\ pending = [s \in Sessions |-> <<>>]
  /\ ready = <<>>
  /\ readySet = {}
  /\ active = [s \in Sessions |-> NoWorker]
  /\ pc = [w \in Workers |-> "unstarted"]
  /\ job = [w \in Workers |-> NoJob]
  /\ stale = [w \in Workers |-> FALSE]
  /\ started = FALSE
  /\ closing = FALSE
  /\ closer = "none"

-----------------------------------------------------------------------------
(* Helpers of the operations.                                              *)

SameSegment(a, b) ==
  /\ a.session = b.session
  /\ a.generation = b.generation
  /\ a.segment = b.segment

(* pending_count: the number of slots in use over all the queues. *)
Slots(p) == UNION {{s} \X DOMAIN p[s] : s \in Sessions}
PendingCount(p) == Cardinality(Slots(p))

(* _mark_ready(s), after the queues became p and the table became a. *)
MarkReady(s, p, a) ==
  IF p[s] # <<>> /\ a[s] = NoWorker /\ s \notin readySet /\ ~closing
  THEN ready' = Append(ready, s) /\ readySet' = readySet \cup {s}
  ELSE UNCHANGED <<ready, readySet>>

(* _forget_ready(s). *)
ForgetReady(s) ==
  /\ ready' = Filter(ready, LAMBDA t : t # s)
  /\ readySet' = readySet \ {s}

(* _cancel_active on the _Active objects of the workers in ws; cancelling  *)
(* the request only allows it to end, which BackendReturn does anyway.     *)
CancelActive(ws) == stale' = [w \in Workers |-> stale[w] \/ w \in ws]

(* The worker whose _Active the table holds for s, if any. *)
ActiveOf(s) == {w \in Workers : active[s] = w}

(* notify_all wakes every worker suspended in Condition.wait. *)
NotifyAll(counter) ==
  [w \in Workers |-> IF counter[w] = "waiting" THEN "take" ELSE counter[w]]

-----------------------------------------------------------------------------
(* start(), also called first by every submit(). *)
Start ==
  /\ ~closing /\ ~started
  /\ started' = TRUE
  /\ pc' = [w \in Workers |-> "take"]
  /\ UNCHANGED <<pending, ready, readySet, active, job, stale, closing, closer>>

(* Variant bug: submit forgets the job in work. *)
PeersQueuedOnly(s) == Range(pending[s])

(* submit: jobs that the new one must not be older than. *)
Peers(s) == Range(pending[s]) \cup {job[w] : w \in {v \in ActiveOf(s) : ~stale[v]}}

(* submit: StaleJobError. *)
Outdated(j) == \E p \in Peers(j.session) : SameSegment(p, j) /\ p.revision > j.revision

(* submit: entries that j supersedes, a speculative partial of its segment. *)
Supersedes(j, old) == ~old.final /\ SameSegment(old, j) /\ old.revision <= j.revision

Replacements(j) ==
  {i \in DOMAIN pending[j.session] : Supersedes(j, pending[j.session][i])}

(* submit: room for j once its replacements are gone, else QueueCapacityError. *)
Fits(j) ==
  LET freed == Cardinality(Replacements(j))
  IN  /\ PendingCount(pending) - freed + 1 <= MaxPending
      /\ Len(pending[j.session]) - freed + 1 <= MaxPendingPerSession

(* submit: j takes the first replaced slot, else the end of the queue. *)
Enqueued(q, j, replaced) ==
  IF replaced = {} THEN Append(q, j)
  ELSE LET first == CHOOSE i \in replaced : \A k \in replaced : i <= k
       IN  KeepAt([q EXCEPT ![first] = j], DOMAIN q \ (replaced \ {first}))

(* Variant bug: submit does not notify. *)
SubmitSilently(j) ==
  LET s == j.session
      queues == [pending EXCEPT ![s] = Enqueued(pending[s], j, Replacements(j))]
  IN  /\ ~closing /\ ~Outdated(j) /\ Fits(j)
      /\ started' = TRUE
      /\ pending' = queues
      /\ CancelActive({w \in ActiveOf(s) : Supersedes(j, job[w])})
      /\ MarkReady(s, queues, active)
      /\ pc' = IF started THEN pc ELSE [w \in Workers |-> "take"]
      /\ UNCHANGED <<active, job, closing, closer>>

(* submit() accepts j.  A rejected call changes no state. *)
Submit(j) ==
  LET s == j.session
      queues == [pending EXCEPT ![s] = Enqueued(pending[s], j, Replacements(j))]
  IN  /\ ~closing
      /\ ~Outdated(j) /\ Fits(j)
      /\ started' = TRUE
      /\ pending' = queues
      /\ CancelActive({w \in ActiveOf(s) : Supersedes(j, job[w])})
      /\ MarkReady(s, queues, active)
      /\ pc' = IF started THEN NotifyAll(pc) ELSE [w \in Workers |-> "take"]
      /\ UNCHANGED <<active, job, closing, closer>>

(* Variant bug: cancel_session frees the slot at once. *)
CancelSessionFreeing(s) ==
  /\ pending' = [pending EXCEPT ![s] = <<>>]
  /\ ForgetReady(s)
  /\ CancelActive(ActiveOf(s))
  /\ active' = [active EXCEPT ![s] = NoWorker]
  /\ pc' = NotifyAll(pc)
  /\ UNCHANGED <<job, started, closing, closer>>

(* cancel_session(s). *)
CancelSession(s) ==
  /\ pending' = [pending EXCEPT ![s] = <<>>]
  /\ ForgetReady(s)
  /\ CancelActive(ActiveOf(s))
  /\ pc' = NotifyAll(pc)
  /\ UNCHANGED <<active, job, started, closing, closer>>

(* invalidate(s, segments). *)
Invalidate(s, segments) ==
  LET remaining == Filter(pending[s], LAMBDA e : e.segment \notin segments)
  IN  /\ pending' = [pending EXCEPT ![s] = remaining]
      /\ IF pending[s] # <<>> /\ remaining = <<>>
         THEN ForgetReady(s)
         ELSE UNCHANGED <<ready, readySet>>
      /\ CancelActive({w \in ActiveOf(s) : job[w].segment \in segments})
      /\ pc' = NotifyAll(pc)
      /\ UNCHANGED <<active, job, started, closing, closer>>

-----------------------------------------------------------------------------
(* The workers.                                                            *)

(* Positions of _ready whose session _take does not skip. *)
Takeable == {i \in DOMAIN ready : pending[ready[i]] # <<>> /\ active[ready[i]] = NoWorker}

(* _take: drop skipped sessions, move the head of a queue into _active. *)
Take(w) ==
  /\ pc[w] = "take" /\ ~closing
  /\ \E i \in Takeable :
       LET s == ready[i]
       IN  /\ \A k \in Takeable : i <= k
           /\ ready' = SubSeq(ready, i + 1, Len(ready))
           /\ readySet' = readySet \ {ready[k] : k \in 1 .. i}
           /\ pending' = [pending EXCEPT ![s] = Tail(pending[s])]
           /\ active' = [active EXCEPT ![s] = w]
           /\ job' = [job EXCEPT ![w] = Head(pending[s])]
           /\ stale' = [stale EXCEPT ![w] = FALSE]
           /\ pc' = [pc EXCEPT ![w] = "start"]
  /\ UNCHANGED <<started, closing, closer>>

(* _take: nothing to take, Condition.wait. *)
Sleep(w) ==
  /\ pc[w] = "take" /\ ~closing
  /\ Takeable = {}
  /\ ready' = <<>>
  /\ readySet' = readySet \ Range(ready)
  /\ pc' = [pc EXCEPT ![w] = "waiting"]
  /\ UNCHANGED <<pending, active, job, stale, started, closing, closer>>

(* _take returns None, _worker ends. *)
Exit(w) ==
  /\ pc[w] = "take" /\ closing
  /\ pc' = [pc EXCEPT ![w] = "exited"]
  /\ UNCHANGED <<pending, ready, readySet, active, job, stale, started, closing, closer>>

(* _execute: send the request, unless the entry is stale already. *)
Execute(w) ==
  /\ pc[w] = "start"
  /\ pc' = [pc EXCEPT ![w] = IF stale[w] THEN "release" ELSE "running"]
  /\ UNCHANGED <<queueVars, active, job, stale, started, closing, closer>>

(* The request ends: a result, an error, or a cancellation it obeyed. A    *)
(* request that resists cancellation ends here too, only later.            *)
BackendReturn(w) ==
  /\ pc[w] = "running"
  /\ pc' = [pc EXCEPT ![w] = "returned"]
  /\ UNCHANGED <<queueVars, active, job, stale, started, closing, closer>>

(* Variant bug: a stale outcome is delivered. *)
ResumeAlways(w) ==
  /\ pc[w] = "returned"
  /\ pc' = [pc EXCEPT ![w] = IF closing THEN "release" ELSE "callback"]
  /\ UNCHANGED <<queueVars, active, job, stale, started, closing, closer>>

(* _execute resumes: discard a stale outcome, deliver any other one. *)
Resume(w) ==
  /\ pc[w] = "returned"
  /\ pc' = [pc EXCEPT ![w] = IF stale[w] \/ closing THEN "release" ELSE "callback"]
  /\ UNCHANGED <<queueVars, active, job, stale, started, closing, closer>>

(* The callback returns or raises; _execute swallows what it raises. *)
CallbackEnd(w) ==
  /\ pc[w] = "callback"
  /\ pc' = [pc EXCEPT ![w] = "release"]
  /\ UNCHANGED <<queueVars, active, job, stale, started, closing, closer>>

(* The finally block of _worker. *)
Release(w) ==
  LET s == job[w].session
      table == IF active[s] = w THEN [active EXCEPT ![s] = NoWorker] ELSE active
  IN  /\ pc[w] = "release"
      /\ active' = table
      /\ MarkReady(s, pending, table)
      /\ pc' = NotifyAll([pc EXCEPT ![w] = "take"])
      /\ job' = [job EXCEPT ![w] = NoJob]
      /\ stale' = [stale EXCEPT ![w] = FALSE]
      /\ UNCHANGED <<pending, started, closing, closer>>

-----------------------------------------------------------------------------
(* Variant bug: close does not wake the sleeping workers. *)
CloseSilently ==
  /\ closer # "draining"
  /\ closing' = TRUE
  /\ pending' = [s \in Sessions |-> <<>>]
  /\ ready' = <<>>
  /\ readySet' = {}
  /\ CancelActive({w \in Workers : \E s \in Sessions : active[s] = w})
  /\ closer' = IF started THEN "draining" ELSE "closed"
  /\ UNCHANGED <<active, pc, job, started>>

(* close(): its critical section; a second call may follow a timeout. *)
Close ==
  /\ closer # "draining"
  /\ closing' = TRUE
  /\ pending' = [s \in Sessions |-> <<>>]
  /\ ready' = <<>>
  /\ readySet' = {}
  /\ CancelActive({w \in Workers : \E s \in Sessions : active[s] = w})
  /\ pc' = NotifyAll(pc)
  /\ closer' = IF started THEN "draining" ELSE "closed"
  /\ UNCHANGED <<active, job, started>>

(* close(): asyncio.wait over the workers is over, all done or timed out. *)
Drained ==
  /\ closer = "draining"
  /\ \A w \in Workers : pc[w] = "exited"
  /\ closer' = "closed"
  /\ UNCHANGED <<queueVars, workerVars, started, closing>>

DrainTimeout ==
  /\ closer = "draining"
  /\ \E w \in Workers : pc[w] # "exited"
  /\ closer' = "timeout"
  /\ UNCHANGED <<queueVars, workerVars, started, closing>>

-----------------------------------------------------------------------------
WorkerStep(w) ==
  \/ Take(w) \/ Sleep(w) \/ Exit(w)
  \/ Execute(w) \/ BackendReturn(w) \/ Resume(w) \/ CallbackEnd(w) \/ Release(w)

Next ==
  \/ Start
  \/ \E j \in Submissions : Submit(j)
  \/ \E s \in Sessions : CancelSession(s)
  \/ \E s \in Sessions, segments \in SUBSET Segments : Invalidate(s, segments)
  \/ \E w \in Workers : WorkerStep(w)
  \/ Close \/ Drained \/ DrainTimeout

(***************************************************************************)
(* Fairness: the event loop resumes every runnable coroutine, a backend    *)
(* request ends (the HTTP client has a timeout), and the session callback  *)
(* returns.  Callers owe nothing.                                          *)
(***************************************************************************)
Fairness == \A w \in Workers : WF_vars(WorkerStep(w))

Spec == Init /\ [][Next]_vars /\ Fairness /\ WF_vars(Drained)

-----------------------------------------------------------------------------
(* Types of the state. *)
TypeOK ==
  /\ pending \in [Sessions -> Seq(Job)]
  /\ ready \in Seq(Sessions)
  /\ readySet \subseteq Sessions
  /\ active \in [Sessions -> Workers \cup {NoWorker}]
  /\ pc \in [Workers -> PC]
  /\ job \in [Workers -> Job \cup {NoJob}]
  /\ stale \in [Workers -> BOOLEAN]
  /\ started \in BOOLEAN /\ closing \in BOOLEAN
  /\ closer \in {"none", "draining", "closed", "timeout"}

(* "One physical backend job per session": no two workers ever work for    *)
(* one session, not even after cancel, invalidate or resubmission.         *)
OneJobPerSession ==
  \A v, w \in Workers :
    Holds(v) /\ Holds(w) /\ v # w => job[v].session # job[w].session

(* _ready holds exactly the sessions that have work and no slot, each      *)
(* once: no session with work is forgotten, none is served out of turn.    *)
ReadyExact ==
  /\ readySet = Range(ready)
  /\ IsInjective(ready)
  /\ \A s \in Sessions : s \in readySet <=> pending[s] # <<>> /\ active[s] = NoWorker

(* No worker sleeps in Condition.wait while a session is ready: every      *)
(* operation that makes one ready also wakes the workers.                  *)
NoLostWakeup == ready # <<>> => \A w \in Workers : pc[w] # "waiting"

(* Jobs of one segment are served in the order of their revisions, and     *)
(* only the newest of them may be a partial: nothing speculative is queued *)
(* or still live behind which a later revision waits.                      *)
SegmentOrder ==
  \A s \in Sessions : \A k \in DOMAIN pending[s] :
    /\ \A i \in 1 .. (k - 1) : SameSegment(pending[s][i], pending[s][k]) =>
          pending[s][i].final /\ pending[s][i].revision <= pending[s][k].revision
    /\ \A w \in ActiveOf(s) :
          ~stale[w] /\ pc[w] \in Requesting /\ SameSegment(job[w], pending[s][k]) =>
            job[w].final /\ job[w].revision <= pending[s][k].revision

(* The scheduler implements the service: the machinery of workers, ready   *)
(* queue and wake-ups is invisible, and starves no session.                *)
ServicePhase(w) ==
  CASE pc[w] \in Requesting -> IF stale[w] THEN "void" ELSE "working"
    [] pc[w] = "callback" -> "delivering"
    [] pc[w] = "release" -> "over"
Service == INSTANCE TranslationService WITH
  queue <- pending,
  serving <- [s \in Sessions |->
     IF active[s] = NoWorker THEN [phase |-> "idle", job |-> NoJob]
     ELSE [phase |-> ServicePhase(active[s]), job |-> job[active[s]]]],
  open <- ~closing
ImplementsService == Service!Spec

(* Once the scheduler closes, every worker ends: no sleeping worker misses *)
(* the news, so close() returns or times out only on a slow backend.       *)
WorkersExit == []<>(closing /\ started => \A w \in Workers : pc[w] = "exited")
=============================================================================
