------------------------- MODULE InferenceScheduler -------------------------
(***************************************************************************)
(* myvote_engine/inference_scheduler.py, class AsrInferenceScheduler: one  *)
(* native recognizer call at a time, primary captions before secondary     *)
(* corrections.  A call is one use of run_primary or run_secondary; its    *)
(* future is what the client awaits.                                       *)
(*                                                                         *)
(* The worker suspends in two places only: in the native call, and for at  *)
(* most 25 ms when a correction is not admitted.  All it does between two  *)
(* suspensions is one step.  It resumes from the short wait by itself, so  *)
(* the event _changed is left out.                                         *)
(***************************************************************************)
EXTENDS Integers, Sequences, FiniteSets, Functions, Deques

CONSTANTS
  AsrCalls,       \* calls, each submitted at most once
  Primary,        \* the calls of run_primary; the others are run_secondary's
  PrimaryLimit,   \* max_primary_pending
  SecondaryLimit, \* max_secondary_pending
  NoAsrCall       \* _active is None

(* __init__ refuses capacities below 1. *)
VARIABLES
  asrQueue,      \* _queues: 0 for primary, 1 for secondary calls
  asrFuture,     \* call.future, "new" before the call is made
  asrWorker,     \* _worker: none, scheduled, polling, native
  asrActive,     \* _active
  asrLate,       \* calls that waited longer than secondary_max_wait_s
  asrAdmission,  \* what secondary_admission() does when asked: yes, no, raises
  asrClosed,     \* _closed
  asrCloser      \* where the caller of close() is

asrVars == <<asrQueue, asrFuture, asrWorker, asrActive, asrLate, asrAdmission, asrClosed, asrCloser>>

Lane(c) == IF c \in Primary THEN 0 ELSE 1
Limit(lane) == IF lane = 0 THEN PrimaryLimit ELSE SecondaryLimit

AsrInit ==
  /\ asrQueue = [lane \in {0, 1} |-> <<>>]
  /\ asrFuture = [c \in AsrCalls |-> "new"]
  /\ asrWorker = "none" /\ asrActive = NoAsrCall
  /\ asrLate = {}
  /\ asrAdmission = "yes"
  /\ asrClosed = FALSE /\ asrCloser = "none"

(* q without the members of gone that stand before all others: the loops   *)
(* of _next that pop settled or overdue calls off the head.                *)
Trimmed(q, gone) ==
  LET kept == {i \in DOMAIN q : q[i] \notin gone}
  IN  IF kept = {} THEN <<>>
      ELSE SubSeq(q, CHOOSE i \in kept : \A k \in kept : i <= k, Len(q))

(* The calls in cs receive an outcome, unless they have one already. *)
Settle(fut, cs, outcome) ==
  [c \in AsrCalls |-> IF c \in cs /\ fut[c] = "pending" THEN outcome ELSE fut[c]]

-----------------------------------------------------------------------------
Full(lane, alive) == Len(alive) >= Limit(lane)

(* _submit creates the worker when there is none. *)
Summoned == IF asrWorker = "none" THEN "scheduled" ELSE asrWorker

(* _submit: settled calls leave the queue, even when it is full and the    *)
(* new call is refused.                                                    *)
Submit(c) ==
  LET lane == Lane(c)
      alive == Filter(asrQueue[lane], LAMBDA d : asrFuture[d] = "pending")
  IN  /\ asrFuture[c] = "new" /\ ~asrClosed
      /\ \/ /\ Full(lane, alive)
            /\ asrQueue' = [asrQueue EXCEPT ![lane] = alive]
            /\ UNCHANGED <<asrFuture, asrWorker>>
         \/ /\ ~Full(lane, alive)
            /\ asrQueue' = [asrQueue EXCEPT ![lane] = Append(alive, c)]
            /\ asrFuture' = [asrFuture EXCEPT ![c] = "pending"]
            /\ asrWorker' = Summoned
      /\ UNCHANGED <<asrActive, asrLate, asrAdmission, asrClosed, asrCloser>>

(* The client of c is cancelled, and cancels the future; a native call in  *)
(* progress goes on.                                                       *)
Cancel(c) ==
  /\ asrFuture[c] = "pending"
  /\ asrFuture' = [asrFuture EXCEPT ![c] = "cancelled"]
  /\ UNCHANGED <<asrQueue, asrWorker, asrActive, asrLate, asrAdmission, asrClosed, asrCloser>>

(* The worker starts the call at the head of q in this lane. *)
Begin(lane, queues, fut) ==
  /\ asrActive' = Head(queues[lane])
  /\ asrWorker' = "native"
  /\ asrQueue' = [queues EXCEPT ![lane] = Tail(@)]
  /\ asrFuture' = fut

(* Variant bug of _next: it drops overdue calls without an answer. *)
AdvanceDropping(fut) ==
  LET done == {c \in AsrCalls : fut[c] # "pending"}
      primary == Trimmed(asrQueue[0], done)
      secondary == Trimmed(asrQueue[1], done \cup asrLate)
      queues == [lane \in {0, 1} |-> IF lane = 0 THEN primary ELSE secondary]
  IN  \/ primary # <<>> /\ Begin(0, queues, fut)
      \/ primary = <<>> /\ secondary # <<>> /\ Begin(1, queues, fut)
      \/ /\ primary = <<>> /\ secondary = <<>>
         /\ asrActive' = NoAsrCall /\ asrWorker' = "none"
         /\ asrQueue' = queues /\ asrFuture' = fut

(* The worker from the end of a wait to its next one, with the futures     *)
(* already at fut: _next and the head of _loop.  A correction at the head  *)
(* expires, or meets an admission check that raises, before the next one   *)
(* is looked at; when nothing is left the worker ends.                     *)
Advance(fut) ==
  \E done \in {{c \in AsrCalls : fut[c] # "pending"}} :
  \E primary \in {Trimmed(asrQueue[0], done)}, secondary \in {Trimmed(asrQueue[1], done)} :
  \E admissible \in {Trimmed(secondary, done \cup asrLate)} :
  \E expiring \in {Settle(fut, Range(secondary) \ Range(admissible), "expired")} :
    \/ primary # <<>> /\ Begin(0, [asrQueue EXCEPT ![0] = primary, ![1] = secondary], fut)
    \/ /\ primary = <<>> /\ admissible # <<>> /\ asrAdmission = "yes"
       /\ Begin(1, [asrQueue EXCEPT ![0] = primary, ![1] = admissible], expiring)
    \/ /\ primary = <<>> /\ admissible # <<>> /\ asrAdmission = "no"
       /\ asrQueue' = [asrQueue EXCEPT ![0] = primary, ![1] = admissible] /\ asrFuture' = expiring
       /\ asrWorker' = "polling" /\ asrActive' = NoAsrCall
    \/ /\ primary = <<>> /\ (admissible = <<>> \/ asrAdmission = "raises")
       /\ asrQueue' = [lane \in {0, 1} |-> <<>>]
       /\ asrFuture' = Settle(Settle(expiring, Range(admissible) \cap asrLate, "expired"),
                           Range(admissible), "failed")
       /\ asrWorker' = "none" /\ asrActive' = NoAsrCall

(* The worker's first step, and each time it wakes from the short wait. *)
Poll ==
  /\ asrWorker \in {"scheduled", "polling"}
  /\ Advance(asrFuture)
  /\ UNCHANGED <<asrLate, asrAdmission, asrClosed, asrCloser>>

(* The native call returns or raises: a client that is still there gets    *)
(* the result or the exception, and the worker goes on.                    *)
RecognizerReturns ==
  /\ asrWorker = "native"
  /\ \E fut \in {Settle(asrFuture, {asrActive}, "returned")} : Advance(fut)
  /\ UNCHANGED <<asrLate, asrAdmission, asrClosed, asrCloser>>

(* time.monotonic() passes the budget of a queued correction. *)
Age(c) ==
  /\ c \in Range(asrQueue[1]) \ asrLate
  /\ asrLate' = asrLate \cup {c}
  /\ UNCHANGED <<asrQueue, asrFuture, asrWorker, asrActive, asrAdmission, asrClosed, asrCloser>>

(* The backlog of windows that secondary_admission() inspects changes. *)
AdmissionChanges ==
  /\ asrAdmission' \in {"yes", "no", "raises"} \ {asrAdmission}
  /\ UNCHANGED <<asrQueue, asrFuture, asrWorker, asrActive, asrLate, asrClosed, asrCloser>>

(* close(wait): queued calls are cancelled, the active one is left alone,  *)
(* and the caller may wait for the worker.                                 *)
Close(wait) ==
  /\ ~asrClosed
  /\ asrClosed' = TRUE
  /\ asrFuture' = Settle(asrFuture, Range(asrQueue[0]) \cup Range(asrQueue[1]), "cancelled")
  /\ asrQueue' = [lane \in {0, 1} |-> <<>>]
  /\ asrCloser' = CASE ~wait -> "gone"
                 [] wait /\ asrWorker # "none" -> "waiting"
                 [] OTHER -> "drained"
  /\ UNCHANGED <<asrWorker, asrActive, asrLate, asrAdmission>>

(* close(wait=True) returns once the worker task has ended. *)
CloseReturns ==
  /\ asrCloser = "waiting" /\ asrWorker = "none"
  /\ asrCloser' = "drained"
  /\ UNCHANGED <<asrQueue, asrFuture, asrWorker, asrActive, asrLate, asrAdmission, asrClosed>>

AsrNext ==
  \/ \E c \in AsrCalls : Submit(c) \/ Cancel(c) \/ Age(c)
  \/ Poll
  \/ RecognizerReturns
  \/ AdmissionChanges
  \/ \E wait \in BOOLEAN : Close(wait)
  \/ CloseReturns

(* Tasks of the event loop run, native calls return, and time passes. *)
AsrFairness ==
  /\ WF_asrVars(Poll)
  /\ WF_asrVars(RecognizerReturns)
  /\ WF_asrVars(\E c \in AsrCalls : Age(c))
  /\ WF_asrVars(CloseReturns)

AsrSpec == AsrInit /\ [][AsrNext]_asrVars /\ AsrFairness

-----------------------------------------------------------------------------
(* The native slot goes only to a call whose client still waits, never to  *)
(* a correction while a primary caption is waiting, and not after close(). *)
SlotDiscipline ==
  [][asrActive' # asrActive /\ asrActive' # NoAsrCall
       => /\ asrFuture[asrActive'] = "pending" /\ ~asrClosed
          /\ asrActive' \in Primary
               \/ \A i \in DOMAIN asrQueue[0] : asrFuture[asrQueue[0][i]] # "pending"]_asrVars

(* Every client gets an answer, by the discipline of the slot: a result,   *)
(* an error, the expiry of its budget or a cancellation; and               *)
(* close(wait=True) returns.  Each call is submitted once, so this is said *)
(* of the end of a behavior; with finitely many primary calls they cannot  *)
(* hold corrections back for ever.                                         *)
EveryCallSettles ==
  /\ SlotDiscipline
  /\ <>[](asrCloser # "waiting" /\ \A c \in AsrCalls : asrFuture[c] # "pending")
=============================================================================
