-------------------------- MODULE TranslationRunner --------------------------
(***************************************************************************)
(* myvote_engine/translation.py, LatestTranslationRunner: the live         *)
(* translation tasks of one engine session, over the admission of          *)
(* priority_translation.py (EXTENDS TranslationAdmission).  Corrections    *)
(* are the callers that are no tasks.                                      *)
(*                                                                         *)
(* A coroutine is cut where it suspends: before its first step, at the     *)
(* semaphore, in the provider's stream, while the stream is closed, and    *)
(* between its end and its done callback.  The sink never suspends: the    *)
(* gateway's sink only calls put_nowait.  `late` says that the budget of a *)
(* request is used up, `cancelled` that Task.cancel was called.  A         *)
(* provider may ignore both.                                               *)
(***************************************************************************)
EXTENDS TranslationAdmission

CONSTANTS
  Tasks,          \* task objects that may be alive at once, among Callers
  Segments,
  MaxPending,     \* max_pending
  MaxRevision,    \* bound on source revisions
  MaxGeneration,  \* bound on provider switches
  NoTask, Unassigned

ASSUME RunnerAssumption ==
  /\ Tasks \subseteq Callers /\ NoTask \notin Callers
  /\ MaxPending \in Nat \ {0} /\ MaxRevision \in Nat /\ MaxGeneration \in Nat

VARIABLES
  pc,          \* where each task is
  segment,     \* request.segment_id
  revision,    \* request.revision
  born,        \* the generation it was submitted in
  cancelled, late,
  terminal,    \* terminal_published
  outcome,     \* how the body of the stream ended
  tabled,      \* _tasks
  latest,      \* _latest
  generation, closed, switching,
  shown        \* the last event of each segment that reached the sink

runner == <<pc, segment, revision, born, cancelled, late, terminal, outcome,
            tabled, latest, generation, closed, switching, shown>>
rvars == <<vars, runner>>

All == {t \in Tasks : pc[t] # "idle"}               \* _all_tasks
Tabled == {s \in Segments : tabled[s] # NoTask}
Pending == pending' = (\E t \in Tasks : pc'[t] # "idle")
Admission == <<at, secondary, busy, secondaryBusy, primaryWaiters>>

Event(t, kind) == [born |-> born[t], revision |-> revision[t], kind |-> kind]
NoEvent == [born |-> 0, revision |-> 0, kind |-> "none"]

RunnerInit ==
  /\ Init
  /\ pc = [t \in Tasks |-> "idle"]
  /\ segment = [t \in Tasks |-> Unassigned]
  /\ revision = [t \in Tasks |-> 0] /\ born = [t \in Tasks |-> 0]
  /\ cancelled = [t \in Tasks |-> FALSE] /\ late = [t \in Tasks |-> FALSE]
  /\ terminal = [t \in Tasks |-> FALSE] /\ outcome = [t \in Tasks |-> "none"]
  /\ tabled = [s \in Segments |-> NoTask] /\ latest = [s \in Segments |-> 0]
  /\ generation = 0 /\ closed = FALSE /\ switching = FALSE
  /\ shown = [s \in Segments |-> NoEvent]

Current(t) ==
  /\ ~closed /\ born[t] = generation
  /\ latest[segment[t]] = revision[t]

Cancel(ts) == cancelled' = [t \in Tasks |-> cancelled[t] \/ t \in ts]

(* submit().  Requests it refuses change nothing. *)
Submit(t, s, r) ==
  /\ pc[t] = "idle"
  /\ ~closed /\ ~switching
  /\ Cardinality(All) < MaxPending + 1
  /\ r > latest[s]
  /\ tabled[s] # NoTask \/ Cardinality(Tabled) < MaxPending
  /\ Cancel({tabled[s]})
  /\ pc' = [pc EXCEPT ![t] = "new"]
  /\ segment' = [segment EXCEPT ![t] = s]
  /\ revision' = [revision EXCEPT ![t] = r]
  /\ born' = [born EXCEPT ![t] = generation]
  /\ latest' = [latest EXCEPT ![s] = r]
  /\ tabled' = [tabled EXCEPT ![s] = t]
  /\ Pending
  /\ UNCHANGED <<Admission, late, terminal, outcome, generation, closed, switching, shown>>

(* emit() after its admission check. *)
Emit(t, kind) ==
  IF ~terminal[t] /\ Current(t)
  THEN /\ shown' = [shown EXCEPT ![segment[t]] = Event(t, kind)]
       /\ terminal' = [terminal EXCEPT ![t] = kind # "preview"]
  ELSE UNCHANGED <<shown, terminal>>

Rest == UNCHANGED <<segment, revision, born, tabled, latest, generation, closed, switching, pending>>
Flags == UNCHANGED <<cancelled, late>>
Goto(t, place) == pc' = [pc EXCEPT ![t] = place]

(* Variant bug: a used-up budget ends the task without a word. *)
TellCancelled(t, end) ==
  IF end = "cancelled" THEN Emit(t, end) ELSE UNCHANGED <<shown, terminal>>

(* The except clauses of _run: how the end of the body is told. *)
Tell(t, end) ==
  IF end \in {"failed", "cancelled"} THEN Emit(t, end) ELSE UNCHANGED <<shown, terminal>>

(* The first step of _run, or of a task that was cancelled before it. *)
Begin(t) ==
  /\ pc[t] = "new"
  /\ Goto(t, IF cancelled[t] \/ ~Current(t) THEN "done" ELSE "queued")
  /\ UNCHANGED <<Admission, terminal, outcome, shown>> /\ Flags /\ Rest

(* At the semaphore: the slot is free.  The provider's stream begins with  *)
(* acquire().                                                              *)
Slot(t) ==
  /\ pc[t] = "queued" /\ ~cancelled[t]
  /\ \A u \in Tasks : pc[u] \notin {"stream", "closing"}
  /\ \/ /\ ~Current(t) /\ Goto(t, "done")
        /\ UNCHANGED <<Admission, shown, terminal>>
     \/ /\ Current(t) /\ late[t] /\ Goto(t, "done") /\ Emit(t, "failed")
        /\ UNCHANGED Admission
     \/ /\ Current(t) /\ ~late[t] /\ Goto(t, "stream") /\ Enter(t, FALSE)
        /\ UNCHANGED <<shown, terminal>>
  /\ UNCHANGED outcome /\ Flags /\ Rest

(* How a pending cancellation or timeout ends a suspended task. *)
Interrupt(t) == IF cancelled[t] THEN "cancelled" ELSE "failed"

(* Variant bug: the line of acquire() is left without its finally block. *)
GiveUpInLine(t) ==
  /\ cancelled[t] \/ late[t]
  /\ pc[t] \in {"queued", "stream"} /\ at[t] # "holding"
  /\ Goto(t, "done")
  /\ Tell(t, Interrupt(t))
  /\ UNCHANGED Admission /\ UNCHANGED outcome /\ Flags /\ Rest

(* The semaphore or the line of acquire() is left early. *)
GiveUp(t) ==
  /\ cancelled[t] \/ late[t]
  /\ \/ pc[t] = "queued" /\ UNCHANGED Admission
     \/ pc[t] = "stream" /\ at[t] = "waiting" /\ Leave(t)
  /\ Goto(t, "done")
  /\ Tell(t, Interrupt(t))
  /\ UNCHANGED outcome /\ Flags /\ Rest

Admitted(t) ==
  /\ pc[t] = "stream" /\ Recheck(t)
  /\ UNCHANGED runner

Streaming(t) == pc[t] = "stream" /\ at[t] = "holding"

(* The body of the stream ends; _closing_stream then closes it. *)
EndBody(t, end) ==
  /\ Goto(t, "closing")
  /\ outcome' = [outcome EXCEPT ![t] = end]

(* What the loop does with a chunk before it looks at its text. *)
Refused(t) ==
  /\ ~Current(t) \/ late[t] \/ cancelled[t]
  /\ EndBody(t, CASE ~Current(t) -> "none" [] late[t] -> "failed" [] OTHER -> "cancelled")
  /\ UNCHANGED <<shown, terminal>>

(* The provider yields text. *)
Chunk(t) ==
  /\ Streaming(t)
  /\ \/ Refused(t)
     \/ /\ Current(t) /\ ~late[t] /\ ~cancelled[t]
        /\ Emit(t, "preview") /\ UNCHANGED <<pc, outcome>>
  /\ UNCHANGED Admission /\ Flags /\ Rest

(* The provider completes. *)
Complete(t) ==
  /\ Streaming(t)
  /\ \/ Refused(t)
     \/ /\ Current(t) /\ ~late[t] /\ ~cancelled[t]
        /\ Emit(t, "completed") /\ EndBody(t, "none")
  /\ UNCHANGED Admission /\ Flags /\ Rest

(* The provider raises, stops early or answers nothing; "crashed" is an    *)
(* exception that _run does not name.  A provider that obeys its           *)
(* cancellation or the timeout ends as Interrupt says.                     *)
Break(t) ==
  /\ Streaming(t)
  /\ \/ EndBody(t, "failed") \/ EndBody(t, "crashed")
     \/ (cancelled[t] \/ late[t]) /\ EndBody(t, Interrupt(t))
  /\ UNCHANGED <<Admission, shown, terminal>> /\ Flags /\ Rest

(* The stream is closed, acquire() and the semaphore are left, and the     *)
(* except clauses run.  A cancellation or a timeout that falls into the    *)
(* closing replaces the outcome.                                           *)
Closed(t) ==
  /\ pc[t] = "closing"
  /\ Leave(t)
  /\ Goto(t, "done")
  /\ \/ Tell(t, outcome[t]) /\ UNCHANGED outcome
     \/ /\ cancelled[t] \/ late[t]
        /\ Tell(t, Interrupt(t))
        /\ outcome' = [outcome EXCEPT ![t] = Interrupt(t)]
  /\ Flags /\ Rest

(* The done callback `remove`.  Exceptions are kept by the pipeline's      *)
(* callback and reported by finish().                                      *)
Remove(t) ==
  /\ pc[t] = "done"
  /\ Goto(t, "idle")
  /\ tabled' = [s \in Segments |-> IF tabled[s] = t THEN NoTask ELSE tabled[s]]
  /\ cancelled' = [cancelled EXCEPT ![t] = FALSE]
  /\ late' = [late EXCEPT ![t] = FALSE]
  /\ terminal' = [terminal EXCEPT ![t] = FALSE]
  /\ outcome' = [outcome EXCEPT ![t] = "none"]
  /\ segment' = [segment EXCEPT ![t] = Unassigned]
  /\ revision' = [revision EXCEPT ![t] = 0]
  /\ born' = [born EXCEPT ![t] = 0]
  /\ Pending
  /\ UNCHANGED <<Admission, latest, generation, closed, switching, shown>>

(* The budget of a request runs out. *)
Expire(t) ==
  /\ pc[t] \notin {"idle", "done"} /\ ~late[t]
  /\ late' = [late EXCEPT ![t] = TRUE]
  /\ UNCHANGED <<vars, pc, segment, revision, born, cancelled, terminal, outcome,
                 tabled, latest, generation, closed, switching, shown>>

(* switch_provider() up to the wait of _drain. *)
SwitchBegin ==
  /\ ~closed /\ ~switching /\ generation < MaxGeneration
  /\ switching' = TRUE /\ generation' = generation + 1
  /\ Cancel(All)
  /\ UNCHANGED <<vars, pc, segment, revision, born, late, terminal, outcome,
                 tabled, latest, closed, shown>>

(* _drain is over: everything was released, or it gave up and the tables   *)
(* of the old generation stay.                                             *)
SwitchEnd ==
  /\ switching
  /\ switching' = FALSE
  /\ \/ /\ All = {}
        /\ tabled' = [s \in Segments |-> NoTask]
        /\ latest' = [s \in Segments |-> 0]
     \/ All # {} /\ UNCHANGED <<tabled, latest>>
  /\ UNCHANGED <<vars, pc, segment, revision, born, cancelled, late, terminal, outcome,
                 generation, closed, shown>>

(* close(), and its end once every task is gone. *)
Close ==
  /\ ~closed
  /\ closed' = TRUE
  /\ Cancel(All)
  /\ UNCHANGED <<vars, pc, segment, revision, born, late, terminal, outcome,
                 tabled, latest, generation, switching, shown>>

(* A correction goes through acquire(secondary=True). *)
Correction(c) ==
  /\ Enter(c, TRUE) \/ Recheck(c) \/ Leave(c)
  /\ UNCHANGED runner

TaskStep(t) ==
  \/ Begin(t) \/ Slot(t) \/ GiveUp(t) \/ Admitted(t)
  \/ Chunk(t) \/ Complete(t) \/ Break(t) \/ Closed(t) \/ Remove(t)

RunnerNext ==
  \/ \E t \in Tasks : TaskStep(t) \/ Expire(t)
  \/ \E t \in Tasks : \E s \in Segments : \E r \in 1 .. MaxRevision : Submit(t, s, r)
  \/ SwitchBegin \/ SwitchEnd \/ Close
  \/ \E c \in Callers \ Tasks : Correction(c)

(* The loop resumes a task that can go on; budgets run out; a stream ends  *)
(* once its budget is gone (the HTTP client has a timeout); a drain ends   *)
(* within its timeout.                                                     *)
RunnerFairness ==
  /\ \A t \in Tasks :
       /\ WF_rvars(Begin(t)) /\ WF_rvars(Slot(t)) /\ WF_rvars(GiveUp(t))
       /\ WF_rvars(Admitted(t)) /\ WF_rvars(Closed(t)) /\ WF_rvars(Remove(t))
       /\ WF_rvars(Expire(t))
       /\ WF_rvars(Break(t))
  /\ WF_rvars(SwitchEnd)
  /\ \A c \in Callers \ Tasks :
       /\ WF_rvars(Recheck(c) /\ UNCHANGED runner)
       /\ WF_rvars(at[c] = "holding" /\ Leave(c) /\ UNCHANGED runner)

RunnerSpec == RunnerInit /\ [][RunnerNext]_rvars /\ RunnerFairness

-----------------------------------------------------------------------------

(* What the sink is told of a segment never goes back: a later event is of *)
(* a newer revision or generation, or goes on with a request that had only *)
(* previews.  A stream that ignored its cancellation cannot overwrite the  *)
(* caption of its successor, and a result is not followed by a failure.    *)
NeverBack ==
  [][\A s \in Segments :
       LET old == shown[s] new == shown'[s]
       IN  new # old =>
             \/ new.born > old.born
             \/ new.born = old.born /\ new.revision > old.revision
             \/ new.born = old.born /\ new.revision = old.revision /\ old.kind = "preview"]_rvars

(* A request that stays current is answered: it gets a final event, or     *)
(* ends with an exception for finish() to report.  No order of full        *)
(* queues, held slots, corrections and expired budgets leaves it waiting,  *)
(* and no event goes back behind it.                                       *)
Answered ==
  /\ NeverBack
  /\ \A t \in Tasks :
       pc[t] = "queued" ~>
         pc[t] = "done" /\ (terminal[t] \/ ~Current(t) \/ outcome[t] = "crashed")

(* The tasks and corrections together behave as the admission promises.    *)
UsesAdmission == Spec
=============================================================================
