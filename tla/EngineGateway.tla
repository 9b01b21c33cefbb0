--------------------------- MODULE EngineGateway ----------------------------
(***************************************************************************)
(* The one-session gateway: GatewayService.StreamSession of                *)
(* gateway_server.py, its NativeCallFence, the retirement of a session's   *)
(* engines, and the order of events the client accepts                     *)
(* (gateway_client.py).                                                    *)
(*                                                                         *)
(* A session runs a reader (read_input), a worker (process_input) and the  *)
(* handler that sends events.  Models run in threads: a call is queued in  *)
(* the executor, runs, and cannot be cancelled once it runs.  "vad" is the *)
(* call the worker awaits, "asr" the recogniser's, awaited by a task of    *)
(* the pipeline.                                                           *)
(***************************************************************************)
EXTENDS Naturals, Sequences

CONSTANTS
  MaxSessions,   \* bound: sessions opened one after the other
  MaxInputs,     \* bound: audio messages of a session
  MaxReceived,   \* max_receive_queue
  MaxEvents,     \* max_event_queue
  MaxResults     \* bound: recogniser calls of a session

Sessions == 1..MaxSessions
Calls == {"vad", "asr"}

VARIABLES
  busy, blocked,  \* GatewayService._busy, _blocked_reason
  sess,           \* the last session opened
  handler,        \* none, run, gather, close: where StreamSession is
  reader,         \* reading, finish (seen), closed
  inputs,         \* audio messages read
  received,       \* queue from reader to worker
  worker,         \* boot, ready, vad, finish, done
  results,        \* recogniser calls made
  events,         \* queue from the pipeline to the handler
  fatal,          \* the fatal future is set
  emitted,        \* events the session's pipeline produced
  sent,           \* kinds the client has received, in order
  fence,          \* fence[s]: is admission open?
  native,         \* native[s][c]: none, queued, running
  retire,         \* retire[s]: none, waiting, done
  excuse          \* why a session may end without a terminal event
gate == <<busy, blocked, sess>>
tasks == <<reader, inputs, received, worker, results>>
outgoing == <<events, fatal, emitted, sent>>
engines == <<fence, native, retire>>
vars == <<gate, handler, tasks, outgoing, engines, excuse>>

Init ==
  /\ busy = FALSE /\ blocked = FALSE /\ sess = 0 /\ handler = "none"
  /\ reader = "closed" /\ inputs = 0 /\ received = <<>> /\ worker = "done" /\ results = 0
  /\ events = <<>> /\ fatal = FALSE /\ emitted = 0 /\ sent = <<>>
  /\ fence = [s \in Sessions |-> FALSE]
  /\ native = [s \in Sessions |-> [c \in Calls |-> "none"]]
  /\ retire = [s \in Sessions |-> "none"]
  /\ excuse = ""

Active(s) == \E c \in Calls : native[s][c] = "running"
QueueCall(s, c) == native' = [native EXCEPT ![s][c] = "queued"]

-----------------------------------------------------------------------------
Emit(kind) ==
  IF fatal THEN UNCHANGED <<events, fatal, emitted>>
  ELSE /\ emitted' = emitted + 1
       /\ IF Len(events) < MaxEvents
          THEN events' = Append(events, kind) /\ UNCHANGED fatal
          ELSE fatal' = TRUE /\ UNCHANGED events

\* An authenticated open message, when no session holds the engines.
CanOpen == ~busy /\ ~blocked
StreamSession ==
  /\ handler = "none" /\ sess < MaxSessions /\ CanOpen
  /\ busy' = TRUE /\ sess' = sess + 1 /\ UNCHANGED blocked
  /\ events' = <<>> /\ fatal' = FALSE /\ emitted' = 0 /\ excuse' = ""
  /\ inputs' = 0 /\ received' = <<>> /\ results' = 0
  /\ UNCHANGED retire
  /\ \/ /\ handler' = "run" /\ reader' = "reading" /\ worker' = "boot"
        /\ fence' = [fence EXCEPT ![sess + 1] = TRUE]
        /\ sent' = <<>>
        /\ QueueCall(sess + 1, "vad")
     \* engine_factory raised: one failed event, then abort.
     \/ /\ handler' = "gather" /\ reader' = "closed" /\ worker' = "done"
        /\ sent' = <<"failed">>
        /\ UNCHANGED <<fence, native>>

-----------------------------------------------------------------------------
(***************************************************************************)
(* read_input.                                                             *)
(***************************************************************************)
Receive(item) ==
  IF Len(received) < MaxReceived
  THEN received' = Append(received, item) /\ UNCHANGED fatal
  ELSE fatal' = TRUE /\ UNCHANGED received

ReadAudio ==
  /\ reader = "reading" /\ ~fatal
  /\ inputs < MaxInputs /\ inputs' = inputs + 1
  /\ Receive("audio")
  /\ reader' = IF fatal' THEN "closed" ELSE reader
  /\ UNCHANGED <<gate, handler, worker, results, events, emitted, sent, engines, excuse>>
ReadFinish ==
  /\ reader = "reading"
  /\ reader' = "finish"
  /\ UNCHANGED <<gate, handler, inputs, received, worker, results, outgoing, engines, excuse>>
ReadHalfClose ==
  /\ reader = "finish"
  /\ Receive("finish")
  /\ reader' = "closed"
  /\ UNCHANGED <<gate, handler, inputs, worker, results, events, emitted, sent, engines, excuse>>
\* An idle or expired session, a malformed message, one after finish, or a
\* half-close without finish.
ReadFails ==
  /\ reader \in {"reading", "finish"}
  /\ fatal' = TRUE /\ reader' = "closed"
  /\ UNCHANGED <<gate, handler, inputs, received, worker, results, events, emitted, sent,
                 engines, excuse>>

-----------------------------------------------------------------------------
(***************************************************************************)
(* process_input and the pipeline under it.                                *)
(***************************************************************************)
TakeInput ==
  /\ worker = "ready" /\ received # <<>>
  /\ received' = Tail(received)
  /\ IF Head(received) = "finish"
     THEN worker' = "finish" /\ UNCHANGED native
     ELSE worker' = "vad" /\ QueueCall(sess, "vad")
  /\ UNCHANGED <<gate, handler, reader, inputs, results, outgoing, fence, retire, excuse>>

\* A frame that rewinds, another track, a drain timeout.
WorkerFails ==
  /\ worker \in {"ready", "finish"}
  /\ fatal' = TRUE /\ worker' = "done"
  /\ UNCHANGED <<gate, handler, reader, inputs, received, results, events, emitted, sent,
                 engines, excuse>>

\* session.finish returns when the recogniser is idle; its timeout is
\* WorkerFails.
FinishSession ==
  /\ worker = "finish" /\ native[sess]["asr"] = "none"
  /\ worker' = "done"
  /\ Emit("completed")
  /\ UNCHANGED <<gate, handler, reader, inputs, received, results, sent, engines, excuse>>

-----------------------------------------------------------------------------
(***************************************************************************)
(* NativeCallFence.call, in a thread of the executor.                      *)
(***************************************************************************)
StartCallUnfenced(s, c) ==
  /\ native[s][c] = "queued"
  /\ native' = [native EXCEPT ![s][c] = "running"]
  /\ UNCHANGED <<gate, handler, tasks, outgoing, fence, retire, excuse>>
StartCall(s, c) ==
  /\ native[s][c] = "queued"
  /\ native' = [native EXCEPT ![s][c] = IF fence[s] THEN "running" ELSE "none"]
  /\ UNCHANGED <<gate, handler, tasks, outgoing, fence, retire, excuse>>

\* The call returns or raises; the worker, if it still awaits it, goes on.
VadReturns(s) ==
  /\ native[s]["vad"] = "running"
  /\ IF s = sess /\ worker \in {"boot", "vad"}
     THEN \/ /\ worker' = "ready"
             /\ native' = [native EXCEPT ![s]["vad"] = "none"]
             /\ IF worker = "boot" THEN Emit("started") ELSE UNCHANGED <<events, fatal, emitted>>
             /\ UNCHANGED results
          \* session.feed: the frame completes a window.
          \/ /\ worker = "vad" /\ worker' = "ready"
             /\ native[s]["asr"] = "none" /\ results < MaxResults
             /\ native' = [native EXCEPT ![s]["vad"] = "none", ![s]["asr"] = "queued"]
             /\ results' = results + 1
             /\ UNCHANGED <<events, fatal, emitted>>
          \/ /\ worker' = "done" /\ fatal' = TRUE
             /\ native' = [native EXCEPT ![s]["vad"] = "none"]
             /\ UNCHANGED <<results, events, emitted>>
     ELSE /\ native' = [native EXCEPT ![s]["vad"] = "none"]
          /\ UNCHANGED <<worker, results, events, fatal, emitted>>
  /\ UNCHANGED <<gate, handler, reader, inputs, received, sent, fence, retire, excuse>>

AsrReturns(s) ==
  /\ native[s]["asr"] = "running"
  /\ native' = [native EXCEPT ![s]["asr"] = "none"]
  /\ IF s = sess /\ handler = "run" THEN Emit("event") ELSE UNCHANGED <<events, fatal, emitted>>
  /\ UNCHANGED <<gate, handler, tasks, sent, fence, retire, excuse>>

-----------------------------------------------------------------------------
(***************************************************************************)
(* The handler: send what is queued, or the failure and nothing after it.  *)
(***************************************************************************)
Cleanup ==
  /\ handler' = "gather"
  /\ fence' = [fence EXCEPT ![sess] = FALSE]
  /\ reader' = "closed" /\ worker' = "done"

SendEvent ==
  /\ handler = "run" /\ ~fatal /\ events # <<>>
  /\ events' = Tail(events)
  /\ sent' = Append(sent, Head(events))
  /\ UNCHANGED <<gate, handler, tasks, fatal, emitted, engines, excuse>>
SendFailure ==
  /\ handler = "run" /\ fatal
  /\ sent' = Append(sent, "failed")
  /\ Cleanup
  /\ UNCHANGED <<gate, inputs, received, results, events, fatal, emitted, native, retire, excuse>>
HandlerReturns ==
  /\ handler = "run" /\ ~fatal /\ worker = "done" /\ events = <<>>
  /\ Cleanup
  /\ UNCHANGED <<gate, inputs, received, results, outgoing, native, retire, excuse>>
\* The client went away, or did not take a result in time.
HandlerCancelled ==
  /\ handler = "run"
  /\ excuse' = "cancelled"
  /\ Cleanup
  /\ UNCHANGED <<gate, inputs, received, results, outgoing, native, retire>>

\* The finally block: the cancelled tasks end, then the pipeline closes.
Gathered ==
  /\ handler = "gather"
  /\ handler' = "close"
  /\ UNCHANGED <<gate, tasks, outgoing, engines, excuse>>
\* A cancellation that arrives while the tasks are gathered skips the rest
\* of the block: no retirement is ever created.
GatherCancelled ==
  /\ handler = "gather"
  /\ handler' = "none" /\ excuse' = "lost"
  /\ UNCHANGED <<gate, tasks, outgoing, engines>>
\* A close that retires the session only when it did not raise.
SessionClosedUnguarded ==
  /\ handler = "close"
  /\ handler' = "none"
  /\ blocked' \in {blocked, TRUE}
  /\ retire' = IF blocked' THEN retire ELSE [retire EXCEPT ![sess] = "waiting"]
  /\ UNCHANGED <<busy, sess, tasks, outgoing, fence, native, excuse>>
SessionClosed ==
  /\ handler = "close"
  /\ handler' = "none"
  /\ blocked' \in {blocked, TRUE}
  /\ retire' = [retire EXCEPT ![sess] = "waiting"]
  /\ UNCHANGED <<busy, sess, tasks, outgoing, fence, native, excuse>>

Retire(s) ==
  /\ retire[s] = "waiting" /\ ~Active(s)
  /\ retire' = [retire EXCEPT ![s] = "done"]
  /\ busy' = FALSE /\ blocked' \in {blocked, TRUE}
  /\ UNCHANGED <<sess, handler, tasks, outgoing, fence, native, excuse>>

Next ==
  \/ StreamSession
  \/ ReadAudio \/ ReadFinish \/ ReadHalfClose \/ ReadFails
  \/ TakeInput \/ WorkerFails \/ FinishSession
  \/ \E s \in Sessions :
       \/ \E c \in Calls : StartCall(s, c)
       \/ VadReturns(s) \/ AsrReturns(s) \/ Retire(s)
  \/ SendEvent \/ SendFailure \/ HandlerReturns \/ HandlerCancelled
  \/ Gathered \/ GatherCancelled \/ SessionClosed

\* The event loop runs every ready task, the executor every queued call,
\* model calls return, and the reader's timeouts end a silent session.
Fairness ==
  /\ WF_vars(ReadFinish \/ ReadHalfClose \/ ReadFails)
  /\ WF_vars(TakeInput) /\ WF_vars(FinishSession \/ WorkerFails)
  /\ \A s \in Sessions :
       /\ WF_vars(\E c \in Calls : StartCall(s, c))
       /\ WF_vars(VadReturns(s)) /\ WF_vars(AsrReturns(s)) /\ WF_vars(Retire(s))
  /\ WF_vars(SendEvent \/ SendFailure \/ HandlerReturns)
  /\ WF_vars(Gathered) /\ WF_vars(SessionClosed)

Spec == Init /\ [][Next]_vars /\ Fairness

-----------------------------------------------------------------------------
(***************************************************************************)
(* Properties                                                              *)
(***************************************************************************)

\* A model still running for an old session is never shared with a new one,
\* and a retired session starts no call (NativeCallFence and _retire),
\* although calls queued in the executor outlive the session's tasks.
EngineExclusive ==
  \A s \in Sessions :
    Active(s) => /\ s = sess /\ busy
                 /\ retire[s] # "done"

\* The engines come free again after every session, except when the handler
\* is cancelled inside its own clean-up.
LeaseReturns == []<>(~busy \/ excuse = "lost")
=============================================================================
