-------------------------- MODULE GatewaySessions ---------------------------
(***************************************************************************)
(* The edge of the gateway: app/session/manager.py, app/api/websocket.py,  *)
(* app/api/sessions.py and the outgoing queue of app/session/state.py.     *)
(* What a session says is reduced to a number: events are counted from the *)
(* snapshot that attach() emits first, so a client that has seen 1 .. n    *)
(* has missed nothing.                                                     *)
(*                                                                         *)
(* A websocket has two tasks, the receive loop and its writer.  attach,    *)
(* detach and close hold the session's lock over calls of the translation  *)
(* scheduler that do not touch the queue, so each is one step.             *)
(***************************************************************************)
EXTENDS Integers, Sequences, FiniteSets

CONSTANTS
  Sessions,     \* session identifiers that create() may draw
  Conns,        \* websocket connections that may be open at once
  MaxSessions,  \* max_sessions
  QueueSize,    \* outgoing_queue_size
  MaxEvents,    \* bound of the model: events emitted per connection
  NoSession,    \* a connection that is not bound to a session
  NoQueue       \* _queue is None

(* Settings: max_sessions is at least 1, outgoing_queue_size at least 2. *)
VARIABLES
  table,    \* SessionManager.sessions
  dropped,  \* sessions popped from the table whose close() has not run yet
  closed,   \* session.closed; a session that was never made is not closed
  queue,    \* session._queue; 0 is the poison value None
  emitted,  \* the number of events emitted since the session was attached
  conn,     \* the receive loop: idle, attaching, open, ending
  target,   \* the session of the connection
  writer,   \* the writer: none, reading, sending, poisoned, done
  item,     \* the event the writer is sending
  shown     \* the last event the client has received

sessionVars == <<table, dropped, closed, queue, emitted>>
connVars == <<conn, target, writer, item, shown>>
vars == <<sessionVars, connVars>>

Poison == 0
Attached(c) == conn[c] \in {"open", "ending"}

Init ==
  /\ table = {} /\ dropped = {}
  /\ closed = [s \in Sessions |-> FALSE]
  /\ queue = [s \in Sessions |-> NoQueue]
  /\ emitted = [s \in Sessions |-> 0]
  /\ conn = [c \in Conns |-> "idle"]
  /\ target = [c \in Conns |-> NoSession]
  /\ writer = [c \in Conns |-> "none"]
  /\ item = [c \in Conns |-> 0]
  /\ shown = [c \in Conns |-> 0]

-----------------------------------------------------------------------------
(* POST /sessions. *)
Create(s) ==
  /\ s \notin table \cup dropped /\ ~closed[s]
  /\ Cardinality(table) < MaxSessions
  /\ table' = table \cup {s}
  /\ UNCHANGED <<dropped, closed, queue, emitted, connVars>>

(* SessionManager.delete up to its await: for DELETE /sessions/{id}, for a *)
(* session that the cleanup loop finds inactive, and at shutdown.          *)
Delete(s) ==
  /\ s \in table
  /\ table' = table \ {s}
  /\ dropped' = dropped \cup {s}
  /\ UNCHANGED <<closed, queue, emitted, connVars>>

(* TranslationSession.close: the queue is emptied for the poison value. *)
ClosedQueue(q) == IF q = NoQueue THEN q ELSE <<Poison>>

(* The rest of delete: session.close(). *)
CloseSession(s) ==
  /\ s \in dropped
  /\ dropped' = dropped \ {s}
  /\ closed' = [closed EXCEPT ![s] = TRUE]
  /\ queue' = [queue EXCEPT ![s] = ClosedQueue(@)]
  /\ UNCHANGED <<table, emitted, connVars>>

(* TranslationSession.emit on a queue: a consumer that is too slow gets    *)
(* the poison value instead of everything queued.                          *)
Put(q, event) == IF Len(q) < QueueSize THEN Append(q, event) ELSE <<Poison>>

(* A callback, a timer or the receive loop emits an event.  On a closed    *)
(* session only the receive loop still does, to answer a frame.            *)
Emit(s) ==
  /\ queue[s] # NoQueue /\ emitted[s] < MaxEvents
  /\ closed[s] => \E c \in Conns : target[c] = s /\ conn[c] = "open"
  /\ emitted' = [emitted EXCEPT ![s] = @ + 1]
  /\ queue' = [queue EXCEPT ![s] = Put(@, emitted[s] + 1)]
  /\ UNCHANGED <<table, dropped, closed, connVars>>

-----------------------------------------------------------------------------
(* A websocket with a valid capability, up to the await of attach().       *)
Authorize(c, s) ==
  /\ conn[c] = "idle" /\ s \in table /\ ~closed[s]
  /\ conn' = [conn EXCEPT ![c] = "attaching"]
  /\ target' = [target EXCEPT ![c] = s]
  /\ UNCHANGED <<sessionVars, writer, item, shown>>

(* attach: SESSION_ALREADY_CONNECTED. *)
Refuses(s) == queue[s] # NoQueue \/ closed[s]

(* attach: a queue of its own that starts with a snapshot, and a writer. *)
Attach(c) ==
  LET s == target[c]
  IN  /\ conn[c] = "attaching" /\ ~Refuses(s)
      /\ queue' = [queue EXCEPT ![s] = <<1>>]
      /\ emitted' = [emitted EXCEPT ![s] = 1]
      /\ conn' = [conn EXCEPT ![c] = "open"]
      /\ writer' = [writer EXCEPT ![c] = "reading"]
      /\ shown' = [shown EXCEPT ![c] = 0]
      /\ UNCHANGED <<table, dropped, closed, target, item>>

(* attach raised: the websocket is closed with 1008 and was never attached. *)
Refuse(c) ==
  /\ conn[c] = "attaching" /\ Refuses(target[c])
  /\ conn' = [conn EXCEPT ![c] = "idle"]
  /\ target' = [target EXCEPT ![c] = NoSession]
  /\ UNCHANGED <<sessionVars, writer, item, shown>>

(* send_messages takes the head of the queue. *)
WriterTakes(c) ==
  LET s == target[c]
      head == Head(queue[s])
  IN  /\ Attached(c) /\ writer[c] = "reading" /\ queue[s] # <<>>
      /\ queue' = [queue EXCEPT ![s] = Tail(@)]
      /\ writer' = [writer EXCEPT ![c] = IF head = Poison THEN "poisoned" ELSE "sending"]
      /\ item' = [item EXCEPT ![c] = head]
      /\ UNCHANGED <<table, dropped, closed, emitted, conn, target, shown>>

(* The send completes. *)
WriterSends(c) ==
  /\ Attached(c) /\ writer[c] = "sending"
  /\ shown' = [shown EXCEPT ![c] = item[c]]
  /\ item' = [item EXCEPT ![c] = 0]
  /\ writer' = [writer EXCEPT ![c] = "reading"]
  /\ UNCHANGED <<sessionVars, conn, target>>

(* The writer ends: closed with 1013 after the poison value, with 1009 for *)
(* an event above max_snapshot_bytes, or a send that failed or timed out.  *)
WriterEnds(c) ==
  /\ Attached(c) /\ writer[c] \in {"sending", "poisoned"}
  /\ writer' = [writer EXCEPT ![c] = "done"]
  /\ item' = [item EXCEPT ![c] = 0]
  /\ UNCHANGED <<sessionVars, conn, target, shown>>

(* The receive loop stops when the client disconnects, sends a frame above *)
(* max_event_bytes, or the server cancels the scope.                       *)
ClientLeaves(c) ==
  /\ conn[c] = "open"
  /\ conn' = [conn EXCEPT ![c] = "ending"]
  /\ UNCHANGED <<sessionVars, target, writer, item, shown>>

(* Variant bug: the loop awaits frames only. *)
WriterUnnoticed(c) ==
  /\ conn[c] = "open" /\ writer[c] = "done"
  /\ UNCHANGED vars

(* The receive loop stops because the writer has ended. *)
WriterLeaves(c) ==
  /\ conn[c] = "open" /\ writer[c] = "done"
  /\ conn' = [conn EXCEPT ![c] = "ending"]
  /\ UNCHANGED <<sessionVars, target, writer, item, shown>>

(* The shielded cleanup: the writer is cancelled and the session detached. *)
Detach(c) ==
  /\ conn[c] = "ending"
  /\ queue' = [queue EXCEPT ![target[c]] = NoQueue]
  /\ conn' = [conn EXCEPT ![c] = "idle"]
  /\ target' = [target EXCEPT ![c] = NoSession]
  /\ writer' = [writer EXCEPT ![c] = "none"]
  /\ item' = [item EXCEPT ![c] = 0]
  /\ UNCHANGED <<table, dropped, closed, emitted, shown>>

Next ==
  \/ \E s \in Sessions : Create(s) \/ Delete(s) \/ CloseSession(s) \/ Emit(s)
  \/ \E c \in Conns, s \in Sessions : Authorize(c, s)
  \/ \E c \in Conns :
       \/ Attach(c) \/ Refuse(c)
       \/ WriterTakes(c) \/ WriterSends(c) \/ WriterEnds(c)
       \/ ClientLeaves(c) \/ WriterLeaves(c) \/ Detach(c)

(* Tasks run on; a send is over after 10 seconds, one way or the other. *)
Fairness ==
  /\ \A s \in Sessions : WF_vars(CloseSession(s))
  /\ \A c \in Conns : /\ WF_vars(Attach(c) \/ Refuse(c))
                      /\ WF_vars(WriterTakes(c))
                      /\ WF_vars(WriterSends(c) \/ WriterEnds(c))
                      /\ WF_vars(WriterLeaves(c))
                      /\ WF_vars(Detach(c))

Spec == Init /\ [][Next]_vars /\ Fairness

-----------------------------------------------------------------------------

(* Every event reaches the client or the client is disconnected, and the   *)
(* client of a deleted session is disconnected.                            *)
EventsArrive ==
  \A c \in Conns :
    []<>(Attached(c) => target[c] \in table /\ shown[c] = emitted[target[c]])
=============================================================================
