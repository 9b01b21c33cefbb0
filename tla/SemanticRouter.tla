--------------------------- MODULE SemanticRouter ---------------------------
(***************************************************************************)
(* myvote_engine/semantic_translation.py and semantic_routing.py: speech   *)
(* units wait in the buffer of their lane until the provider returns a     *)
(* translated prefix of it.  The coordinator of a lane is one worker, at   *)
(* most one physical request and a lock around the caller's callbacks; the *)
(* router owns the lanes.                                                  *)
(*                                                                         *)
(* Units are numbered in the order of append.  age[l] is 1 once max_hold_s *)
(* and 2 once max_total_age_s has passed.  The worker's sleep always has a *)
(* timeout at the next of these, so its wake-up event only shortens it and *)
(* the sleeping worker is the worker at the top of its loop.  Rate limits  *)
(* only delay a request.  Callbacks may suspend and do not raise.          *)
(***************************************************************************)
EXTENDS Integers, Sequences, FiniteSets

CONSTANTS
  Lanes, NoLane, \* scopes: track, epoch, language, speaker lane
  MaxUnits,   \* units ever appended
  LaneUnits,  \* max_units of a coordinator
  TotalUnits, \* max_total_units of the router
  MaxLanes,   \* max_lanes
  MaxResets   \* resets ever asked for

Units == 1 .. MaxUnits

VARIABLES
  next,      \* the next unit
  laneOf,    \* lane of each unit
  age,
  returned,  \* no, commit or failure: the callback that got the unit
  open,      \* lanes with a coordinator
  buf,       \* _pending
  sealed,    \* _boundaries
  worker,    \* none, loop, query, lock (lockfail: with a failure), call
  active,    \* _active_units: the units in the worker's hands
  forced,    \* the force_flush of its request
  tried,     \* _last_attempt
  request,   \* none, open, answered, lingering: the physical request
  refused,   \* units of a failing append that wait for, or are in, a callback
  lock,      \* free, worker or append: who holds _callback_lock
  resetting, \* lanes between the cancellation and the end of reset()
  flushed,   \* the checkpoint a flush waits for, {} if none does
  closing, closed, resets,
  interrupted \* history: units whose callback was cancelled at the lock

vars == <<next, laneOf, age, returned, open, buf, sealed, worker, active, forced, tried,
          request, refused, lock, resetting, flushed, closing, closed, resets,
          interrupted>>

Elems(s) == {s[i] : i \in 1 .. Len(s)}
Waiting == UNION {Elems(buf[l]) : l \in Lanes}            \* pending_units

Unsettled(l) == Elems(buf[l]) \cup Elems(active[l])       \* unsettled_units
Idle(l) == Unsettled(l) = {} /\ worker[l] = "none" /\ request[l] = "none"

Init ==
  /\ next = 1
  /\ laneOf = [u \in Units |-> NoLane]
  /\ age = [l \in Lanes |-> 0] /\ returned = [u \in Units |-> "no"]
  /\ open = {} /\ sealed = {}
  /\ buf = [l \in Lanes |-> <<>>] /\ active = [l \in Lanes |-> <<>>]
  /\ tried = [l \in Lanes |-> <<>>]
  /\ worker = [l \in Lanes |-> "none"] /\ request = [l \in Lanes |-> "none"]
  /\ forced = [l \in Lanes |-> FALSE]
  /\ refused = [l \in Lanes |-> <<>>] /\ lock = [l \in Lanes |-> "free"]
  /\ resetting = {} /\ flushed = {} /\ closing = FALSE /\ closed = FALSE /\ resets = 0
  /\ interrupted = {}

(* _head(): the leading units up to the first boundary. *)
HeadLen(l) ==
  LET marks == {i \in 1 .. Len(buf[l]) : buf[l][i] \in sealed}
  IN  IF marks = {} THEN Len(buf[l]) ELSE CHOOSE i \in marks : \A j \in marks : i <= j
Head_(l) == SubSeq(buf[l], 1, HeadLen(l))
Forced(l) ==
  \/ Elems(Head_(l)) \cap sealed # {}
  \/ age[l] >= 1
  \/ closing

Give(us, kind) == returned' = [u \in Units |-> IF u \in us THEN kind ELSE returned[u]]

(* request_flush() of every lane: what is pending is sealed. *)
Seals(ls) == sealed \cup {buf[l][Len(buf[l])] : l \in {m \in ls : buf[m] # <<>>}}
(* Variant bug: a worker that ended is not replaced. *)
AwakeOnce(ls) == [l \in Lanes |-> IF l \in ls /\ worker[l] = "none" /\ returned[1] = "no"
                                  THEN "loop" ELSE worker[l]]

(* _ensure_worker *)
Awake(ls) == [l \in Lanes |-> IF l \in ls /\ worker[l] = "none" THEN "loop" ELSE worker[l]]
Busy == {l \in open : buf[l] # <<>>}

Fixed == UNCHANGED <<laneOf, resets, interrupted>>

(* The router's append(): the unit is refused for its size or because the  *)
(* router is full, and its callback is called without a lock.              *)
RouterRefuses(u) ==
  /\ sealed' = Seals(open) /\ worker' = Awake(Busy)
  /\ Give({u}, "failure")
  /\ UNCHANGED <<open, buf, refused, lock, tried>>

(* The coordinator's append(), for a lane that exists afterwards.  `turn`: *)
(* the speech changed track, epoch, language or (in the pipeline) speaker, *)
(* and what the lanes hold is sealed before.  A boundary is sealed after.  *)
CoordinatorTakes(l, u, boundary, turn) ==
  LET before == IF turn THEN Seals(open) ELSE sealed
      woken == IF turn \/ boundary THEN Busy \cup {l} ELSE {l}
  IN  /\ worker' = Awake(woken)
      /\ IF Len(buf[l]) >= LaneUnits
         THEN /\ sealed' = before \cup Seals(IF boundary THEN open ELSE {l})
              /\ refused[l] = <<>>
              /\ refused' = [refused EXCEPT ![l] = <<u>>]
              /\ IF lock[l] = "free"
                 THEN Give({u}, "failure") /\ lock' = [lock EXCEPT ![l] = "append"]
                 ELSE UNCHANGED <<returned, lock>>
              /\ UNCHANGED buf
         ELSE /\ buf' = [buf EXCEPT ![l] = Append(@, u)]
              /\ sealed' = before \cup (IF boundary THEN Seals(open \ {l}) \cup {u} ELSE {})
              /\ UNCHANGED <<returned, refused, lock>>

Append_(l, boundary, turn, tooLarge) ==
  LET u == next
      idle == {m \in open : Idle(m)}
      full == l \notin open /\ Cardinality(open) >= MaxLanes
  IN  /\ u \in Units /\ ~closing /\ ~closed /\ resetting = {}
      /\ next' = next + 1
      /\ laneOf' = [laneOf EXCEPT ![u] = l]
      /\ \/ (tooLarge \/ Cardinality(Waiting) >= TotalUnits) /\ RouterRefuses(u)
         \/ /\ ~tooLarge /\ Cardinality(Waiting) < TotalUnits
            /\ \/ full /\ idle = {} /\ RouterRefuses(u)
               \/ /\ full
                  /\ \E m \in idle :
                       /\ open' = (open \ {m}) \cup {l}
                       /\ tried' = [tried EXCEPT ![m] = <<>>]
                  /\ CoordinatorTakes(l, u, boundary, turn)
               \/ /\ ~full
                  /\ open' = open \cup {l}
                  /\ CoordinatorTakes(l, u, boundary, turn)
                  /\ UNCHANGED tried
      /\ UNCHANGED <<age, active, forced, request, resetting, flushed, closing, closed,
                     interrupted, resets>>

(* A callback takes the lock at once or queues for it. *)
Deliver(l, us, kind) ==
  /\ forced' = [forced EXCEPT ![l] = FALSE]
  /\ active' = [active EXCEPT ![l] = us]
  /\ IF lock[l] = "free"
     THEN /\ Give(Elems(us), kind)
          /\ lock' = [lock EXCEPT ![l] = "worker"]
          /\ worker' = [worker EXCEPT ![l] = "call"]
     ELSE /\ worker' = [worker EXCEPT ![l] = IF kind = "commit" THEN "lock" ELSE "lockfail"]
          /\ UNCHANGED <<returned, lock>>

(* _remove_prefix.  An attempt at units that left the buffer never matches *)
(* a head again, so it is forgotten here.                                  *)
Consume(l, n) ==
  /\ age' = [age EXCEPT ![l] = 0]
  /\ tried' = [tried EXCEPT ![l] = <<>>]
  /\ buf' = [buf EXCEPT ![l] = SubSeq(@, n + 1, Len(@))]
  /\ sealed' = sealed \ Elems(SubSeq(buf[l], 1, n))

(* _loop(): nothing is left, or the coordinator is closed. *)
WorkerEnds(l) ==
  /\ worker[l] = "loop" /\ (buf[l] = <<>> \/ closed)
  /\ worker' = [worker EXCEPT ![l] = "none"]
  /\ UNCHANGED <<next, age, returned, open, buf, sealed, active, forced, tried,
                 request, refused, lock, resetting, flushed, closing, closed>> /\ Fixed

(* _loop(): the oldest unit passed max_total_age_s. *)
SourceDeadline(l) ==
  /\ worker[l] = "loop" /\ buf[l] # <<>> /\ ~closed
  /\ age[l] = 2
  /\ Consume(l, HeadLen(l))
  /\ Deliver(l, Head_(l), "failure")
  /\ UNCHANGED <<next, open, request, refused,
                 resetting, flushed, closing, closed>> /\ Fixed

(* _query_active() up to its wait.  A lingering request blocks it. *)
Query(l) ==
  /\ worker[l] = "loop" /\ buf[l] # <<>> /\ ~closed
  /\ age[l] < 2
  /\ request[l] = "none"
  /\ Head_(l) # tried[l] \/ Forced(l)
  /\ active' = [active EXCEPT ![l] = Head_(l)]
  /\ forced' = [forced EXCEPT ![l] = Forced(l)]
  /\ tried' = [tried EXCEPT ![l] = Head_(l)]
  /\ request' = [request EXCEPT ![l] = "open"]
  /\ worker' = [worker EXCEPT ![l] = "query"]
  /\ UNCHANGED <<next, age, returned, open, buf, sealed, refused, lock,
                 resetting, flushed, closing, closed>> /\ Fixed

(* The request ends in time.  _request_done runs before the worker is      *)
(* resumed; until then other tasks may run.                                *)
Answered(l) ==
  /\ worker[l] = "query" /\ request[l] = "open"
  /\ request' = [request EXCEPT ![l] = "answered"]
  /\ UNCHANGED <<next, age, returned, open, buf, sealed, worker, active, forced, tried,
                 refused, lock, resetting, flushed, closing, closed>> /\ Fixed

(* The check after the wait. *)
Authorized(l) ==
  /\ ~closed
  /\ SubSeq(buf[l], 1, Len(active[l])) = active[l]

Return(l) ==
  /\ forced' = [forced EXCEPT ![l] = FALSE]
  /\ worker' = [worker EXCEPT ![l] = "loop"]
  /\ active' = [active EXCEPT ![l] = <<>>]

(* parse_semantic_response: a forced request must commit all its units. *)
Prefixes(l) == IF forced[l] THEN {Len(active[l])} ELSE 1 .. Len(active[l])

(* _query_active() after the wait. *)
Resume(l) ==
  /\ worker[l] = "query" /\ request[l] = "answered"
  /\ request' = [request EXCEPT ![l] = "none"]
  /\ \/ ~Authorized(l) /\ Return(l) /\ UNCHANGED <<buf, sealed, age, tried, returned, lock>>
     \/ /\ Authorized(l) /\ ~forced[l]
        /\ Return(l) /\ UNCHANGED <<buf, sealed, age, tried, returned, lock>>
     \/ /\ Authorized(l)
        /\ Consume(l, Len(active[l])) /\ Deliver(l, active[l], "failure")
     \/ /\ Authorized(l)
        /\ \E n \in Prefixes(l) :
             Consume(l, n) /\ Deliver(l, SubSeq(active[l], 1, n), "commit")
  /\ UNCHANGED <<next, open, refused,
                 resetting, flushed, closing, closed>> /\ Fixed

(* The wait times out: the task is cancelled but may linger. *)
ModelTimeout(l) ==
  /\ worker[l] = "query" /\ request[l] = "open"
  /\ \E r \in {"none", "lingering"} : request' = [request EXCEPT ![l] = r]
  /\ IF Authorized(l)
     THEN Consume(l, Len(active[l])) /\ Deliver(l, active[l], "failure")
     ELSE Return(l) /\ UNCHANGED <<buf, sealed, age, tried, returned, lock>>
  /\ UNCHANGED <<next, open, refused,
                 resetting, flushed, closing, closed>> /\ Fixed

(* A request that ignored its cancellation ends. *)
Lingered(l) ==
  /\ request[l] = "lingering"
  /\ request' = [request EXCEPT ![l] = "none"]
  /\ UNCHANGED <<next, age, returned, open, buf, sealed, worker, active, forced, tried,
                 refused, lock, resetting, flushed, closing, closed>> /\ Fixed

(* The lock is free for the worker.  A commit looks again whether it was   *)
(* reset or closed; reset() and close() cancel the worker as well.         *)
Granted(l) ==
  /\ worker[l] \in {"lock", "lockfail"} /\ lock[l] = "free"
  /\ Give(Elems(active[l]), IF worker[l] = "lock" THEN "commit" ELSE "failure")
  /\ lock' = [lock EXCEPT ![l] = "worker"]
  /\ worker' = [worker EXCEPT ![l] = "call"]
  /\ UNCHANGED <<next, age, open, buf, sealed, active, forced, tried, request, refused,
                 resetting, flushed, closing, closed>> /\ Fixed

(* The callback of the worker returns. *)
CallbackEnds(l) ==
  /\ worker[l] = "call"
  /\ Return(l)
  /\ lock' = [lock EXCEPT ![l] = "free"]
  /\ UNCHANGED <<next, age, returned, open, buf, sealed, tried, request, 
                 refused, resetting, flushed, closing, closed>> /\ Fixed

(* The same for the append that was refused: it gets the lock, it is done. *)
RefusedStep(l) ==
  /\ refused[l] # <<>>
  /\ \/ /\ lock[l] = "free"
        /\ Give(Elems(refused[l]), "failure")
        /\ lock' = [lock EXCEPT ![l] = "append"]
        /\ UNCHANGED refused
     \/ /\ lock[l] = "append"
        /\ lock' = [lock EXCEPT ![l] = "free"]
        /\ refused' = [refused EXCEPT ![l] = <<>>]
        /\ UNCHANGED returned
  /\ UNCHANGED <<next, age, open, buf, sealed, worker, active, forced, tried, request,
                 resetting, flushed, closing, closed>> /\ Fixed

(* reset() of the lanes ls up to the end of their workers: the worker is   *)
(* cancelled wherever it is suspended.                                     *)
CancelWorkers(ls) ==
  /\ forced' = [l \in Lanes |-> forced[l] /\ l \notin ls]
  /\ worker' = [l \in Lanes |-> IF l \in ls THEN "none" ELSE worker[l]]
  /\ active' = [l \in Lanes |-> IF l \in ls THEN <<>> ELSE active[l]]
  /\ lock' = [l \in Lanes |-> IF l \in ls /\ lock[l] = "worker" THEN "free" ELSE lock[l]]
  /\ \E slow \in SUBSET {l \in ls : request[l] \in {"open", "lingering"}} :
       request' = [l \in Lanes |-> IF l \in slow THEN "lingering"
                                   ELSE IF l \in ls THEN "none" ELSE request[l]]
  /\ resetting' = resetting \cup ls
  /\ interrupted' = interrupted \cup UNION {Elems(active[l]) :
                      l \in {m \in ls : worker[m] \in {"lock", "lockfail"}}}

Reset ==
  /\ ~closed /\ ~closing /\ resetting = {} /\ resets < MaxResets /\ open # {}
  /\ resets' = resets + 1
  /\ CancelWorkers(open)
  /\ UNCHANGED <<next, laneOf, age, returned, open, buf, sealed, tried, refused,
                 flushed, closing, closed>>

(* reset() hands back what was pending. *)
Retire(l) == Give(Elems(buf[l]), "failure")

(* reset() after the workers ended.  An idle lane leaves the router. *)
ResetEnd(l) ==
  /\ l \in resetting
  /\ lock[l] = "free" \/ buf[l] = <<>>
  /\ resetting' = resetting \ {l}
  /\ Consume(l, Len(buf[l])) /\ Retire(l)
  /\ open' = IF request[l] = "none" /\ worker[l] = "none" THEN open \ {l} ELSE open
  /\ UNCHANGED <<next, worker, active, forced, request, refused, lock,
                 flushed, closing, closed>> /\ Fixed

(* flush(): the checkpoint is taken and sealed.  close() begins with one.  *)
FlushBegin(last) ==
  /\ ~closed /\ ~closing /\ flushed = {} /\ resetting = {}
  /\ closing' = last
  /\ flushed' = UNION {Unsettled(l) : l \in open}
  /\ sealed' = Seals(open) /\ worker' = Awake(Busy)
  /\ UNCHANGED <<next, age, returned, open, buf, active, forced, tried, request, 
                 refused, lock, resetting, closed>> /\ Fixed

FlushDone == \A l \in open : Unsettled(l) \cap flushed = {}

FlushEnd ==
  /\ flushed # {} /\ FlushDone
  /\ flushed' = {}
  /\ UNCHANGED <<next, age, returned, open, buf, sealed, worker, active, forced, tried,
                 request, refused, lock, resetting, closing, closed>> /\ Fixed

(* close() after its flush, or after that was interrupted. *)
Close ==
  /\ closing /\ ~closed /\ resetting = {}
  /\ closed' = TRUE
  /\ flushed' = {}
  /\ CancelWorkers(open)
  /\ UNCHANGED <<next, age, returned, open, buf, sealed, tried, refused, closing,
                 laneOf, resets>>

(* Time passes for the oldest unit of a lane. *)
Tick(l) ==
  /\ buf[l] # <<>> /\ age[l] < 2
  /\ age' = [age EXCEPT ![l] = @ + 1]
  /\ UNCHANGED <<next, returned, open, buf, sealed, worker, active, forced, tried,
                 request, refused, lock, resetting, flushed, closing, closed>> /\ Fixed

LaneStep(l) ==
  \/ WorkerEnds(l) \/ SourceDeadline(l) \/ Query(l) \/ Answered(l) \/ Resume(l)
  \/ ModelTimeout(l) \/ Lingered(l) \/ Granted(l) \/ CallbackEnds(l)
  \/ RefusedStep(l) \/ ResetEnd(l)

Next ==
  \/ \E l \in Lanes : \E boundary, turn, tooLarge \in BOOLEAN : Append_(l, boundary, turn, tooLarge)
  \/ \E l \in Lanes : LaneStep(l)
  \/ \E l \in Lanes : Tick(l)
  \/ Reset \/ FlushBegin(FALSE) \/ FlushBegin(TRUE) \/ FlushEnd \/ Close

(* Time passes, runnable tasks run, callbacks return, and requests end or  *)
(* time out.  A request that ignores its cancellation need not end.        *)
Fairness ==
  /\ \A l \in Lanes :
       /\ WF_vars(Tick(l)) /\ WF_vars(SourceDeadline(l)) /\ WF_vars(Resume(l)) /\ WF_vars(ModelTimeout(l))
       /\ WF_vars(Granted(l)) /\ WF_vars(CallbackEnds(l)) /\ WF_vars(RefusedStep(l))
       /\ WF_vars(ResetEnd(l))
  /\ WF_vars(FlushEnd)

Spec == Init /\ [][Next]_vars /\ Fairness

-----------------------------------------------------------------------------
(* A unit goes to one callback, once. *)
ReturnedOnce ==
  [][\A u \in Units : returned[u] # "no" => returned'[u] = returned[u]]_vars

(* A commit never overtakes earlier speech of its lane that is still       *)
(* buffered, and it never crosses a boundary: a prefix holds at most one   *)
(* sealed unit, its last.                                                  *)
LaneOrder ==
  [][\A u \in Units :
       returned[u] = "no" /\ returned'[u] = "commit" =>
         \A v \in 1 .. u - 1 :
           laneOf[v] = laneOf[u] =>
             /\ \A l \in Lanes : v \notin Elems(buf'[l])
             /\ v \in sealed => returned[v] # "no" \/ returned'[v] = "failure"]_vars

(* "Original payloads are returned to the caller on both commit and        *)
(* retirement": every unit comes back, once and in the order of its lane,  *)
(* even if the provider hangs for ever on a cancelled request or no        *)
(* further speech arrives.  One case the code leaves open is excepted:     *)
(* reset() or close() cancels a worker that has consumed its units and     *)
(* waits for the lock behind the callback of a refused append.             *)
EveryUnitReturns ==
  /\ ReturnedOnce /\ LaneOrder
  /\ <>[](\A u \in Units : u < next => returned[u] # "no" \/ u \in interrupted)
=============================================================================
