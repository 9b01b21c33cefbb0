--------------------- MODULE TranslationSchedulerProofs ---------------------
(***************************************************************************)
(* Proofs about TranslationScheduler for every set of sessions, workers    *)
(* and segments and every capacity.                                        *)
(*                                                                         *)
(* The properties of the ready queue are not inductive alone.  What they   *)
(* need: every queued job belongs to the session of its queue, the slots   *)
(* and the workers point at each other, workers exist only once started,   *)
(* and a closing scheduler has empty queues.  SegmentOrder is inductive    *)
(* relative to that, and the refinement of TranslationService also needs   *)
(* that close() leaves nothing in work that is still to be delivered.      *)
(***************************************************************************)
EXTENDS TranslationScheduler, DequesProofs

(* A worker that holds an entry owns its session's slot until it releases  *)
(* it, and an owned slot belongs to a worker that holds its entry.         *)
ActiveTable ==
  /\ \A w \in Workers : Holds(w) => job[w] \in Job /\ active[job[w].session] = w
  /\ \A s \in Sessions : active[s] # NoWorker =>
        Holds(active[s]) /\ job[active[s]].session = s

(* A session's queue holds its own jobs. *)
OwnJobs(q, s) == \A i \in DOMAIN q : q[i].session = s
QueueOwner == \A s \in Sessions : OwnJobs(pending[s], s)

Lifecycle ==
  /\ ~started => \A w \in Workers : pc[w] = "unstarted"
  /\ closing => \A s \in Sessions : pending[s] = <<>>

IInv ==
  /\ TypeOK
  /\ QueueOwner
  /\ ActiveTable
  /\ Lifecycle
  /\ ReadyExact
  /\ NoLostWakeup

-----------------------------------------------------------------------------
(* Facts about the helpers.                                                *)

(* notify_all leaves nobody waiting and moves nobody who holds an entry. *)
LEMMA NotifyAllFacts ==
  ASSUME NEW c \in [Workers -> PC]
  PROVE  /\ NotifyAll(c) \in [Workers -> PC]
         /\ \A w \in Workers : NotifyAll(c)[w] # "waiting"
         /\ \A w \in Workers : NotifyAll(c)[w] \in Holding <=> c[w] \in Holding
         /\ \A w \in Workers : c[w] # "waiting" => NotifyAll(c)[w] = c[w]
BY DEF NotifyAll, PC, Holding, Requesting

(* _forget_ready drops exactly its session from a ready queue. *)
LEMMA FilterReady ==
  ASSUME NEW q \in Seq(Sessions), IsInjective(q), NEW s
  PROVE  /\ KeepAt(q, {i \in DOMAIN q : q[i] # s}) \in Seq(Sessions)
         /\ IsInjective(KeepAt(q, {i \in DOMAIN q : q[i] # s}))
         /\ Range(KeepAt(q, {i \in DOMAIN q : q[i] # s})) = Range(q) \ {s}
<1> DEFINE keep == {i \in DOMAIN q : q[i] # s}
           r == KeepAt(q, keep)
<1>1. keep \in SUBSET DOMAIN q /\ \A i \in DOMAIN q : i \in keep <=> q[i] # s
  OBVIOUS
<1> HIDE DEF keep
<1>2. /\ r \in Seq(Sessions)
      /\ DOMAIN r = 1 .. Cardinality(keep) /\ Cardinality(keep) \in Nat
      /\ \A k \in 1 .. Cardinality(keep) : Nth(keep, k) \in keep /\ r[k] = q[Nth(keep, k)]
      /\ \A k, l \in 1 .. Cardinality(keep) : k < l => Nth(keep, k) < Nth(keep, l)
      /\ \A i \in keep : \E k \in 1 .. Cardinality(keep) : Nth(keep, k) = i
  <2>1. KeepAt(q, keep) \in Seq(Sessions) /\ KeepsInOrder(q, keep)
    BY <1>1, KeepAtProperties
  <2> QED
    BY <2>1 DEF KeepsInOrder
<1> HIDE DEF r
<1>3. IsInjective(r)
  <2> SUFFICES ASSUME NEW k \in DOMAIN r, NEW l \in DOMAIN r, r[k] = r[l]
               PROVE  k = l
    BY DEF IsInjective
  <2>1. Nth(keep, k) = Nth(keep, l)
    BY <1>1, <1>2 DEF IsInjective
  <2>2. Nth(keep, k) \in Int /\ k \in Int /\ l \in Int
    BY <1>1, <1>2
  <2> QED
    BY <1>2, <2>1, <2>2
<1>4. Range(r) = Range(q) \ {s}
  <2>1. \A k \in DOMAIN r : r[k] \in Range(q) /\ r[k] # s
    BY <1>1, <1>2 DEF Range
  <2>2. ASSUME NEW i \in DOMAIN q, q[i] # s
        PROVE  q[i] \in Range(r)
    <3>1. PICK k \in 1 .. Cardinality(keep) : Nth(keep, k) = i
      BY <1>1, <1>2, <2>2
    <3> QED
      BY <1>2, <3>1 DEF Range
  <2> QED
    BY <2>1, <2>2 DEF Range
<1> QED
  BY <1>2, <1>3, <1>4 DEF r, keep

(* Appending a session that is not in a ready queue. *)
LEMMA AppendReady ==
  ASSUME NEW q \in Seq(Sessions), IsInjective(q), NEW s \in Sessions, s \notin Range(q)
  PROVE  /\ Append(q, s) \in Seq(Sessions)
         /\ IsInjective(Append(q, s))
         /\ Range(Append(q, s)) = Range(q) \cup {s}
         /\ Append(q, s) # <<>>
<1>1. /\ Append(q, s) \in Seq(Sessions)
      /\ DOMAIN Append(q, s) = 1 .. Len(q) + 1
      /\ \A i \in 1 .. Len(q) : Append(q, s)[i] = q[i]
      /\ Append(q, s)[Len(q) + 1] = s
      /\ Append(q, s) # <<>>
      /\ DOMAIN q = 1 .. Len(q) /\ Len(q) \in Nat
  OBVIOUS
<1>2. IsInjective(Append(q, s))
  BY <1>1 DEF IsInjective, Range
<1>3. Range(Append(q, s)) = Range(q) \cup {s}
  <2>1. \A i \in 1 .. Len(q) + 1 : i \in 1 .. Len(q) \/ i = Len(q) + 1
    BY <1>1
  <2>2. \A i \in 1 .. Len(q) : i \in 1 .. Len(q) + 1
    BY <1>1
  <2>3. Len(q) + 1 \in 1 .. Len(q) + 1
    BY <1>1
  <2> QED
    BY <1>1, <2>1, <2>2, <2>3 DEF Range
<1> QED
  BY <1>1, <1>2, <1>3

(* Taking the first session of a ready queue. *)
LEMMA TakeReady ==
  ASSUME NEW q \in Seq(Sessions), IsInjective(q), q # <<>>
  PROVE  LET r == SubSeq(q, 2, Len(q))
         IN  /\ r \in Seq(Sessions)
             /\ IsInjective(r)
             /\ Range(r) = Range(q) \ {q[1]}
             /\ q[1] \in Sessions
<1> DEFINE r == SubSeq(q, 2, Len(q))
<1>1. /\ r \in Seq(Sessions)
      /\ Len(q) \in Nat /\ Len(q) >= 1 /\ DOMAIN q = 1 .. Len(q)
      /\ DOMAIN r = 1 .. Len(q) - 1
      /\ \A i \in 1 .. Len(q) - 1 : r[i] = q[i + 1]
      /\ q[1] \in Sessions
  OBVIOUS
<1> HIDE DEF r
<1>2. IsInjective(r)
  <2>1. \A i \in DOMAIN r : i \in Int /\ i + 1 \in DOMAIN q /\ r[i] = q[i + 1]
    BY <1>1
  <2> SUFFICES ASSUME NEW i \in DOMAIN r, NEW k \in DOMAIN r, r[i] = r[k]
               PROVE  i = k
    BY DEF IsInjective
  <2>2. i + 1 = k + 1
    BY <2>1 DEF IsInjective
  <2> QED
    BY <2>1, <2>2
<1>3. Range(r) = Range(q) \ {q[1]}
  <2>1. \A i \in DOMAIN r : r[i] \in Range(q) /\ r[i] # q[1]
    <3> TAKE i \in DOMAIN r
    <3>1. i + 1 \in DOMAIN q /\ 1 \in DOMAIN q /\ i + 1 # 1 /\ r[i] = q[i + 1]
      BY <1>1
    <3> QED
      BY <3>1 DEF Range, IsInjective
  <2>2. \A k \in DOMAIN q : q[k] # q[1] => q[k] \in Range(r)
    <3> SUFFICES ASSUME NEW k \in DOMAIN q, q[k] # q[1]
                 PROVE  q[k] \in Range(r)
      OBVIOUS
    <3>1. k - 1 \in DOMAIN r /\ r[k - 1] = q[k]
      BY <1>1
    <3> QED
      BY <3>1 DEF Range
  <2> QED
    BY <2>1, <2>2 DEF Range
<1> QED
  BY <1>1, <1>2, <1>3 DEF r

(* _mark_ready keeps the ready queue exact, when it was exact but for s. *)
LEMMA MarkReadyExact ==
  ASSUME NEW s \in Sessions, NEW p, NEW a,
         MarkReady(s, p, a),
         ready \in Seq(Sessions), readySet = Range(ready), IsInjective(ready),
         \A t \in Sessions \ {s} : t \in readySet <=> p[t] # <<>> /\ a[t] = NoWorker,
         s \in readySet => p[s] # <<>> /\ a[s] = NoWorker,
         closing => p[s] = <<>>
  PROVE  /\ ready' \in Seq(Sessions)
         /\ readySet' = Range(ready') /\ IsInjective(ready')
         /\ \A t \in Sessions : t \in readySet' <=> p[t] # <<>> /\ a[t] = NoWorker
<1>1. CASE p[s] # <<>> /\ a[s] = NoWorker /\ s \notin readySet /\ ~closing
  <2>1. ready' = Append(ready, s) /\ readySet' = readySet \cup {s}
    BY <1>1 DEF MarkReady
  <2>2. /\ ready' \in Seq(Sessions) /\ IsInjective(ready')
        /\ Range(ready') = Range(ready) \cup {s}
    BY <1>1, <2>1, AppendReady
  <2> QED
    BY <1>1, <2>1, <2>2
<1>2. CASE ~(p[s] # <<>> /\ a[s] = NoWorker /\ s \notin readySet /\ ~closing)
  <2>1. ready' = ready /\ readySet' = readySet
    BY <1>2 DEF MarkReady
  <2> QED
    BY <1>2, <2>1
<1> QED
  BY <1>1, <1>2

(* A session of a queue that submit rewrote: the queue holds only its own  *)
(* session's jobs and is not empty.                                        *)
LEMMA EnqueuedFacts ==
  ASSUME NEW q \in Seq(Job), NEW s, OwnJobs(q, s),
         NEW j \in Job, j.session = s, NEW replaced \in SUBSET DOMAIN q
  PROVE  /\ Enqueued(q, j, replaced) \in Seq(Job)
         /\ Enqueued(q, j, replaced) # <<>>
         /\ OwnJobs(Enqueued(q, j, replaced), s)
<1>1. CASE replaced = {}
  <2>1. Enqueued(q, j, replaced) = Append(q, j)
    BY <1>1 DEF Enqueued
  <2> QED
    BY <2>1 DEF OwnJobs
<1>2. CASE replaced # {}
  <2> DEFINE first == CHOOSE i \in replaced : \A k \in replaced : i <= k
             base == [q EXCEPT ![first] = j]
             keep == DOMAIN q \ (replaced \ {first})
  <2>1. first \in replaced /\ first \in DOMAIN q
    <3>1. replaced \in SUBSET Nat
      OBVIOUS
    <3>2. \E i \in replaced : \A k \in replaced : i <= k
      BY <1>2, <3>1, LeastNatural
    <3> QED
      BY <3>2
  <2> HIDE DEF first
  <2>2. /\ base \in Seq(Job) /\ DOMAIN base = DOMAIN q
        /\ \A i \in DOMAIN base : base[i].session = s
    BY <2>1 DEF OwnJobs
  <2>3. keep \in SUBSET DOMAIN base /\ first \in keep
    BY <2>1, <2>2
  <2>4. Enqueued(q, j, replaced) = KeepAt(base, keep)
    BY <1>2 DEF Enqueued, first
  <2> HIDE DEF base, keep
  <2>5. KeepAt(base, keep) \in Seq(Job) /\ KeepsInOrder(base, keep)
    BY <2>2, <2>3, KeepAtProperties
  <2>6. OwnJobs(KeepAt(base, keep), s)
    BY <2>2, <2>3, <2>5 DEF KeepsInOrder, OwnJobs
  <2>7. KeepAt(base, keep) # <<>>
    BY <2>3, <2>5 DEF KeepsInOrder
  <2> QED
    BY <2>4, <2>5, <2>6, <2>7
<1> QED
  BY <1>1, <1>2

-----------------------------------------------------------------------------
(* The initial state and every action keep the invariant.                  *)

(* The invariant holds at the start. *)
LEMMA InitIInv == Init => IInv
<1> SUFFICES ASSUME Init PROVE IInv
  OBVIOUS
<1>1. TypeOK
  <2>1. pending \in [Sessions -> Seq(Job)] /\ ready \in Seq(Sessions) /\ readySet \subseteq Sessions
    BY DEF Init
  <2>2. /\ active \in [Sessions -> Workers \cup {NoWorker}]
        /\ pc \in [Workers -> PC] /\ job \in [Workers -> Job \cup {NoJob}]
    BY DEF Init, PC
  <2>3. /\ stale \in [Workers -> BOOLEAN] /\ started \in BOOLEAN /\ closing \in BOOLEAN
        /\ closer \in {"none", "draining", "closed", "timeout"}
    BY DEF Init
  <2> QED
    BY <2>1, <2>2, <2>3 DEF TypeOK
<1>2. QueueOwner /\ ActiveTable /\ Lifecycle
  BY DEF Init, QueueOwner, OwnJobs, ActiveTable, Lifecycle, Holds, Holding, Requesting
<1>3. ReadyExact /\ NoLostWakeup
  BY DEF Init, ReadyExact, NoLostWakeup, Range, IsInjective
<1> QED
  BY <1>1, <1>2, <1>3 DEF IInv

(* start() keeps it. *)
LEMMA StartIInv == IInv /\ Start => IInv'
<1> SUFFICES ASSUME IInv, Start PROVE IInv'
  OBVIOUS
<1> USE DEF IInv, Start
<1>1. \A w \in Workers : pc[w] = "unstarted" /\ pc'[w] = "take"
  BY DEF Lifecycle
<1>2. TypeOK'
  BY DEF TypeOK, PC
<1>3. QueueOwner' /\ Lifecycle'
  BY DEF QueueOwner, Lifecycle
<1>4. ActiveTable'
  BY SMTT(20), <1>1, SchedulerAssumption DEF ActiveTable, Holds, Holding, Requesting, TypeOK
<1>5. ReadyExact' /\ NoLostWakeup'
  BY <1>1 DEF ReadyExact, NoLostWakeup
<1> QED
  BY <1>2, <1>3, <1>4, <1>5

(* submit() keeps it. *)
LEMMA SubmitIInv ==
  ASSUME IInv, NEW j \in Job, Submit(j)
  PROVE  IInv'
<1> DEFINE s == j.session
           queues == [pending EXCEPT ![s] = Enqueued(pending[s], j, Replacements(j))]
<1>0. s \in Sessions /\ TypeOK
  BY DEF Job, IInv
<1>1. /\ Enqueued(pending[s], j, Replacements(j)) \in Seq(Job)
      /\ Enqueued(pending[s], j, Replacements(j)) # <<>>
      /\ OwnJobs(Enqueued(pending[s], j, Replacements(j)), s)
  <2>1. pending[s] \in Seq(Job) /\ OwnJobs(pending[s], s)
    BY <1>0 DEF IInv, TypeOK, QueueOwner
  <2>2. Replacements(j) \in SUBSET DOMAIN pending[s]
    BY DEF Replacements
  <2> QED
    BY <2>1, <2>2, EnqueuedFacts
<1>2. /\ pending' = queues /\ queues \in [Sessions -> Seq(Job)]
      /\ queues[s] # <<>>
      /\ \A t \in Sessions \ {s} : queues[t] = pending[t]
  BY <1>0, <1>1 DEF Submit, TypeOK
<1>3. /\ pc' \in [Workers -> PC]
      /\ \A w \in Workers : pc'[w] # "waiting" /\ (pc'[w] \in Holding <=> pc[w] \in Holding)
  <2>1. CASE started
    BY <1>0, <2>1, NotifyAllFacts DEF Submit, TypeOK
  <2>2. CASE ~started
    BY <2>2 DEF Submit, IInv, Lifecycle, PC, Holding, Requesting
  <2> QED
    BY <2>1, <2>2
<1>4. /\ ready' \in Seq(Sessions)
      /\ readySet' = Range(ready') /\ IsInjective(ready')
      /\ \A t \in Sessions : t \in readySet' <=> queues[t] # <<>> /\ active[t] = NoWorker
  <2>1. MarkReady(s, queues, active) /\ ~closing
    BY DEF Submit
  <2>2. ready \in Seq(Sessions) /\ readySet = Range(ready) /\ IsInjective(ready)
    BY <1>0 DEF IInv, TypeOK, ReadyExact
  <2>3. /\ \A t \in Sessions \ {s} : t \in readySet <=> queues[t] # <<>> /\ active[t] = NoWorker
        /\ s \in readySet => queues[s] # <<>> /\ active[s] = NoWorker
    BY <1>0, <1>2 DEF IInv, ReadyExact
  <2> HIDE DEF queues, s
  <2> QED
    BY <1>0, <2>1, <2>2, <2>3, MarkReadyExact
<1>5. UNCHANGED <<active, job, closing, closer>> /\ started' = TRUE
      /\ stale' \in [Workers -> BOOLEAN] /\ ~closing
  BY <1>0 DEF Submit, CancelActive, TypeOK
<1>6. TypeOK'
  <2>1. readySet' \subseteq Sessions
    BY <1>4 DEF Range
  <2> HIDE DEF queues
  <2> QED
    BY <1>0, <1>2, <1>3, <1>4, <1>5, <2>1 DEF TypeOK
<1>7. QueueOwner'
  BY <1>0, <1>1, <1>2 DEF IInv, QueueOwner, TypeOK
<1>8. ActiveTable'
  BY <1>0, <1>3, <1>5, SchedulerAssumption DEF IInv, ActiveTable, Holds, TypeOK
<1>9. Lifecycle'
  BY <1>5 DEF Lifecycle
<1>10. ReadyExact' /\ NoLostWakeup'
  BY <1>2, <1>3, <1>4, <1>5 DEF ReadyExact, NoLostWakeup
<1> QED
  BY <1>6, <1>7, <1>8, <1>9, <1>10 DEF IInv

(* _forget_ready(s), with a queue of s that is empty afterwards. *)
LEMMA ForgetReadyExact ==
  ASSUME IInv, NEW s \in Sessions, ForgetReady(s)
  PROVE  /\ ready' \in Seq(Sessions)
         /\ readySet' = Range(ready') /\ IsInjective(ready')
         /\ readySet' = readySet \ {s}
<1>1. ready \in Seq(Sessions) /\ readySet = Range(ready) /\ IsInjective(ready)
  BY DEF IInv, TypeOK, ReadyExact
<1>2. /\ ready' = KeepAt(ready, {i \in DOMAIN ready : ready[i] # s})
      /\ readySet' = readySet \ {s}
  BY DEF ForgetReady, Filter
<1>3. ready' \in Seq(Sessions) /\ IsInjective(ready') /\ Range(ready') = Range(ready) \ {s}
  BY <1>1, <1>2, FilterReady
<1> QED
  BY <1>1, <1>2, <1>3

(* What cancel_session and invalidate share: the queue of s is replaced by *)
(* one of its own, the ready queue follows, workers are only woken.        *)
LEMMA RetireIInv ==
  ASSUME IInv, NEW s \in Sessions, NEW q \in Seq(Job), OwnJobs(q, s),
         pending' = [pending EXCEPT ![s] = q],
         pending[s] = <<>> => q = <<>>,
         IF q = <<>> /\ (pending[s] # <<>> \/ s \in readySet)
           THEN ForgetReady(s)
           ELSE (ForgetReady(s) /\ s \notin readySet) \/ UNCHANGED <<ready, readySet>>,
         stale' \in [Workers -> BOOLEAN],
         pc' = NotifyAll(pc),
         UNCHANGED <<active, job, started, closing, closer>>
  PROVE  IInv'
<1>1. TypeOK /\ pending \in [Sessions -> Seq(Job)]
  BY DEF IInv, TypeOK
<1>2. /\ pending' \in [Sessions -> Seq(Job)] /\ pending'[s] = q
      /\ \A t \in Sessions \ {s} : pending'[t] = pending[t]
  BY <1>1
<1>3. /\ pc' \in [Workers -> PC]
      /\ \A w \in Workers : pc'[w] # "waiting" /\ (pc'[w] \in Holding <=> pc[w] \in Holding)
  BY <1>1, NotifyAllFacts DEF TypeOK
<1>4. /\ ready' \in Seq(Sessions)
      /\ readySet' = Range(ready') /\ IsInjective(ready')
      /\ \A t \in Sessions : t \in readySet' <=> pending'[t] # <<>> /\ active[t] = NoWorker
  <2>1. CASE ForgetReady(s) /\ (q = <<>> \/ s \notin readySet)
    BY <1>2, <2>1, ForgetReadyExact DEF IInv, ReadyExact
  <2>2. CASE UNCHANGED <<ready, readySet>> /\ (q = <<>> => pending[s] = <<>>)
    BY <1>1, <1>2, <2>2 DEF IInv, ReadyExact, TypeOK
  <2> QED
    BY <2>1, <2>2
<1>5. TypeOK'
  <2>1. readySet' \subseteq Sessions
    BY <1>4 DEF Range
  <2> QED
    BY <1>1, <1>2, <1>3, <1>4, <2>1 DEF TypeOK
<1>6. QueueOwner'
  BY <1>2 DEF IInv, QueueOwner
<1>7. ActiveTable'
  BY <1>1, <1>3, SchedulerAssumption DEF IInv, ActiveTable, Holds, TypeOK
<1>8. Lifecycle'
  <2>1. ~started => \A w \in Workers : pc'[w] = "unstarted"
    BY <1>1, NotifyAllFacts DEF IInv, Lifecycle, TypeOK
  <2>2. closing => \A t \in Sessions : pending'[t] = <<>>
    BY <1>2 DEF IInv, Lifecycle
  <2> QED
    BY <2>1, <2>2 DEF Lifecycle
<1>9. ReadyExact' /\ NoLostWakeup'
  BY <1>3, <1>4 DEF ReadyExact, NoLostWakeup
<1> QED
  BY <1>5, <1>6, <1>7, <1>8, <1>9 DEF IInv

(* cancel_session() keeps it. *)
LEMMA CancelSessionIInv ==
  ASSUME IInv, NEW s \in Sessions, CancelSession(s)
  PROVE  IInv'
<1>1. <<>> \in Seq(Job) /\ OwnJobs(<<>>, s)
  BY DEF OwnJobs
<1>2. stale' \in [Workers -> BOOLEAN]
  BY DEF CancelSession, CancelActive, IInv, TypeOK
<1>3. /\ pending' = [pending EXCEPT ![s] = <<>>] /\ ForgetReady(s) /\ pc' = NotifyAll(pc)
      /\ UNCHANGED <<active, job, started, closing, closer>>
  BY DEF CancelSession
<1>4. s \in readySet => pending[s] # <<>>
  BY DEF IInv, ReadyExact
<1> QED
  BY <1>1, <1>2, <1>3, <1>4, RetireIInv

(* invalidate() keeps it. *)
LEMMA InvalidateIInv ==
  ASSUME IInv, NEW s \in Sessions, NEW segments, Invalidate(s, segments)
  PROVE  IInv'
<1> DEFINE keep == {i \in DOMAIN pending[s] : pending[s][i].segment \notin segments}
           remaining == KeepAt(pending[s], keep)
<1>1. pending[s] \in Seq(Job) /\ OwnJobs(pending[s], s) /\ keep \in SUBSET DOMAIN pending[s]
  BY DEF IInv, TypeOK, QueueOwner
<1>2. remaining \in Seq(Job) /\ KeepsInOrder(pending[s], keep)
  <2> HIDE DEF keep
  <2> QED
    BY <1>1, KeepAtProperties
<1>3. OwnJobs(remaining, s) /\ (pending[s] = <<>> => remaining = <<>>)
  <2>1. OwnJobs(remaining, s)
    <3> HIDE DEF keep
    <3> QED
      BY <1>1, <1>2 DEF KeepsInOrder, OwnJobs
  <2>2. ASSUME pending[s] = <<>> PROVE remaining = <<>>
    <3>1. keep = {}
      BY <2>2
    <3>2. Len(remaining) = 0
      BY <1>2, <3>1, FS_EmptySet DEF KeepsInOrder
    <3> HIDE DEF remaining
    <3> QED
      BY <1>2, <3>2
  <2> QED
    BY <2>1, <2>2
<1>4. stale' \in [Workers -> BOOLEAN]
  BY DEF Invalidate, CancelActive, IInv, TypeOK
<1>5. /\ pending' = [pending EXCEPT ![s] = remaining]
      /\ pc' = NotifyAll(pc) /\ UNCHANGED <<active, job, started, closing, closer>>
      /\ IF pending[s] # <<>> /\ remaining = <<>>
         THEN ForgetReady(s) ELSE UNCHANGED <<ready, readySet>>
  BY DEF Invalidate, Filter
<1>6. s \in readySet => pending[s] # <<>>
  BY DEF IInv, ReadyExact
<1> HIDE DEF remaining
<1> QED
  BY <1>1, <1>2, <1>3, <1>4, <1>5, <1>6, RetireIInv

-----------------------------------------------------------------------------
(* When the ready queue is exact, _take skips nothing. *)
LEMMA TakeableAll == IInv => Takeable = DOMAIN ready
BY DEF IInv, ReadyExact, TypeOK, Takeable, Range

(* A worker that takes a job keeps it. *)
LEMMA TakeIInv ==
  ASSUME IInv, NEW w \in Workers, Take(w)
  PROVE  IInv'
<1> DEFINE s == ready[1]
<1>1. TypeOK /\ pc[w] = "take" /\ ~closing
  BY DEF IInv, Take
<1>2. /\ ready # <<>> /\ ready' = SubSeq(ready, 2, Len(ready))
      /\ readySet' = readySet \ {s}
      /\ pending' = [pending EXCEPT ![s] = Tail(pending[s])]
      /\ active' = [active EXCEPT ![s] = w]
      /\ job' = [job EXCEPT ![w] = Head(pending[s])]
  <2>1. PICK i \in Takeable :
          /\ \A k \in Takeable : i <= k
          /\ ready' = SubSeq(ready, i + 1, Len(ready))
          /\ readySet' = readySet \ {ready[k] : k \in 1 .. i}
          /\ pending' = [pending EXCEPT ![ready[i]] = Tail(pending[ready[i]])]
          /\ active' = [active EXCEPT ![ready[i]] = w]
          /\ job' = [job EXCEPT ![w] = Head(pending[ready[i]])]
    BY DEF Take
  <2>2. i = 1 /\ ready # <<>>
    <3>1. i \in 1 .. Len(ready) /\ 1 \in Takeable
      BY <1>1, TakeableAll DEF TypeOK
    <3> QED
      BY <1>1, <2>1, <3>1 DEF TypeOK
  <2>3. {ready[k] : k \in 1 .. i} = {s}
    BY <2>2
  <2> QED
    BY <2>1, <2>2, <2>3
<1>3. /\ stale' = [stale EXCEPT ![w] = FALSE] /\ pc' = [pc EXCEPT ![w] = "start"]
      /\ UNCHANGED <<started, closing, closer>>
  BY DEF Take
<1>4. /\ ready' \in Seq(Sessions) /\ IsInjective(ready')
      /\ Range(ready') = Range(ready) \ {s} /\ s \in Sessions
  <2>1. ready \in Seq(Sessions) /\ IsInjective(ready)
    BY <1>1 DEF IInv, ReadyExact, TypeOK
  <2> QED
    BY <1>2, <2>1, TakeReady
<1>5. s \in readySet /\ pending[s] # <<>> /\ active[s] = NoWorker
  <2>1. s \in readySet
    BY <1>1, <1>2 DEF IInv, ReadyExact, TypeOK, Range
  <2> QED
    BY <1>4, <2>1 DEF IInv, ReadyExact
<1> HIDE DEF s
<1>6. /\ Head(pending[s]) \in Job /\ Head(pending[s]).session = s
      /\ Tail(pending[s]) \in Seq(Job) /\ OwnJobs(Tail(pending[s]), s)
  <2>1. pending[s] \in Seq(Job) /\ OwnJobs(pending[s], s)
    BY <1>1, <1>4 DEF IInv, TypeOK, QueueOwner
  <2> QED
    BY <1>5, <2>1 DEF OwnJobs
<1>7. TypeOK'
  <2>1. /\ pending' \in [Sessions -> Seq(Job)]
        /\ active' \in [Sessions -> Workers \cup {NoWorker}]
        /\ job' \in [Workers -> Job \cup {NoJob}]
    BY <1>1, <1>2, <1>4, <1>6 DEF TypeOK
  <2>2. pc' \in [Workers -> PC] /\ stale' \in [Workers -> BOOLEAN]
    BY <1>1, <1>3 DEF TypeOK, PC, Holding, Requesting
  <2>3. readySet' \subseteq Sessions
    BY <1>1, <1>2 DEF TypeOK
  <2> QED
    BY <1>1, <1>3, <1>4, <2>1, <2>2, <2>3 DEF TypeOK
<1>8. QueueOwner'
  BY <1>1, <1>2, <1>4, <1>6 DEF IInv, QueueOwner, TypeOK
<1>9. ActiveTable'
  <2>1. /\ \A v \in Workers \ {w} : pc'[v] = pc[v] /\ job'[v] = job[v]
        /\ pc'[w] = "start" /\ job'[w] = Head(pending[s])
        /\ \A t \in Sessions \ {s} : active'[t] = active[t]
        /\ active'[s] = w
    BY <1>1, <1>2, <1>3, <1>4 DEF TypeOK
  <2>2. ~Holds(w)
    BY <1>1 DEF Holds, Holding, Requesting
  <2>3. "start" \in Holding
    BY DEF Holding, Requesting
  <2>4. ASSUME NEW v \in Workers, pc'[v] \in Holding
        PROVE  job'[v] \in Job /\ active'[job'[v].session] = v
    <3>1. CASE v = w
      BY <1>6, <2>1, <3>1
    <3>2. CASE v # w
      <4>1. job[v] \in Job /\ active[job[v].session] = v
        BY <2>1, <2>4, <3>2 DEF IInv, ActiveTable, Holds
      <4>2. job[v].session \in Sessions /\ job[v].session # s
        BY <1>5, <4>1, SchedulerAssumption DEF Job
      <4> QED
        BY <2>1, <3>2, <4>1, <4>2
    <3> QED
      BY <3>1, <3>2
  <2>5. ASSUME NEW t \in Sessions, active'[t] # NoWorker
        PROVE  pc'[active'[t]] \in Holding /\ job'[active'[t]].session = t
    <3>1. CASE t = s
      BY <1>6, <2>1, <2>3, <3>1
    <3>2. CASE t # s
      <4>1. active[t] \in Workers /\ Holds(active[t]) /\ job[active[t]].session = t
        BY <1>1, <2>1, <2>5, <3>2 DEF IInv, ActiveTable, TypeOK
      <4> QED
        BY <2>1, <2>2, <3>2, <4>1 DEF Holds
    <3> QED
      BY <3>1, <3>2
  <2> QED
    BY <2>4, <2>5 DEF ActiveTable, Holds
<1>10. Lifecycle'
  BY <1>1, <1>3 DEF IInv, Lifecycle
<1>11. ReadyExact'
  <2>1. \A t \in Sessions \ {s} : pending'[t] = pending[t] /\ active'[t] = active[t]
    BY <1>1, <1>2 DEF TypeOK
  <2>2. active'[s] = w /\ w # NoWorker
    BY <1>1, <1>2, <1>4, SchedulerAssumption DEF TypeOK
  <2> QED
    BY <1>2, <1>4, <2>1, <2>2 DEF IInv, ReadyExact
<1>12. NoLostWakeup'
  <2>1. \A v \in Workers : pc[v] # "waiting"
    BY <1>2 DEF IInv, NoLostWakeup
  <2> QED
    BY <1>1, <1>3, <2>1 DEF NoLostWakeup, TypeOK
<1> QED
  BY <1>7, <1>8, <1>9, <1>10, <1>11, <1>12 DEF IInv

(* A worker that goes to sleep keeps it. *)
LEMMA SleepIInv ==
  ASSUME IInv, NEW w \in Workers, Sleep(w)
  PROVE  IInv'
<1>1. TypeOK /\ pc[w] = "take" /\ pc' = [pc EXCEPT ![w] = "waiting"]
  BY DEF IInv, Sleep
<1>2. ready = <<>> /\ ready' = ready /\ readySet' = readySet /\ readySet = {}
  <2>1. DOMAIN ready = {}
    BY TakeableAll DEF Sleep
  <2>2. ready = <<>> /\ Range(ready) = {}
    BY <1>1, <2>1 DEF TypeOK, Range
  <2> QED
    BY <2>2 DEF Sleep, IInv, ReadyExact
<1>3. UNCHANGED <<pending, active, job, stale, started, closing, closer>>
  BY DEF Sleep
<1>4. TypeOK'
  BY <1>1, <1>2, <1>3 DEF TypeOK, PC
<1>5. QueueOwner' /\ ReadyExact' /\ NoLostWakeup'
  BY <1>2, <1>3 DEF IInv, QueueOwner, ReadyExact, NoLostWakeup
<1>6. Lifecycle'
  BY <1>1, <1>3 DEF IInv, Lifecycle
<1>7. ActiveTable'
  <2>1. \A v \in Workers : pc'[v] \in Holding <=> pc[v] \in Holding
    BY <1>1 DEF TypeOK, Holding, Requesting
  <2> QED
    BY <1>1, <1>3, <2>1, SchedulerAssumption DEF IInv, ActiveTable, Holds, TypeOK
<1> QED
  BY <1>4, <1>5, <1>6, <1>7 DEF IInv

(* Steps that only move one worker, and not into or out of holding. *)
LEMMA MoveIInv ==
  ASSUME IInv, NEW w \in Workers, NEW c \in PC \ {"waiting"},
         pc' = [pc EXCEPT ![w] = c], pc[w] \in Holding <=> c \in Holding,
         pc[w] # "unstarted",
         UNCHANGED <<pending, ready, readySet, active, job, stale, started, closing, closer>>
  PROVE  IInv'
<1>1. TypeOK
  BY DEF IInv
<1>2. TypeOK'
  BY <1>1 DEF TypeOK
<1>3. QueueOwner' /\ ReadyExact'
  BY DEF IInv, QueueOwner, ReadyExact
<1>4. NoLostWakeup' /\ Lifecycle'
  BY <1>1 DEF IInv, NoLostWakeup, Lifecycle, TypeOK
<1>5. ActiveTable'
  <2>1. \A v \in Workers : pc'[v] \in Holding <=> pc[v] \in Holding
    BY <1>1 DEF TypeOK
  <2> QED
    BY <1>1, <2>1, SchedulerAssumption DEF IInv, ActiveTable, Holds, TypeOK
<1> QED
  BY <1>2, <1>3, <1>4, <1>5 DEF IInv

(* The steps of a job in work keep it. *)
LEMMA AdvanceIInv ==
  ASSUME IInv, NEW w \in Workers,
         Exit(w) \/ Execute(w) \/ BackendReturn(w) \/ Resume(w) \/ CallbackEnd(w)
  PROVE  IInv'
<1> DEFINE Goes(from, to) ==
      /\ pc[w] = from /\ pc' = [pc EXCEPT ![w] = to]
      /\ UNCHANGED <<pending, ready, readySet, active, job, stale, started, closing, closer>>
<1>1. \/ Goes("take", "exited")
      \/ Goes("start", "release") \/ Goes("start", "running")
      \/ Goes("running", "returned")
      \/ Goes("returned", "release") \/ Goes("returned", "callback")
      \/ Goes("callback", "release")
  BY DEF Exit, Execute, BackendReturn, Resume, CallbackEnd, queueVars
<1>2. \E c \in PC \ {"waiting"} :
        /\ pc' = [pc EXCEPT ![w] = c] /\ pc[w] # "unstarted"
        /\ pc[w] \in Holding <=> c \in Holding
        /\ UNCHANGED <<pending, ready, readySet, active, job, stale, started, closing, closer>>
  BY <1>1 DEF PC, Holding, Requesting
<1> QED
  BY <1>2, MoveIInv

(* A worker that releases its slot keeps it. *)
LEMMA ReleaseIInv ==
  ASSUME IInv, NEW w \in Workers, Release(w)
  PROVE  IInv'
<1> DEFINE s == job[w].session
           table == [active EXCEPT ![s] = NoWorker]
<1>1. TypeOK /\ pc[w] = "release"
  BY DEF IInv, Release
<1>2. Holds(w) /\ s \in Sessions /\ active[s] = w
  <2>1. Holds(w)
    BY <1>1 DEF Holds, Holding
  <2>2. job[w] \in Job /\ active[job[w].session] = w
    BY <2>1 DEF IInv, ActiveTable
  <2> QED
    BY <2>1, <2>2 DEF Job
<1>3. /\ active' = table /\ MarkReady(s, pending, table)
      /\ pc' = NotifyAll([pc EXCEPT ![w] = "take"])
      /\ job' = [job EXCEPT ![w] = NoJob] /\ stale' = [stale EXCEPT ![w] = FALSE]
      /\ UNCHANGED <<pending, started, closing, closer>>
  BY <1>2 DEF Release
<1> HIDE DEF s
<1>4. /\ table \in [Sessions -> Workers \cup {NoWorker}] /\ table[s] = NoWorker
      /\ \A t \in Sessions \ {s} : table[t] = active[t]
  BY <1>1, <1>2 DEF TypeOK
<1>5. /\ pc' \in [Workers -> PC] /\ pc'[w] = "take"
      /\ \A v \in Workers : pc'[v] # "waiting"
      /\ \A v \in Workers \ {w} : pc'[v] \in Holding <=> pc[v] \in Holding
  <2> DEFINE c == [pc EXCEPT ![w] = "take"]
  <2>1. /\ c \in [Workers -> PC] /\ c[w] = "take"
        /\ \A v \in Workers \ {w} : c[v] = pc[v]
    BY <1>1 DEF TypeOK, PC
  <2>2. pc' = NotifyAll(c)
    BY <1>3
  <2> HIDE DEF c
  <2> QED
    BY <2>1, <2>2, NotifyAllFacts
<1>6. /\ ready' \in Seq(Sessions)
      /\ readySet' = Range(ready') /\ IsInjective(ready')
      /\ \A t \in Sessions : t \in readySet' <=> pending[t] # <<>> /\ table[t] = NoWorker
  <2>1. ready \in Seq(Sessions) /\ readySet = Range(ready) /\ IsInjective(ready)
    BY <1>1 DEF IInv, TypeOK, ReadyExact
  <2>2. /\ \A t \in Sessions \ {s} : t \in readySet <=> pending[t] # <<>> /\ table[t] = NoWorker
        /\ s \notin readySet
    BY <1>2, <1>4, SchedulerAssumption DEF IInv, ReadyExact
  <2>3. closing => pending[s] = <<>>
    BY <1>2 DEF IInv, Lifecycle
  <2> HIDE DEF table
  <2> QED
    BY <1>2, <1>3, <2>1, <2>2, <2>3, MarkReadyExact
<1>7. TypeOK'
  <2>1. readySet' \subseteq Sessions
    BY <1>6 DEF Range
  <2>2. job' \in [Workers -> Job \cup {NoJob}] /\ stale' \in [Workers -> BOOLEAN]
    BY <1>1, <1>3 DEF TypeOK
  <2> HIDE DEF table
  <2> QED
    BY <1>1, <1>3, <1>4, <1>5, <1>6, <2>1, <2>2 DEF TypeOK
<1>8. QueueOwner'
  BY <1>3 DEF IInv, QueueOwner
<1>9. Lifecycle'
  <2>1. started
    BY <1>1 DEF IInv, Lifecycle
  <2> QED
    BY <1>3, <2>1 DEF IInv, Lifecycle
<1>10. ReadyExact' /\ NoLostWakeup'
  BY <1>3, <1>5, <1>6 DEF ReadyExact, NoLostWakeup
<1>11. ActiveTable'
  <2>1. \A v \in Workers \ {w} : job'[v] = job[v]
    BY <1>1, <1>3 DEF TypeOK
  <2>2. "take" \notin Holding
    BY DEF Holding, Requesting
  <2>3. ASSUME NEW v \in Workers, pc'[v] \in Holding
        PROVE  job'[v] \in Job /\ active'[job'[v].session] = v
    <3>1. v # w /\ Holds(v)
      BY <1>5, <2>2, <2>3 DEF Holds
    <3>2. job[v] \in Job /\ active[job[v].session] = v
      BY <3>1 DEF IInv, ActiveTable
    <3>3. job[v].session \in Sessions /\ job[v].session # s
      BY <1>2, <3>1, <3>2 DEF Job
    <3> QED
      BY <1>3, <1>4, <2>1, <3>1, <3>2, <3>3
  <2>4. ASSUME NEW t \in Sessions, active'[t] # NoWorker
        PROVE  pc'[active'[t]] \in Holding /\ job'[active'[t]].session = t
    <3>1. t # s /\ active'[t] = active[t]
      BY <1>3, <1>4, <2>4
    <3>2. active[t] \in Workers /\ Holds(active[t]) /\ job[active[t]].session = t
      BY <1>1, <2>4, <3>1 DEF IInv, ActiveTable, TypeOK
    <3>3. active[t] # w
      BY <3>1, <3>2 DEF s
    <3> QED
      BY <1>5, <2>1, <3>1, <3>2, <3>3 DEF Holds
  <2> QED
    BY <2>3, <2>4 DEF ActiveTable, Holds
<1> QED
  BY <1>7, <1>8, <1>9, <1>10, <1>11 DEF IInv

-----------------------------------------------------------------------------
(* close() keeps it. *)
LEMMA CloseIInv == IInv /\ Close => IInv'
<1> SUFFICES ASSUME IInv, Close PROVE IInv'
  OBVIOUS
<1>1. TypeOK
  BY DEF IInv
<1>2. /\ pending' = [s \in Sessions |-> <<>>] /\ ready' = <<>> /\ readySet' = {}
      /\ closing' = TRUE /\ pc' = NotifyAll(pc) /\ UNCHANGED <<active, job, started>>
      /\ closer' = IF started THEN "draining" ELSE "closed"
  BY DEF Close
<1>3. /\ pc' \in [Workers -> PC]
      /\ \A w \in Workers : pc'[w] # "waiting" /\ (pc'[w] \in Holding <=> pc[w] \in Holding)
      /\ \A w \in Workers : pc[w] = "unstarted" => pc'[w] = "unstarted"
  BY <1>1, <1>2, NotifyAllFacts DEF TypeOK
<1>4. TypeOK'
  <2>1. pending' \in [Sessions -> Seq(Job)] /\ ready' \in Seq(Sessions)
    BY <1>2
  <2>2. stale' \in [Workers -> BOOLEAN]
    BY <1>1 DEF Close, CancelActive, TypeOK
  <2> QED
    BY <1>1, <1>2, <1>3, <2>1, <2>2 DEF TypeOK
<1>5. QueueOwner' /\ ReadyExact' /\ NoLostWakeup'
  BY <1>2 DEF QueueOwner, OwnJobs, ReadyExact, NoLostWakeup, Range, IsInjective
<1>6. Lifecycle'
  BY <1>2, <1>3 DEF IInv, Lifecycle
<1>7. ActiveTable'
  BY <1>1, <1>2, <1>3, SchedulerAssumption DEF IInv, ActiveTable, Holds, TypeOK
<1> QED
  BY <1>4, <1>5, <1>6, <1>7 DEF IInv

(* The end of close() keeps it. *)
LEMMA CloserIInv ==
  ASSUME IInv, Drained \/ DrainTimeout \/ UNCHANGED vars
  PROVE  IInv'
<1>1. /\ UNCHANGED <<pending, ready, readySet, active, pc, job, stale, started, closing>>
      /\ closer' \in {closer, "closed", "timeout"}
  BY DEF Drained, DrainTimeout, vars, queueVars, workerVars
<1>2. TypeOK'
  BY <1>1 DEF IInv, TypeOK
<1>3. QueueOwner' /\ ReadyExact' /\ NoLostWakeup' /\ Lifecycle'
  BY <1>1 DEF IInv, QueueOwner, ReadyExact, NoLostWakeup, Lifecycle
<1>4. ActiveTable'
  BY <1>1 DEF IInv, ActiveTable, Holds
<1> QED
  BY <1>2, <1>3, <1>4 DEF IInv

(* Every step keeps the inductive invariant, and it holds always. *)
LEMMA NextIInv == IInv /\ [Next]_vars => IInv'
<1> SUFFICES ASSUME IInv, [Next]_vars PROVE IInv'
  OBVIOUS
<1>1. CASE Start
  BY <1>1, StartIInv
<1>2. CASE \E j \in Submissions : Submit(j)
  BY <1>2, SubmitIInv, JobAssumption
<1>3. CASE \E s \in Sessions : CancelSession(s)
  BY <1>3, CancelSessionIInv
<1>4. CASE \E s \in Sessions, segments \in SUBSET Segments : Invalidate(s, segments)
  BY <1>4, InvalidateIInv
<1>5. ASSUME NEW w \in Workers, WorkerStep(w) PROVE IInv'
  <2>1. CASE Take(w)
    BY <2>1, TakeIInv
  <2>2. CASE Sleep(w)
    BY <2>2, SleepIInv
  <2>3. CASE Exit(w) \/ Execute(w) \/ BackendReturn(w) \/ Resume(w) \/ CallbackEnd(w)
    BY <2>3, AdvanceIInv
  <2>4. CASE Release(w)
    BY <2>4, ReleaseIInv
  <2> QED
    BY <1>5, <2>1, <2>2, <2>3, <2>4 DEF WorkerStep
<1>6. CASE Close
  BY <1>6, CloseIInv
<1>7. CASE Drained \/ DrainTimeout \/ UNCHANGED vars
  BY <1>7, CloserIInv
<1> QED
  BY <1>1, <1>2, <1>3, <1>4, <1>5, <1>6, <1>7 DEF Next

(* IInv is an invariant of the scheduler, for all constants. *)
THEOREM InductiveInvariant == Spec => []IInv
BY InitIInv, NextIInv, PTL DEF Spec

(* The state of the scheduler is well typed, for all constants. *)
THEOREM TypeCorrect == Spec => []TypeOK
<1>1. IInv => TypeOK
  BY DEF IInv
<1> QED
  BY <1>1, InductiveInvariant, PTL

(* No session with work and a free slot is ever missing from the ready     *)
(* queue, and none is in it twice or without work.                         *)
THEOREM ReadyQueueExact == Spec => []ReadyExact
<1>1. IInv => ReadyExact
  BY DEF IInv
<1> QED
  BY <1>1, InductiveInvariant, PTL

(* No worker sleeps while a session is ready. *)
THEOREM WakeupsAreNeverLost == Spec => []NoLostWakeup
<1>1. IInv => NoLostWakeup
  BY DEF IInv
<1> QED
  BY <1>1, InductiveInvariant, PTL

(* One physical backend job per session, through every cancellation. *)
THEOREM SerialSessions == Spec => []OneJobPerSession
<1>1. IInv => OneJobPerSession
  BY DEF IInv, ActiveTable, OneJobPerSession
<1> QED
  BY <1>1, InductiveInvariant, PTL

-----------------------------------------------------------------------------
(* The order of the jobs of one segment, and the steps of the service.    *)

(* Once closing, what is in work has lost the right to be delivered. *)
VoidOnClose == closing => \A s \in Sessions : active[s] # NoWorker => stale[active[s]]

SInv == IInv /\ SegmentOrder /\ VoidOnClose

(* b may wait behind a. *)
MayPrecede(a, b) == SameSegment(a, b) => a.final /\ a.revision <= b.revision

(* Revisions compare as numbers. *)
LEMMA RevisionsAreNumbers == \A j \in Job : j.revision \in Int
<1>1. \A j \in Job : j.revision \in Revisions
  BY DEF Job
<1>2. \A r \in Revisions : r \in Int
  BY SchedulerAssumption
<1> QED
  BY <1>1, <1>2

OrderedQueue(q) == \A i, k \in DOMAIN q : i < k => MayPrecede(q[i], q[k])

(* The work of a session that is still live precedes its queue. *)
OrderedWork(w, s) == \A k \in DOMAIN pending[s] : MayPrecede(job[w], pending[s][k])
Live(w) == ~stale[w] /\ pc[w] \in Requesting

QueuesOrdered == \A s \in Sessions : OrderedQueue(pending[s])
WorkOrdered ==
  \A s \in Sessions, w \in Workers : active[s] = w /\ Live(w) => OrderedWork(w, s)

(* SegmentOrder in the terms of these. *)
LEMMA SegmentOrderParts == TypeOK => (SegmentOrder <=> QueuesOrdered /\ WorkOrdered)
<1> SUFFICES ASSUME TypeOK PROVE SegmentOrder <=> QueuesOrdered /\ WorkOrdered
  OBVIOUS
<1>1. \A s \in Sessions : Len(pending[s]) \in Nat /\ DOMAIN pending[s] = 1 .. Len(pending[s])
  BY DEF TypeOK
<1>2. \A s \in Sessions : \A i, k \in DOMAIN pending[s] : i < k <=> i \in 1 .. (k - 1)
  BY <1>1
<1>3. \A s \in Sessions : \A k \in DOMAIN pending[s] : \A i \in 1 .. (k - 1) : i \in DOMAIN pending[s]
  BY <1>1
<1> QED
  BY <1>2, <1>3
  DEF SegmentOrder, QueuesOrdered, WorkOrdered, OrderedQueue, OrderedWork, MayPrecede, Live, ActiveOf

-----------------------------------------------------------------------------
(* Queues stay ordered.                                                    *)

(* Dropping jobs keeps a queue ordered. *)
LEMMA OrderedKeepAt ==
  ASSUME NEW q \in Seq(Job), OrderedQueue(q), NEW keep \in SUBSET DOMAIN q
  PROVE  OrderedQueue(KeepAt(q, keep))
<1>1. KeepsInOrder(q, keep)
  BY KeepAtProperties
<1> QED
  BY <1>1 DEF KeepsInOrder, OrderedQueue

(* What submit() knows of the queue of s: nothing in it makes j outdated,  *)
(* and replaced are the partials that j supersedes.                        *)
LEMMA OrderedEnqueued ==
  ASSUME NEW q \in Seq(Job), OrderedQueue(q), NEW j \in Job, NEW replaced,
         \A i \in DOMAIN q : SameSegment(q[i], j) => ~(q[i].revision > j.revision),
         replaced = {i \in DOMAIN q : Supersedes(j, q[i])}
  PROVE  OrderedQueue(Enqueued(q, j, replaced))
<1>0. /\ \A i \in DOMAIN q : q[i] \in Job /\ q[i].revision \in Int
      /\ j.revision \in Int
  BY RevisionsAreNumbers
<1>1. ASSUME NEW i \in DOMAIN q, i \notin replaced PROVE MayPrecede(q[i], j)
  <2>1. ~Supersedes(j, q[i])
    BY <1>1
  <2>2. SameSegment(q[i], j) => q[i].revision <= j.revision
    BY <1>0
  <2> QED
    BY <2>1, <2>2 DEF Supersedes, MayPrecede
<1>2. CASE replaced = {}
  <2>1. Enqueued(q, j, replaced) = Append(q, j)
    BY <1>2 DEF Enqueued
  <2>2. \A i \in DOMAIN Append(q, j) :
          \/ i \in DOMAIN q /\ Append(q, j)[i] = q[i]
          \/ i = Len(q) + 1 /\ Append(q, j)[i] = j
    OBVIOUS
  <2>3. \A i \in DOMAIN q : i < Len(q) + 1 /\ i \in Nat /\ Len(q) \in Nat
    OBVIOUS
  <2> QED
    BY <1>1, <1>2, <2>1, <2>2, <2>3 DEF OrderedQueue
<1>3. CASE replaced # {}
  <2> DEFINE first == CHOOSE i \in replaced : \A k \in replaced : i <= k
             base == [q EXCEPT ![first] = j]
             keep == DOMAIN q \ (replaced \ {first})
  <2>1. first \in replaced /\ first \in DOMAIN q /\ \A k \in replaced : first <= k
    <3>1. replaced \in SUBSET Nat
      OBVIOUS
    <3>2. \E i \in replaced : \A k \in replaced : i <= k
      BY <1>3, <3>1, LeastNatural
    <3> QED
      BY <3>2
  <2> HIDE DEF first
  <2>2. /\ base \in Seq(Job) /\ DOMAIN base = DOMAIN q /\ base[first] = j
        /\ \A i \in DOMAIN q \ {first} : base[i] = q[i]
    BY <2>1
  <2>3. keep \in SUBSET DOMAIN base /\ \A i \in keep : i = first \/ i \notin replaced
    BY <2>2
  <2>4. Enqueued(q, j, replaced) = KeepAt(base, keep)
    BY <1>3 DEF Enqueued, first
  (* Nothing of the segment waits behind the partial that j replaces. *)
  <2>5. \A k \in DOMAIN q : first < k /\ k \notin replaced => ~SameSegment(j, q[k])
    <3> SUFFICES ASSUME NEW k \in DOMAIN q, first < k, k \notin replaced, SameSegment(j, q[k])
                 PROVE  FALSE
      OBVIOUS
    <3>1. Supersedes(j, q[first])
      BY <2>1
    <3>2. SameSegment(q[first], q[k])
      BY <3>1 DEF Supersedes, SameSegment
    <3>3. q[first].final
      BY <2>1, <3>2 DEF OrderedQueue, MayPrecede
    <3> QED
      BY <3>1, <3>3 DEF Supersedes
  <2> HIDE DEF base, keep
  <2>6. KeepsInOrder(base, keep)
    BY <2>2, <2>3, KeepAtProperties
  <2>7. \A i, k \in keep : i < k => MayPrecede(base[i], base[k])
    <3> TAKE i, k \in keep
    <3> HAVE i < k
    <3>0. i \in DOMAIN q /\ k \in DOMAIN q /\ i # k
      BY <2>2, <2>3
    <3>1. CASE k = first
      BY <1>1, <2>2, <2>3, <3>0, <3>1
    <3>2. CASE i = first
      BY <2>2, <2>3, <2>5, <3>0, <3>2 DEF MayPrecede
    <3>3. CASE i # first /\ k # first
      BY <2>2, <3>0, <3>3 DEF OrderedQueue
    <3> QED
      BY <3>1, <3>2, <3>3
  <2> QED
    BY <2>4, <2>6, <2>7 DEF KeepsInOrder, OrderedQueue
<1> QED
  BY <1>2, <1>3

(* Every item of the new queue is j or an old one. *)
LEMMA EnqueuedItems ==
  ASSUME NEW q \in Seq(Job), NEW j \in Job, NEW replaced \in SUBSET DOMAIN q
  PROVE  \A k \in DOMAIN Enqueued(q, j, replaced) :
           \/ Enqueued(q, j, replaced)[k] = j
           \/ \E i \in DOMAIN q : Enqueued(q, j, replaced)[k] = q[i]
<1>1. CASE replaced = {}
  <2>1. Enqueued(q, j, replaced) = Append(q, j)
    BY <1>1 DEF Enqueued
  <2> QED
    BY <2>1
<1>2. CASE replaced # {}
  <2> DEFINE first == CHOOSE i \in replaced : \A k \in replaced : i <= k
             base == [q EXCEPT ![first] = j]
             keep == DOMAIN q \ (replaced \ {first})
  <2>1. first \in DOMAIN q
    <3>1. replaced \in SUBSET Nat
      OBVIOUS
    <3>2. \E i \in replaced : \A k \in replaced : i <= k
      BY <1>2, <3>1, LeastNatural
    <3> QED
      BY <3>2
  <2> HIDE DEF first
  <2>2. /\ base \in Seq(Job) /\ DOMAIN base = DOMAIN q
        /\ \A i \in DOMAIN q : base[i] = j \/ base[i] = q[i]
    BY <2>1
  <2>3. keep \in SUBSET DOMAIN base
    BY <2>2
  <2>4. Enqueued(q, j, replaced) = KeepAt(base, keep)
    BY <1>2 DEF Enqueued, first
  <2> HIDE DEF base, keep
  <2>5. KeepsInOrder(base, keep)
    BY <2>2, <2>3, KeepAtProperties
  <2> QED
    BY <2>2, <2>3, <2>4, <2>5 DEF KeepsInOrder
<1> QED
  BY <1>1, <1>2
-----------------------------------------------------------------------------
(* Every action keeps SegmentOrder and VoidOnClose.                        *)

(* Steps that add no job, and make no work live that was not. *)
LEMMA ThinningOrder ==
  ASSUME SInv, TypeOK',
         \A s \in Sessions :
           \/ pending'[s] = pending[s] \/ pending'[s] = <<>>
           \/ \E keep \in SUBSET DOMAIN pending[s] : pending'[s] = KeepAt(pending[s], keep),
         \A s \in Sessions, w \in Workers :
           active'[s] = w /\ Live(w)' => active[s] = w /\ Live(w) /\ job'[w] = job[w]
  PROVE  SegmentOrder'
<1>1. /\ TypeOK /\ QueuesOrdered /\ WorkOrdered
      /\ \A s \in Sessions : pending[s] \in Seq(Job)
  BY SegmentOrderParts DEF SInv, IInv, TypeOK
<1>2. ASSUME NEW s \in Sessions
      PROVE  /\ OrderedQueue(pending'[s])
             /\ \A k \in DOMAIN pending'[s] : \E i \in DOMAIN pending[s] : pending'[s][k] = pending[s][i]
  <2>1. CASE pending'[s] = pending[s]
    BY <1>1, <2>1 DEF QueuesOrdered
  <2>2. CASE pending'[s] = <<>>
    BY <2>2 DEF OrderedQueue
  <2>3. CASE \E keep \in SUBSET DOMAIN pending[s] : pending'[s] = KeepAt(pending[s], keep)
    <3>1. PICK keep \in SUBSET DOMAIN pending[s] : pending'[s] = KeepAt(pending[s], keep)
      BY <2>3
    <3>2. OrderedQueue(KeepAt(pending[s], keep)) /\ KeepsInOrder(pending[s], keep)
      BY <1>1, OrderedKeepAt, KeepAtProperties DEF QueuesOrdered
    <3> QED
      BY <3>1, <3>2 DEF KeepsInOrder
  <2> QED
    BY <2>1, <2>2, <2>3
<1>3. QueuesOrdered'
  BY <1>2 DEF QueuesOrdered, OrderedQueue
<1>4. WorkOrdered'
  BY <1>1, <1>2 DEF WorkOrdered, OrderedWork
<1>5. (TypeOK => (SegmentOrder <=> QueuesOrdered /\ WorkOrdered))'
  BY SegmentOrderParts, PTL
<1> QED
  BY <1>3, <1>4, <1>5

(* A job that submit() accepts waits behind nothing it may not. *)
LEMMA SubmitOrder ==
  ASSUME SInv, IInv', NEW j \in Job, Submit(j)
  PROVE  SegmentOrder'
<1> DEFINE s == j.session
           q == pending[s]
           e == Enqueued(q, j, Replacements(j))
<1>1. /\ s \in Sessions /\ TypeOK /\ QueuesOrdered /\ WorkOrdered /\ q \in Seq(Job)
  BY SegmentOrderParts DEF SInv, IInv, TypeOK, Job
<1>2. /\ pending'[s] = e /\ \A t \in Sessions \ {s} : pending'[t] = pending[t]
      /\ UNCHANGED <<active, job>>
  BY <1>1 DEF Submit, TypeOK
<1>3. \A p \in Peers(s) : SameSegment(p, j) => ~(p.revision > j.revision)
  BY DEF Submit, Outdated
<1>4. OrderedQueue(e)
  <2>1. \A i \in DOMAIN q : SameSegment(q[i], j) => ~(q[i].revision > j.revision)
    BY <1>3 DEF Peers, Range
  <2>2. Replacements(j) = {i \in DOMAIN q : Supersedes(j, q[i])}
    BY DEF Replacements
  <2> HIDE DEF q
  <2> QED
    BY <1>1, <2>1, <2>2, OrderedEnqueued DEF QueuesOrdered, q
<1>5. QueuesOrdered'
  BY <1>1, <1>2, <1>4 DEF QueuesOrdered, OrderedQueue
<1>6. \A w \in Workers : Live(w)' => Live(w)
  <2>1. \A w \in Workers : pc'[w] \in Requesting => pc[w] \in Requesting
    BY <1>1 DEF Submit, NotifyAll, SInv, IInv, Lifecycle, TypeOK, Requesting
  <2>2. \A w \in Workers : ~stale'[w] => ~stale[w]
    BY DEF Submit, CancelActive
  <2> QED
    BY <2>1, <2>2 DEF Live
<1>7. ASSUME NEW w \in Workers, active[s] = w, Live(w)'
      PROVE  \A k \in DOMAIN e : MayPrecede(job[w], e[k])
  <2>1. Live(w) /\ OrderedWork(w, s)
    BY <1>1, <1>6, <1>7 DEF WorkOrdered
  <2>2. w \in ActiveOf(s) /\ ~stale'[w]
    BY <1>7 DEF ActiveOf, Live
  <2>3. ~Supersedes(j, job[w])
    BY <2>2 DEF Submit, CancelActive
  <2>4. SameSegment(job[w], j) => ~(job[w].revision > j.revision)
    BY <1>3, <2>1, <2>2 DEF Peers, Live
  <2>5. job[w] \in Job
    BY <1>1, <1>7, <2>1, SchedulerAssumption
    DEF Live, Holds, Holding, SInv, IInv, ActiveTable
  <2>6. job[w].revision \in Int /\ j.revision \in Int
    BY <2>5, RevisionsAreNumbers
  <2>7. MayPrecede(job[w], j)
    BY <2>3, <2>4, <2>6 DEF Supersedes, MayPrecede
  <2>8. Replacements(j) \in SUBSET DOMAIN q
    BY DEF Replacements
  <2> HIDE DEF q
  <2>9. \A k \in DOMAIN e : e[k] = j \/ \E i \in DOMAIN q : e[k] = q[i]
    BY <1>1, <2>8, EnqueuedItems
  <2> QED
    BY <2>1, <2>7, <2>9 DEF OrderedWork, q
<1>8. WorkOrdered'
  <2> SUFFICES ASSUME NEW t \in Sessions, NEW w \in Workers, active'[t] = w, Live(w)'
               PROVE  \A k \in DOMAIN pending'[t] : MayPrecede(job'[w], pending'[t][k])
    BY DEF WorkOrdered, OrderedWork
  <2>1. CASE t = s
    BY <1>2, <1>7, <2>1
  <2>2. CASE t # s
    BY <1>1, <1>2, <1>6, <2>2 DEF WorkOrdered, OrderedWork
  <2> QED
    BY <2>1, <2>2
<1>9. (TypeOK => (SegmentOrder <=> QueuesOrdered /\ WorkOrdered))'
  BY SegmentOrderParts, PTL
<1> QED
  BY <1>5, <1>8, <1>9 DEF IInv
(* A job moves from the head of its queue to work, ahead of the rest. *)
LEMMA TakeOrder ==
  ASSUME SInv, IInv', NEW w \in Workers, Take(w)
  PROVE  SegmentOrder'
<1>1. TypeOK /\ QueuesOrdered /\ WorkOrdered /\ ActiveTable
  BY SegmentOrderParts DEF SInv, IInv
<1>2. PICK i \in Takeable :
        /\ pending' = [pending EXCEPT ![ready[i]] = Tail(pending[ready[i]])]
        /\ active' = [active EXCEPT ![ready[i]] = w]
        /\ job' = [job EXCEPT ![w] = Head(pending[ready[i]])]
        /\ stale' = [stale EXCEPT ![w] = FALSE]
        /\ pc' = [pc EXCEPT ![w] = "start"]
  BY DEF Take
<1> DEFINE s == ready[i]
           q == pending[s]
<1>3. s \in Sessions /\ q \in Seq(Job) /\ q # <<>> /\ OrderedQueue(q)
  BY <1>1 DEF Takeable, TypeOK, QueuesOrdered
<1>4. /\ pending'[s] = Tail(q) /\ active'[s] = w /\ job'[w] = q[1]
      /\ \A t \in Sessions \ {s} : pending'[t] = pending[t] /\ active'[t] = active[t]
      /\ \A v \in Workers \ {w} : pc'[v] = pc[v] /\ stale'[v] = stale[v] /\ job'[v] = job[v]
  BY <1>1, <1>2, <1>3 DEF TypeOK
<1> HIDE DEF q, s
<1>5. /\ DOMAIN Tail(q) = 1 .. Len(q) - 1 /\ DOMAIN q = 1 .. Len(q) /\ Len(q) \in Nat \ {0}
      /\ \A k \in 1 .. Len(q) - 1 : Tail(q)[k] = q[k + 1]
  BY <1>3
<1>6. OrderedQueue(Tail(q)) /\ \A k \in DOMAIN Tail(q) : MayPrecede(q[1], Tail(q)[k])
  <2>1. \A k \in DOMAIN Tail(q) : k \in Int /\ k + 1 \in DOMAIN q /\ 1 \in DOMAIN q /\ 1 < k + 1
    BY <1>5
  <2>2. \A k, l \in DOMAIN Tail(q) : k < l => k + 1 < l + 1
    BY <2>1
  <2> QED
    BY <1>3, <1>5, <2>1, <2>2 DEF OrderedQueue
<1>7. QueuesOrdered'
  BY <1>1, <1>4, <1>6 DEF QueuesOrdered, OrderedQueue
<1>8. WorkOrdered'
  <2> SUFFICES ASSUME NEW t \in Sessions, NEW v \in Workers, active'[t] = v, Live(v)'
               PROVE  \A k \in DOMAIN pending'[t] : MayPrecede(job'[v], pending'[t][k])
    BY DEF WorkOrdered, OrderedWork
  <2>1. CASE t = s
    BY <1>3, <1>4, <1>6, <2>1
  <2>2. CASE t # s
    <3>1. active[t] = v /\ v # NoWorker
      BY <1>4, <2>2, SchedulerAssumption
    <3>2. v # w
      BY <1>1, <3>1 DEF ActiveTable, Holds, Holding, Requesting, Take
    <3> QED
      BY <1>1, <1>4, <2>2, <3>1, <3>2 DEF WorkOrdered, OrderedWork, Live
  <2> QED
    BY <2>1, <2>2
<1>9. (TypeOK => (SegmentOrder <=> QueuesOrdered /\ WorkOrdered))'
  BY SegmentOrderParts, PTL
<1> QED
  BY <1>7, <1>8, <1>9 DEF IInv

(* Every step keeps the order of the segments. *)
LEMMA NextOrder == SInv /\ IInv' /\ [Next]_vars => SegmentOrder'
<1> SUFFICES ASSUME SInv, IInv', [Next]_vars PROVE SegmentOrder'
  OBVIOUS
<1> USE DEF Live
<1>1. TypeOK /\ TypeOK' /\ Lifecycle /\ ActiveTable
  BY DEF SInv, IInv
<1>2. CASE Start
  <2>1. \A w \in Workers : pc'[w] \notin Requesting
    BY <1>2 DEF Start, Requesting
  <2> QED
    BY <1>1, <1>2, <2>1, ThinningOrder DEF Start
<1>3. CASE \E j \in Submissions : Submit(j)
  BY <1>3, SubmitOrder, JobAssumption
<1>4. CASE \E s \in Sessions : CancelSession(s)
  <2>1. PICK s \in Sessions : CancelSession(s)
    BY <1>4
  <2>2. \A t \in Sessions : pending'[t] = pending[t] \/ pending'[t] = <<>>
    BY <1>1, <2>1 DEF CancelSession, TypeOK
  <2>3. \A w \in Workers : Live(w)' => Live(w)
    BY <1>1, <2>1 DEF CancelSession, CancelActive, NotifyAll, Requesting, TypeOK
  <2> QED
    BY <1>1, <2>1, <2>2, <2>3, ThinningOrder DEF CancelSession
<1>5. CASE \E s \in Sessions, segments \in SUBSET Segments : Invalidate(s, segments)
  <2>1. PICK s \in Sessions, segments \in SUBSET Segments : Invalidate(s, segments)
    BY <1>5
  <2> DEFINE keep == {i \in DOMAIN pending[s] : pending[s][i].segment \notin segments}
  <2>2. keep \in SUBSET DOMAIN pending[s] /\ pending' = [pending EXCEPT ![s] = KeepAt(pending[s], keep)]
    BY <2>1 DEF Invalidate, Filter
  <2> HIDE DEF keep
  <2>3. \A t \in Sessions :
          pending'[t] = pending[t] \/ \E k \in SUBSET DOMAIN pending[t] : pending'[t] = KeepAt(pending[t], k)
    BY <1>1, <2>2 DEF TypeOK
  <2>4. \A w \in Workers : Live(w)' => Live(w)
    BY <1>1, <2>1 DEF Invalidate, CancelActive, NotifyAll, Requesting, TypeOK
  <2>5. UNCHANGED <<active, job>>
    BY <2>1 DEF Invalidate
  <2> QED
    BY <1>1, <2>3, <2>4, <2>5, ThinningOrder
<1>6. ASSUME NEW w \in Workers, WorkerStep(w) PROVE SegmentOrder'
  <2>1. CASE Take(w)
    BY <2>1, TakeOrder
  <2>2. CASE Sleep(w) \/ Exit(w) \/ Execute(w) \/ BackendReturn(w) \/ Resume(w) \/ CallbackEnd(w)
    <3>1. UNCHANGED <<pending, active, job, stale>>
      BY <2>2 DEF Sleep, Exit, Execute, BackendReturn, Resume, CallbackEnd, queueVars
    <3>2. \A v \in Workers : pc'[v] \in Requesting => pc[v] \in Requesting
      BY <1>1, <2>2 DEF Sleep, Exit, Execute, BackendReturn, Resume, CallbackEnd, Requesting, TypeOK
    <3> QED
      BY <1>1, <3>1, <3>2, ThinningOrder
  <2>3. CASE Release(w)
    <3>1. pending' = pending
      BY <2>3 DEF Release
    <3>2. \A v \in Workers : pc'[v] \in Requesting => pc[v] \in Requesting /\ v # w
      BY <1>1, <2>3 DEF Release, NotifyAll, Requesting, TypeOK
    <3>3. \A v \in Workers \ {w} : stale'[v] = stale[v] /\ job'[v] = job[v]
      BY <1>1, <2>3 DEF Release, TypeOK
    <3>4. \A t \in Sessions, v \in Workers : active'[t] = v => active[t] = v
      BY <1>1, <2>3, SchedulerAssumption DEF Release, TypeOK
    <3> QED
      BY <1>1, <3>1, <3>2, <3>3, <3>4, ThinningOrder
  <2> QED
    BY <1>6, <2>1, <2>2, <2>3 DEF WorkerStep
<1>7. CASE Close
  <2>1. \A w \in Workers : Live(w)' => Live(w)
    BY <1>1, <1>7 DEF Close, CancelActive, NotifyAll, Requesting, TypeOK
  <2>2. \A s \in Sessions : pending'[s] = <<>>
    BY <1>7 DEF Close
  <2> QED
    BY <1>1, <1>7, <2>1, <2>2, ThinningOrder DEF Close
<1>8. CASE Drained \/ DrainTimeout \/ UNCHANGED vars
  <2>1. UNCHANGED <<pending, active, pc, job, stale>>
    BY <1>8 DEF Drained, DrainTimeout, vars, queueVars, workerVars
  <2> QED
    BY <1>1, <2>1, ThinningOrder
<1> QED
  BY <1>2, <1>3, <1>4, <1>5, <1>6, <1>7, <1>8 DEF Next

(* Every step keeps what close() has voided void. *)
LEMMA NextVoid == SInv /\ IInv' /\ [Next]_vars => VoidOnClose'
<1> SUFFICES ASSUME SInv, IInv', [Next]_vars, closing', NEW s \in Sessions, active'[s] # NoWorker
             PROVE  stale'[active'[s]]
  BY DEF VoidOnClose
<1>1. /\ TypeOK /\ ActiveTable /\ ActiveTable' /\ active'[s] \in Workers
      /\ closing => \A t \in Sessions : active[t] # NoWorker => stale[active[t]]
  BY DEF SInv, IInv, TypeOK, VoidOnClose
<1>2. CASE Close
  BY <1>1, <1>2 DEF Close, CancelActive
<1>3. CASE closing /\ UNCHANGED active /\ \A w \in Workers : stale[w] => stale'[w]
  BY <1>1, <1>3
<1>4. ASSUME NEW w \in Workers, closing, Release(w)
      PROVE  stale'[active'[s]]
  <2>1. active'[s] = active[s] /\ active[s] # w
    <3>1. pc'[active'[s]] \in Holding
      BY <1>1 DEF ActiveTable, Holds
    <3>2. pc'[w] \notin Holding
      BY <1>1, <1>4 DEF Release, NotifyAll, Holding, Requesting, TypeOK
    <3>3. active'[s] = active[s]
      BY <1>1, <1>4 DEF Release, TypeOK
    <3> QED
      BY <3>1, <3>2, <3>3
  <2> QED
    BY <1>1, <1>4, <2>1 DEF Release, TypeOK
<1>5. \/ Close
      \/ closing /\ UNCHANGED active /\ \A w \in Workers : stale[w] => stale'[w]
      \/ closing /\ \E w \in Workers : Release(w)
  BY DEF Next, Start, Submit, CancelSession, Invalidate, CancelActive, WorkerStep, Take, Sleep,
     Exit, Execute, BackendReturn, Resume, CallbackEnd, Release, Drained, DrainTimeout, vars,
     queueVars, workerVars
<1> QED
  BY <1>2, <1>3, <1>4, <1>5

(* The strengthened invariant holds at the start. *)
LEMMA InitSInv == Init => SInv
<1> SUFFICES ASSUME Init PROVE SInv
  OBVIOUS
<1>1. IInv
  BY InitIInv
<1>2. SegmentOrder /\ VoidOnClose
  BY DEF Init, SegmentOrder, VoidOnClose
<1> QED
  BY <1>1, <1>2 DEF SInv

(* Every step keeps it. *)
LEMMA NextSInv == SInv /\ [Next]_vars => SInv'
<1>1. SInv /\ [Next]_vars => IInv'
  BY NextIInv DEF SInv
<1> QED
  BY <1>1, NextOrder, NextVoid DEF SInv

(* The inductive invariant: the queues and the table are consistent, every *)
(* queue is ordered, and nothing in work survives close().                 *)
THEOREM ServiceInvariant == Spec => []SInv
BY InitSInv, NextSInv, PTL DEF Spec

(* Jobs of one segment reach the backend in the order of their revisions,  *)
(* and nothing speculative runs or waits ahead of a later revision.        *)
THEOREM SegmentsInOrder == Spec => []SegmentOrder
<1>1. SInv => SegmentOrder
  BY DEF SInv
<1> QED
  BY <1>1, ServiceInvariant, PTL
-----------------------------------------------------------------------------
(* The steps of the service.  Work(s) is what the server of s does in the  *)
(* refinement mapping, Serving the whole of serving.                       *)
Work(s) ==
  IF active[s] = NoWorker THEN [phase |-> "idle", job |-> NoJob]
  ELSE [phase |-> ServicePhase(active[s]), job |-> job[active[s]]]
Serving == [s \in Sessions |-> Work(s)]

Void(x) == IF x.phase = "working" THEN [x EXCEPT !.phase = "void"] ELSE x

(* The phase of a worker that owns a slot, case by case. *)
LEMMA PhaseCases ==
  ASSUME NEW w \in Workers, Holds(w)
  PROVE  /\ pc[w] \in Requesting /\ stale[w] => ServicePhase(w) = "void"
         /\ pc[w] \in Requesting /\ ~stale[w] => ServicePhase(w) = "working"
         /\ pc[w] = "callback" => ServicePhase(w) = "delivering"
         /\ pc[w] = "release" => ServicePhase(w) = "over"
         /\ pc[w] \in Requesting \/ pc[w] = "callback" \/ pc[w] = "release"
BY DEF ServicePhase, Holds, Holding, Requesting

(* A step that leaves the owner of a slot where it is leaves its work. *)
LEMMA WorkStays ==
  ASSUME TypeOK, ActiveTable, NEW s \in Sessions, active'[s] = active[s],
         active[s] # NoWorker =>
           /\ pc'[active[s]] = pc[active[s]] /\ job'[active[s]] = job[active[s]]
           /\ stale'[active[s]] = stale[active[s]]
  PROVE  Work(s)' = Work(s)
BY DEF Work, ServicePhase

(* A step that makes the owner of a slot stale voids its work. *)
LEMMA WorkVoided ==
  ASSUME TypeOK, ActiveTable, NEW s \in Sessions, active'[s] = active[s], active[s] # NoWorker,
         pc'[active[s]] = pc[active[s]], job'[active[s]] = job[active[s]], stale'[active[s]]
  PROVE  Work(s)' = Void(Work(s))
<1> DEFINE w == active[s]
<1>1. w \in Workers /\ Holds(w)
  BY DEF TypeOK, ActiveTable
<1>2. Work(s) = [phase |-> ServicePhase(w), job |-> job[w]]
  BY DEF Work
<1>3. Work(s)' = [phase |-> ServicePhase(w)', job |-> job[w]]
  BY DEF Work
<1>4. CASE pc[w] \in Requesting
  <2>1. ServicePhase(w)' = "void"
    <3>1. w' = w /\ pc'[w] \in Requesting /\ stale'[w]
      BY <1>4
    <3> HIDE DEF w
    <3> QED
      BY <3>1 DEF ServicePhase, Requesting
  <2>2. ServicePhase(w) = "void" \/ ServicePhase(w) = "working"
    BY <1>1, <1>4, PhaseCases
  <2> HIDE DEF w
  <2> QED
    BY <1>2, <1>3, <2>1, <2>2 DEF Void
<1>5. CASE pc[w] = "callback" \/ pc[w] = "release"
  <2>1. ServicePhase(w)' = ServicePhase(w)
    BY <1>1, <1>5 DEF ServicePhase, Requesting
  <2>2. ServicePhase(w) # "working"
    BY <1>1, <1>5, PhaseCases
  <2> HIDE DEF w
  <2> QED
    BY <1>2, <1>3, <2>1, <2>2 DEF Void
<1> QED
  BY <1>1, <1>4, <1>5, PhaseCases

(* No step at all, and the steps of one server, of the service. *)
LEMMA ServiceStutter ==
  ASSUME UNCHANGED <<pending, closing>>, \A s \in Sessions : Work(s)' = Work(s)
  PROVE  UNCHANGED Service!vars
BY DEF Service!vars, Work

(* A step that moves the work of s alone is a step of its server. *)
LEMMA ServicePhaseStep ==
  ASSUME UNCHANGED <<pending, closing>>, NEW s \in Sessions, NEW from, NEW to,
         Work(s).phase \in from,
         Work(s)' = [Work(s) EXCEPT !.phase = to],
         \A t \in Sessions \ {s} : Work(t)' = Work(t)
  PROVE  Service!Phase(s, from, to)
<1>1. Serving[s].phase \in from
  BY DEF Serving
<1>2. Serving' = [Serving EXCEPT ![s].phase = to]
  BY DEF Serving
<1> QED
  BY <1>1, <1>2 DEF Service!Phase, Serving, Work
(* The work after a step that may void the work of s. *)
LEMMA ServingVoided ==
  ASSUME NEW s \in Sessions, Work(s)' = Void(Work(s)),
         \A t \in Sessions \ {s} : Work(t)' = Work(t)
  PROVE  Serving' = [Serving EXCEPT ![s] = Void(Serving[s])]
BY DEF Serving

(* The service and the scheduler mean the same by KeepAt. *)
LEMMA SameKeepAt == \A q, keep : Service!KeepAt(q, keep) = KeepAt(q, keep)
<1>1. \A S : Service!Cardinality(S) = Cardinality(S)
  BY DEF Service!Cardinality, Cardinality
<1>2. \A keep, i : Service!Rank(keep, i) = Rank(keep, i)
  BY <1>1 DEF Service!Rank, Rank
<1>3. \A keep, k : Service!Nth(keep, k) = Nth(keep, k)
  BY <1>2 DEF Service!Nth, Nth
<1> QED
  BY <1>1, <1>3 DEF Service!KeepAt, KeepAt

(* A step that puts one job in, drops partials only and voids at most a    *)
(* partial in work accepts the job.                                        *)
LEMMA ServiceAccept ==
  ASSUME ~closing, ~closing', NEW s \in Sessions, NEW kept \in SUBSET DOMAIN pending[s],
         NEW i \in DOMAIN pending'[s],
         SubSeq(pending'[s], 1, i - 1) \o SubSeq(pending'[s], i + 1, Len(pending'[s]))
           = KeepAt(pending[s], kept),
         \A k \in DOMAIN pending[s] \ kept : ~pending[s][k].final,
         \A t \in Sessions \ {s} : pending'[t] = pending[t] /\ Work(t)' = Work(t),
         \/ Work(s)' = Work(s)
         \/ Work(s).phase = "working" /\ ~Work(s).job.final /\ Work(s)' = Void(Work(s))
  PROVE  Service!Accept(s)
<1>1. Serving[s] = Work(s)
  BY DEF Serving
<1>2. \/ Serving' = Serving
      \/ /\ Serving[s].phase = "working" /\ ~Serving[s].job.final
         /\ Serving' = [Serving EXCEPT ![s] = Void(Serving[s])]
  <2>1. CASE Work(s)' = Work(s)
    BY <2>1 DEF Serving
  <2>2. CASE Work(s).phase = "working" /\ ~Work(s).job.final /\ Work(s)' = Void(Work(s))
    BY <1>1, <2>2, ServingVoided
  <2> QED
    BY <2>1, <2>2
<1>3. Service!Thinned(pending[s], Service!WithoutAt(pending'[s], i), LAMBDA e : e.final)
  BY SameKeepAt DEF Service!Thinned, Service!WithoutAt
<1> QED
  BY <1>2, <1>3 DEF Service!Accept, Service!Voided, Void, Serving, Work

(* A step that drops jobs of s and voids at most its work retires them. *)
LEMMA ServiceRetire ==
  ASSUME UNCHANGED closing, NEW s \in Sessions, NEW kept \in SUBSET DOMAIN pending[s],
         pending'[s] = KeepAt(pending[s], kept),
         \A t \in Sessions \ {s} : pending'[t] = pending[t] /\ Work(t)' = Work(t),
         Work(s)' = Work(s) \/ Work(s)' = Void(Work(s))
  PROVE  Service!Retire(s)
<1>1. Serving' = Serving \/ Serving' = [Serving EXCEPT ![s] = Void(Serving[s])]
  <2>1. CASE Work(s)' = Work(s)
    BY <2>1 DEF Serving
  <2>2. CASE Work(s)' = Void(Work(s))
    BY <2>2, ServingVoided
  <2> QED
    BY <2>1, <2>2
<1>2. Service!Thinned(pending[s], pending'[s], LAMBDA e : FALSE)
  BY SameKeepAt DEF Service!Thinned
<1> QED
  BY <1>1, <1>2 DEF Service!Retire, Service!Voided, Void, Serving, Work
-----------------------------------------------------------------------------
(* Every action is a step of the service.                                  *)

(* submit() puts one job in and takes only partials out. *)
LEMMA EnqueuedWithout ==
  ASSUME NEW q \in Seq(Job), NEW j \in Job, NEW replaced \in SUBSET DOMAIN q
  PROVE  LET e == Enqueued(q, j, replaced)
         IN  \E i \in DOMAIN e :
               SubSeq(e, 1, i - 1) \o SubSeq(e, i + 1, Len(e)) = KeepAt(q, DOMAIN q \ replaced)
<1>1. CASE replaced = {}
  <2> DEFINE e == Append(q, j)
             n == Len(q)
             l == SubSeq(e, 1, n) \o SubSeq(e, n + 2, n + 1)
  <2>1. Enqueued(q, j, replaced) = e /\ DOMAIN q \ replaced = DOMAIN q
    BY <1>1 DEF Enqueued
  <2>2. /\ n \in Nat /\ DOMAIN e = 1 .. n + 1 /\ Len(e) = n + 1 /\ DOMAIN q = 1 .. n
        /\ \A k \in 1 .. n : e[k] = q[k]
    OBVIOUS
  <2>3. l = q
    <3>1. l \in Seq(Job) /\ Len(l) = n /\ \A k \in 1 .. n : l[k] = q[k]
      BY <2>2
    <3> HIDE DEF l, n
    <3> QED
      BY <2>2, <3>1
  <2>4. KeepAt(q, DOMAIN q) = q
    BY KeepAtAll
  <2>5. n + 1 \in DOMAIN e /\ (n + 1) - 1 = n /\ (n + 1) + 1 = n + 2
    BY <2>2
  <2> HIDE DEF e, n
  <2> QED
    BY <2>1, <2>2, <2>3, <2>4, <2>5
<1>2. CASE replaced # {}
  <2> DEFINE first == CHOOSE i \in replaced : \A k \in replaced : i <= k
             base == [q EXCEPT ![first] = j]
             keep == DOMAIN q \ (replaced \ {first})
             e == KeepAt(base, keep)
             i == Rank(keep, first)
  <2>1. first \in replaced /\ first \in DOMAIN q
    <3>1. replaced \in SUBSET Nat
      OBVIOUS
    <3>2. \E x \in replaced : \A k \in replaced : x <= k
      BY <1>2, <3>1, LeastNatural
    <3> QED
      BY <3>2
  <2> HIDE DEF first
  <2>2. /\ base \in Seq(Job) /\ DOMAIN base = DOMAIN q
        /\ \A k \in DOMAIN q \ {first} : base[k] = q[k]
    BY <2>1
  <2>3. /\ keep \in SUBSET DOMAIN base /\ first \in keep
        /\ keep \ {first} = DOMAIN q \ replaced
    BY <2>1, <2>2
  <2>4. Enqueued(q, j, replaced) = e
    BY <1>2 DEF Enqueued, first
  <2> HIDE DEF base, keep
  <2>5. i \in DOMAIN e /\ SubSeq(e, 1, i - 1) \o SubSeq(e, i + 1, Len(e)) = KeepAt(base, keep \ {first})
    BY <2>2, <2>3, KeepAtWithout
  <2>6. KeepAt(base, DOMAIN q \ replaced) = KeepAt(q, DOMAIN q \ replaced)
    <3>1. /\ Len(q) \in Nat /\ DOMAIN q \ replaced \in SUBSET (1 .. Len(q))
          /\ \A k \in DOMAIN q \ replaced : base[k] = q[k]
      BY <2>1, <2>2
    <3> QED
      BY <3>1, KeepAtAgrees
  <2> HIDE DEF e, i
  <2> QED
    BY <2>3, <2>4, <2>5, <2>6
<1> QED
  BY <1>1, <1>2
(* _cancel_active on workers of s voids at most the work of s. *)
LEMMA CancelVoids ==
  ASSUME TypeOK, ActiveTable, NEW s \in Sessions, NEW ws, ws \subseteq ActiveOf(s),
         CancelActive(ws), \A w \in Workers : Holds(w) => pc'[w] = pc[w],
         UNCHANGED <<active, job>>
  PROVE  /\ \A t \in Sessions \ {s} : Work(t)' = Work(t)
         /\ \/ Work(s)' = Work(s)
            \/ active[s] \in ws /\ active[s] # NoWorker /\ Work(s)' = Void(Work(s))
<1>1. \A w \in Workers : stale'[w] = (stale[w] \/ w \in ws)
  BY DEF CancelActive
<1>2. ASSUME NEW t \in Sessions, active[t] # NoWorker => active[t] \notin ws
      PROVE  Work(t)' = Work(t)
  <2>1. active[t] # NoWorker => active[t] \in Workers /\ Holds(active[t])
    BY DEF TypeOK, ActiveTable
  <2>2. active[t] # NoWorker => stale'[active[t]] = stale[active[t]]
    BY <1>1, <1>2, <2>1 DEF TypeOK
  <2> QED
    BY <2>1, <2>2, WorkStays
<1>3. ASSUME NEW t \in Sessions \ {s} PROVE Work(t)' = Work(t)
  <2>1. active[t] # NoWorker => active[t] \notin ws
    BY DEF ActiveOf, ActiveTable
  <2> QED
    BY <1>2, <2>1
<1>4. CASE active[s] # NoWorker /\ active[s] \in ws
  <2>1. active[s] \in Workers /\ Holds(active[s]) /\ stale'[active[s]]
    BY ZenonT(30), <1>1, <1>4 DEF ActiveTable, TypeOK
  <2> QED
    BY <1>3, <1>4, <2>1, WorkVoided
<1>5. CASE ~(active[s] # NoWorker /\ active[s] \in ws)
  BY <1>2, <1>3, <1>5
<1> QED
  BY <1>4, <1>5

(* submit() accepts a job. *)
LEMMA SubmitAccepts ==
  ASSUME SInv, NEW j \in Job, Submit(j)
  PROVE  Service!Accept(j.session)
<1> DEFINE s == j.session
           q == pending[s]
           e == Enqueued(q, j, Replacements(j))
           kept == DOMAIN q \ Replacements(j)
           ws == {w \in ActiveOf(s) : Supersedes(j, job[w])}
<1>1. /\ s \in Sessions /\ q \in Seq(Job) /\ TypeOK /\ ActiveTable /\ Lifecycle
      /\ Replacements(j) \in SUBSET DOMAIN q
  BY DEF SInv, IInv, TypeOK, Job, Replacements
<1>2. /\ pending'[s] = e /\ \A t \in Sessions \ {s} : pending'[t] = pending[t]
      /\ ~closing /\ ~closing' /\ UNCHANGED <<active, job>>
      /\ CancelActive(ws) /\ ws \subseteq ActiveOf(s)
  BY <1>1 DEF Submit, TypeOK
<1>3. PICK i \in DOMAIN e :
        SubSeq(e, 1, i - 1) \o SubSeq(e, i + 1, Len(e)) = KeepAt(q, kept)
  <2> HIDE DEF q
  <2> QED
    BY <1>1, EnqueuedWithout
<1>4. \A k \in DOMAIN q \ kept : ~q[k].final
  BY DEF Replacements, Supersedes
<1>5. \A w \in Workers : Holds(w) => pc'[w] = pc[w]
  BY <1>1 DEF Submit, NotifyAll, Holds, Holding, Requesting, Lifecycle, TypeOK
<1>6. active[s] \in ws /\ active[s] # NoWorker => ~Work(s).job.final
  BY DEF Supersedes, Work
<1> HIDE DEF q, e, kept, ws
<1>7. /\ \A t \in Sessions \ {s} : Work(t)' = Work(t)
      /\ \/ Work(s)' = Work(s)
         \/ Work(s).phase = "working" /\ ~Work(s).job.final /\ Work(s)' = Void(Work(s))
  <2>1. Work(s).phase # "working" => Void(Work(s)) = Work(s)
    BY DEF Void
  <2> QED
    BY <1>1, <1>2, <1>5, <1>6, <2>1, CancelVoids
<1> QED
  BY <1>1, <1>2, <1>3, <1>4, <1>7, ServiceAccept DEF q, e, kept

(* cancel_session() and invalidate() retire jobs. *)
LEMMA Retires ==
  ASSUME SInv, NEW s \in Sessions, NEW kept \in SUBSET DOMAIN pending[s], NEW ws,
         pending' = [pending EXCEPT ![s] = KeepAt(pending[s], kept)],
         CancelActive(ws), ws \subseteq ActiveOf(s), pc' = NotifyAll(pc),
         UNCHANGED <<active, job, closing>>
  PROVE  Service!Retire(s)
<1>1. TypeOK /\ ActiveTable
  BY DEF SInv, IInv
<1>2. /\ pending'[s] = KeepAt(pending[s], kept)
      /\ \A t \in Sessions \ {s} : pending'[t] = pending[t]
      /\ \A w \in Workers : Holds(w) => pc'[w] = pc[w]
  BY <1>1 DEF NotifyAll, Holds, Holding, Requesting, TypeOK
<1>3. /\ \A t \in Sessions \ {s} : Work(t)' = Work(t)
      /\ Work(s)' = Work(s) \/ Work(s)' = Void(Work(s))
  BY <1>1, <1>2, CancelVoids
<1> QED
  BY <1>2, <1>3, ServiceRetire
(* A worker takes a job: an idle server begins the oldest of its queue. *)
LEMMA TakeBegins ==
  ASSUME SInv, NEW w \in Workers, Take(w)
  PROVE  \E s \in Sessions : Service!Begin(s)
<1>1. TypeOK /\ ActiveTable /\ ~Holds(w) /\ ~closing /\ ~closing'
  BY DEF SInv, IInv, Take, Holds, Holding, Requesting
<1>2. PICK i \in Takeable :
        /\ pending' = [pending EXCEPT ![ready[i]] = Tail(pending[ready[i]])]
        /\ active' = [active EXCEPT ![ready[i]] = w]
        /\ job' = [job EXCEPT ![w] = Head(pending[ready[i]])]
        /\ stale' = [stale EXCEPT ![w] = FALSE]
        /\ pc' = [pc EXCEPT ![w] = "start"]
  BY DEF Take
<1>3. PICK s \in Sessions : s = ready[i] /\ pending[s] # <<>> /\ active[s] = NoWorker
  BY <1>1 DEF Takeable, TypeOK
<1>4. /\ pending' = [pending EXCEPT ![s] = Tail(pending[s])]
      /\ active'[s] = w /\ w # NoWorker
      /\ job'[w] = Head(pending[s]) /\ ~stale'[w] /\ pc'[w] = "start"
      /\ \A t \in Sessions \ {s} : active'[t] = active[t]
      /\ \A v \in Workers \ {w} : job'[v] = job[v] /\ stale'[v] = stale[v] /\ pc'[v] = pc[v]
  BY <1>1, <1>2, <1>3, SchedulerAssumption DEF TypeOK
<1>5. Work(s) = [phase |-> "idle", job |-> NoJob]
  BY <1>3 DEF Work
<1>6. Work(s)' = [phase |-> "working", job |-> Head(pending[s])]
  BY <1>4 DEF Work, ServicePhase, Requesting
<1>7. ASSUME NEW t \in Sessions \ {s} PROVE Work(t)' = Work(t)
  <2>1. active[t] # NoWorker => active[t] \in Workers \ {w}
    BY <1>1 DEF TypeOK, ActiveTable
  <2> QED
    BY <1>1, <1>4, <2>1, WorkStays
<1>8. /\ Serving[s] = [phase |-> "idle", job |-> NoJob]
      /\ Serving' = [Serving EXCEPT ![s] = [phase |-> "working", job |-> Head(pending[s])]]
  BY <1>3, <1>5, <1>6, <1>7 DEF Serving
<1>9. Service!Begin(s)
  BY <1>1, <1>3, <1>4, <1>8 DEF Service!Begin, Service!Idle, Serving, Work
<1> QED
  BY <1>3, <1>9

(* A worker that holds an entry moves on: at most the phase of its own     *)
(* session changes.                                                        *)
LEMMA MoveServes ==
  ASSUME SInv, NEW w \in Workers, Holds(w), NEW s \in Sessions, s = job[w].session,
         NEW c \in Holding, pc' = [pc EXCEPT ![w] = c],
         UNCHANGED <<pending, active, job, stale, closing>>
  PROVE  /\ Work(s) = [phase |-> ServicePhase(w), job |-> job[w]]
         /\ Work(s)' = [phase |-> ServicePhase(w)', job |-> job[w]]
         /\ \A t \in Sessions \ {s} : Work(t)' = Work(t)
<1>1. TypeOK /\ ActiveTable /\ active[s] = w /\ w # NoWorker
  BY SchedulerAssumption DEF SInv, IInv, ActiveTable, Job
<1>2. ASSUME NEW t \in Sessions \ {s} PROVE Work(t)' = Work(t)
  <2>1. active[t] # NoWorker => active[t] \in Workers \ {w}
    BY <1>1 DEF TypeOK, ActiveTable
  <2>2. active[t] # NoWorker => pc'[active[t]] = pc[active[t]]
    BY <1>1, <2>1 DEF TypeOK
  <2> QED
    BY <1>1, <2>2, WorkStays
<1>3. Work(s) = [phase |-> ServicePhase(w), job |-> job[w]]
  BY <1>1 DEF Work
<1>4. Work(s)' = [phase |-> ServicePhase(w)', job |-> job[w]]
  BY <1>1 DEF Work
<1> QED
  BY <1>1, <1>2, <1>3, <1>4

(* The steps of a worker between taking an entry and releasing its slot. *)
LEMMA HolderServes ==
  ASSUME SInv, NEW w \in Workers,
         Execute(w) \/ BackendReturn(w) \/ Resume(w) \/ CallbackEnd(w)
  PROVE  \/ UNCHANGED Service!vars
         \/ \E s \in Sessions : Service!Serve(s)
<1>1. /\ TypeOK /\ ActiveTable /\ Holds(w)
      /\ UNCHANGED <<pending, active, job, stale, closing>>
      /\ pc' = [pc EXCEPT ![w] = pc'[w]] /\ pc'[w] \in Holding
  BY DEF SInv, IInv, TypeOK, Execute, BackendReturn, Resume, CallbackEnd, Holds, Holding,
     Requesting, queueVars
<1>0. PICK s \in Sessions : s = job[w].session
  BY <1>1 DEF ActiveTable, Job
<1>2. /\ Work(s) = [phase |-> ServicePhase(w), job |-> job[w]]
      /\ Work(s)' = [phase |-> ServicePhase(w)', job |-> job[w]]
      /\ \A t \in Sessions \ {s} : Work(t)' = Work(t)
  BY <1>0, <1>1, MoveServes
<1>3. closing => stale[w]
  BY <1>0, <1>1, SchedulerAssumption DEF SInv, VoidOnClose, ActiveTable, Job
<1>4. CASE ServicePhase(w)' = ServicePhase(w)
  <2>1. \A t \in Sessions : Work(t)' = Work(t)
    BY <1>2, <1>4
  <2> QED
    BY <1>1, <2>1, ServiceStutter
<1>5. CASE ServicePhase(w) = "working" /\ ServicePhase(w)' = "delivering"
  <2>1. Service!Phase(s, {"working"}, "delivering")
    <3>1. Work(s).phase \in {"working"} /\ Work(s)' = [Work(s) EXCEPT !.phase = "delivering"]
      BY <1>2, <1>5
    <3> QED
      BY <1>1, <1>2, <3>1, ServicePhaseStep
  <2> QED
    BY <1>2, <2>1 DEF Service!Serve, Service!Deliver
<1>6. CASE ServicePhase(w) \in {"void", "delivering"} /\ ServicePhase(w)' = "over"
  <2>1. Service!Phase(s, {"void", "delivering"}, "over")
    <3>1. Work(s).phase \in {"void", "delivering"} /\ Work(s)' = [Work(s) EXCEPT !.phase = "over"]
      BY <1>2, <1>6
    <3> QED
      BY <1>1, <1>2, <3>1, ServicePhaseStep
  <2> QED
    BY <1>2, <2>1 DEF Service!Serve, Service!Complete
<1>7. \/ ServicePhase(w)' = ServicePhase(w)
      \/ ServicePhase(w) = "working" /\ ServicePhase(w)' = "delivering"
      \/ ServicePhase(w) \in {"void", "delivering"} /\ ServicePhase(w)' = "over"
  BY <1>1, <1>3 DEF Execute, BackendReturn, Resume, CallbackEnd, ServicePhase, Requesting, TypeOK
<1> QED
  BY <1>4, <1>5, <1>6, <1>7

(* A worker releases its slot: the server of its session is idle. *)
LEMMA ReleaseServes ==
  ASSUME SInv, NEW w \in Workers, Release(w)
  PROVE  \E s \in Sessions : Service!BecomeIdle(s)
<1>1. TypeOK /\ ActiveTable /\ Holds(w) /\ pc[w] = "release"
  BY DEF SInv, IInv, Release, Holds, Holding
<1>2. PICK s \in Sessions : s = job[w].session /\ active[s] = w /\ w # NoWorker
  BY <1>1, SchedulerAssumption DEF ActiveTable, Job
<1>3. /\ UNCHANGED <<pending, closing>> /\ active'[s] = NoWorker
      /\ \A t \in Sessions \ {s} : active'[t] = active[t]
      /\ \A v \in Workers \ {w} : job'[v] = job[v] /\ stale'[v] = stale[v]
      /\ \A v \in Workers \ {w} : Holds(v) => pc'[v] = pc[v]
  BY <1>1, <1>2 DEF Release, NotifyAll, Holds, Holding, Requesting, TypeOK
<1>4. Work(s).phase = "over"
  BY <1>1, <1>2, PhaseCases DEF Work
<1>5. Work(s)' = [phase |-> "idle", job |-> NoJob]
  BY <1>3 DEF Work
<1>6. ASSUME NEW t \in Sessions \ {s} PROVE Work(t)' = Work(t)
  <2>1. active[t] # NoWorker => active[t] \in Workers \ {w} /\ Holds(active[t])
    BY <1>1, <1>2 DEF TypeOK, ActiveTable
  <2> QED
    BY <1>1, <1>3, <2>1, WorkStays
<1>7. /\ Serving[s].phase = "over"
      /\ Serving' = [Serving EXCEPT ![s] = [phase |-> "idle", job |-> NoJob]]
  BY <1>2, <1>4, <1>5, <1>6 DEF Serving
<1>8. Service!BecomeIdle(s)
  BY <1>3, <1>7 DEF Service!BecomeIdle, Service!Idle, Serving, Work
<1> QED
  BY <1>2, <1>8

(* close() shuts the service down. *)
LEMMA CloseShutsDown ==
  ASSUME SInv, Close
  PROVE  Service!Shutdown
<1>1. TypeOK /\ ActiveTable
  BY DEF SInv, IInv
<1>2. /\ closing' /\ pending' = [s \in Sessions |-> <<>>] /\ UNCHANGED <<active, job>>
      /\ \A w \in Workers : Holds(w) => pc'[w] = pc[w]
      /\ \A s \in Sessions : active[s] \in Workers => stale'[active[s]]
  BY <1>1 DEF Close, CancelActive, NotifyAll, Holds, Holding, Requesting, TypeOK
<1>3. ASSUME NEW s \in Sessions PROVE Work(s)' = Void(Work(s))
  <2>1. CASE active[s] = NoWorker
    BY <1>2, <2>1 DEF Work, Void
  <2>2. CASE active[s] # NoWorker
    <3>1. active[s] \in Workers /\ Holds(active[s])
      BY <1>1, <2>2 DEF TypeOK, ActiveTable
    <3> QED
      BY <1>1, <1>2, <2>2, <3>1, WorkVoided
  <2> QED
    BY <2>1, <2>2
<1>4. Serving' = [s \in Sessions |-> Void(Serving[s])]
  BY <1>3 DEF Serving
<1> QED
  BY <1>2, <1>4 DEF Service!Shutdown, Service!Voided, Void, Serving, Work

(* A step that moves no worker that owns a slot is no step of the service. *)
LEMMA Unnoticed ==
  ASSUME TypeOK, ActiveTable, UNCHANGED <<pending, closing, active, job, stale>>,
         \A w \in Workers : Holds(w) => pc'[w] = pc[w]
  PROVE  UNCHANGED Service!vars
<1>1. ASSUME NEW s \in Sessions PROVE Work(s)' = Work(s)
  <2>1. active[s] # NoWorker => active[s] \in Workers /\ Holds(active[s])
    BY DEF TypeOK, ActiveTable
  <2> QED
    BY <2>1, WorkStays
<1> QED
  BY <1>1, ServiceStutter

(* A worker's step is a step of the server of one session, or none. *)
LEMMA WorkerServes ==
  ASSUME SInv, NEW w \in Workers, WorkerStep(w)
  PROVE  UNCHANGED Service!vars \/ \E s \in Sessions : Service!Serve(s)
<1>1. CASE Take(w)
  BY <1>1, TakeBegins DEF Service!Serve
<1>2. CASE Sleep(w) \/ Exit(w)
  <2>1. TypeOK /\ ActiveTable
    BY DEF SInv, IInv
  <2>2. /\ UNCHANGED <<pending, closing, active, job, stale>>
        /\ \A v \in Workers : Holds(v) => pc'[v] = pc[v]
    BY <1>2, <2>1 DEF Sleep, Exit, Holds, Holding, Requesting, TypeOK
  <2> QED
    BY <2>1, <2>2, Unnoticed
<1>3. CASE Execute(w) \/ BackendReturn(w) \/ Resume(w) \/ CallbackEnd(w)
  BY <1>3, HolderServes
<1>4. CASE Release(w)
  BY <1>4, ReleaseServes DEF Service!Serve
<1> QED
  BY <1>1, <1>2, <1>3, <1>4 DEF WorkerStep

(* Every step of the scheduler is a step of the service, or none. *)
LEMMA NextServes == SInv /\ [Next]_vars => [Service!Next]_(Service!vars)
<1> SUFFICES ASSUME SInv, [Next]_vars
             PROVE  Service!Next \/ UNCHANGED Service!vars
  OBVIOUS
<1>1. TypeOK /\ ActiveTable /\ Lifecycle
  BY DEF SInv, IInv
<1>2. CASE Start
  <2>1. /\ UNCHANGED <<pending, closing, active, job, stale>>
        /\ \A w \in Workers : Holds(w) => pc'[w] = pc[w]
    BY <1>1, <1>2 DEF Start, Lifecycle, Holds, Holding, Requesting, TypeOK
  <2> QED
    BY <1>1, <2>1, Unnoticed
<1>3. ASSUME NEW j \in Submissions, Submit(j) PROVE Service!Next
  <2>1. j \in Job /\ j.session \in Sessions
    BY JobAssumption DEF Job
  <2>2. Service!Accept(j.session)
    BY <1>3, <2>1, SubmitAccepts
  <2> QED
    BY <2>1, <2>2 DEF Service!Next
<1>4. ASSUME NEW s \in Sessions, CancelSession(s) PROVE Service!Next
  <2>1. KeepAt(pending[s], {}) = <<>>
    BY KeepAtNone
  <2>2. Service!Retire(s)
    BY <1>4, <2>1, Retires DEF CancelSession
  <2> QED
    BY <2>2 DEF Service!Next
<1>5. ASSUME NEW s \in Sessions, NEW segments \in SUBSET Segments, Invalidate(s, segments)
      PROVE  Service!Next
  <2> DEFINE kept == {k \in DOMAIN pending[s] : pending[s][k].segment \notin segments}
  <2>1. Filter(pending[s], LAMBDA e : e.segment \notin segments) = KeepAt(pending[s], kept)
    BY DEF Filter
  <2>2. kept \in SUBSET DOMAIN pending[s]
    OBVIOUS
  <2>3. {w \in ActiveOf(s) : job[w].segment \in segments} \subseteq ActiveOf(s)
    OBVIOUS
  <2> HIDE DEF kept
  <2>4. Service!Retire(s)
    BY <1>5, <2>1, <2>2, <2>3, Retires DEF Invalidate
  <2> QED
    BY <2>4 DEF Service!Next
<1>6. ASSUME NEW w \in Workers, WorkerStep(w)
      PROVE  Service!Next \/ UNCHANGED Service!vars
  BY <1>6, WorkerServes DEF Service!Next
<1>7. CASE Close
  BY <1>7, CloseShutsDown DEF Service!Next
<1>8. CASE Drained \/ DrainTimeout \/ UNCHANGED vars
  <2>1. UNCHANGED <<pending, closing, active, job, stale, pc>>
    BY <1>8 DEF Drained, DrainTimeout, vars, queueVars, workerVars
  <2> QED
    BY <1>1, <2>1, Unnoticed
<1> QED
  BY <1>2, <1>3, <1>4, <1>5, <1>6, <1>7, <1>8 DEF Next

(* The scheduler begins where the service begins. *)
LEMMA InitServes == Init => Service!Init
BY DEF Init, Service!Init, Service!Idle

(* Every behaviour of the scheduler is, seen through the mapping, one of   *)
(* the service: workers, ready queue and wake-ups change no session's      *)
(* order, deliver nothing void, and drop no final nobody gave up.          *)
THEOREM StepsOfTheService == Spec => Service!Init /\ [][Service!Next]_(Service!vars)
BY InitServes, NextServes, ServiceInvariant, PTL DEF Spec
=============================================================================
