---------------------- MODULE TranslationSessionProofs ----------------------
(***************************************************************************)
(* ContextIsCurrent and the safety part of UsesService, for any number of  *)
(* utterances and any limits.  Neither is inductive: that a job in work    *)
(* still has its segment, and that a session never has two jobs, rests on  *)
(* how the list of segments, _active_segment, the queue and the server of  *)
(* the session fit together, through rollbacks and new generations.        *)
(* The last part is about the script that streams to a session: what it    *)
(* reports as translated was, because its sequence numbers stay ahead of   *)
(* the session's and its knowledge behind what the session translated.     *)
(***************************************************************************)
EXTENDS TranslationSession, StreamingClient, DequesProofs, SequenceTheorems

(* The constants are counts. *)
Counts ==
  /\ MaxSegments \in Nat /\ MaxPendingPerSession \in Nat
  /\ MaxSegmentIds \in Nat /\ MaxGeneration \in Nat

Statuses == {"ready", "running", "complete", "failed"}
Segment == [id: SegmentIds, utterance: Utterances, final: BOOLEAN, status: Statuses,
            committed: BOOLEAN]
Source == [left: BOOLEAN, final: BOOLEAN, incomplete: BOOLEAN, torn: BOOLEAN]
Phases == {"working", "delivering", "answered", "void", "over"}
Idle == [phase |-> "idle", job |-> NoJob]
Work == [phase: Phases, job: Job] \cup {Idle}

(* The types of the variables. *)
TypeOK ==
  /\ attached \in BOOLEAN /\ closed \in BOOLEAN /\ generation \in 0 .. MaxGeneration
  /\ known \in Seq(Utterances) /\ src \in [Utterances -> Source]
  /\ segments \in Seq(Segment)
  /\ nextSegment \in 0 .. MaxSegmentIds /\ active \in 0 .. MaxSegmentIds
  /\ armed \in SUBSET Utterances /\ commits \in SUBSET SegmentIds
  /\ queue \in Seq(Job) /\ serving \in Work

(* Segments are numbered in order, up to the last number given. *)
Increasing(segs, top) ==
  /\ \A k \in DOMAIN segs : segs[k].id <= top
  /\ \A i, k \in DOMAIN segs : i < k => segs[i].id < segs[k].id

(* The active segment is retained and running, and no other one runs. *)
OneRuns(segs, act) ==
  /\ \A k \in DOMAIN segs : segs[k].status = "running" => segs[k].id = act
  /\ act # NoSegment => \E k \in DOMAIN segs : segs[k].id = act /\ segs[k].status = "running"

Segmented(segs, act, top) ==
  segs \in Seq(Segment) /\ Increasing(segs, top) /\ OneRuns(segs, act)

(* The segment of j is retained, after those its context was made from. *)
Done(segs, k) == {segs[i].id : i \in {n \in 1 .. (k - 1) : segs[n].status = "complete"}}
Made(segs, j) == \E k \in DOMAIN segs : segs[k].id = j.segment /\ j.context \subseteq Done(segs, k)

Gone(segs, id) == \A k \in DOMAIN segs : segs[k].id # id

Wanted(j, act, gen) == j.segment = act /\ j.generation = gen
InWork(w) == w.phase \in {"working", "delivering"}

(* At most one job waits: that of the active segment, which no other is    *)
(* being worked on for.                                                    *)
Queued(segs, act, gen, q, w) ==
  /\ Len(q) <= 1
  /\ \A i \in DOMAIN q : Wanted(q[i], act, gen) /\ Made(segs, q[i])
  /\ q # <<>> /\ InWork(w) => ~Wanted(w.job, act, gen)

(* The job in work is that of the active segment, or its result will be    *)
(* discarded: its generation is over or its segment was rolled back.       *)
InHand(segs, act, gen, w, top) ==
  /\ w.job.segment <= top /\ w.job.generation <= gen
  /\ w.phase = "working" => Wanted(w.job, act, gen)
  /\ InWork(w) /\ w.job.generation = gen =>
       \/ Wanted(w.job, act, gen) /\ Made(segs, w.job)
       \/ Gone(segs, w.job.segment)

Served(segs, act, gen, q, w, top) ==
  Queued(segs, act, gen, q, w) /\ InHand(segs, act, gen, w, top)

SessionInv ==
  /\ TypeOK
  /\ Segmented(segments, active, nextSegment)
  /\ Served(segments, active, generation, queue, serving, nextSegment)

-----------------------------------------------------------------------------
(* A job in work or waiting has a segment. *)
LEMMA JobFacts ==
  /\ \A j \in Job : j.segment \in Nat /\ j.segment # NoSegment /\ j.generation \in Int
                    /\ j.context \in SUBSET SegmentIds
  /\ \A w \in Work : /\ w.phase \in Phases \cup {"idle"}
                     /\ w.phase \in Phases => w.job \in Job
                     /\ w.phase = "idle" => w = Idle
                     /\ w.job.segment \in Nat /\ w.job.generation \in Int
  BY DEF Job, Work, Phases, Idle, NoJob, NoSegment, SegmentIds

(* The fields of a segment. *)
LEMMA SegmentFacts ==
  \A s \in Segment : s.id \in Nat /\ s.id # NoSegment /\ s.id \in SegmentIds /\ s.final \in BOOLEAN
                     /\ s.status \in Statuses
  BY DEF Segment, NoSegment, SegmentIds

(* A job stays well made while the segments up to its own keep their       *)
(* numbers and their translations.                                         *)
LEMMA MadeStays ==
  ASSUME NEW segs \in Seq(Segment), NEW new \in Seq(Segment), NEW j, NEW n \in Nat,
         Made(segs, j), n <= Len(segs), n <= Len(new),
         \A i \in 1 .. n : new[i].id = segs[i].id
                           /\ (segs[i].status = "complete" => new[i].status = "complete"),
         \A i \in DOMAIN segs : segs[i].id = j.segment => i <= n
  PROVE  Made(new, j)
<1>1. PICK k \in DOMAIN segs : segs[k].id = j.segment /\ j.context \subseteq Done(segs, k)
  BY DEF Made
<1>2. k \in 1 .. n /\ k \in DOMAIN new
  BY <1>1
<1>3. Done(segs, k) \subseteq Done(new, k)
  <2> SUFFICES ASSUME NEW i \in 1 .. (k - 1), segs[i].status = "complete"
               PROVE  segs[i].id \in Done(new, k)
    BY DEF Done
  <2>1. i \in 1 .. n
    BY <1>2
  <2> QED
    BY <2>1 DEF Done
<1> QED
  BY <1>1, <1>2, <1>3 DEF Made

(* Two lists of segments that differ in what is committed, and in which    *)
(* failed segments are ready again, serve the same jobs.                   *)
Alike(segs, new) ==
  /\ Len(new) = Len(segs)
  /\ \A k \in DOMAIN segs :
       /\ new[k].id = segs[k].id
       /\ segs[k].status = "complete" <=> new[k].status = "complete"
       /\ segs[k].status = "running" <=> new[k].status = "running"

(* The list of segments may be replaced by one like it. *)
LEMMA AlikeServes ==
  ASSUME NEW segs \in Seq(Segment), NEW new \in Seq(Segment), Alike(segs, new),
         NEW act, NEW gen, NEW q, NEW w, NEW top
  PROVE  /\ Segmented(segs, act, top) => Segmented(new, act, top)
         /\ Served(segs, act, gen, q, w, top) => Served(new, act, gen, q, w, top)
<1>1. DOMAIN new = DOMAIN segs /\ Len(segs) \in Nat /\ DOMAIN segs = 1 .. Len(segs)
  BY DEF Alike
<1>2. \A j : Made(segs, j) => Made(new, j)
  <2> SUFFICES ASSUME NEW j, Made(segs, j) PROVE Made(new, j)
    OBVIOUS
  <2>1. \A i \in 1 .. Len(segs) : new[i].id = segs[i].id
                           /\ (segs[i].status = "complete" => new[i].status = "complete")
    BY <1>1 DEF Alike
  <2>2. \A i \in DOMAIN segs : segs[i].id = j.segment => i <= Len(segs)
    BY <1>1
  <2> QED
    BY <1>1, <2>1, <2>2, MadeStays DEF Alike
<1>3. \A id : Gone(segs, id) => Gone(new, id)
  BY <1>1 DEF Gone, Alike
<1>4. Segmented(segs, act, top) => Segmented(new, act, top)
  BY <1>1 DEF Segmented, Increasing, OneRuns, Alike
<1>5. Served(segs, act, gen, q, w, top) => Served(new, act, gen, q, w, top)
  BY <1>2, <1>3 DEF Served, Queued, InHand
<1> QED
  BY <1>4, <1>5

(* _commit changes no number and no status. *)
LEMMA CommittedAlike ==
  ASSUME NEW segs \in Seq(Segment), NEW due
  PROVE  Committed(segs, due) \in Seq(Segment) /\ Alike(segs, Committed(segs, due))
<1> DEFINE new == Committed(segs, due)
<1>1. \A k \in DOMAIN segs :
        LET s == IF k \in due THEN [segs[k] EXCEPT !.committed = TRUE] ELSE segs[k]
        IN  s \in Segment /\ s.id = segs[k].id /\ s.status = segs[k].status
  <2> TAKE k \in DOMAIN segs
  <2>1. segs[k] \in Segment
    OBVIOUS
  <2>2. \A s \in Segment : /\ [s EXCEPT !.committed = TRUE] \in Segment
                           /\ [s EXCEPT !.committed = TRUE].id = s.id
                           /\ [s EXCEPT !.committed = TRUE].status = s.status
    BY DEF Segment
  <2> QED
    BY <2>1, <2>2
<1>2. Len(segs) \in Nat /\ DOMAIN segs = 1 .. Len(segs)
  OBVIOUS
<1>3. new \in [1 .. Len(segs) -> Segment]
  BY <1>1, <1>2 DEF Committed
<1>4. \A k \in DOMAIN segs : new[k].id = segs[k].id /\ new[k].status = segs[k].status
  BY <1>1, <1>2 DEF Committed
<1> HIDE DEF new
<1>5. new \in Seq(Segment) /\ Len(new) = Len(segs)
  BY <1>2, <1>3
<1>6. Alike(segs, new)
  BY <1>4, <1>5 DEF Alike
<1> QED
  BY <1>5, <1>6 DEF new

-----------------------------------------------------------------------------
(* _dispatch_next takes one of the ready segments, the first.              *)
LEMMA FirstReady ==
  ASSUME NEW segs \in Seq(Segment), Ready(segs) # {}
  PROVE  Min(Ready(segs)) \in DOMAIN segs /\ segs[Min(Ready(segs))].status = "ready"
<1>1. Ready(segs) \in SUBSET Nat
  BY DEF Ready
<1>2. \E m \in Ready(segs) : \A k \in Ready(segs) : m <= k
  BY <1>1, LeastNatural
<1>3. Min(Ready(segs)) \in Ready(segs)
  BY <1>2 DEF Min
<1> QED
  BY <1>3 DEF Ready

(* Its context is made of translated segments before it.                   *)
LEMMA JobIsMade ==
  ASSUME NEW segs \in Seq(Segment), NEW k \in DOMAIN segs, generation \in 0 .. MaxGeneration
  PROVE  JobOf(segs, k) \in Job /\ JobOf(segs, k).segment = segs[k].id
         /\ JobOf(segs, k).generation = generation
         /\ JobOf(segs, k).context \subseteq Done(segs, k)
<1>1. ContextOf(segs, k) \subseteq Done(segs, k)
  BY DEF ContextOf, Done
<1>2. Done(segs, k) \in SUBSET SegmentIds
  <2> SUFFICES ASSUME NEW i \in 1 .. (k - 1) PROVE segs[i].id \in SegmentIds
    BY DEF Done
  <2>1. segs[i] \in Segment
    OBVIOUS
  <2> QED
    BY <2>1, SegmentFacts
<1>3. segs[k].id \in SegmentIds /\ segs[k].final \in BOOLEAN
  BY SegmentFacts
<1>4. ContextOf(segs, k) \in SUBSET SegmentIds
  BY <1>1, <1>2
<1>5. JobOf(segs, k) \in Job
  BY <1>3, <1>4 DEF JobOf, Job
<1> QED
  BY <1>1, <1>5 DEF JobOf

(* The segment submitted runs; nothing else changes in the list.           *)
LEMMA StartedIs ==
  ASSUME NEW segs \in Seq(Segment), NEW k \in DOMAIN segs
  PROVE  LET new == [segs EXCEPT ![k].status = "running"]
         IN  /\ new \in Seq(Segment) /\ Len(new) = Len(segs)
             /\ \A i \in DOMAIN segs : new[i].id = segs[i].id
             /\ \A i \in DOMAIN segs : i # k => new[i] = segs[i]
             /\ new[k].status = "running"
<1> DEFINE new == [segs EXCEPT ![k].status = "running"]
           s == [segs[k] EXCEPT !.status = "running"]
<1>1. segs[k] \in Segment
  OBVIOUS
<1>2. s \in Segment /\ s.id = segs[k].id /\ s.status = "running"
  BY <1>1 DEF Segment, Statuses
<1> HIDE DEF s
<1>3. new = [segs EXCEPT ![k] = s]
  BY DEF s
<1>4. new \in Seq(Segment) /\ Len(new) = Len(segs)
      /\ \A i \in DOMAIN segs : new[i] = IF i = k THEN s ELSE segs[i]
  BY <1>2, <1>3
<1> QED
  BY <1>2, <1>4

(* _dispatch_next keeps the segments and the jobs in order, once they are  *)
(* those of the new list segs, the active segment act and the server w.    *)
LEMMA DispatchKeeps ==
  ASSUME Counts, NEW segs, NEW act \in 0 .. MaxSegmentIds, NEW timers, NEW w \in Work,
         NEW top \in 0 .. MaxSegmentIds,
         generation \in 0 .. MaxGeneration, queue \in Seq(Job),
         Segmented(segs, act, top), Served(segs, act, generation, queue, w, top),
         DispatchNext(segs, act, timers)
  PROVE  /\ segments' \in Seq(Segment) /\ queue' \in Seq(Job) /\ active' \in 0 .. MaxSegmentIds
         /\ Segmented(segments', active', top)
         /\ Served(segments', active', generation, queue', w, top)
<1>0. segs \in Seq(Segment) /\ NoSegment \in 0 .. MaxSegmentIds /\ MaxSegmentIds \in Nat
  BY DEF Segmented, Counts, NoSegment
<1>1. CASE segments' = segs /\ active' = act /\ queue' = queue
  BY <1>0, <1>1
<1>2. CASE act = NoSegment /\ Overflow(segs, timers)
  BY <1>0, <1>2 DEF Overflow
<1>3. CASE act = NoSegment /\ Ready(segs) # {} /\ Submitted(segs, timers)
  <2>1. PICK k \in DOMAIN segs : k = Min(Ready(segs)) /\ segs[k].status = "ready"
    BY <1>0, <1>3, FirstReady
  <2>2. PICK j \in Job : /\ j = JobOf(segs, k) /\ j.segment = segs[k].id
                         /\ j.generation = generation /\ j.context \subseteq Done(segs, k)
    BY <1>0, JobIsMade
  <2>3. /\ segments' = [segs EXCEPT ![k].status = "running"]
        /\ active' = segs[k].id /\ queue' = Append(queue, j)
    BY <1>3, <2>1, <2>2 DEF Submitted
  <2>4. /\ segments' \in Seq(Segment) /\ Len(segments') = Len(segs)
        /\ \A i \in DOMAIN segs : segments'[i].id = segs[i].id
        /\ \A i \in DOMAIN segs : i # k => segments'[i] = segs[i]
        /\ segments'[k].status = "running"
    BY <1>0, <2>3, StartedIs
  <2>5. DOMAIN segments' = DOMAIN segs
    BY <1>0, <2>4
  <2>6. segs[k].id \in SegmentIds /\ segs[k].id # NoSegment
    BY <1>0, SegmentFacts
  <2>7. active' \in 0 .. MaxSegmentIds /\ active' # NoSegment
    BY <1>0, <2>3, <2>6 DEF SegmentIds
  <2>8. queue = <<>>
    <3> SUFFICES ASSUME queue # <<>> PROVE FALSE
      OBVIOUS
    <3>1. 1 \in DOMAIN queue /\ queue[1] \in Job
      OBVIOUS
    <3>2. queue[1].segment = act
      BY <3>1 DEF Served, Queued, Wanted
    <3> QED
      BY <1>3, <3>1, <3>2, JobFacts
  <2>9. queue' = <<j>> /\ queue' \in Seq(Job)
    BY <2>3, <2>8
  <2>10. \A i \in DOMAIN segs : segs[i].status # "running"
    <3> SUFFICES ASSUME NEW i \in DOMAIN segs, segs[i].status = "running" PROVE FALSE
      OBVIOUS
    <3>1. segs[i].id = act
      BY DEF Segmented, OneRuns
    <3>2. segs[i] \in Segment
      BY <1>0
    <3> QED
      BY <1>3, <3>1, <3>2, SegmentFacts
  <2>11. Segmented(segments', active', top)
    <3>1. Increasing(segments', top)
      BY <2>4, <2>5 DEF Segmented, Increasing
    <3>2. OneRuns(segments', active')
      BY <2>3, <2>4, <2>5, <2>10 DEF OneRuns
    <3> QED
      BY <2>4, <3>1, <3>2 DEF Segmented
  <2>12. Made(segments', j)
    <3>1. Done(segs, k) \subseteq Done(segments', k)
      <4> SUFFICES ASSUME NEW i \in 1 .. (k - 1), segs[i].status = "complete"
                   PROVE  segs[i].id \in Done(segments', k)
        BY DEF Done
      <4>1. i \in DOMAIN segs /\ i # k
        BY <1>0
      <4>2. segments'[i] = segs[i]
        BY <2>4, <4>1
      <4> QED
        BY <4>2 DEF Done
    <3> QED
      BY <2>2, <2>4, <2>5, <3>1 DEF Made
  <2>13. InWork(w) => ~Wanted(w.job, act, generation) /\ w.phase # "working"
    <3> SUFFICES ASSUME InWork(w) PROVE ~Wanted(w.job, act, generation) /\ w.phase # "working"
      OBVIOUS
    <3>1. w.job \in Job
      BY JobFacts DEF InWork, Phases
    <3>2. w.job.segment # act
      BY <1>3, <3>1, JobFacts
    <3> QED
      BY <3>2 DEF Wanted, Served, InHand
  <2>14. InWork(w) /\ w.job.generation = generation => Gone(segs, w.job.segment)
    BY <2>13 DEF Served, InHand
  <2>15. \A id : Gone(segs, id) => Gone(segments', id) /\ id # active'
    BY <2>3, <2>4, <2>5 DEF Gone
  <2>16. InHand(segments', active', generation, w, top)
    <3>1. w.job.segment <= top /\ w.job.generation <= generation
      BY DEF Served, InHand
    <3>2. w.phase # "working"
      BY <2>13 DEF InWork
    <3> QED
      BY <2>14, <2>15, <3>1, <3>2 DEF InHand
  <2>17. Queued(segments', active', generation, queue', w)
    <3>1. Wanted(j, active', generation)
      BY <2>2, <2>3 DEF Wanted
    <3>2. InWork(w) => ~Wanted(w.job, active', generation)
      BY <2>14, <2>15 DEF Wanted
    <3>3. Len(queue') = 1 /\ DOMAIN queue' = {1} /\ queue'[1] = j
      BY <2>9
    <3> QED
      BY <2>12, <3>1, <3>2, <3>3 DEF Queued
  <2> QED
    BY <2>4, <2>7, <2>9, <2>11, <2>16, <2>17 DEF Served
<1> QED
  BY <1>1, <1>2, <1>3 DEF DispatchNext

-----------------------------------------------------------------------------
(* The timers stay timers of utterances.                                   *)
LEMMA DispatchTimers ==
  ASSUME NEW segs \in Seq(Segment), NEW act, NEW timers \in SUBSET Utterances,
         armed \in SUBSET Utterances, DispatchNext(segs, act, timers)
  PROVE  armed' \in SUBSET Utterances
<1>1. CASE armed' = timers
  BY <1>1
<1>2. CASE Ready(segs) # {} /\ Overflow(segs, timers)
  <2>1. Min(Ready(segs)) \in DOMAIN segs
    BY <1>2, FirstReady
  <2>2. segs[Min(Ready(segs))] \in Segment
    BY <2>1
  <2>3. segs[Min(Ready(segs))].utterance \in Utterances
    BY <2>2 DEF Segment
  <2> QED
    BY <1>2, <2>3 DEF Overflow
<1> QED
  BY <1>1, <1>2 DEF DispatchNext, Submitted

(* A cancelled session has no job left that matters in the generation      *)
(* after the current one.                                                  *)
LEMMA CancelServes ==
  ASSUME SessionInv, CancelSession, NEW segs, NEW act
  PROVE  /\ queue' = <<>> /\ queue' \in Seq(Job) /\ serving' \in Work
         /\ Served(segs, act, generation + 1, queue', serving', nextSegment)
<1>1. serving \in Work /\ generation \in Int
  BY DEF SessionInv, TypeOK
<1>2. serving' \in Work /\ serving'.job = serving.job /\ serving'.phase # "working"
  <2>1. CASE serving.phase = "working"
    <3>1. serving \in [phase: Phases, job: Job]
      BY <1>1, <2>1 DEF Work, Idle
    <3>2. \A w \in [phase: Phases, job: Job] :
            /\ [w EXCEPT !.phase = "void"] \in [phase: Phases, job: Job]
            /\ [w EXCEPT !.phase = "void"].job = w.job
            /\ [w EXCEPT !.phase = "void"].phase = "void"
      BY DEF Phases
    <3>3. serving' = [serving EXCEPT !.phase = "void"]
      BY <2>1 DEF CancelSession, Voided
    <3> QED
      BY <3>1, <3>2, <3>3 DEF Work
  <2> QED
    BY <1>1, <2>1 DEF CancelSession, Voided
<1>3. serving.job.segment <= nextSegment /\ serving.job.generation <= generation
      /\ serving.job.generation \in Int
  BY <1>1, JobFacts DEF SessionInv, Served, InHand
<1>4. InHand(segs, act, generation + 1, serving', nextSegment)
  BY <1>1, <1>2, <1>3 DEF InHand
<1>5. queue' = <<>>
  BY DEF CancelSession
<1>6. Queued(segs, act, generation + 1, queue', serving')
  BY <1>5 DEF Queued
<1> QED
  BY <1>2, <1>4, <1>5, <1>6 DEF Served

(* Initially nothing is heard and nothing is asked for.                    *)
LEMMA InitSession == Counts /\ Init => SessionInv
<1> SUFFICES ASSUME Counts, Init PROVE SessionInv
  OBVIOUS
<1>1. src \in [Utterances -> Source]
  <2>1. Unheard \in Source
    BY DEF Unheard, Source
  <2> QED
    BY <2>1 DEF Init
<1>2. TypeOK
  <2>0. attached \in BOOLEAN /\ closed \in BOOLEAN
    BY Zenon DEF Init
  <2>1. /\ generation \in 0 .. MaxGeneration
        /\ nextSegment \in 0 .. MaxSegmentIds /\ active \in 0 .. MaxSegmentIds
    <3>1. generation = 0 /\ nextSegment = 0 /\ active = 0
      BY Zenon DEF Init, NoSegment
    <3> QED
      BY <3>1 DEF Counts
  <2>2. known \in Seq(Utterances) /\ segments \in Seq(Segment) /\ queue \in Seq(Job)
    BY DEF Init
  <2>3. armed \in SUBSET Utterances /\ commits \in SUBSET SegmentIds
    BY DEF Init
  <2>4. serving \in Work
    BY DEF Init, Work, Idle
  <2> QED
    BY <1>1, <2>0, <2>1, <2>2, <2>3, <2>4 DEF TypeOK
<1>3. Segmented(segments, active, nextSegment)
  BY DEF Init, Segmented, Increasing, OneRuns, NoSegment
<1>4. Served(segments, active, generation, queue, serving, nextSegment)
  BY DEF Init, Served, Queued, InHand, InWork, NoJob, NoSegment
<1> QED
  BY <1>2, <1>3, <1>4 DEF SessionInv

(* attach commits drafts and dispatches. *)
LEMMA AttachKeeps == Counts /\ SessionInv /\ Attach => SessionInv'
<1> SUFFICES ASSUME Counts, SessionInv, Attach PROVE SessionInv'
  OBVIOUS
<1>0. /\ TypeOK /\ Segmented(segments, active, nextSegment)
      /\ Served(segments, active, generation, queue, serving, nextSegment)
  BY DEF SessionInv
<1>1. PICK due \in SUBSET Drafts(segments) :
        /\ DispatchNext(Committed(segments, due), active, Range(known))
        /\ commits' = {segments[k].id : k \in Drafts(segments) \ due}
  BY DEF Attach
<1>2. PICK segs : segs = Committed(segments, due)
  OBVIOUS
<1>3. segs \in Seq(Segment) /\ Alike(segments, segs)
  BY <1>0, <1>2, CommittedAlike DEF TypeOK
<1>4. /\ Segmented(segs, active, nextSegment)
      /\ Served(segs, active, generation, queue, serving, nextSegment)
  BY <1>0, <1>3, AlikeServes DEF TypeOK
<1>5. Range(known) \in SUBSET Utterances
  BY <1>0 DEF TypeOK, Range
<1>6. /\ segments' \in Seq(Segment) /\ queue' \in Seq(Job) /\ active' \in 0 .. MaxSegmentIds
      /\ Segmented(segments', active', nextSegment)
      /\ Served(segments', active', generation, queue', serving, nextSegment)
  BY <1>0, <1>1, <1>2, <1>4, DispatchKeeps DEF TypeOK
<1>7. armed' \in SUBSET Utterances
  BY <1>0, <1>1, <1>2, <1>3, <1>5, DispatchTimers DEF TypeOK
<1>8. commits' \in SUBSET SegmentIds
  <2>1. \A k \in Drafts(segments) : segments[k].id \in SegmentIds
    BY <1>0, SegmentFacts DEF TypeOK, Drafts
  <2> QED
    BY <1>1, <2>1
<1> QED
  BY <1>0, <1>6, <1>7, <1>8 DEF SessionInv, TypeOK, Attach

(* detach makes the running segment ready again, for another generation. *)
LEMMA DetachKeeps == Counts /\ SessionInv /\ Detach => SessionInv'
<1> SUFFICES ASSUME Counts, SessionInv, Detach PROVE SessionInv'
  OBVIOUS
<1>0. TypeOK /\ Segmented(segments, active, nextSegment)
  BY DEF SessionInv
<1>1. Len(segments) \in Nat /\ DOMAIN segments = 1 .. Len(segments)
  BY <1>0 DEF TypeOK
<1>2. \A s \in Segment : /\ [s EXCEPT !.status = "ready"] \in Segment
                         /\ [s EXCEPT !.status = "ready"].id = s.id
                         /\ [s EXCEPT !.status = "ready"].status = "ready"
  BY DEF Segment, Statuses
<1>3. segments' \in [1 .. Len(segments) -> Segment]
  BY <1>0, <1>1, <1>2 DEF Detach, TypeOK
<1>4. \A k \in DOMAIN segments : segments'[k].id = segments[k].id /\ segments'[k].status # "running"
  BY <1>0, <1>1, <1>2 DEF Detach, TypeOK
<1>5. segments' \in Seq(Segment) /\ DOMAIN segments' = DOMAIN segments
  BY <1>1, <1>3
<1>6. Segmented(segments', active', nextSegment)
  BY <1>0, <1>4, <1>5 DEF Segmented, Increasing, OneRuns, Detach
<1>7. /\ queue' \in Seq(Job) /\ serving' \in Work
      /\ Served(segments', active', generation + 1, queue', serving', nextSegment)
  BY CancelServes DEF Detach
<1>8. generation + 1 \in 0 .. MaxGeneration /\ NoSegment \in 0 .. MaxSegmentIds
  BY <1>0 DEF Detach, TypeOK, Counts, NoSegment
<1> QED
  BY <1>0, <1>5, <1>6, <1>7, <1>8 DEF SessionInv, TypeOK, Detach

(* reset forgets every segment. *)
LEMMA ResetKeeps == Counts /\ SessionInv /\ Reset => SessionInv'
<1> SUFFICES ASSUME Counts, SessionInv, Reset PROVE SessionInv'
  OBVIOUS
<1>0. TypeOK
  BY DEF SessionInv
<1>1. Segmented(segments', active', nextSegment)
  BY DEF Reset, Segmented, Increasing, OneRuns
<1>2. /\ queue' \in Seq(Job) /\ serving' \in Work
      /\ Served(segments', active', generation + 1, queue', serving', nextSegment)
  BY CancelServes DEF Reset
<1>3. generation + 1 \in 0 .. MaxGeneration /\ NoSegment \in 0 .. MaxSegmentIds
  BY <1>0 DEF Reset, TypeOK, Counts, NoSegment
<1>4. src' \in [Utterances -> Source]
  <2>1. Unheard \in Source
    BY DEF Unheard, Source
  <2> QED
    BY <2>1 DEF Reset
<1>5. segments' \in Seq(Segment) /\ known' \in Seq(Utterances)
  BY DEF Reset
<1> QED
  BY <1>0, <1>1, <1>2, <1>3, <1>4, <1>5 DEF SessionInv, TypeOK, Reset

(* close keeps the segments, and ends the generation.                      *)
LEMMA CloseKeeps == Counts /\ SessionInv /\ Close => SessionInv'
<1> SUFFICES ASSUME Counts, SessionInv, Close PROVE SessionInv'
  OBVIOUS
<1>0. TypeOK /\ Segmented(segments, active, nextSegment)
  BY DEF SessionInv
<1>1. /\ queue' \in Seq(Job) /\ serving' \in Work
      /\ Served(segments, active, generation + 1, queue', serving', nextSegment)
  BY CancelServes DEF Close
<1>2. generation + 1 \in 0 .. MaxGeneration
  BY <1>0 DEF Close, TypeOK, Counts
<1> QED
  BY <1>0, <1>1, <1>2 DEF SessionInv, TypeOK, Close

(* The commit timer commits a draft. *)
LEMMA CommitTimerKeeps ==
  ASSUME NEW id \in SegmentIds, SessionInv, CommitTimer(id)
  PROVE  SessionInv'
<1>0. /\ TypeOK /\ Segmented(segments, active, nextSegment)
      /\ Served(segments, active, generation, queue, serving, nextSegment)
  BY DEF SessionInv
<1>1. segments' \in Seq(Segment) /\ Alike(segments, segments')
  BY <1>0, CommittedAlike DEF CommitTimer, TypeOK
<1>2. /\ Segmented(segments', active, nextSegment)
      /\ Served(segments', active, generation, queue, serving, nextSegment)
  BY <1>0, <1>1, AlikeServes DEF TypeOK
<1> QED
  BY <1>0, <1>1, <1>2 DEF SessionInv, TypeOK, CommitTimer

(* A result that is no longer wanted, or has been applied, ends the work.  *)
LEMMA AnsweredIs ==
  ASSUME serving \in Work, serving.phase # "idle", NEW to \in {"delivering", "answered", "over"},
         NEW w, w = [serving EXCEPT !.phase = to]
  PROVE  w \in [phase: Phases, job: Job] /\ w.phase = to /\ w.job = serving.job
<1>1. serving \in [phase: Phases, job: Job]
  BY DEF Work, Idle
<1>2. \A x \in [phase: Phases, job: Job] :
        /\ [x EXCEPT !.phase = to] \in [phase: Phases, job: Job]
        /\ [x EXCEPT !.phase = to].phase = to /\ [x EXCEPT !.phase = to].job = x.job
  BY DEF Phases
<1> QED
  BY <1>1, <1>2

(* The result of a job that is not current changes nothing else. *)
LEMMA DiscardKeeps == SessionInv /\ ResultDiscarded => SessionInv'
<1> SUFFICES ASSUME SessionInv, ResultDiscarded PROVE SessionInv'
  OBVIOUS
<1>0. /\ TypeOK /\ Segmented(segments, active, nextSegment)
      /\ Served(segments, active, generation, queue, serving, nextSegment)
  BY DEF SessionInv
<1>1. serving' \in Work /\ serving'.phase = "answered" /\ serving'.job = serving.job
  BY <1>0, AnsweredIs DEF ResultDiscarded, Answered, TypeOK, Work
<1>2. Served(segments, active, generation, queue, serving', nextSegment)
  BY <1>0, <1>1 DEF Served, Queued, InHand, InWork
<1> QED
  BY <1>0, <1>1, <1>2 DEF SessionInv, TypeOK, ResultDiscarded

(* The steps of the server: it begins the job of the active segment, and   *)
(* goes on with the one it has.                                            *)
LEMMA ServerKeeps == SessionInv /\ SchedulerStep => SessionInv'
<1> SUFFICES ASSUME SessionInv, SchedulerStep PROVE SessionInv'
  OBVIOUS
<1>0. /\ TypeOK /\ Segmented(segments, active, nextSegment)
      /\ Served(segments, active, generation, queue, serving, nextSegment)
      /\ serving \in Work /\ queue \in Seq(Job)
  BY DEF SessionInv, TypeOK
<1>1. CASE Begin
  <2>1. PICK j \in Job : j = Head(queue) /\ j = queue[1] /\ queue # <<>> /\ 1 \in DOMAIN queue
    BY <1>0, <1>1 DEF Begin
  <2>2. Wanted(j, active, generation) /\ Made(segments, j) /\ Len(queue) = 1
    <3>1. Wanted(queue[1], active, generation) /\ Made(segments, queue[1])
      BY <1>0, <2>1, Zenon DEF Served, Queued
    <3>2. Len(queue) <= 1
      BY <1>0, Zenon DEF Served, Queued
    <3>3. Len(queue) \in Nat /\ DOMAIN queue = 1 .. Len(queue)
      BY <1>0
    <3>4. Len(queue) = 1
      BY <2>1, <3>2, <3>3
    <3> QED
      BY <2>1, <3>1, <3>4
  <2>3. queue' = <<>> /\ queue' \in Seq(Job)
    BY <1>0, <1>1, <2>2 DEF Begin
  <2>4. serving' \in [phase: Phases, job: Job] /\ serving'.job = j /\ serving'.phase = "working"
    BY <1>1, <2>1 DEF Begin, Phases
  <2>5. j.segment <= nextSegment
    BY <1>0, <2>2 DEF Made, Segmented, Increasing
  <2>6. j.generation <= generation
    BY <1>0, <2>2 DEF Wanted, TypeOK
  <2>7. Served(segments, active, generation, queue', serving', nextSegment)
    BY <2>2, <2>3, <2>4, <2>5, <2>6 DEF Served, Queued, InHand
  <2> QED
    BY <1>0, <1>1, <2>3, <2>4, <2>7 DEF SessionInv, TypeOK, Work, Begin, timerVars
<1>2. CASE BecomeIdle
  <2>1. serving' = Idle /\ serving' \in Work
    BY <1>2 DEF BecomeIdle, Idle, Work
  <2>2. serving'.phase = "idle" /\ serving'.job.segment = 0 /\ serving'.job.generation = 0
    BY <2>1 DEF Idle, NoJob, NoSegment
  <2>3. Served(segments, active, generation, queue, serving', nextSegment)
    BY <1>0, <2>2 DEF Served, Queued, InHand, InWork, TypeOK
  <2> QED
    BY <1>0, <1>2, <2>1, <2>3 DEF SessionInv, TypeOK, BecomeIdle, timerVars
<1>3. ASSUME NEW from \in {"working", "answered", "void"}, NEW to \in {"delivering", "over"},
             Serve(from, to), to = "delivering" => from = "working"
      PROVE  SessionInv'
  <2>1. /\ serving' \in Work /\ serving'.phase = to /\ serving'.job = serving.job
    BY <1>0, <1>3, AnsweredIs DEF Serve, Work
  <2>2. InWork(serving') => InWork(serving)
    BY <1>3, <2>1 DEF InWork, Serve
  <2>3. Served(segments, active, generation, queue, serving', nextSegment)
    BY <1>0, <2>1, <2>2 DEF Served, Queued, InHand
  <2> QED
    BY <1>0, <1>3, <2>1, <2>3 DEF SessionInv, TypeOK, Serve, timerVars
<1> QED
  BY <1>1, <1>2, <1>3 DEF SchedulerStep

(* A translation is taken as that of the active segment, which then rests; *)
(* the next ready one may be dispatched at once.                           *)
LEMMA ApplyKeeps ==
  ASSUME Counts, SessionInv, NEW outcome, ResultApplied(outcome)
  PROVE  SessionInv'
<1>0. /\ TypeOK /\ Segmented(segments, active, nextSegment)
      /\ Served(segments, active, generation, queue, serving, nextSegment)
      /\ serving \in Work /\ queue \in Seq(Job) /\ segments \in Seq(Segment)
  BY DEF SessionInv, TypeOK
<1>1. PICK id : id = serving.job.segment
  OBVIOUS
<1>2. PICK st \in {"failed", "complete"} :
        st = IF outcome = "failed" THEN "failed" ELSE "complete"
  OBVIOUS
<1>3. PICK done \in BOOLEAN : done = (outcome = "committed")
  BY Zenon
<1>4. PICK segs : segs = [k \in DOMAIN segments |->
        IF segments[k].id # id THEN segments[k]
        ELSE [segments[k] EXCEPT !.status = st, !.committed = done]]
  OBVIOUS
<1>5. PICK timers : timers = armed \cup {u \in Range(known) : src[u].left /\ ~src[u].incomplete}
  OBVIOUS
<1>6. DispatchNext(segs, NoSegment, timers)
  <2>1. segs = [k \in DOMAIN segments |->
           IF segments[k].id # serving.job.segment THEN segments[k]
           ELSE [segments[k] EXCEPT !.status = IF outcome = "failed" THEN "failed" ELSE "complete",
                                    !.committed = outcome = "committed"]]
    BY <1>1, <1>2, <1>3, <1>4, Zenon
  <2> QED
    BY <1>5, <2>1, Zenon DEF ResultApplied
<1>7. /\ serving.phase = "delivering" /\ Current(serving.job)
      /\ serving' = [serving EXCEPT !.phase = "answered"]
  BY DEF ResultApplied, Answered
<1>8. serving' \in Work /\ serving'.phase = "answered" /\ serving'.job = serving.job
      /\ serving.job \in Job
  BY <1>0, <1>7, AnsweredIs DEF Work, Idle
<1>9. id = active /\ serving.job.generation = generation /\ id \in SegmentIds
  BY <1>1, <1>7, <1>8 DEF Current, Job
<1>10. /\ segs \in Seq(Segment) /\ Len(segs) = Len(segments) /\ DOMAIN segs = DOMAIN segments
       /\ \A k \in DOMAIN segments :
            /\ segs[k].id = segments[k].id
            /\ segments[k].id # id => segs[k].status = segments[k].status
            /\ segments[k].id = id => segs[k].status # "running"
  <2>1. Len(segments) \in Nat /\ DOMAIN segments = 1 .. Len(segments)
    BY <1>0
  <2>2. ASSUME NEW s \in Segment
        PROVE  /\ [s EXCEPT !.status = st, !.committed = done] \in Segment
               /\ [s EXCEPT !.status = st, !.committed = done].id = s.id
               /\ [s EXCEPT !.status = st, !.committed = done].status = st
    BY DEF Segment, Statuses
  <2>3. ASSUME NEW k \in DOMAIN segments
        PROVE  /\ segs[k] \in Segment /\ segs[k].id = segments[k].id
               /\ segments[k].id # id => segs[k].status = segments[k].status
               /\ segments[k].id = id => segs[k].status # "running"
    <3>1. segments[k] \in Segment
      BY <1>0
    <3>2. PICK s : s = [segments[k] EXCEPT !.status = st, !.committed = done]
      OBVIOUS
    <3>3. s \in Segment /\ s.id = segments[k].id /\ s.status = st
      BY <2>2, <3>1, <3>2, Zenon
    <3>4. segs[k] = IF segments[k].id # id THEN segments[k] ELSE s
      BY <1>4, <3>2, Zenon
    <3> QED
      BY <3>1, <3>3, <3>4
  <2>4. segs \in [1 .. Len(segments) -> Segment]
    <3>1. segs = [k \in DOMAIN segments |-> segs[k]]
      BY <1>4, Zenon
    <3> QED
      BY <2>1, <2>3, <3>1
  <2> QED
    BY <2>1, <2>3, <2>4
<1>11. Segmented(segs, NoSegment, nextSegment)
  <2>1. Increasing(segs, nextSegment)
    BY <1>0, <1>10 DEF Segmented, Increasing
  <2>2. OneRuns(segs, NoSegment)
    BY <1>0, <1>9, <1>10 DEF Segmented, OneRuns
  <2> QED
    BY <1>10, <2>1, <2>2 DEF Segmented
<1>12. queue = <<>>
  <2> SUFFICES ASSUME queue # <<>> PROVE FALSE
    OBVIOUS
  <2>1. ~Wanted(serving.job, active, generation)
    BY <1>0, <1>7 DEF Served, Queued, InWork
  <2> QED
    BY <1>1, <1>9, <2>1 DEF Wanted
<1>13. Served(segs, NoSegment, generation, queue, serving', nextSegment)
  BY <1>0, <1>8, <1>12 DEF Served, Queued, InHand, InWork
<1>14. /\ segments' \in Seq(Segment) /\ queue' \in Seq(Job) /\ active' \in 0 .. MaxSegmentIds
       /\ Segmented(segments', active', nextSegment)
       /\ Served(segments', active', generation, queue', serving', nextSegment)
  <2>1. NoSegment \in 0 .. MaxSegmentIds
    BY DEF NoSegment, Counts
  <2> QED
    BY <1>0, <1>6, <1>8, <1>11, <1>13, <2>1, DispatchKeeps DEF TypeOK
<1>15. armed' \in SUBSET Utterances
  <2>1. timers \in SUBSET Utterances
    BY <1>0, <1>5 DEF TypeOK, Range
  <2> QED
    BY <1>0, <1>6, <1>10, <2>1, DispatchTimers DEF TypeOK
<1>16. commits' \in SUBSET SegmentIds
  BY <1>0, <1>1, <1>9 DEF ResultApplied, TypeOK
<1> QED
  BY <1>0, <1>8, <1>14, <1>15, <1>16 DEF SessionInv, TypeOK, ResultApplied

-----------------------------------------------------------------------------
(* What ingest makes of the segments it keeps.                             *)
LEMMA ConfirmedAlike ==
  ASSUME segments \in Seq(Segment), NEW n \in 0 .. Len(segments), NEW u, NEW isFinal, NEW due
  PROVE  /\ Confirmed(u, isFinal, n + 1, due) \in Seq(Segment)
         /\ Alike(SubSeq(segments, 1, n), Confirmed(u, isFinal, n + 1, due))
<1>1. PICK old : old = SubSeq(segments, 1, n)
  OBVIOUS
<1>2. PICK kept : kept = Committed(old, due)
  OBVIOUS
<1>3. PICK new : new = Confirmed(u, isFinal, n + 1, due)
  OBVIOUS
<1>4. old \in Seq(Segment)
  BY <1>1
<1>5. kept \in Seq(Segment) /\ Alike(old, kept)
  BY <1>2, <1>4, CommittedAlike
<1>6. new = [k \in DOMAIN kept |->
         IF isFinal /\ kept[k].utterance = u /\ kept[k].status = "failed"
         THEN [kept[k] EXCEPT !.status = "ready"] ELSE kept[k]]
  <2>1. (n + 1) - 1 = n
    OBVIOUS
  <2> QED
    BY <1>1, <1>2, <1>3, <2>1, Zenon DEF Confirmed
<1>7. \A s \in Segment : /\ [s EXCEPT !.status = "ready"] \in Segment
                         /\ [s EXCEPT !.status = "ready"].id = s.id
                         /\ [s EXCEPT !.status = "ready"].status = "ready"
  BY DEF Segment, Statuses
<1>8. Len(kept) \in Nat /\ DOMAIN kept = 1 .. Len(kept) /\ \A k \in DOMAIN kept : kept[k] \in Segment
  BY <1>5
<1>9. \A k \in DOMAIN kept :
        /\ new[k] \in Segment /\ new[k].id = kept[k].id
        /\ kept[k].status = "complete" <=> new[k].status = "complete"
        /\ kept[k].status = "running" <=> new[k].status = "running"
  BY <1>6, <1>7, <1>8
<1>10. new \in Seq(Segment) /\ Len(new) = Len(kept)
  <2>1. new = [k \in 1 .. Len(kept) |-> new[k]]
    BY <1>6, <1>8
  <2> QED
    BY <1>8, <1>9, <2>1
<1>11. Alike(old, new)
  <2>1. DOMAIN kept = DOMAIN old
    BY <1>4, <1>5 DEF Alike
  <2> QED
    BY <1>5, <1>9, <1>10, <2>1 DEF Alike
<1> QED
  BY <1>1, <1>3, <1>10, <1>11

(* The segments that a rollback to the first n takes away.                 *)
Dropped(n) == {segments[k].id : k \in (n + 1) .. Len(segments)}

(* Rolling back to the first n segments drops their jobs with the others.  *)
LEMMA RollbackKeeps ==
  ASSUME Counts, SessionInv, NEW n \in 0 .. Len(segments), Invalidate(Dropped(n)),
         NEW segs, segs = SubSeq(segments, 1, n),
         NEW act, act = IF active \in Dropped(n) THEN NoSegment ELSE active
  PROVE  /\ Segmented(segs, act, nextSegment) /\ act \in 0 .. MaxSegmentIds
         /\ Served(segs, act, generation, queue', serving', nextSegment)
         /\ queue' \in Seq(Job) /\ serving' \in Work
<1>0. /\ Increasing(segments, nextSegment) /\ OneRuns(segments, active)
      /\ Served(segments, active, generation, queue, serving, nextSegment)
      /\ serving \in Work /\ active \in 0 .. MaxSegmentIds
  BY DEF SessionInv, TypeOK, Segmented
<1>q. queue \in Seq(Job)
  BY DEF SessionInv, TypeOK
<1>s. segments \in Seq(Segment) /\ Len(segments) \in Nat /\ DOMAIN segments = 1 .. Len(segments)
  BY DEF SessionInv, TypeOK
<1>1. /\ segs \in Seq(Segment) /\ Len(segs) = n /\ DOMAIN segs = 1 .. n
      /\ \A k \in 1 .. n : k \in DOMAIN segments /\ segs[k] = segments[k]
  BY <1>s
<1>2. \A k \in 1 .. n : segments[k].id \notin Dropped(n)
  <2> SUFFICES ASSUME NEW k \in 1 .. n, NEW l \in (n + 1) .. Len(segments),
                      segments[k].id = segments[l].id
               PROVE  FALSE
    BY DEF Dropped
  <2>1. k \in DOMAIN segments /\ l \in DOMAIN segments /\ k < l
    BY <1>s
  <2>2. segments[k].id < segments[l].id
    BY <1>0, <2>1 DEF Increasing
  <2>3. segments[k].id \in Nat
    BY <1>s, <2>1, SegmentFacts
  <2> QED
    BY <2>2, <2>3
<1>3. \A k \in DOMAIN segments : segments[k].id \notin Dropped(n) => k \in 1 .. n
  BY <1>s DEF Dropped
<1>4. \A id : /\ Gone(segments, id) => Gone(segs, id)
              /\ id \in Dropped(n) => Gone(segs, id)
  BY <1>1, <1>2 DEF Gone
<1>5. \A j : Made(segments, j) /\ j.segment \notin Dropped(n) => Made(segs, j)
  <2> SUFFICES ASSUME NEW j, Made(segments, j), j.segment \notin Dropped(n) PROVE Made(segs, j)
    OBVIOUS
  <2>1. \A i \in 1 .. n : segs[i].id = segments[i].id
                          /\ (segments[i].status = "complete" => segs[i].status = "complete")
    BY <1>1
  <2>2. \A i \in DOMAIN segments : segments[i].id = j.segment => i <= n
    BY <1>3
  <2>3. n \in Nat /\ n <= Len(segments) /\ n <= Len(segs)
    BY <1>s, <1>1
  <2>4. segments \in Seq(Segment) /\ segs \in Seq(Segment)
    BY <1>s, <1>1
  <2> QED
    BY <2>1, <2>2, <2>3, <2>4, MadeStays
<1>6. Increasing(segs, nextSegment)
  BY <1>0, <1>1 DEF Increasing
<1>7. OneRuns(segs, act)
  <2>1. \A k \in 1 .. n : segs[k].status = "running" => segs[k].id = act
    BY <1>0, <1>1, <1>2 DEF OneRuns
  <2>2. act # NoSegment => \E k \in DOMAIN segs : segs[k].id = act /\ segs[k].status = "running"
    BY <1>0, <1>1, <1>3 DEF OneRuns
  <2> QED
    BY <1>1, <2>1, <2>2 DEF OneRuns
<1>8. queue' = IF active \in Dropped(n) THEN <<>> ELSE queue
  <2>1. PICK keep : keep = {i \in DOMAIN queue : queue[i].segment \notin Dropped(n)}
    OBVIOUS
  <2>2. queue' = KeepAt(queue, keep)
    BY <2>1, Zenon DEF Invalidate, Filter
  <2>3. \A i \in DOMAIN queue : queue[i].segment = active
    BY <1>0 DEF Served, Queued, Wanted
  <2>4. CASE active \in Dropped(n)
    <3>1. keep = {}
      BY <2>1, <2>3, <2>4
    <3> QED
      BY <2>2, <2>4, <3>1, KeepAtNone
  <2>5. CASE active \notin Dropped(n)
    <3>1. keep = DOMAIN queue
      BY <2>1, <2>3, <2>5
    <3> QED
      BY <1>q, <2>2, <2>5, <3>1, KeepAtAll
  <2> QED
    BY <2>4, <2>5
<1>9. /\ serving' \in Work /\ serving'.job = serving.job
      /\ InWork(serving') => InWork(serving)
      /\ serving'.phase = "working" => serving.phase = "working" /\ serving.job.segment \notin Dropped(n)
  <2>1. CASE serving.phase = "working" /\ serving.job.segment \in Dropped(n)
    <3>1. serving \in [phase: Phases, job: Job]
      BY <1>0, <2>1 DEF Work, Idle
    <3>2. \A w \in [phase: Phases, job: Job] :
            /\ [w EXCEPT !.phase = "void"] \in [phase: Phases, job: Job]
            /\ [w EXCEPT !.phase = "void"].job = w.job
            /\ [w EXCEPT !.phase = "void"].phase = "void"
      BY DEF Phases
    <3>3. serving' = [serving EXCEPT !.phase = "void"]
      BY <2>1 DEF Invalidate, Voided
    <3> QED
      BY <3>1, <3>2, <3>3 DEF Work, InWork
  <2>2. CASE ~(serving.phase = "working" /\ serving.job.segment \in Dropped(n))
    <3>1. serving' = serving
      BY <2>2 DEF Invalidate, Voided
    <3> QED
      BY <1>0, <2>2, <3>1
  <2> QED
    BY <2>1, <2>2
<1>10. Queued(segs, act, generation, queue', serving')
  <2>1. CASE active \in Dropped(n)
    <3>1. queue' = <<>>
      BY <1>8, <2>1
    <3> QED
      BY <3>1 DEF Queued
  <2>2. CASE active \notin Dropped(n)
    <3>1. queue' = queue /\ act = active
      BY <1>8, <2>2
    <3>2. Queued(segments, active, generation, queue, serving)
      BY <1>0 DEF Served
    <3>3. \A i \in DOMAIN queue : Made(segs, queue[i])
      BY <1>5, <2>2, <3>2 DEF Queued, Wanted
    <3> QED
      BY <1>9, <3>1, <3>2, <3>3 DEF Queued
  <2> QED
    BY <2>1, <2>2
<1>11. InHand(segs, act, generation, serving', nextSegment)
  <2>0. InHand(segments, active, generation, serving, nextSegment)
    BY <1>0 DEF Served
  <2>1. serving'.phase = "working" => Wanted(serving'.job, act, generation)
    BY <1>9, <2>0 DEF InHand, Wanted
  <2>2. ASSUME InWork(serving'), serving'.job.generation = generation
        PROVE  \/ Wanted(serving'.job, act, generation) /\ Made(segs, serving'.job)
               \/ Gone(segs, serving'.job.segment)
    <3>1. \/ Wanted(serving.job, active, generation) /\ Made(segments, serving.job)
          \/ Gone(segments, serving.job.segment)
      BY <1>9, <2>0, <2>2 DEF InHand
    <3> QED
      BY <1>4, <1>5, <1>9, <3>1 DEF Wanted
  <2> QED
    BY <1>9, <2>0, <2>1, <2>2 DEF InHand
<1>12. act \in 0 .. MaxSegmentIds
  BY <1>0 DEF NoSegment, Counts
<1>13. queue' \in Seq(Job)
  BY <1>8, <1>q
<1> QED
  BY <1>1, <1>6, <1>7, <1>9, <1>10, <1>11, <1>12, <1>13 DEF Segmented, Served

(* ingest, the whole handler. *)
LEMMA IngestKeeps ==
  ASSUME Counts, SessionInv, NEW u \in Utterances, NEW isFinal \in BOOLEAN, Ingest(u, isFinal)
  PROVE  SessionInv'
<1>0. TypeOK /\ segments \in Seq(Segment)
  BY DEF SessionInv, TypeOK
<1>1. PICK changed \in BOOLEAN, left \in BOOLEAN, torn \in BOOLEAN,
           first \in {k \in DOMAIN segments : segments[k].utterance = u} \cup {Len(segments) + 1} :
       LET gone == first .. Len(segments)
           ids == {segments[k].id : k \in gone}
           touched == {segments[k].utterance : k \in gone}
           mine == {k \in 1 .. (first - 1) : segments[k].utterance = u}
       IN  /\ gone # {} => isFinal /\ changed
           /\ torn => isFinal /\ changed /\ left /\ mine # {}
           /\ left => changed
           /\ src' = [v \in Utterances |->
                IF v = u THEN Heard(u, isFinal, changed, left, torn)
                ELSE IF v \in touched THEN [Retold EXCEPT !.final = src[v].final] ELSE src[v]]
           /\ \E due \in SUBSET (Drafts(segments) \cap mine) :
                /\ due # {} => isFinal
                /\ segments' = Confirmed(u, isFinal, first, due)
           /\ active' = IF active \in ids THEN NoSegment ELSE active
           /\ Invalidate(ids)
           /\ armed' = IF closed THEN armed ELSE armed \cup {u} \cup touched
  BY Zenon DEF Ingest
<1>2. PICK n \in 0 .. Len(segments) : n + 1 = first
  <2>1. Len(segments) \in Nat /\ DOMAIN segments = 1 .. Len(segments)
    BY <1>0
  <2>2. first \in 1 .. Len(segments) + 1
    BY <1>1, <2>1
  <2>3. first - 1 \in 0 .. Len(segments) /\ (first - 1) + 1 = first
    BY <2>1, <2>2
  <2> QED
    BY <2>3
<1>3. PICK touched : touched = {segments[k].utterance : k \in (n + 1) .. Len(segments)}
  OBVIOUS
<1>4. /\ src' = [v \in Utterances |->
           IF v = u THEN Heard(u, isFinal, changed, left, torn)
           ELSE IF v \in touched THEN [Retold EXCEPT !.final = src[v].final] ELSE src[v]]
      /\ \E due : segments' = Confirmed(u, isFinal, n + 1, due)
      /\ active' = IF active \in Dropped(n) THEN NoSegment ELSE active
      /\ Invalidate(Dropped(n))
      /\ armed' = IF closed THEN armed ELSE armed \cup {u} \cup touched
  BY <1>1, <1>2, <1>3, Zenon DEF Dropped
<1>5. PICK segs : segs = SubSeq(segments, 1, n)
  OBVIOUS
<1>6. /\ Segmented(segs, active', nextSegment) /\ active' \in 0 .. MaxSegmentIds
      /\ Served(segs, active', generation, queue', serving', nextSegment)
      /\ queue' \in Seq(Job) /\ serving' \in Work
  BY <1>4, <1>5, RollbackKeeps
<1>7. segments' \in Seq(Segment) /\ Alike(segs, segments') /\ segs \in Seq(Segment)
  BY <1>0, <1>4, <1>5, <1>6, ConfirmedAlike DEF Segmented
<1>8. /\ Segmented(segments', active', nextSegment)
      /\ Served(segments', active', generation, queue', serving', nextSegment)
  BY <1>6, <1>7, AlikeServes
<1>9. src' \in [Utterances -> Source]
  <2> SUFFICES ASSUME NEW v \in Utterances
               PROVE  (IF v = u THEN Heard(u, isFinal, changed, left, torn)
                       ELSE IF v \in touched THEN [Retold EXCEPT !.final = src[v].final] ELSE src[v])
                      \in Source
    BY <1>4, Zenon
  <2>1. src[v] \in Source /\ src[u] \in Source
    BY <1>0 DEF TypeOK
  <2>2. Heard(u, isFinal, changed, left, torn) \in Source
    <3>1. src[u].left \in BOOLEAN /\ src[u].torn \in BOOLEAN
      BY <2>1 DEF Source
    <3>2. (src[u].incomplete /\ ~changed) \in BOOLEAN
      BY Zenon
    <3>3. (IF changed THEN left ELSE src[u].left) \in BOOLEAN
          /\ (IF changed THEN torn ELSE src[u].torn) \in BOOLEAN
      BY <3>1, Zenon
    <3> QED
      BY <3>2, <3>3 DEF Heard, Source
  <2>3. [Retold EXCEPT !.final = src[v].final] \in Source
    <3>1. src[v].final \in BOOLEAN
      BY <2>1 DEF Source
    <3>2. Retold \in Source
      BY DEF Retold, Source
    <3> QED
      BY <3>1, <3>2 DEF Source
  <2> QED
    BY <2>1, <2>2, <2>3, Zenon
<1>10. armed' \in SUBSET Utterances
  <2>1. touched \in SUBSET Utterances
    <3> SUFFICES ASSUME NEW k \in (n + 1) .. Len(segments) PROVE segments[k].utterance \in Utterances
      BY <1>3
    <3>1. k \in DOMAIN segments
      BY <1>0
    <3>2. segments[k] \in Segment
      BY <1>0, <3>1
    <3> QED
      BY <3>2 DEF Segment
  <2> QED
    BY <1>0, <1>4, <2>1 DEF TypeOK
<1>11. known' \in Seq(Utterances)
  <2>1. known' = IF u \in Range(known) THEN known ELSE Append(known, u)
    BY Zenon DEF Ingest
  <2>2. known \in Seq(Utterances)
    BY <1>0 DEF TypeOK
  <2> QED
    BY <2>1, <2>2
<1>12. UNCHANGED <<attached, closed, generation, nextSegment, commits>>
  BY Zenon DEF Ingest
<1> QED
  BY <1>0, <1>6, <1>7, <1>8, <1>9, <1>10, <1>11, <1>12 DEF SessionInv, TypeOK

-----------------------------------------------------------------------------
(* The number of cuts a visit makes keeps within the room it had.          *)
LEMMA CutsFit ==
  ASSUME Counts, TypeOK, NEW cutFrom \in Cuttings
  PROVE  \E n \in Nat : cutFrom \in [1 .. n -> DOMAIN known] /\ nextSegment + n <= MaxSegmentIds
<1>1. PICK n \in 0 .. Max({0, Room}) : cutFrom \in [1 .. n -> DOMAIN known]
  BY DEF Cuttings
<1>2. Room \in Int /\ Room <= MaxSegmentIds - nextSegment
  <2>1. Len(segments) \in Nat /\ nextSegment \in Int
    BY DEF TypeOK
  <2>2. Waiting \in Nat
    <3> DEFINE W == {k \in DOMAIN segments : segments[k].status \in {"ready", "running"}}
    <3>1. W \in SUBSET (1 .. Len(segments))
      BY DEF TypeOK
    <3>2. IsFiniteSet(1 .. Len(segments))
      BY <2>1, FS_Interval
    <3>3. IsFiniteSet(W)
      BY <3>1, <3>2, FS_Subset
    <3> QED
      BY <3>3, FS_CardinalityType DEF Waiting
  <2>3. PICK a \in Int : a = MaxSegments - Len(segments)
    BY SMTT(20), <2>1 DEF Counts
  <2>4. PICK b \in Int : b = MaxPendingPerSession - Waiting
    BY <2>2 DEF Counts
  <2>5. PICK c \in Int : c = MaxSegmentIds - nextSegment
    BY <2>1 DEF Counts
  <2>6. \E m \in {a, b, c} : \A x \in {a, b, c} : m <= x
    <3>1. CASE a <= b /\ a <= c
      BY <3>1
    <3>2. CASE b <= a /\ b <= c
      BY <3>2
    <3>3. CASE c <= a /\ c <= b
      BY <3>3
    <3> QED
      BY <3>1, <3>2, <3>3
  <2>7. Room = Min({a, b, c})
    BY <2>3, <2>4, <2>5 DEF Room
  <2>8. Min({a, b, c}) \in {a, b, c} /\ Min({a, b, c}) <= c
    BY <2>6 DEF Min
  <2> QED
    BY <2>5, <2>7, <2>8
<1>3. Max({0, Room}) \in {0, Room}
  <2>1. \E m \in {0, Room} : \A x \in {0, Room} : m >= x
    <3>1. CASE Room <= 0
      BY <1>2, <3>1
    <3>2. CASE Room >= 0
      BY <1>2, <3>2
    <3> QED
      BY <1>2, <3>1, <3>2
  <2> QED
    BY <2>1 DEF Max
<1>4. n \in Nat /\ nextSegment + n <= MaxSegmentIds
  <2>1. nextSegment \in Nat /\ nextSegment <= MaxSegmentIds
    BY DEF TypeOK, Counts
  <2>2. n \in Nat /\ (n <= 0 \/ n <= Room)
    BY <1>2, <1>3
  <2>3. MaxSegmentIds \in Nat
    BY DEF Counts
  <2> QED
    BY <1>2, <2>1, <2>2, <2>3
<1> QED
  BY <1>1, <1>4

(* The positions of a concatenation. *)
LEMMA Concatenation ==
  ASSUME NEW S, NEW p \in Seq(S), NEW q \in Seq(S)
  PROVE  /\ p \o q \in Seq(S) /\ Len(p \o q) = Len(p) + Len(q)
         /\ DOMAIN (p \o q) = 1 .. (Len(p) + Len(q))
         /\ \A k \in DOMAIN p : (p \o q)[k] = p[k]
         /\ \A k \in (Len(p) + 1) .. (Len(p) + Len(q)) :
              (p \o q)[k] = q[k - Len(p)] /\ k - Len(p) \in 1 .. Len(q)
<1>1. Len(p) \in Nat /\ Len(q) \in Nat /\ DOMAIN p = 1 .. Len(p)
  OBVIOUS
<1>2. p \o q \in Seq(S) /\ Len(p \o q) = Len(p) + Len(q)
  OBVIOUS
<1>3. DOMAIN (p \o q) = 1 .. (Len(p) + Len(q))
  BY <1>1, <1>2
<1>4. \A k \in 1 .. (Len(p) + Len(q)) :
        (p \o q)[k] = IF k <= Len(p) THEN p[k] ELSE q[k - Len(p)]
  BY <1>1
<1>5. \A k \in DOMAIN p : (p \o q)[k] = p[k]
  BY <1>1, <1>4
<1>6. \A k \in (Len(p) + 1) .. (Len(p) + Len(q)) :
         (p \o q)[k] = q[k - Len(p)] /\ k - Len(p) \in 1 .. Len(q)
  BY <1>1, <1>4
<1> QED
  BY <1>2, <1>3, <1>5, <1>6

(* The segments cut are new, in order, and ready.                          *)
LEMMA GrownKeeps ==
  ASSUME Counts, SessionInv, NEW n \in Nat, NEW cutFrom \in [1 .. n -> DOMAIN known],
         nextSegment + n <= MaxSegmentIds
  PROVE  /\ Segmented(Grown(cutFrom), active, nextSegment + n)
         /\ Served(Grown(cutFrom), active, generation, queue, serving, nextSegment + n)
<1>0. /\ TypeOK /\ Increasing(segments, nextSegment) /\ OneRuns(segments, active)
      /\ Served(segments, active, generation, queue, serving, nextSegment)
  BY DEF SessionInv, Segmented
<1>1. PICK new : new = [j \in DOMAIN cutFrom |->
        [id |-> nextSegment + j, utterance |-> known[cutFrom[j]],
         final |-> src[known[cutFrom[j]]].final, status |-> "ready", committed |-> FALSE]]
  OBVIOUS
<1>2. PICK segs : segs = segments \o new
  OBVIOUS
<1>3. segs = Grown(cutFrom)
  BY <1>1, <1>2, Zenon DEF Grown
<1>4. nextSegment \in Nat /\ MaxSegmentIds \in Nat
  BY <1>0 DEF TypeOK, Counts
<1>5. ASSUME NEW j \in 1 .. n
      PROVE  new[j] \in Segment /\ new[j].id = nextSegment + j /\ new[j].status = "ready"
  <2>1. cutFrom[j] \in DOMAIN known /\ DOMAIN cutFrom = 1 .. n
    OBVIOUS
  <2>2. PICK v \in Utterances : v = known[cutFrom[j]]
    BY <1>0, <2>1 DEF TypeOK
  <2>3. PICK f \in BOOLEAN : f = src[v].final
    BY <1>0 DEF TypeOK, Source
  <2>4. PICK id \in SegmentIds : id = nextSegment + j
    BY <1>4 DEF SegmentIds
  <2>5. new[j] = [id |-> id, utterance |-> v, final |-> f, status |-> "ready", committed |-> FALSE]
    BY <1>1, <2>1, <2>2, <2>3, <2>4, Zenon
  <2>6. [id |-> id, utterance |-> v, final |-> f, status |-> "ready", committed |-> FALSE] \in Segment
    BY DEF Segment, Statuses
  <2> QED
    BY <2>4, <2>5, <2>6
<1>6. new \in Seq(Segment) /\ Len(new) = n
  <2>1. new = [j \in 1 .. n |-> new[j]]
    BY <1>1
  <2>2. new \in [1 .. n -> Segment]
    BY <1>5, <2>1
  <2> QED
    BY <2>2
<1>7. segments \in Seq(Segment) /\ Len(segments) \in Nat /\ DOMAIN segments = 1 .. Len(segments)
  BY <1>0 DEF TypeOK
<1>8. /\ segs \in Seq(Segment) /\ Len(segs) = Len(segments) + n
      /\ DOMAIN segs = 1 .. (Len(segments) + n)
      /\ \A k \in DOMAIN segments : segs[k] = segments[k]
      /\ \A k \in (Len(segments) + 1) .. (Len(segments) + n) :
           segs[k] = new[k - Len(segments)] /\ k - Len(segments) \in 1 .. n
  BY <1>2, <1>6, <1>7, Concatenation
<1>9. \A k \in DOMAIN segs :
        \/ k \in DOMAIN segments /\ segs[k] = segments[k]
        \/ /\ k \in (Len(segments) + 1) .. (Len(segments) + n)
           /\ segs[k].id = nextSegment + (k - Len(segments)) /\ segs[k].status = "ready"
  BY <1>5, <1>7, <1>8
<1>10. \A k \in DOMAIN segments : segments[k].id \in Nat /\ segments[k].id <= nextSegment
  <2>1. \A k \in DOMAIN segments : segments[k] \in Segment
    BY <1>7
  <2> QED
    BY <1>0, <2>1, SegmentFacts DEF Increasing
<1>11. Increasing(segs, nextSegment + n)
  <2>1. \A k \in DOMAIN segs : segs[k].id <= nextSegment + n
    BY <1>4, <1>7, <1>9, <1>10
  <2>2. ASSUME NEW i \in DOMAIN segs, NEW k \in DOMAIN segs, i < k PROVE segs[i].id < segs[k].id
    <3>1. CASE k \in DOMAIN segments
      <4>1. i \in DOMAIN segments
        BY <1>7, <1>8, <2>2, <3>1
      <4> QED
        BY <1>0, <1>8, <2>2, <3>1, <4>1 DEF Increasing
    <3>2. CASE k \notin DOMAIN segments
      BY <1>4, <1>7, <1>9, <1>10, <2>2, <3>2
    <3> QED
      BY <3>1, <3>2
  <2> QED
    BY <2>1, <2>2 DEF Increasing
<1>12. OneRuns(segs, active)
  <2>1. \A k \in DOMAIN segs : segs[k].status = "running" => segs[k].id = active
    BY <1>0, <1>9 DEF OneRuns
  <2>2. DOMAIN segments \in SUBSET DOMAIN segs
    BY <1>7, <1>8
  <2> QED
    BY <1>0, <1>8, <2>1, <2>2 DEF OneRuns
<1>13. \A j : Made(segments, j) => Made(segs, j)
  <2> SUFFICES ASSUME NEW j, Made(segments, j) PROVE Made(segs, j)
    OBVIOUS
  <2>1. \A i \in 1 .. Len(segments) : segs[i].id = segments[i].id
                          /\ (segments[i].status = "complete" => segs[i].status = "complete")
    BY <1>7, <1>8
  <2>2. \A i \in DOMAIN segments : segments[i].id = j.segment => i <= Len(segments)
    BY <1>7
  <2>3. Len(segments) \in Nat /\ Len(segments) <= Len(segments) /\ Len(segments) <= Len(segs)
    BY <1>7, <1>8
  <2>4. segments \in Seq(Segment) /\ segs \in Seq(Segment)
    BY <1>7, <1>8
  <2> QED
    BY <2>1, <2>2, <2>3, <2>4, MadeStays
<1>14. \A id \in Nat : Gone(segments, id) /\ id <= nextSegment => Gone(segs, id)
  BY <1>4, <1>7, <1>9 DEF Gone
<1>15. serving.job.segment \in Nat
  BY <1>0, JobFacts DEF TypeOK
<1>16. InHand(segs, active, generation, serving, nextSegment + n)
  BY <1>0, <1>4, <1>13, <1>14, <1>15 DEF Served, InHand
<1>17. Queued(segs, active, generation, queue, serving)
  BY <1>0, <1>13 DEF Served, Queued
<1> QED
  BY <1>3, <1>8, <1>11, <1>12, <1>16, <1>17 DEF Segmented, Served

(* What a visit leaves of the utterances. *)
LEMMA VisitedTypes ==
  ASSUME TypeOK, NEW stop, NEW done
  PROVE  Visited(stop, done) \in [Utterances -> Source]
<1>1. ASSUME NEW s \in Source, NEW b \in BOOLEAN
      PROVE  [s EXCEPT !.left = ~b, !.incomplete = ~b] \in Source
  <2>1. PICK c \in BOOLEAN : c = ~b
    BY Zenon
  <2>2. [s EXCEPT !.left = c, !.incomplete = c] \in Source
    BY DEF Source
  <2> QED
    BY <2>1, <2>2, Zenon
<1>2. ASSUME NEW u \in Utterances
      PROVE  (IF \E i \in 1 .. (stop - 1) : known[i] = u /\ Eligible(i)
              THEN LET usedUp == \E i \in done : known[i] = u
                   IN  [src[u] EXCEPT !.left = ~usedUp, !.incomplete = ~usedUp]
              ELSE src[u]) \in Source
  <2>1. src[u] \in Source
    BY DEF TypeOK
  <2>2. PICK b \in BOOLEAN : b = (\E i \in done : known[i] = u)
    BY Zenon
  <2>3. [src[u] EXCEPT !.left = ~b, !.incomplete = ~b] \in Source
    BY <1>1, <2>1, Zenon
  <2> QED
    BY <2>1, <2>2, <2>3, Zenon
<1> QED
  BY <1>2, Zenon DEF Visited

(* _evaluate cuts segments and dispatches.                                 *)
LEMMA EvaluateKeeps ==
  ASSUME Counts, SessionInv, NEW u \in Utterances, Evaluate(u)
  PROVE  SessionInv'
<1>0. TypeOK
  BY DEF SessionInv
<1>1. PICK cutFrom \in Cuttings, stop \in 1 .. (Len(known) + 1), done \in SUBSET DOMAIN known :
       /\ Visit(cutFrom, stop, done)
       /\ EndsVisit(cutFrom, stop)
       /\ src' = Visited(stop, done)
       /\ nextSegment' = nextSegment + Len(cutFrom)
       /\ DispatchNext(Grown(cutFrom), active, (armed \ {u}) \cup Rearmed(cutFrom, stop))
  BY Zenon DEF Evaluate
<1>2. PICK n \in Nat : cutFrom \in [1 .. n -> DOMAIN known] /\ nextSegment + n <= MaxSegmentIds
  BY <1>0, CutsFit
<1>3. nextSegment' = nextSegment + n
  <2>1. Len(cutFrom) = n
    BY <1>2
  <2> QED
    BY <1>1, <2>1
<1>4. nextSegment' \in 0 .. MaxSegmentIds
  BY <1>0, <1>2, <1>3 DEF TypeOK, Counts
<1>5. /\ Segmented(Grown(cutFrom), active, nextSegment')
      /\ Served(Grown(cutFrom), active, generation, queue, serving, nextSegment')
  BY <1>2, <1>3, GrownKeeps
<1>6. /\ segments' \in Seq(Segment) /\ queue' \in Seq(Job) /\ active' \in 0 .. MaxSegmentIds
      /\ Segmented(segments', active', nextSegment')
      /\ Served(segments', active', generation, queue', serving, nextSegment')
  <2>1. PICK top \in 0 .. MaxSegmentIds : top = nextSegment'
    BY <1>4
  <2>2. PICK segs : segs = Grown(cutFrom)
    OBVIOUS
  <2>3. PICK timers : timers = (armed \ {u}) \cup Rearmed(cutFrom, stop)
    OBVIOUS
  <2>4. /\ serving \in Work /\ active \in 0 .. MaxSegmentIds
        /\ generation \in 0 .. MaxGeneration /\ queue \in Seq(Job)
    BY <1>0 DEF TypeOK
  <2> QED
    BY <1>1, <1>5, <2>1, <2>2, <2>3, <2>4, DispatchKeeps
<1>7. armed' \in SUBSET Utterances
  <2>1. Rearmed(cutFrom, stop) \in SUBSET Utterances
    BY <1>0 DEF Rearmed, TypeOK
  <2>2. armed \in SUBSET Utterances
    BY <1>0 DEF TypeOK
  <2>3. Grown(cutFrom) \in Seq(Segment)
    BY <1>5 DEF Segmented
  <2>4. (armed \ {u}) \cup Rearmed(cutFrom, stop) \in SUBSET Utterances
    BY <2>1, <2>2
  <2> QED
    BY <1>1, <2>2, <2>3, <2>4, DispatchTimers
<1>8. src' \in [Utterances -> Source]
  BY <1>0, <1>1, VisitedTypes
<1>9. UNCHANGED <<attached, closed, generation, known, commits, serving>>
  BY Zenon DEF Evaluate
<1> QED
  BY <1>0, <1>4, <1>6, <1>7, <1>8, <1>9 DEF SessionInv, TypeOK

(* A timer that ends at a torn utterance has cut all the same.             *)
LEMMA FailedEvaluateKeeps ==
  ASSUME Counts, SessionInv, NEW u \in Utterances, EvaluateFails(u)
  PROVE  SessionInv'
<1>0. TypeOK
  BY DEF SessionInv
<1>1. PICK cutFrom \in Cuttings, stop \in DOMAIN known, done \in SUBSET DOMAIN known :
       /\ Visit(cutFrom, stop, done)
       /\ src[known[stop]].torn /\ ~Full(cutFrom, stop) /\ ~Busy(cutFrom, stop)
       /\ src' = Visited(stop, done)
       /\ nextSegment' = nextSegment + Len(cutFrom)
       /\ segments' = Grown(cutFrom)
  BY Zenon DEF EvaluateFails
<1>2. PICK n \in Nat : cutFrom \in [1 .. n -> DOMAIN known] /\ nextSegment + n <= MaxSegmentIds
  BY <1>0, CutsFit
<1>3. nextSegment' = nextSegment + n
  <2>1. Len(cutFrom) = n
    BY <1>2
  <2> QED
    BY <1>1, <2>1
<1>4. nextSegment' \in 0 .. MaxSegmentIds
  BY <1>0, <1>2, <1>3 DEF TypeOK, Counts
<1>5. /\ Segmented(segments', active, nextSegment')
      /\ Served(segments', active, generation, queue, serving, nextSegment')
  BY <1>1, <1>2, <1>3, GrownKeeps
<1>6. segments' \in Seq(Segment)
  BY <1>5 DEF Segmented
<1>7. src' \in [Utterances -> Source]
  BY <1>0, <1>1, VisitedTypes
<1>8. /\ armed' = armed \ {u}
      /\ UNCHANGED <<attached, closed, generation, known, active, commits, queue, serving>>
  BY Zenon DEF EvaluateFails
<1> QED
  BY <1>0, <1>4, <1>5, <1>6, <1>7, <1>8 DEF SessionInv, TypeOK

-----------------------------------------------------------------------------
(* Every step keeps the invariant. *)
LEMMA NextSession ==
  ASSUME Counts, SessionInv, [Next]_vars
  PROVE  SessionInv'
<1>1. CASE UNCHANGED vars
  <2>1. UNCHANGED <<attached, closed, generation, known, src, segments, nextSegment, active,
                    armed, commits, queue, serving>>
    BY <1>1, Zenon DEF vars
  <2> QED
    BY <2>1 DEF SessionInv, TypeOK
<1>2. CASE Attach \/ Detach \/ Reset \/ Close
  BY <1>2, AttachKeeps, DetachKeeps, ResetKeeps, CloseKeeps
<1>3. ASSUME NEW u \in Utterances, NEW isFinal \in BOOLEAN, Ingest(u, isFinal)
      PROVE  SessionInv'
  BY <1>3, IngestKeeps
<1>4. ASSUME NEW u \in Utterances, Timer(u)
      PROVE  SessionInv'
  BY <1>4, EvaluateKeeps, FailedEvaluateKeeps DEF Timer
<1>5. ASSUME NEW id \in SegmentIds, CommitTimer(id)
      PROVE  SessionInv'
  BY <1>5, CommitTimerKeeps
<1>6. CASE Result
  BY <1>6, DiscardKeeps, ApplyKeeps DEF Result
<1>7. CASE SchedulerStep
  BY <1>7, ServerKeeps
<1> QED
  BY <1>1, <1>2, <1>3, <1>4, <1>5, <1>6, <1>7 DEF Next

(* In every state of a session the list of segments, the active one, the   *)
(* queue and the server's job fit together.                                *)
THEOREM SessionInvariant == ASSUME Counts PROVE Spec => []SessionInv
BY InitSession, NextSession, PTL DEF Spec

(* No job in work rests on a context that a rollback has taken back.       *)
THEOREM ContextsAreCurrent == ASSUME Counts PROVE Spec => []ContextIsCurrent
<1>1. SessionInv => ContextIsCurrent
  <2> SUFFICES ASSUME SessionInv, NEW j \in Owed, Live(j)
               PROVE  Made(segments, j)
    BY DEF ContextIsCurrent, Made, Done
  <2>0. /\ Served(segments, active, generation, queue, serving, nextSegment)
        /\ active \in 0 .. MaxSegmentIds /\ segments \in Seq(Segment) /\ serving \in Work
        /\ OneRuns(segments, active)
    BY DEF SessionInv, TypeOK, Segmented
  <2>1. CASE j \in Range(queue)
    BY <2>0, <2>1 DEF Range, Served, Queued
  <2>2. CASE j = serving.job /\ InWork(serving)
    <3>1. j \in Job
      BY <2>0, <2>2, JobFacts DEF InWork, Phases
    <3>2. ~Gone(segments, j.segment)
      BY <2>0, <3>1, JobFacts DEF Live, OneRuns, Gone
    <3> QED
      BY <2>0, <2>2, <3>2 DEF Served, InHand, Live
  <2> QED
    BY <2>1, <2>2 DEF Owed, InWork
<1> QED
  BY <1>1, SessionInvariant, PTL

-----------------------------------------------------------------------------
(* The session as a client of TranslationService: what the scheduler does  *)
(* for it, in which a callback that has been answered is still delivering. *)
Delivery == IF serving.phase = "answered" THEN [serving EXCEPT !.phase = "delivering"] ELSE serving
Voidable(w) == IF w.phase = "working" THEN [w EXCEPT !.phase = "void"] ELSE w

(* The service and the session mean the same by KeepAt. *)
LEMMA OneKeepAt == \A q, keep : Scheduler!KeepAt(q, keep) = KeepAt(q, keep)
<1>1. \A S : Scheduler!Cardinality(S) = Cardinality(S)
  BY DEF Scheduler!Cardinality, Cardinality
<1>2. \A keep, i : Scheduler!Rank(keep, i) = Rank(keep, i)
  BY <1>1 DEF Scheduler!Rank, Rank
<1>3. \A keep, k : Scheduler!Nth(keep, k) = Nth(keep, k)
  BY <1>2 DEF Scheduler!Nth, Nth
<1> QED
  BY <1>1, <1>3 DEF Scheduler!KeepAt, KeepAt

(* A step that drops jobs, and voids at most the one in work, gives them   *)
(* up.                                                                     *)
LEMMA GivesUp ==
  ASSUME NEW kept \in SUBSET DOMAIN queue, queue' = KeepAt(queue, kept),
         Delivery' = Delivery \/ Delivery' = Voidable(Delivery)
  PROVE  Scheduler!Next
<1>1. Scheduler!Thinned(queue, queue', LAMBDA e : FALSE)
  BY OneKeepAt DEF Scheduler!Thinned
<1>2. Scheduler!Retire(Me)
  BY <1>1 DEF Scheduler!Retire, Scheduler!Voided, Delivery, Voidable
<1> QED
  BY <1>2 DEF Scheduler!Next

(* A step that puts a job into an empty queue submits it. *)
LEMMA Submits ==
  ASSUME NEW j, queue = <<>>, queue' = <<j>>, Delivery' = Delivery
  PROVE  Scheduler!Next
<1>1. Scheduler!WithoutAt(queue', 1) = <<>>
  BY DEF Scheduler!WithoutAt
<1>2. Scheduler!KeepAt(queue, {}) = <<>>
  BY OneKeepAt, KeepAtNone
<1>3. Scheduler!Thinned(queue, Scheduler!WithoutAt(queue', 1), LAMBDA e : e.final)
  BY <1>1, <1>2 DEF Scheduler!Thinned
<1>4. 1 \in DOMAIN queue'
  OBVIOUS
<1>5. Scheduler!Accept(Me)
  BY <1>3, <1>4 DEF Scheduler!Accept, Delivery
<1> QED
  BY <1>5 DEF Scheduler!Next

(* _dispatch_next submits one job or nothing.                              *)
LEMMA DispatchSubmits ==
  ASSUME SessionInv, SessionInv', NEW segs, NEW act, NEW timers,
         DispatchNext(segs, act, timers), Delivery' = Delivery
  PROVE  Scheduler!Next \/ UNCHANGED Scheduler!vars
<1>1. CASE queue' = queue
  BY <1>1 DEF Scheduler!vars, Delivery
<1>2. ASSUME NEW j, queue' = Append(queue, j) PROVE Scheduler!Next
  <2>1. queue \in Seq(Job) /\ Len(queue') <= 1
    BY DEF SessionInv, TypeOK, Served, Queued
  <2>2. queue = <<>> /\ queue' = <<j>>
    <3>1. queue \in Seq(Job \cup {j})
      BY <2>1
    <3>2. Len(queue') = Len(queue) + 1 /\ Len(queue) \in Nat
      BY <1>2, <3>1
    <3>3. queue = <<>>
      BY <2>1, <3>1, <3>2
    <3> QED
      BY <1>2, <3>3
  <2> QED
    BY <2>2, Submits
<1> QED
  BY <1>1, <1>2 DEF DispatchNext, Submitted, Overflow

(* A cancelled session gives up all its jobs. *)
LEMMA CancelGivesUp ==
  ASSUME SessionInv, CancelSession
  PROVE  Scheduler!Next
<1>1. queue' = KeepAt(queue, {})
  BY KeepAtNone DEF CancelSession
<1>2. Delivery' = Voidable(Delivery)
  <2>1. CASE serving.phase = "working"
    <3>1. serving \in [phase: Phases, job: Job]
      BY <2>1 DEF SessionInv, TypeOK, Work, Idle
    <3>2. serving' = [serving EXCEPT !.phase = "void"] /\ serving'.phase = "void"
      BY <2>1, <3>1 DEF CancelSession, Voided
    <3> QED
      BY <2>1, <3>2 DEF Delivery, Voidable
  <2>2. CASE serving.phase # "working"
    <3>1. serving' = serving
      BY <2>2 DEF CancelSession, Voided
    <3>2. Delivery.phase # "working"
      BY <2>2 DEF Delivery, SessionInv, TypeOK, Work, Idle
    <3> QED
      BY <3>1, <3>2 DEF Delivery, Voidable
  <2> QED
    BY <2>1, <2>2
<1> QED
  BY <1>1, <1>2, GivesUp

(* A rollback gives up the jobs of the segments it drops. *)
LEMMA InvalidateGivesUp ==
  ASSUME SessionInv, NEW ids, Invalidate(ids)
  PROVE  Scheduler!Next
<1>1. PICK kept \in SUBSET DOMAIN queue : queue' = KeepAt(queue, kept)
  <2> DEFINE keep == {i \in DOMAIN queue : queue[i].segment \notin ids}
  <2>1. queue' = KeepAt(queue, keep)
    BY Zenon DEF Invalidate, Filter
  <2> QED
    BY <2>1
<1>2. Delivery' = Delivery \/ Delivery' = Voidable(Delivery)
  <2>1. CASE serving.phase = "working" /\ serving.job.segment \in ids
    <3>1. serving \in [phase: Phases, job: Job]
      BY <2>1 DEF SessionInv, TypeOK, Work, Idle
    <3>2. serving' = [serving EXCEPT !.phase = "void"] /\ serving'.phase = "void"
      BY <2>1, <3>1 DEF Invalidate, Voided
    <3> QED
      BY <2>1, <3>2 DEF Delivery, Voidable
  <2>2. CASE ~(serving.phase = "working" /\ serving.job.segment \in ids)
    <3>1. serving' = serving
      BY <2>2 DEF Invalidate, Voided
    <3> QED
      BY <3>1 DEF Delivery
  <2> QED
    BY <2>1, <2>2
<1> QED
  BY <1>1, <1>2, GivesUp

(* The server's own steps are steps of the service. *)
LEMMA ServerServes ==
  ASSUME SessionInv, SchedulerStep
  PROVE  Scheduler!Next
<1>0. serving \in Work
  BY DEF SessionInv, TypeOK
<1>1. CASE Begin
  <2>1. Delivery = serving /\ serving = Idle
    BY <1>0, <1>1, JobFacts DEF Begin, Delivery, Idle
  <2>2. serving' = [phase |-> "working", job |-> Head(queue)] /\ Delivery' = serving'
    BY <1>1 DEF Begin, Delivery
  <2>3. Scheduler!Begin(Me)
    BY <1>1, <2>1, <2>2 DEF Begin, Scheduler!Begin, Scheduler!Idle, Idle, Delivery
  <2> QED
    BY <2>3 DEF Scheduler!Next, Scheduler!Serve
<1>2. CASE BecomeIdle
  <2>1. Delivery = serving /\ serving' = Idle /\ Delivery' = Idle /\ queue' = queue
        /\ serving.phase = "over"
    BY <1>2 DEF BecomeIdle, Delivery, Idle
  <2>2. Scheduler!BecomeIdle(Me)
    BY <2>1 DEF Scheduler!BecomeIdle, Scheduler!Idle, Idle, Delivery
  <2> QED
    BY <2>2 DEF Scheduler!Next, Scheduler!Serve
<1>3. ASSUME NEW from \in {"working", "answered", "void"}, NEW to \in {"delivering", "over"},
             Serve(from, to), to = "delivering" => from = "working"
      PROVE  /\ queue' = queue /\ Delivery' = [Delivery EXCEPT !.phase = to]
             /\ Delivery.phase = IF from = "answered" THEN "delivering" ELSE from
  <2>1. serving \in [phase: Phases, job: Job] /\ serving.phase = from
        /\ serving' = [serving EXCEPT !.phase = to] /\ queue' = queue
    BY <1>0, <1>3 DEF Serve, Work, Idle
  <2>2. serving'.phase = to /\ Delivery' = serving'
    BY <2>1 DEF Delivery
  <2>3. CASE from = "answered"
    <3>1. Delivery = [serving EXCEPT !.phase = "delivering"]
      BY <2>1, <2>3 DEF Delivery
    <3>2. \A w \in [phase: Phases, job: Job] :
            /\ [w EXCEPT !.phase = "delivering"].phase = "delivering"
            /\ [[w EXCEPT !.phase = "delivering"] EXCEPT !.phase = to] = [w EXCEPT !.phase = to]
      OBVIOUS
    <3> QED
      BY <2>1, <2>2, <2>3, <3>1, <3>2
  <2>4. CASE from # "answered"
    BY <2>1, <2>2, <2>4 DEF Delivery
  <2> QED
    BY <2>1, <2>3, <2>4
<1>4. CASE Serve("working", "delivering")
  <2>1. queue' = queue /\ Delivery' = [Delivery EXCEPT !.phase = "delivering"]
        /\ Delivery.phase = "working"
    BY <1>3, <1>4
  <2>2. Scheduler!Deliver(Me)
    BY <2>1 DEF Scheduler!Deliver, Scheduler!Phase, Delivery
  <2> QED
    BY <2>2 DEF Scheduler!Next, Scheduler!Serve
<1>5. CASE Serve("answered", "over") \/ Serve("void", "over")
  <2>1. queue' = queue /\ Delivery' = [Delivery EXCEPT !.phase = "over"]
        /\ Delivery.phase \in {"void", "delivering"}
    BY <1>3, <1>5
  <2>2. Scheduler!Complete(Me)
    BY <2>1 DEF Scheduler!Complete, Scheduler!Phase, Delivery
  <2> QED
    BY <2>2 DEF Scheduler!Next, Scheduler!Serve
<1> QED
  BY <1>1, <1>2, <1>4, <1>5 DEF SchedulerStep

(* Every step of a session is a step of the service, or none.              *)
LEMMA SessionServes ==
  ASSUME Counts, SessionInv, SessionInv', [Next]_vars
  PROVE  Scheduler!Next \/ UNCHANGED Scheduler!vars
<1>1. CASE UNCHANGED <<queue, serving>>
  BY <1>1 DEF Scheduler!vars
<1>2. CASE Attach
  <2>1. PICK segs, timers : DispatchNext(segs, active, timers)
    BY <1>2, Zenon DEF Attach
  <2>2. Delivery' = Delivery
    BY <1>2 DEF Attach, Delivery
  <2> QED
    BY <2>1, <2>2, DispatchSubmits
<1>3. CASE Detach \/ Reset \/ Close
  BY <1>3, CancelGivesUp DEF Detach, Reset, Close
<1>4. ASSUME NEW u \in Utterances, NEW isFinal \in BOOLEAN, Ingest(u, isFinal)
      PROVE  Scheduler!Next
  <2>1. PICK ids : Invalidate(ids)
    BY <1>4, Zenon DEF Ingest
  <2> QED
    BY <2>1, InvalidateGivesUp
<1>5. ASSUME NEW u \in Utterances, Evaluate(u)
      PROVE  Scheduler!Next \/ UNCHANGED Scheduler!vars
  <2>1. PICK segs, timers : DispatchNext(segs, active, timers)
    BY <1>5, Zenon DEF Evaluate
  <2>2. Delivery' = Delivery
    <3>1. serving' = serving
      BY <1>5, Zenon DEF Evaluate
    <3> QED
      BY <3>1 DEF Delivery
  <2> QED
    BY <2>1, <2>2, DispatchSubmits
<1>6. ASSUME NEW u \in Utterances, EvaluateFails(u)
      PROVE  UNCHANGED <<queue, serving>>
  BY <1>6, Zenon DEF EvaluateFails
<1>7. ASSUME NEW id \in SegmentIds, CommitTimer(id)
      PROVE  UNCHANGED <<queue, serving>>
  BY <1>7, Zenon DEF CommitTimer
<1>8. ASSUME serving.phase = "delivering", Answered
      PROVE  Delivery' = Delivery
  <2>1. serving \in [phase: Phases, job: Job]
    BY <1>8 DEF SessionInv, TypeOK, Work, Idle
  <2>2. \A w \in [phase: Phases, job: Job] : w.phase = "delivering" =>
          /\ [w EXCEPT !.phase = "answered"].phase = "answered"
          /\ [[w EXCEPT !.phase = "answered"] EXCEPT !.phase = "delivering"] = w
    OBVIOUS
  <2> QED
    BY <1>8, <2>1, <2>2 DEF Answered, Delivery
<1>9. CASE ResultDiscarded
  <2>1. Delivery' = Delivery /\ queue' = queue
    BY <1>8, <1>9 DEF ResultDiscarded
  <2> QED
    BY <2>1 DEF Scheduler!vars, Delivery
<1>10. ASSUME NEW outcome, ResultApplied(outcome)
       PROVE  Scheduler!Next \/ UNCHANGED Scheduler!vars
  <2>1. PICK segs, timers : DispatchNext(segs, NoSegment, timers)
    BY <1>10, Zenon DEF ResultApplied
  <2>2. Delivery' = Delivery
    BY <1>8, <1>10 DEF ResultApplied
  <2> QED
    BY <2>1, <2>2, DispatchSubmits
<1>11. CASE SchedulerStep
  BY <1>11, ServerServes
<1>12. CASE UNCHANGED vars
  BY <1>1, <1>12, Zenon DEF vars
<1> QED
  BY <1>1, <1>2, <1>3, <1>4, <1>5, <1>6, <1>7, <1>9, <1>10, <1>11, <1>12
     DEF Next, Timer, Result

(* A session has asked for nothing. *)
LEMMA InitServes == Init => Scheduler!Init
<1> SUFFICES ASSUME Init PROVE Scheduler!Init
  OBVIOUS
<1>1. Delivery = Idle /\ queue = <<>>
  BY DEF Init, Delivery, Idle
<1> QED
  BY <1>1 DEF Scheduler!Init, Scheduler!Idle, Delivery, Idle

(* Every behaviour of a session is, seen through the mapping, a use of the *)
(* service that the scheduler implements: a job is put in when none waits, *)
(* one given up is never begun, and a voided one never delivered.          *)
THEOREM SessionUsesService ==
  ASSUME Counts
  PROVE  Spec => Scheduler!Init /\ [][Scheduler!Next]_(Scheduler!vars)
<1>1. SessionInv /\ SessionInv' /\ [Next]_vars => [Scheduler!Next]_(Scheduler!vars)
  BY SessionServes
<1> QED
  BY <1>1, InitServes, SessionInvariant, PTL DEF Spec

-----------------------------------------------------------------------------
(* StreamingClient: the script that talks to the session.  What it sends   *)
(* the session does not have yet, and what it was told was translated.     *)
Frames == [kind : {"reset"}] \cup [kind : {"partial", "final"}, seq : Int]
Answers(translated) ==
  [kind : {"state"}, gen : Int, last : Int, final : BOOLEAN, done : SUBSET translated]
    \cup [kind : {"error"}, last : Int]

(* Sequence numbers grow from the session's last to the client's next. *)
FramesAhead ==
  /\ clNext \in Int /\ svLast \in Int /\ svLast < clNext
  /\ wsFrames \in Seq(Frames)
  /\ \A i \in DOMAIN wsFrames : wsFrames[i].kind # "reset" =>
       svLast < wsFrames[i].seq /\ wsFrames[i].seq < clNext
  /\ \A i, j \in DOMAIN wsFrames :
       i < j /\ wsFrames[i].kind # "reset" /\ wsFrames[j].kind # "reset"
         => wsFrames[i].seq < wsFrames[j].seq

(* What the client knows to be done was translated. *)
DoneTruly ==
  /\ svGen \in Int /\ svDone \subseteq svTranslated
  /\ wsEvents \in Seq(Answers(svTranslated))
  /\ clSnap.done \subseteq svTranslated

OutcomeTrue == clOutcome.kind = "final" => clOutcome.seq \in svTranslated

ClientInv == FramesAhead /\ DoneTruly /\ ~svStale /\ OutcomeTrue

(* The session's state, as it is told. *)
LEMMA SnapshotTrue ==
  ASSUME FramesAhead, DoneTruly
  PROVE  Snapshot \in Answers(svTranslated) /\ Snapshot.done = svDone
BY DEF FramesAhead, DoneTruly, Snapshot, Answers

(* The invariant holds initially. *)
LEMMA InitClient == ClInit => ClientInv
<1> SUFFICES ASSUME ClInit PROVE ClientInv
  OBVIOUS
<1>1. FramesAhead
  BY DEF ClInit, FramesAhead
<1>2. DoneTruly /\ ~svStale
  BY DEF ClInit, DoneTruly, Snapshot
<1>3. OutcomeTrue
  BY DEF ClInit, OutcomeTrue, NoCall
<1> QED
  BY <1>1, <1>2, <1>3 DEF ClientInv

(* A beginning is left of what was under way: all of it, nothing, or what  *)
(* a broken connection lets through.                                       *)
FramesBegin ==
  \/ wsFrames' = <<>> \/ UNCHANGED wsFrames
  \/ \E m \in 0 .. Len(wsFrames) : wsFrames' = SubSeq(wsFrames, 1, m)
EventsBegin ==
  \/ wsEvents' = <<>> \/ UNCHANGED wsEvents
  \/ \E n \in 0 .. Len(wsEvents) : wsEvents' = SubSeq(wsEvents, 1, n)

(* Fewer frames under way, and a next number no smaller, stay in order. *)
LEMMA FramesLost ==
  ASSUME FramesAhead, FramesBegin, clNext' \in Int, clNext <= clNext', UNCHANGED svLast
  PROVE  FramesAhead'
<1>1. /\ wsFrames' \in Seq(Frames)
      /\ \A i \in DOMAIN wsFrames' : i \in DOMAIN wsFrames /\ wsFrames'[i] = wsFrames[i]
  <2>0. wsFrames \in Seq(Frames)
    BY DEF FramesAhead
  <2>1. CASE wsFrames' = <<>>
    BY <2>1
  <2>2. CASE UNCHANGED wsFrames
    BY <2>0, <2>2
  <2>3. CASE \E m \in 0 .. Len(wsFrames) : wsFrames' = SubSeq(wsFrames, 1, m)
    BY <2>0, <2>3
  <2> QED
    BY <2>1, <2>2, <2>3 DEF FramesBegin
<1>2. \A i \in DOMAIN wsFrames : wsFrames[i].kind # "reset" => wsFrames[i].seq \in Int
  <2> TAKE i \in DOMAIN wsFrames
  <2>1. wsFrames[i] \in Frames
    BY DEF FramesAhead
  <2> QED
    BY <2>1 DEF Frames
<1> QED
  BY <1>1, <1>2 DEF FramesAhead

(* Events lost or not, what was told stays true. *)
LEMMA EventsLost ==
  ASSUME DoneTruly, EventsBegin, svGen' \in Int,
         UNCHANGED <<svDone, svTranslated>>, clSnap' = clSnap \/ clSnap' = Snapshot
  PROVE  DoneTruly'
<1>1. wsEvents' \in Seq(Answers(svTranslated))
  <2>0. wsEvents \in Seq(Answers(svTranslated))
    BY DEF DoneTruly
  <2>1. CASE wsEvents' = <<>>
    BY <2>1
  <2>2. CASE UNCHANGED wsEvents
    BY <2>0, <2>2
  <2>3. CASE \E n \in 0 .. Len(wsEvents) : wsEvents' = SubSeq(wsEvents, 1, n)
    BY <2>0, <2>3
  <2> QED
    BY <2>1, <2>2, <2>3 DEF EventsBegin
<1>2. clSnap'.done \subseteq svTranslated
  BY DEF DoneTruly, Snapshot
<1> QED
  BY <1>1, <1>2 DEF DoneTruly

(* Sending appends the next number. *)
LEMMA SendsInOrder ==
  ASSUME ClientInv, Sends
  PROVE  ClientInv'
<1>0. FramesAhead /\ DoneTruly /\ ~svStale /\ OutcomeTrue
  BY DEF ClientInv
<1>1. /\ clCall.kind \in {"partial", "final", "reset"}
      /\ UNCHANGED <<clSnap, serverVars, wsEvents>>
  BY DEF Sends, Sent
<1>2. DoneTruly' /\ ~svStale'
  BY <1>0, <1>1 DEF DoneTruly, serverVars
<1>3. (clOutcome' = clCall /\ clCall.kind = "partial") \/ clOutcome' = clOutcome
  BY DEF Sends, Sent
<1>4. OutcomeTrue'
  BY <1>0, <1>1, <1>3 DEF OutcomeTrue, serverVars
<1>5. FramesAhead'
  <2>1. CASE clCall.kind = "reset"
    <3>1. /\ UNCHANGED <<clNext, svLast>>
          /\ wsFrames' = wsFrames \/ wsFrames' = Append(wsFrames, [kind |-> "reset"])
      BY <2>1 DEF Sends, Sent, serverVars
    <3>2. CASE wsFrames' = wsFrames
      BY <1>0, <3>1, <3>2 DEF FramesAhead
    <3>3. CASE wsFrames' = Append(wsFrames, [kind |-> "reset"])
      <4>1. wsFrames \in Seq(Frames) /\ [kind |-> "reset"] \in Frames
        BY <1>0 DEF FramesAhead, Frames
      <4>2. /\ wsFrames' \in Seq(Frames) /\ DOMAIN wsFrames' = 1 .. Len(wsFrames) + 1
            /\ \A i \in DOMAIN wsFrames' :
                 \/ i \in DOMAIN wsFrames /\ wsFrames'[i] = wsFrames[i]
                 \/ wsFrames'[i].kind = "reset"
        BY <3>3, <4>1
      <4> QED
        BY <1>0, <3>1, <4>2 DEF FramesAhead
    <3> QED
      BY <3>1, <3>2, <3>3
  <2>2. CASE clCall.kind # "reset"
    <3> DEFINE f == [kind |-> clCall.kind, seq |-> clNext]
    <3>1. /\ clNext' = clNext + 1 /\ svLast' = svLast
          /\ wsFrames' = wsFrames \/ wsFrames' = Append(wsFrames, f)
      BY <2>2 DEF Sends, Sent, serverVars
    <3>2. CASE wsFrames' = wsFrames
      <4>1. clNext' \in Int /\ clNext <= clNext'
        BY <1>0, <3>1 DEF FramesAhead
      <4> QED
        BY <1>0, <3>1, <3>2, <4>1, FramesLost DEF FramesBegin
    <3>3. CASE wsFrames' = Append(wsFrames, f)
      <4>1. wsFrames \in Seq(Frames) /\ f \in Frames /\ f.seq = clNext /\ clNext \in Int /\ f.kind # "reset"
        BY <1>0, <1>1, <2>2 DEF FramesAhead, Frames
      <4> HIDE DEF f
      <4>2. /\ wsFrames' \in Seq(Frames) /\ DOMAIN wsFrames' = 1 .. Len(wsFrames) + 1
            /\ DOMAIN wsFrames = 1 .. Len(wsFrames) /\ Len(wsFrames) \in Nat
            /\ \A i \in 1 .. Len(wsFrames) : wsFrames'[i] = wsFrames[i]
            /\ wsFrames'[Len(wsFrames) + 1] = f
        BY <3>3, <4>1
      <4>3. \A i \in 1 .. Len(wsFrames) : wsFrames[i].kind # "reset" =>
              wsFrames[i].seq \in Int /\ svLast < wsFrames[i].seq /\ wsFrames[i].seq < clNext
        <5> TAKE i \in 1 .. Len(wsFrames)
        <5>1. wsFrames[i] \in Frames
          BY <4>1, <4>2
        <5> QED
          BY <1>0, <4>2, <5>1 DEF FramesAhead, Frames
      <4>4. \A i \in DOMAIN wsFrames' : wsFrames'[i].kind # "reset" =>
              svLast < wsFrames'[i].seq /\ wsFrames'[i].seq < clNext'
        <5> TAKE i \in DOMAIN wsFrames'
        <5>1. CASE i \in 1 .. Len(wsFrames)
          BY <3>1, <4>1, <4>2, <4>3, <5>1
        <5>2. CASE i = Len(wsFrames) + 1
          BY <1>0, <3>1, <4>1, <4>2, <5>2 DEF FramesAhead
        <5> QED
          BY <4>2, <5>1, <5>2
      <4>5. ASSUME NEW i \in DOMAIN wsFrames', NEW j \in DOMAIN wsFrames', i < j,
                   wsFrames'[i].kind # "reset", wsFrames'[j].kind # "reset"
            PROVE  wsFrames'[i].seq < wsFrames'[j].seq
        <5>1. i \in 1 .. Len(wsFrames)
          BY <4>2, <4>5
        <5>2. CASE j \in 1 .. Len(wsFrames)
          BY <1>0, <4>2, <4>5, <5>1, <5>2 DEF FramesAhead
        <5>3. CASE j = Len(wsFrames) + 1
          BY <4>1, <4>2, <4>3, <4>5, <5>1, <5>3
        <5> QED
          BY <4>2, <5>2, <5>3
      <4> QED
        BY <1>0, <3>1, <4>1, <4>2, <4>4, <4>5 DEF FramesAhead
    <3> QED
      BY <3>1, <3>2, <3>3
  <2> QED
    BY <2>1, <2>2
<1> QED
  BY <1>2, <1>4, <1>5 DEF ClientInv

(* What the receiver is told. *)
LEMMA GetsTruth ==
  ASSUME ClientInv, ReaderGets
  PROVE  ClientInv'
<1>0. FramesAhead /\ DoneTruly /\ ~svStale /\ OutcomeTrue
  BY DEF ClientInv
<1> DEFINE e == Head(wsEvents)
<1>1. wsEvents \in Seq(Answers(svTranslated)) /\ wsEvents # <<>>
  BY <1>0 DEF DoneTruly, ReaderGets
<1>2. e \in Answers(svTranslated) /\ Tail(wsEvents) \in Seq(Answers(svTranslated))
  BY <1>1
<1>3. /\ wsEvents' = Tail(wsEvents) /\ clNext' = Higher(clNext, e.last)
      /\ (e.kind = "state" /\ clSnap' = e) \/ clSnap' = clSnap
      /\ UNCHANGED <<clOutcome, wsFrames, serverVars>>
  BY DEF ReaderGets, callVars
<1>4. e.last \in Int /\ (e.kind = "state" => e.done \subseteq svTranslated)
  BY <1>2 DEF Answers
<1> HIDE DEF e
<1>5. clNext' \in Int /\ clNext <= clNext'
  BY <1>0, <1>3, <1>4 DEF FramesAhead, Higher
<1>6. FramesAhead'
  BY <1>0, <1>3, <1>5, FramesLost DEF FramesBegin, serverVars
<1>7. DoneTruly'
  BY <1>0, <1>2, <1>3, <1>4 DEF DoneTruly, serverVars
<1>8. ~svStale' /\ OutcomeTrue'
  BY <1>0, <1>3 DEF serverVars, OutcomeTrue
<1> QED
  BY <1>6, <1>7, <1>8 DEF ClientInv

(* An answer is appended, or lost. *)
LEMMA TellKeeps ==
  ASSUME NEW answer, Tell(answer), wsEvents \in Seq(Answers(svTranslated)), svTranslated \subseteq svTranslated',
         answer \in Answers(svTranslated')
  PROVE  wsEvents' \in Seq(Answers(svTranslated'))
<1>1. Answers(svTranslated) \subseteq Answers(svTranslated')
  BY DEF Answers
<1>2. wsEvents \in Seq(Answers(svTranslated'))
  BY <1>1, SeqMonotonic
<1>3. wsEvents' = wsEvents \/ wsEvents' = Append(wsEvents, answer)
  BY DEF Tell
<1> QED
  BY <1>2, <1>3

(* The first frame leaves the wire. *)
LEMMA FrameTaken ==
  ASSUME FramesAhead, wsFrames # <<>>, wsFrames' = Tail(wsFrames), UNCHANGED clNext,
         svLast' = svLast \/ (Head(wsFrames).kind # "reset" /\ svLast' = Head(wsFrames).seq)
  PROVE  FramesAhead' /\ (Head(wsFrames).kind # "reset" => Head(wsFrames).seq \in Int /\ svLast < Head(wsFrames).seq)
<1>1. wsFrames \in Seq(Frames) /\ Len(wsFrames) \in Nat /\ Len(wsFrames) >= 1
  BY DEF FramesAhead
<1>2. /\ Head(wsFrames) = wsFrames[1] /\ Tail(wsFrames) \in Seq(Frames)
      /\ DOMAIN Tail(wsFrames) = 1 .. Len(wsFrames) - 1 /\ DOMAIN wsFrames = 1 .. Len(wsFrames)
      /\ \A i \in 1 .. Len(wsFrames) - 1 : Tail(wsFrames)[i] = wsFrames[i + 1]
  BY <1>1
<1>3. \A i \in 1 .. Len(wsFrames) : wsFrames[i].kind # "reset" => wsFrames[i].seq \in Int
  <2> TAKE i \in 1 .. Len(wsFrames)
  <2>1. wsFrames[i] \in Frames
    BY <1>1
  <2> QED
    BY <2>1 DEF Frames
<1>4. \A i \in 1 .. Len(wsFrames) - 1 : i + 1 \in 1 .. Len(wsFrames) /\ 1 < i + 1
  BY <1>1
<1>5. 1 \in 1 .. Len(wsFrames)
  BY <1>1
<1>6. svLast' \in Int /\ svLast' < clNext'
  BY <1>2, <1>3, <1>5 DEF FramesAhead
<1>7. \A i \in DOMAIN wsFrames' : wsFrames'[i].kind # "reset" =>
        svLast' < wsFrames'[i].seq /\ wsFrames'[i].seq < clNext'
  BY <1>2, <1>4, <1>5 DEF FramesAhead
<1>8. \A i, j \in DOMAIN wsFrames' :
        i < j /\ wsFrames'[i].kind # "reset" /\ wsFrames'[j].kind # "reset"
          => wsFrames'[i].seq < wsFrames'[j].seq
  <2>1. \A i, j \in 1 .. Len(wsFrames) - 1 : i < j => i + 1 < j + 1
    BY <1>1
  <2> QED
    BY <1>2, <1>4, <2>1 DEF FramesAhead
<1> QED
  BY <1>2, <1>3, <1>5, <1>6, <1>7, <1>8 DEF FramesAhead

(* The session never has the frame it takes. *)
LEMMA TakesNew ==
  ASSUME ClientInv, ServerTakes
  PROVE  ClientInv'
<1>0. FramesAhead /\ DoneTruly /\ ~svStale /\ OutcomeTrue
  BY DEF ClientInv
<1> DEFINE f == Head(wsFrames)
<1>1. /\ wsFrames # <<>> /\ wsFrames' = Tail(wsFrames)
      /\ UNCHANGED <<clNext, clSnap, clOutcome, svTranslated>>
  BY DEF ServerTakes, clientVars, callVars
<1>2. svLast' = svLast \/ (f.kind # "reset" /\ svLast' = f.seq)
  BY DEF ServerTakes
<1>3. FramesAhead' /\ (f.kind # "reset" => f.seq \in Int /\ svLast < f.seq) /\ svLast \in Int
  BY <1>0, <1>1, <1>2, FrameTaken DEF FramesAhead
<1>4. ~(f.kind # "reset" /\ f.seq <= svLast)
  BY <1>3
<1>5. ~svStale'
  BY <1>0, <1>4 DEF ServerTakes
<1>6. svGen' \in Int /\ svDone' \subseteq svTranslated'
  BY <1>0, <1>1 DEF ServerTakes, DoneTruly
<1>7. wsEvents' \in Seq(Answers(svTranslated'))
  <2>1. Snapshot' \in Answers(svTranslated')
    BY <1>3, <1>6 DEF Snapshot, Answers, FramesAhead
  <2>2. [kind |-> "error", last |-> svLast] \in Answers(svTranslated')
    BY <1>3 DEF Answers
  <2>3. Tell(Snapshot') \/ Tell([kind |-> "error", last |-> svLast])
    BY DEF ServerTakes
  <2>4. wsEvents \in Seq(Answers(svTranslated)) /\ svTranslated \subseteq svTranslated'
    BY <1>0, <1>1 DEF DoneTruly
  <2> QED
    BY <2>1, <2>2, <2>3, <2>4, TellKeeps
<1>8. DoneTruly' /\ OutcomeTrue'
  BY <1>0, <1>1, <1>6, <1>7 DEF DoneTruly, OutcomeTrue
<1> QED
  BY <1>3, <1>5, <1>8 DEF ClientInv

(* What is done was translated. *)
LEMMA TranslatesTruly ==
  ASSUME ClientInv, ServerTranslates
  PROVE  ClientInv'
<1>0. FramesAhead /\ DoneTruly /\ ~svStale /\ OutcomeTrue
  BY DEF ClientInv
<1>1. /\ UNCHANGED <<clNext, clSnap, clOutcome, wsFrames, svLast, svGen, svStale>>
      /\ Tell(Snapshot')
  BY DEF ServerTranslates, clientVars, callVars
<1>2. PICK u \in svOpen : svDone' = svDone \cup {u} /\ svTranslated' = svTranslated \cup {u}
  BY DEF ServerTranslates
<1>3. svDone' \subseteq svTranslated' /\ svTranslated \subseteq svTranslated'
  BY <1>0, <1>2 DEF DoneTruly
<1>4. FramesAhead' /\ ~svStale' /\ OutcomeTrue'
  BY <1>0, <1>1, <1>3 DEF FramesAhead, OutcomeTrue
<1>5. wsEvents' \in Seq(Answers(svTranslated'))
  <2>1. Snapshot' \in Answers(svTranslated')
    BY <1>0, <1>1, <1>3, <1>4 DEF Snapshot, Answers, FramesAhead, DoneTruly
  <2>2. wsEvents \in Seq(Answers(svTranslated))
    BY <1>0 DEF DoneTruly
  <2> QED
    BY <1>1, <1>3, <2>1, <2>2, TellKeeps
<1>6. DoneTruly'
  BY <1>0, <1>1, <1>3, <1>5 DEF DoneTruly
<1> QED
  BY <1>4, <1>6 DEF ClientInv

(* A call returns what the snapshot says. *)
LEMMA WakesTruly ==
  ASSUME ClientInv, Wakes
  PROVE  ClientInv'
<1>0. FramesAhead /\ DoneTruly /\ ~svStale /\ OutcomeTrue
  BY DEF ClientInv
<1>1. /\ UNCHANGED <<clNext, clSnap, svLast, svGen, svDone, svStale, svTranslated>>
      /\ FramesBegin /\ EventsBegin
  BY DEF Wakes, Closes, Breaks, Succeeds, FramesBegin, EventsBegin, serverVars, clientVars,
              wireVars
<1>2. clOutcome' = clOutcome \/ (clOutcome' = clCall /\ Awaited)
  BY DEF Wakes, Closes, Succeeds
<1>3. FramesAhead'
  <2>1. clNext' \in Int /\ clNext <= clNext'
    BY <1>0, <1>1 DEF FramesAhead
  <2> QED
    BY <1>0, <1>1, <2>1, FramesLost
<1>4. DoneTruly' /\ ~svStale'
  <2>1. svGen' \in Int
    BY <1>0, <1>1 DEF DoneTruly
  <2> QED
    BY <1>0, <1>1, <2>1, EventsLost
<1>5. OutcomeTrue'
  <2>1. clCall.kind = "final" /\ Awaited => clCall.seq \in svTranslated
    BY <1>0 DEF Awaited, DoneTruly
  <2> QED
    BY <1>0, <1>1, <1>2, <2>1 DEF OutcomeTrue
<1> QED
  BY <1>3, <1>4, <1>5 DEF ClientInv

(* Nothing else touches what was sent, told or returned, but to lose it.   *)
LEMMA RestKeepsClient ==
  ASSUME ClientInv,
         \/ \E kind \in {"partial", "final", "reset"} : Begins(kind)
         \/ Drop \/ SendRaises \/ Disconnects \/ TimesOut \/ ReaderNotices \/ ReaderOpens \/ OpenFails
         \/ Exhausted \/ ServerDetaches \/ UNCHANGED clVars
  PROVE  ClientInv'
<1>0. FramesAhead /\ DoneTruly /\ ~svStale /\ OutcomeTrue
  BY DEF ClientInv
<1>1. /\ UNCHANGED <<clOutcome, svLast, svDone, svStale, svTranslated>>
      /\ FramesBegin /\ EventsBegin
  <2>1. CASE \E kind \in {"partial", "final", "reset"} : Begins(kind)
    BY <2>1 DEF Begins, FramesBegin, EventsBegin, wireVars, serverVars
  <2>2. CASE SendRaises
    BY <2>2 DEF SendRaises, Closes, Breaks, FramesBegin, EventsBegin, serverVars
  <2>3. CASE Disconnects \/ Drop
    BY <2>3 DEF Disconnects, Drop, Breaks, FramesBegin, EventsBegin, callVars, serverVars
  <2>4. CASE TimesOut
    BY <2>4 DEF TimesOut, Closes, Breaks, FramesBegin, EventsBegin, serverVars
  <2>5. CASE ReaderNotices \/ OpenFails \/ Exhausted
    BY <2>5 DEF ReaderNotices, OpenFails, Exhausted, FramesBegin, EventsBegin, callVars, wireVars,
                serverVars
  <2>6. CASE ReaderOpens \/ ServerDetaches
    BY <2>6 DEF ReaderOpens, ServerDetaches, FramesBegin, EventsBegin, callVars
  <2>7. CASE UNCHANGED clVars
    BY <2>7 DEF clVars, FramesBegin, EventsBegin, callVars, wireVars, serverVars
  <2> QED
    BY <2>1, <2>2, <2>3, <2>4, <2>5, <2>6, <2>7
<1>2. /\ clNext' = clNext \/ clNext' = Higher(clNext, svLast)
      /\ clSnap' = clSnap \/ clSnap' = Snapshot
      /\ svGen' = svGen \/ svGen' = svGen + 1
  <2>1. CASE \E kind \in {"partial", "final", "reset"} : Begins(kind)
    BY <2>1 DEF Begins, clientVars, serverVars
  <2>2. CASE Drop \/ SendRaises \/ Disconnects \/ TimesOut
    BY <2>2 DEF Drop, SendRaises, Disconnects, TimesOut, Closes, clientVars, serverVars
  <2>3. CASE ReaderNotices \/ OpenFails \/ Exhausted
    BY <2>3 DEF ReaderNotices, OpenFails, Exhausted, serverVars
  <2>4. CASE ReaderOpens \/ ServerDetaches
    BY <2>4 DEF ReaderOpens, ServerDetaches, clientVars
  <2>5. CASE UNCHANGED clVars
    BY <2>5 DEF clVars, clientVars, serverVars
  <2> QED
    BY <2>1, <2>2, <2>3, <2>4, <2>5
<1>3. clNext' \in Int /\ clNext <= clNext'
  BY <1>0, <1>2 DEF FramesAhead, Higher
<1>4. FramesAhead'
  BY <1>0, <1>1, <1>3, FramesLost
<1>5. DoneTruly'
  <2>1. svGen' \in Int
    BY <1>0, <1>2 DEF DoneTruly
  <2> QED
    BY <1>0, <1>1, <1>2, <2>1, EventsLost
<1>6. OutcomeTrue' /\ ~svStale'
  BY <1>0, <1>1 DEF OutcomeTrue
<1> QED
  BY <1>4, <1>5, <1>6 DEF ClientInv

(* ClientInv holds in every state. *)
LEMMA ClientInvariant == ClSpec => []ClientInv
<1>1. ClInit => ClientInv
  BY InitClient
<1>2. ClientInv /\ [ClNext]_clVars => ClientInv'
  BY SendsInOrder, GetsTruth, TakesNew, TranslatesTruly, WakesTruly, RestKeepsClient
  DEF ClNext
<1> QED
  BY <1>1, <1>2, PTL DEF ClSpec

(* The safety part of CallsEndTruly: no sequence number is sent that the   *)
(* session has, and a final that returns was translated.                   *)
THEOREM ClientTellsTheTruth ==
  ClSpec => /\ []~svStale
            /\ [](clOutcome.kind = "final" => clOutcome.seq \in svTranslated)
<1>1. ClientInv => ~svStale /\ (clOutcome.kind = "final" => clOutcome.seq \in svTranslated)
  BY DEF ClientInv, OutcomeTrue
<1> QED
  BY <1>1, ClientInvariant, PTL
=============================================================================
