---------------------------- MODULE EngineProofs ----------------------------
(***************************************************************************)
(* Proofs about the engine behind the gateway: EngineGateway, the lease    *)
(* under which a session runs on it, and audio on its way through it:      *)
(* SpeakerStream, where it is evidence for a voice, WireAudio, where it    *)
(* arrives, CaptureTimeline, where the client labels it, SpeakerNames,     *)
(* which puts names on captions, OverlapStream, which is asked to separate *)
(* voices that overlap, and InferenceScheduler, which lends a recognizer.  *)
(***************************************************************************)
EXTENDS EngineGateway, SpeakerStream, WireAudio, CaptureTimeline, SpeakerNames, OverlapStream,
        InferenceScheduler, DequesProofs, SequenceTheorems, FiniteSetTheorems, TLAPS

-----------------------------------------------------------------------------
(* EngineGateway.  EngineExclusive is not inductive: that no model of an   *)
(* older session runs when a new one opens follows from the order in which *)
(* a lease ends, fence first, then the retirement, which waits for the     *)
(* running call, then busy.                                                *)

(* The types of what a lease consists of. *)
LeaseTypes ==
  /\ sess \in Nat /\ busy \in BOOLEAN
  /\ fence \in [Sessions -> BOOLEAN]
  /\ native \in [Sessions -> [Calls -> {"none", "queued", "running"}]]
  /\ retire \in [Sessions -> {"none", "waiting", "done"}]

(* Admission is open for the session being handled only. *)
Fenced == \A s \in Sessions : fence[s] => s = sess /\ handler = "run"

(* The handler's session holds the lease, and nobody retires it yet. *)
Leased == handler # "none" => sess \in Sessions /\ busy /\ retire[sess] = "none"

(* Sessions are opened one by one, each after the one before is retired.   *)
InTurn ==
  /\ \A s \in Sessions : s < sess => retire[s] = "done"
  /\ \A s \in Sessions : s > sess => retire[s] = "none" /\ ~Active(s)

(* A lease is returned by the retirement of the last session only. *)
Returned ==
  /\ \A s \in Sessions : retire[s] = "waiting" => s = sess /\ busy
  /\ ~busy => \A s \in Sessions : s <= sess => retire[s] = "done"

(* A retired session runs no model. *)
RetiredIdle == \A s \in Sessions : retire[s] = "done" => ~Active(s)

LeaseInv == LeaseTypes /\ Fenced /\ Leased /\ InTurn /\ Returned /\ RetiredIdle

-----------------------------------------------------------------------------
(* The invariant says that engines are exclusive. *)
LEMMA LeaseExclusive == LeaseInv => EngineExclusive
<1> SUFFICES ASSUME LeaseInv, NEW s \in Sessions, Active(s)
             PROVE  s = sess /\ busy /\ retire[s] # "done"
  BY DEF EngineExclusive
<1>1. s \in Nat /\ sess \in Nat
  BY DEF LeaseInv, LeaseTypes, Sessions
<1>2. retire[s] # "done"
  BY DEF LeaseInv, RetiredIdle
<1>3. ~(s < sess) /\ ~(s > sess)
  BY <1>2 DEF LeaseInv, InTurn
<1> QED
  BY <1>1, <1>2, <1>3 DEF LeaseInv, Returned

(* It holds before the first session. *)
LEMMA InitLease ==
  ASSUME MaxSessions \in Nat
  PROVE  Init => LeaseInv
<1> SUFFICES ASSUME Init PROVE LeaseInv
  OBVIOUS
<1>1. LeaseTypes
  BY DEF Init, LeaseTypes
<1>2. \A s \in Sessions : ~fence[s] /\ retire[s] = "none" /\ ~Active(s)
  BY DEF Init, Active
<1>3. handler = "none" /\ sess = 0
  BY DEF Init
<1>4. \A s \in Sessions : s > 0
  BY DEF Sessions
<1> QED
  BY <1>1, <1>2, <1>3, <1>4 DEF LeaseInv, Fenced, Leased, InTurn, Returned, RetiredIdle, Sessions

(* A step that opens nothing, retires nothing and starts no call keeps it. *)
LEMMA LeaseKept ==
  ASSUME LeaseInv, UNCHANGED <<busy, sess, retire>>, LeaseTypes',
         \A s \in Sessions : Active(s)' => Active(s) \/ fence[s],
         \A s \in Sessions : fence'[s] => fence[s],
         \/ UNCHANGED handler
         \/ handler = "run" /\ handler' = "gather" /\ ~fence'[sess]
         \/ handler = "gather" /\ handler' \in {"close", "none"}
  PROVE  LeaseInv'
<1>1. Fenced'
  BY DEF LeaseInv, LeaseTypes, Fenced, Leased
<1>2. Leased' /\ Returned'
  BY DEF LeaseInv, LeaseTypes, Leased, Returned
<1>3. ASSUME NEW s \in Sessions, retire[s] = "done" \/ s > sess PROVE ~Active(s)'
  <2>1. ~Active(s)
    BY <1>3 DEF LeaseInv, InTurn, RetiredIdle
  <2>2. ~fence[s]
    <3>1. sess \in Nat /\ s \in Nat
      BY DEF LeaseInv, LeaseTypes, Sessions
    <3> QED
      BY <1>3, <3>1 DEF LeaseInv, Fenced, Leased
  <2> QED
    BY <2>1, <2>2
<1>4. InTurn'
  BY <1>3 DEF LeaseInv, InTurn
<1>5. RetiredIdle'
  BY <1>3 DEF RetiredIdle
<1> QED
  BY <1>1, <1>2, <1>4, <1>5 DEF LeaseInv

(* A session opens: no older one has a lease left. *)
LEMMA OpenLease ==
  ASSUME MaxSessions \in Nat, LeaseInv, StreamSession
  PROVE  LeaseInv'
<1>1. /\ sess \in Nat /\ sess + 1 \in Sessions /\ ~busy /\ busy' /\ sess' = sess + 1
      /\ retire' = retire /\ handler' \in {"run", "gather"}
  <2>1. sess \in Nat
    BY DEF LeaseInv, LeaseTypes
  <2>2. sess < MaxSessions /\ ~busy /\ busy' /\ sess' = sess + 1 /\ retire' = retire
    BY DEF StreamSession, CanOpen
  <2>3. handler' \in {"run", "gather"}
    BY DEF StreamSession
  <2>4. sess + 1 \in Sessions
    BY <2>1, <2>2 DEF Sessions
  <2> QED
    BY <2>1, <2>2, <2>3, <2>4
<1>2. \/ fence' = [fence EXCEPT ![sess + 1] = TRUE] /\ QueueCall(sess + 1, "vad") /\ handler' = "run"
      \/ UNCHANGED <<fence, native>>
  BY DEF StreamSession
<1>3. LeaseTypes'
  <2>1. fence' \in [Sessions -> BOOLEAN]
    BY <1>1, <1>2 DEF LeaseInv, LeaseTypes
  <2>2. native' \in [Sessions -> [Calls -> {"none", "queued", "running"}]]
    BY <1>1, <1>2 DEF LeaseInv, LeaseTypes, QueueCall, Calls
  <2> QED
    BY <1>1, <2>1, <2>2 DEF LeaseInv, LeaseTypes
<1>4. ASSUME NEW s \in Sessions, Active(s)' PROVE Active(s)
  BY <1>2, <1>4 DEF LeaseInv, LeaseTypes, Active, QueueCall, Calls
<1>5. Fenced'
  BY <1>1, <1>2 DEF LeaseInv, LeaseTypes, Fenced, StreamSession
<1>6. Leased'
  BY <1>1 DEF LeaseInv, Leased, InTurn, Sessions
<1>7. InTurn' /\ Returned' /\ RetiredIdle'
  BY <1>1, <1>4 DEF LeaseInv, InTurn, Returned, RetiredIdle, Sessions
<1> QED
  BY <1>3, <1>5, <1>6, <1>7 DEF LeaseInv

(* A session is retired: its last call is over, and the lease is returned. *)
LEMMA RetireLease ==
  ASSUME LeaseInv, NEW s \in Sessions, Retire(s)
  PROVE  LeaseInv'
<1>1. /\ s = sess /\ retire[s] = "waiting" /\ ~Active(s) /\ handler = "none"
      /\ retire' = [retire EXCEPT ![s] = "done"] /\ ~busy'
      /\ UNCHANGED <<sess, handler, fence, native>>
  BY DEF LeaseInv, Returned, Leased, Retire, tasks, outgoing
<1>2. LeaseTypes'
  BY <1>1 DEF LeaseInv, LeaseTypes, Retire
<1>3. Fenced' /\ Leased'
  BY <1>1 DEF LeaseInv, Fenced, Leased
<1>4. \A r \in Sessions : Active(r)' = Active(r)
  BY <1>1 DEF Active
<1>5. InTurn' /\ Returned' /\ RetiredIdle'
  BY <1>1, <1>4 DEF LeaseInv, LeaseTypes, InTurn, Returned, RetiredIdle, Sessions
<1> QED
  BY <1>2, <1>3, <1>5 DEF LeaseInv

(* The session's pipeline has closed: its retirement is created. *)
LEMMA CloseLease ==
  ASSUME LeaseInv, SessionClosed
  PROVE  LeaseInv'
<1>1. /\ sess \in Sessions /\ busy /\ retire[sess] = "none"
      /\ retire' = [retire EXCEPT ![sess] = "waiting"] /\ handler = "close" /\ handler' = "none"
      /\ UNCHANGED <<busy, sess, fence, native>>
  BY DEF LeaseInv, Leased, SessionClosed, tasks, outgoing
<1>2. LeaseTypes'
  BY <1>1 DEF LeaseInv, LeaseTypes
<1>3. Fenced' /\ Leased'
  BY <1>1 DEF LeaseInv, Fenced, Leased
<1>4. \A r \in Sessions : Active(r)' = Active(r)
  BY <1>1 DEF Active
<1>5. InTurn' /\ Returned' /\ RetiredIdle'
  BY <1>1, <1>4 DEF LeaseInv, LeaseTypes, InTurn, Returned, RetiredIdle, Sessions
<1> QED
  BY <1>2, <1>3, <1>5 DEF LeaseInv

(* The calls: one is queued, runs if the fence is open, and returns. *)
LEMMA CallLease ==
  ASSUME LeaseInv, NEW s \in Sessions, NEW c \in Calls,
         StartCall(s, c) \/ VadReturns(s) \/ AsrReturns(s)
  PROVE  LeaseInv'
<1>1. UNCHANGED <<busy, sess, retire, fence, handler>>
  BY DEF StartCall, VadReturns, AsrReturns, gate, tasks, outgoing
<1>2. LeaseTypes'
  BY <1>1 DEF LeaseInv, LeaseTypes, StartCall, VadReturns, AsrReturns, Calls
<1>3. ASSUME NEW r \in Sessions, Active(r)' PROVE Active(r) \/ fence[r]
  BY <1>3 DEF LeaseInv, LeaseTypes, Active, StartCall, VadReturns, AsrReturns, Calls
<1> QED
  BY <1>1, <1>2, <1>3, LeaseKept

(* The tasks of the session, which queue calls but start none. *)
LEMMA TaskLease ==
  ASSUME LeaseInv,
         \/ ReadAudio \/ ReadFinish \/ ReadHalfClose \/ ReadFails
         \/ TakeInput \/ WorkerFails \/ FinishSession \/ SendEvent
  PROVE  LeaseInv'
<1>1. UNCHANGED <<busy, sess, retire, fence, handler>>
  BY DEF ReadAudio, ReadFinish, ReadHalfClose, ReadFails, TakeInput, WorkerFails, FinishSession,
     SendEvent, gate, engines
<1>2. native' = native \/ QueueCall(sess, "vad")
  BY DEF ReadAudio, ReadFinish, ReadHalfClose, ReadFails, TakeInput, WorkerFails, FinishSession,
     SendEvent, engines
<1>3. LeaseTypes'
  BY <1>1, <1>2 DEF LeaseInv, LeaseTypes, QueueCall, Calls
<1>4. ASSUME NEW r \in Sessions, Active(r)' PROVE Active(r)
  BY <1>2, <1>4 DEF LeaseInv, LeaseTypes, Active, QueueCall, Calls
<1> QED
  BY <1>1, <1>3, <1>4, LeaseKept

(* The handler ends: it shuts the fence first. *)
LEMMA HandlerLease ==
  ASSUME LeaseInv,
         SendFailure \/ HandlerReturns \/ HandlerCancelled \/ Gathered \/ GatherCancelled
  PROVE  LeaseInv'
<1>1. UNCHANGED <<busy, sess, retire, native>>
  BY DEF SendFailure, HandlerReturns, HandlerCancelled, Gathered, GatherCancelled, gate, engines
<1>2. \/ /\ handler = "run" /\ handler' = "gather"
         /\ fence' = [fence EXCEPT ![sess] = FALSE] /\ ~fence'[sess]
      \/ handler = "gather" /\ handler' \in {"close", "none"} /\ fence' = fence
  BY DEF SendFailure, HandlerReturns, HandlerCancelled, Gathered, GatherCancelled, Cleanup,
     engines, LeaseInv, LeaseTypes, Leased
<1>3. LeaseTypes'
  BY <1>1, <1>2 DEF LeaseInv, LeaseTypes
<1>4. \A r \in Sessions : (Active(r)' => Active(r)) /\ (fence'[r] => fence[r])
  BY <1>1, <1>2 DEF LeaseInv, LeaseTypes, Active
<1> QED
  BY <1>1, <1>2, <1>3, <1>4, LeaseKept

(* Every step keeps the invariant. *)
LEMMA NextLease ==
  ASSUME MaxSessions \in Nat
  PROVE  LeaseInv /\ [Next]_vars => LeaseInv'
<1> SUFFICES ASSUME LeaseInv, [Next]_vars PROVE LeaseInv'
  OBVIOUS
<1>1. CASE UNCHANGED vars
  <2>1. UNCHANGED <<busy, sess, retire, fence, native, handler>>
    BY <1>1 DEF vars, gate, engines
  <2> QED
    BY <2>1 DEF LeaseInv, LeaseTypes, Fenced, Leased, InTurn, Returned, RetiredIdle, Active
<1> QED
  BY <1>1, OpenLease, RetireLease, CloseLease, CallLease, TaskLease, HandlerLease DEF Next, Calls

(* A model that still runs for an old session is never shared with a new   *)
(* one, and a retired session starts no call, however many sessions follow *)
(* one another and wherever their handlers are cancelled.                  *)
THEOREM EnginesAreExclusive ==
  ASSUME MaxSessions \in Nat
  PROVE  Spec => []EngineExclusive
<1>1. Init => LeaseInv
  BY InitLease
<1>2. LeaseInv /\ [Next]_vars => LeaseInv'
  BY NextLease
<1>3. LeaseInv => EngineExclusive
  BY LeaseExclusive
<1> QED
  BY <1>1, <1>2, <1>3, PTL DEF Spec

-----------------------------------------------------------------------------
(* SpeakerStream.  Windows, the run and the deferred tail have an order in *)
(* time, and what lies behind the committed end is credited once.          *)
Window == [start: Nat, end: Nat, final: BOOLEAN, run: Nat, runStart: Nat]
DeferredTail == [run: Nat, start: Nat, end: Nat]
AtMostOne(q, S) == q = <<>> \/ (q = <<q[1]>> /\ q[1] \in S)

SpkTypes ==
  /\ spkNow \in 0 .. MaxUnits
  /\ spkRun \in [id: Nat, start: Nat, first: Nat, scheduled: Nat]
  /\ AtMostOne(spkPending, Window) /\ AtMostOne(spkWindow, Window)
  /\ AtMostOne(spkTail, DeferredTail)
  /\ spkFinishing \in BOOLEAN /\ spkClosed \in BOOLEAN
  /\ spkCommitted \in Nat /\ spkCredit \in [0 .. (MaxUnits - 1) -> Nat]
  /\ spkWorker = "busy" => spkWindow # <<>>

(* A window was taken from this run or from an earlier one. *)
PastOfRun(w) ==
  /\ w.runStart <= w.start /\ w.start < w.end /\ w.end <= spkNow /\ w.run <= spkRun.id
  /\ w.run < spkRun.id => w.end <= spkRun.start
  /\ w.run = spkRun.id =>
       /\ w.runStart = spkRun.start /\ w.start <= spkRun.first
       /\ w.final => spkFinishing
       /\ ~w.final => spkRun.scheduled # 0 /\ w.end <= spkRun.scheduled
Before(v, w) ==
  /\ v.run <= w.run
  /\ v.run < w.run => v.end <= w.runStart
  /\ v.run = w.run => /\ ~v.final /\ v.runStart = w.runStart /\ v.start <= w.start
                      /\ v.end <= w.end /\ (~w.final => v.end + Hop <= w.end)
TailBefore(t, w) ==
  /\ t.run <= w.run
  /\ t.run < w.run => t.end <= w.runStart
  /\ t.run = w.run => t.end <= w.end /\ (~w.final => t.end + Guard <= w.end)
TailOfRun(t) ==
  /\ t.start < t.end /\ t.end <= spkNow /\ spkCommitted = t.start /\ t.run <= spkRun.id
  /\ t.run < spkRun.id => t.end <= spkRun.start
  /\ t.run = spkRun.id => spkRun.scheduled # 0 /\ t.end <= spkRun.scheduled
RunSound ==
  spkRun.start <= spkRun.first /\ spkRun.first <= spkNow /\ spkRun.scheduled <= spkNow
WindowsOrdered ==
  /\ spkPending # <<>> => PastOfRun(spkPending[1])
  /\ spkWindow # <<>> => PastOfRun(spkWindow[1])
  /\ spkWindow # <<>> /\ spkPending # <<>> => Before(spkWindow[1], spkPending[1])
TailOrdered ==
  spkTail # <<>> =>
    /\ TailOfRun(spkTail[1])
    /\ spkPending # <<>> => TailBefore(spkTail[1], spkPending[1])
    /\ spkWindow # <<>> => TailBefore(spkTail[1], spkWindow[1])
CreditSound ==
  \A u \in 0 .. (MaxUnits - 1) :
    spkCredit[u] <= 1 /\ (spkCommitted <= u => spkCredit[u] = 0)
CreditInv == SpkTypes /\ RunSound /\ WindowsOrdered /\ TailOrdered /\ CreditSound

(* The settings of a stream; a segmenter guards less of a window than a hop. *)
Settings ==
  /\ WindowLen \in Nat /\ FirstLen \in Nat /\ Hop \in Nat /\ Guard \in Nat /\ MinClean \in Nat
  /\ NoticeSize \in Nat /\ MaxUnits \in Nat /\ MaxBreaks \in Nat
  /\ Guard <= Hop

(* Nothing is credited before the first frame. *)
LEMMA InitCredit == ASSUME Settings PROVE SpkInit => CreditInv
<1> SUFFICES ASSUME SpkInit PROVE CreditInv
  OBVIOUS
<1>1. /\ spkRun.id = 0 /\ spkRun.start = 0 /\ spkRun.first = 0 /\ spkRun.scheduled = 0
      /\ spkRun \in [id: Nat, start: Nat, first: Nat, scheduled: Nat]
  BY DEF SpkInit, NewRun
<1>2. SpkTypes
  <2>1. spkCredit \in [0 .. (MaxUnits - 1) -> Nat]
    BY DEF SpkInit
  <2>2. spkNow \in 0 .. MaxUnits
    BY DEF SpkInit, Settings
  <2> QED BY <1>1, <2>1, <2>2 DEF SpkTypes, SpkInit, AtMostOne
<1>3. RunSound
  BY <1>1 DEF SpkInit, RunSound
<1>4. WindowsOrdered /\ TailOrdered
  BY DEF SpkInit, WindowsOrdered, TailOrdered
<1>5. CreditSound
  BY DEF SpkInit, CreditSound
<1> QED BY <1>2, <1>3, <1>4, <1>5 DEF CreditInv

(* The window that an offer makes. *)
NewWindow(run, now, final) ==
  [start |-> run.first, end |-> now, final |-> final, run |-> run.id, runStart |-> run.start]

(* An offer does nothing or replaces the waiting window. *)
LEMMA Offered ==
  ASSUME NEW run, NEW now, NEW final, Offer(run, now, final)
  PROVE  \/ /\ run.first = now \/ (~final /\ run.scheduled # 0 /\ now <= run.scheduled)
            /\ UNCHANGED <<spkPending, spkNotices, spkAwake>>
         \/ /\ run.first # now
            /\ spkPending' = <<NewWindow(run, now, final)>>
            /\ spkNotices' = IF spkPending # <<>> /\ <<spkPending[1].start, spkPending[1].end>> # <<run.first, now>>
                             THEN Noticed(spkNotices, spkPending[1]) ELSE spkNotices
BY DEF Offer, NewWindow

(* What is past stays past while the run goes on. *)
LEMMA RunGoesOn ==
  ASSUME SpkTypes, RunSound,
         spkNow' \in Nat, spkNow <= spkNow',
         spkRun' \in [id: Nat, start: Nat, first: Nat, scheduled: Nat],
         spkRun'.id = spkRun.id, spkRun'.start = spkRun.start, spkRun.first <= spkRun'.first,
         spkRun.scheduled = spkRun'.scheduled \/ spkRun'.scheduled = spkNow',
         spkFinishing => spkFinishing', UNCHANGED spkCommitted
  PROVE  /\ \A w \in Window : PastOfRun(w) => PastOfRun(w)'
         /\ \A t \in DeferredTail : TailOfRun(t) => TailOfRun(t)'
<1>1. spkRun.scheduled <= spkRun'.scheduled /\ spkRun.scheduled <= spkNow
      /\ spkRun.scheduled \in Nat /\ spkRun'.scheduled \in Nat /\ spkRun.first \in Nat /\ spkRun'.first \in Nat
  BY DEF SpkTypes, RunSound
<1>2. ASSUME NEW w \in Window, PastOfRun(w) PROVE PastOfRun(w)'
  BY <1>1, <1>2 DEF PastOfRun, SpkTypes, Window
<1>3. ASSUME NEW t \in DeferredTail, TailOfRun(t) PROVE TailOfRun(t)'
  BY <1>1, <1>3 DEF TailOfRun, SpkTypes, DeferredTail
<1> QED BY <1>2, <1>3

(* A gap puts the whole run into the past. *)
LEMMA RunEnds ==
  ASSUME SpkTypes, RunSound, spkRun' = NewRun(spkRun.id + 1, spkNow), UNCHANGED <<spkNow, spkCommitted>>
  PROVE  /\ \A w \in Window : PastOfRun(w) => PastOfRun(w)'
         /\ \A t \in DeferredTail : TailOfRun(t) => TailOfRun(t)'
<1>1. /\ spkRun'.id = spkRun.id + 1 /\ spkRun'.start = spkNow /\ spkRun.id \in Nat /\ spkNow \in Nat
      /\ spkRun'.first = spkNow /\ spkRun'.scheduled = 0
  BY DEF NewRun, SpkTypes
<1>2. ASSUME NEW w \in Window, PastOfRun(w) PROVE PastOfRun(w)'
  BY <1>1, <1>2 DEF PastOfRun, Window
<1>3. ASSUME NEW t \in DeferredTail, TailOfRun(t) PROVE TailOfRun(t)'
  BY <1>1, <1>3 DEF TailOfRun, DeferredTail
<1> QED BY <1>2, <1>3

(* A new window of the run comes after everything known. *)
LEMMA NewestWindow ==
  ASSUME Settings, CreditInv, ~spkFinishing, NEW w \in Window,
         w.run = spkRun.id, w.runStart = spkRun.start, spkRun.first <= w.start, spkNow <= w.end,
         ~w.final => (spkRun.scheduled # 0 => spkRun.scheduled + Hop <= w.end)
  PROVE  /\ spkWindow # <<>> => Before(spkWindow[1], w)
         /\ spkTail # <<>> => TailBefore(spkTail[1], w)
<1>1. spkRun.scheduled \in Nat /\ spkNow \in Nat /\ spkRun.first \in Nat /\ spkRun.id \in Nat /\ spkRun.start \in Nat
  BY DEF CreditInv, SpkTypes
<1>2. spkWindow # <<>> => Before(spkWindow[1], w)
  <2> SUFFICES ASSUME spkWindow # <<>> PROVE Before(spkWindow[1], w)
    OBVIOUS
  <2> PICK v \in Window : v = spkWindow[1] /\ PastOfRun(v)
    BY DEF CreditInv, SpkTypes, WindowsOrdered, AtMostOne
  <2> QED BY SMTT(20), <1>1 DEF PastOfRun, Before, Window, Settings
<1>3. spkTail # <<>> => TailBefore(spkTail[1], w)
  <2> SUFFICES ASSUME spkTail # <<>> PROVE TailBefore(spkTail[1], w)
    OBVIOUS
  <2> PICK t \in DeferredTail : t = spkTail[1] /\ TailOfRun(t)
    BY DEF CreditInv, SpkTypes, TailOrdered, AtMostOne
  <2> QED BY SMTT(20), <1>1 DEF TailOfRun, TailBefore, Window, DeferredTail, Settings
<1> QED BY <1>2, <1>3

(* The windows and the tail after an offer, in the run as it is then. *)
LEMMA OfferKeepsOrder ==
  ASSUME Settings, CreditInv, ~spkFinishing, NEW w \in Window,
         spkPending' = spkPending \/ spkPending' = <<w>>, UNCHANGED <<spkWindow, spkTail>>,
         \A v \in Window : PastOfRun(v) => PastOfRun(v)',
         \A t \in DeferredTail : TailOfRun(t) => TailOfRun(t)',
         spkPending' = <<w>> =>
           /\ PastOfRun(w)'
           /\ spkWindow # <<>> => Before(spkWindow[1], w)
           /\ spkTail # <<>> => TailBefore(spkTail[1], w)
  PROVE  AtMostOne(spkPending, Window)' /\ WindowsOrdered' /\ TailOrdered'
<1>0. /\ spkPending = <<>> \/ spkPending[1] \in Window
      /\ spkWindow = <<>> \/ spkWindow[1] \in Window
      /\ spkTail = <<>> \/ spkTail[1] \in DeferredTail
      /\ <<w>>[1] = w /\ <<w>> # <<>>
  BY DEF CreditInv, SpkTypes, AtMostOne
<1>1. AtMostOne(spkPending, Window)'
  BY <1>0 DEF CreditInv, SpkTypes, AtMostOne
<1>2. CASE spkPending' = spkPending
  <2>1. WindowsOrdered' 
    BY <1>0, <1>2 DEF CreditInv, WindowsOrdered, Before
  <2>2. TailOrdered'
    BY <1>0, <1>2 DEF CreditInv, TailOrdered, TailBefore
  <2> QED BY <1>1, <2>1, <2>2
<1>3. CASE spkPending' = <<w>>
  <2>1. WindowsOrdered' 
    BY <1>0, <1>3 DEF CreditInv, WindowsOrdered, Before
  <2>2. TailOrdered'
    BY <1>0, <1>3 DEF CreditInv, TailOrdered, TailBefore
  <2> QED BY <1>1, <2>1, <2>2
<1> QED BY <1>2, <1>3

(* A frame, with the window it may offer, keeps the credit. *)
LEMMA FeedCredit == ASSUME Settings, CreditInv, FeedAudio PROVE CreditInv'
<1>1. PICK run : run = [spkRun EXCEPT !.first = Longer(spkRun.first, spkNow + 1 - WindowLen)]
  OBVIOUS
<1>2. /\ spkRun \in [id: Nat, start: Nat, first: Nat, scheduled: Nat] /\ spkNow \in Nat
      /\ spkNow + 1 <= MaxUnits /\ spkNow' = spkNow + 1
      /\ spkRun.start <= spkRun.first /\ spkRun.first <= spkNow /\ spkRun.scheduled <= spkNow
      /\ ~spkFinishing /\ WindowLen \in Nat /\ spkFinishing' = spkFinishing
      /\ UNCHANGED <<spkWindow, spkTail, spkCommitted, spkCredit, spkFinishing, spkClosed, spkWorker>>
  BY DEF FeedAudio, CreditInv, SpkTypes, RunSound, Settings, analyzer
<1>3. /\ run \in [id: Nat, start: Nat, first: Nat, scheduled: Nat]
      /\ run.id = spkRun.id /\ run.start = spkRun.start /\ run.scheduled = spkRun.scheduled
      /\ spkRun.first <= run.first /\ run.first <= spkNow + 1
      /\ [run EXCEPT !.scheduled = spkNow + 1] \in [id: Nat, start: Nat, first: Nat, scheduled: Nat]
      /\ [run EXCEPT !.scheduled = spkNow + 1].first = run.first
      /\ [run EXCEPT !.scheduled = spkNow + 1].start = run.start
      /\ [run EXCEPT !.scheduled = spkNow + 1].id = run.id
      /\ [run EXCEPT !.scheduled = spkNow + 1].scheduled = spkNow + 1
  <2>1. Longer(spkRun.first, spkNow + 1 - WindowLen) \in Nat /\ spkRun.first <= Longer(spkRun.first, spkNow + 1 - WindowLen)
        /\ Longer(spkRun.first, spkNow + 1 - WindowLen) <= spkNow + 1
    BY <1>2 DEF Longer
  <2>2. /\ run.id = spkRun.id /\ run.start = spkRun.start /\ run.scheduled = spkRun.scheduled
        /\ run.first = Longer(spkRun.first, spkNow + 1 - WindowLen)
    BY <1>1, <1>2
  <2>3. run \in [id: Nat, start: Nat, first: Nat, scheduled: Nat]
    BY <1>1, <1>2, <2>1
  <2>4. spkNow + 1 \in Nat
    BY <1>2
  <2> QED BY <2>1, <2>2, <2>3, <2>4
<1>4. \/ spkRun' = run /\ UNCHANGED <<spkPending, spkNotices, spkAwake>>
      \/ /\ spkRun' = [run EXCEPT !.scheduled = spkNow + 1]
         /\ run.scheduled # 0 => spkNow + 1 - run.scheduled >= Hop
         /\ Offer(run, spkNow + 1, FALSE)
  BY <1>1 DEF FeedAudio
<1>5. /\ spkRun' \in [id: Nat, start: Nat, first: Nat, scheduled: Nat]
      /\ spkRun'.id = spkRun.id /\ spkRun'.start = spkRun.start /\ spkRun'.first = run.first
      /\ spkRun'.scheduled = spkRun.scheduled \/ spkRun'.scheduled = spkNow'
  BY <1>2, <1>3, <1>4
<1>6. /\ \A w \in Window : PastOfRun(w) => PastOfRun(w)'
      /\ \A t \in DeferredTail : TailOfRun(t) => TailOfRun(t)'
  <2>1. SpkTypes /\ RunSound
    BY DEF CreditInv
  <2>2. spkNow' \in Nat /\ spkNow <= spkNow' /\ spkRun.first <= spkRun'.first /\ (spkFinishing => spkFinishing')
    BY <1>2, <1>3, <1>5
  <2> QED BY <1>2, <1>5, <2>1, <2>2, RunGoesOn
<1>7. PICK w : w = NewWindow(run, spkNow + 1, FALSE)
  OBVIOUS
<1>8. /\ w \in Window /\ w.run = run.id /\ w.start = run.first /\ w.end = spkNow + 1 /\ w.final = FALSE
      /\ w.runStart = run.start
  BY <1>2, <1>3, <1>7 DEF Window, NewWindow
<1>9. spkPending' # spkPending =>
        /\ spkPending' = <<w>>
        /\ run.first # spkNow + 1 /\ spkRun'.scheduled = spkNow + 1
        /\ spkRun.scheduled # 0 => spkRun.scheduled + Hop <= spkNow + 1
  <2> SUFFICES ASSUME spkPending' # spkPending
               PROVE  /\ spkPending' = <<w>>
                      /\ run.first # spkNow + 1 /\ spkRun'.scheduled = spkNow + 1
                      /\ spkRun.scheduled # 0 => spkRun.scheduled + Hop <= spkNow + 1
    OBVIOUS
  <2>1. /\ spkRun' = [run EXCEPT !.scheduled = spkNow + 1]
        /\ run.scheduled # 0 => spkNow + 1 - run.scheduled >= Hop
        /\ Offer(run, spkNow + 1, FALSE)
    BY <1>4
  <2>2. run.first # spkNow + 1 /\ spkPending' = <<w>>
    BY <1>7, <2>1, Offered
  <2>3. spkRun.scheduled # 0 => spkRun.scheduled + Hop <= spkNow + 1
    BY <1>2, <1>3, <2>1 DEF Settings
  <2> QED BY <1>3, <2>1, <2>2, <2>3
<1>10. spkPending' # spkPending =>
         /\ PastOfRun(w)'
         /\ spkWindow # <<>> => Before(spkWindow[1], w)
         /\ spkTail # <<>> => TailBefore(spkTail[1], w)
  <2> SUFFICES ASSUME spkPending' # spkPending
               PROVE  /\ PastOfRun(w)'
                      /\ spkWindow # <<>> => Before(spkWindow[1], w)
                      /\ spkTail # <<>> => TailBefore(spkTail[1], w)
    OBVIOUS
  <2>1. PastOfRun(w)'
    BY <1>2, <1>3, <1>5, <1>8, <1>9 DEF PastOfRun
  <2>2. QED
    BY <1>2, <1>3, <1>8, <1>9, <2>1, NewestWindow
<1>11. AtMostOne(spkPending, Window)' /\ WindowsOrdered' /\ TailOrdered'
  <2>1. spkPending' = spkPending \/ spkPending' = <<w>>
    BY <1>9
  <2>2. CASE spkPending' = spkPending
    BY <1>2, <1>6, <2>2 DEF CreditInv, SpkTypes, AtMostOne, WindowsOrdered, TailOrdered, Before, TailBefore
  <2>3. CASE spkPending' # spkPending
    BY <1>2, <1>6, <1>8, <1>10, <2>1, <2>3, OfferKeepsOrder
  <2> QED BY <2>2, <2>3
<1>12. RunSound'
  BY <1>2, <1>3, <1>5 DEF RunSound
<1>13. CreditSound'
  BY <1>2 DEF CreditInv, CreditSound
<1>14. SpkTypes'
  <2>1. spkNow' \in 0 .. MaxUnits
    BY <1>2 DEF Settings
  <2> QED BY <1>2, <1>5, <1>11, <2>1 DEF CreditInv, SpkTypes, AtMostOne
<1> QED BY <1>11, <1>12, <1>13, <1>14 DEF CreditInv

(* An offer of the last window of the run. *)
LastWindow == NewWindow(spkRun, spkNow, TRUE)
OfferLast == Offer(spkRun, spkNow, TRUE)
(* The last window of a run. *)
LEMMA FinalOffer ==
  ASSUME Settings, CreditInv, ~spkFinishing, OfferLast,
         NEW w, w = LastWindow
  PROVE  /\ spkRun.first # spkNow => w \in Window /\ spkPending' = <<w>>
         /\ spkRun.first = spkNow => UNCHANGED <<spkPending, spkNotices>>
         /\ w.run = spkRun.id /\ w.start = spkRun.first /\ w.end = spkNow /\ w.final
         /\ w.runStart = spkRun.start
         /\ spkWindow # <<>> /\ spkRun.first # spkNow => Before(spkWindow[1], w)
         /\ spkTail # <<>> /\ spkRun.first # spkNow => TailBefore(spkTail[1], w)
<1>1. /\ spkRun \in [id: Nat, start: Nat, first: Nat, scheduled: Nat] /\ spkNow \in Nat
      /\ spkRun.first <= spkNow
  BY DEF CreditInv, SpkTypes, RunSound
<1>2. /\ w \in Window /\ w.run = spkRun.id /\ w.start = spkRun.first /\ w.end = spkNow /\ w.final
      /\ w.runStart = spkRun.start
  BY <1>1 DEF LastWindow, NewWindow, Window
<1>3. /\ spkRun.first # spkNow => spkPending' = <<w>>
      /\ spkRun.first = spkNow => UNCHANGED <<spkPending, spkNotices>>
  BY DEF OfferLast, Offer, LastWindow, NewWindow
<1>4. /\ spkWindow # <<>> => Before(spkWindow[1], w)
      /\ spkTail # <<>> => TailBefore(spkTail[1], w)
  <2>1. spkRun.first <= w.start /\ spkNow <= w.end
    BY <1>1, <1>2
  <2>2. ~w.final => (spkRun.scheduled # 0 => spkRun.scheduled + Hop <= w.end)
    BY <1>2
  <2> QED BY <1>2, <2>1, <2>2, NewestWindow
<1> QED BY <1>2, <1>3, <1>4

(* A gap keeps the credit. *)
LEMMA GapCredit == ASSUME Settings, CreditInv, SpkGap PROVE CreditInv'
<1>1. PICK w : w = LastWindow
  OBVIOUS
<1>2. /\ spkRun \in [id: Nat, start: Nat, first: Nat, scheduled: Nat] /\ spkNow \in Nat
      /\ spkRun.start <= spkRun.first /\ spkRun.first <= spkNow
      /\ ~spkFinishing /\ OfferLast /\ spkRun' = NewRun(spkRun.id + 1, spkNow)
      /\ UNCHANGED <<spkNow, spkWindow, spkTail, spkCommitted, spkCredit, spkFinishing, spkClosed, spkWorker>>
  <2>1. /\ spkRun \in [id: Nat, start: Nat, first: Nat, scheduled: Nat] /\ spkNow \in Nat
        /\ spkRun.start <= spkRun.first /\ spkRun.first <= spkNow
    BY DEF CreditInv, SpkTypes, RunSound
  <2> QED BY <2>1 DEF SpkGap, OfferLast, analyzer
<1>3. /\ spkRun'.id = spkRun.id + 1 /\ spkRun'.start = spkNow /\ spkRun'.first = spkNow /\ spkRun'.scheduled = 0
      /\ spkRun' \in [id: Nat, start: Nat, first: Nat, scheduled: Nat]
  BY <1>2 DEF NewRun
<1>4. /\ \A v \in Window : PastOfRun(v) => PastOfRun(v)'
      /\ \A t \in DeferredTail : TailOfRun(t) => TailOfRun(t)'
  BY <1>2, RunEnds DEF CreditInv
<1>5. AtMostOne(spkPending, Window)' /\ WindowsOrdered' /\ TailOrdered'
  <2>1. CASE spkRun.first = spkNow
    <3>1. UNCHANGED <<spkPending, spkNotices>>
      BY <1>1, <1>2, <2>1, FinalOffer
    <3> QED BY <1>2, <1>4, <3>1 DEF CreditInv, SpkTypes, AtMostOne, WindowsOrdered, TailOrdered, Before, TailBefore
  <2>2. CASE spkRun.first # spkNow
    <3>1. /\ w \in Window /\ spkPending' = <<w>>
          /\ w.run = spkRun.id /\ w.start = spkRun.first /\ w.end = spkNow /\ w.final
          /\ w.runStart = spkRun.start
          /\ spkWindow # <<>> => Before(spkWindow[1], w)
          /\ spkTail # <<>> => TailBefore(spkTail[1], w)
      BY <1>1, <1>2, <2>2, FinalOffer
    <3>2. PastOfRun(w)'
      BY <1>2, <1>3, <2>2, <3>1 DEF PastOfRun
    <3> QED BY <1>2, <1>4, <3>1, <3>2, OfferKeepsOrder
  <2> QED BY <2>1, <2>2
<1>6. RunSound' /\ CreditSound' /\ SpkTypes'
  <2>1. RunSound'
    BY <1>2, <1>3 DEF RunSound
  <2>2. CreditSound'
    BY <1>2 DEF CreditInv, CreditSound
  <2>3. SpkTypes'
    BY <1>2, <1>3, <1>5 DEF CreditInv, SpkTypes, AtMostOne
  <2> QED BY <2>1, <2>2, <2>3
<1> QED BY <1>5, <1>6 DEF CreditInv

(* So does the end of the input. *)
LEMMA FinishCredit == ASSUME Settings, CreditInv, FinishInput PROVE CreditInv'
<1>1. PICK w : w = LastWindow
  OBVIOUS
<1>2. /\ spkRun \in [id: Nat, start: Nat, first: Nat, scheduled: Nat] /\ spkNow \in Nat
      /\ SpkTypes /\ RunSound /\ spkRun.first <= spkNow /\ spkRun.start <= spkRun.first
      /\ ~spkFinishing /\ spkFinishing' = TRUE
      /\ IF spkRun.first # spkNow THEN OfferLast ELSE UNCHANGED <<spkPending, spkNotices>>
      /\ UNCHANGED <<spkNow, spkRun, spkWindow, spkTail, spkCommitted, spkCredit, spkClosed, spkWorker>>
  <2>1. /\ spkRun \in [id: Nat, start: Nat, first: Nat, scheduled: Nat] /\ spkNow \in Nat
        /\ SpkTypes /\ RunSound /\ spkRun.first <= spkNow /\ spkRun.start <= spkRun.first
    BY DEF CreditInv, SpkTypes, RunSound
  <2> QED BY <2>1 DEF FinishInput, OfferLast, analyzer, feeding
<1>4. /\ \A v \in Window : PastOfRun(v) => PastOfRun(v)'
      /\ \A t \in DeferredTail : TailOfRun(t) => TailOfRun(t)'
  <2>1. spkNow' \in Nat /\ spkNow <= spkNow' /\ spkRun.first <= spkRun'.first /\ (spkFinishing => spkFinishing')
    BY <1>2
  <2> QED BY <1>2, <2>1, RunGoesOn
<1>5. AtMostOne(spkPending, Window)' /\ WindowsOrdered' /\ TailOrdered'
  <2>1. CASE spkRun.first = spkNow
    <3>1. UNCHANGED spkPending
      BY <1>2, <2>1
    <3> QED BY <1>2, <1>4, <3>1 DEF CreditInv, SpkTypes, AtMostOne, WindowsOrdered, TailOrdered, Before, TailBefore
  <2>2. CASE spkRun.first # spkNow
    <3>1. /\ w \in Window /\ spkPending' = <<w>>
          /\ w.run = spkRun.id /\ w.start = spkRun.first /\ w.end = spkNow /\ w.final
          /\ w.runStart = spkRun.start
          /\ spkWindow # <<>> => Before(spkWindow[1], w)
          /\ spkTail # <<>> => TailBefore(spkTail[1], w)
      BY <1>1, <1>2, <2>2, FinalOffer
    <3>2. PastOfRun(w)'
      BY <1>2, <2>2, <3>1 DEF PastOfRun
    <3> QED BY <1>2, <1>4, <3>1, <3>2, OfferKeepsOrder
  <2> QED BY <2>1, <2>2
<1>6. RunSound' /\ CreditSound' /\ SpkTypes'
  <2>1. RunSound'
    BY <1>2 DEF RunSound
  <2>2. CreditSound'
    BY <1>2 DEF CreditInv, CreditSound
  <2>3. SpkTypes'
    BY <1>2, <1>5 DEF SpkTypes, AtMostOne
  <2> QED BY <2>1, <2>2, <2>3
<1> QED BY <1>5, <1>6 DEF CreditInv

(* What the loop takes next; the windows keep their order. *)
LEMMA GoOnKeepsOrder ==
  ASSUME SpkTypes, NEW told, NEW notices, GoOn(told, notices),
         spkPending # <<>> => PastOfRun(spkPending[1]), UNCHANGED <<feeding, spkFinishing>>
  PROVE  /\ AtMostOne(spkPending, Window)' /\ AtMostOne(spkWindow, Window)' /\ WindowsOrdered'
         /\ spkPending' = <<>>
         /\ spkWindow' = spkPending
         /\ spkWorker' = "busy" => spkWindow' # <<>>
<1>1. CASE spkPending # <<>>
  <2>1. spkWindow' = spkPending /\ spkPending' = <<>>
    BY <1>1 DEF GoOn
  <2> QED BY <1>1, <2>1 DEF SpkTypes, AtMostOne, WindowsOrdered, PastOfRun, feeding
<1>2. CASE spkPending = <<>>
  <2>1. spkWindow' = <<>> /\ spkPending' = <<>> /\ spkWorker' # "busy"
    BY <1>2 DEF GoOn
  <2> QED BY <1>2, <2>1 DEF AtMostOne, WindowsOrdered
<1> QED BY <1>1, <1>2

(* So does the loop when it wakes. *)
LEMMA WakeCredit == ASSUME CreditInv, LoopWakes PROVE CreditInv'
<1>1. /\ UNCHANGED <<feeding, spkFinishing>> /\ GoOn(spkTold \union NoticedUnits, <<>>)
      /\ UNCHANGED <<spkNow, spkRun, spkClosed, spkCommitted, spkTail, spkCredit>>
  BY DEF LoopWakes, feeding, analyzer
<1>2. /\ AtMostOne(spkPending, Window)' /\ AtMostOne(spkWindow, Window)' /\ WindowsOrdered'
      /\ spkPending' = <<>> /\ spkWindow' = spkPending
      /\ spkWorker' = "busy" => spkWindow' # <<>>
  BY <1>1, GoOnKeepsOrder DEF CreditInv, WindowsOrdered
<1>3. TailOrdered'
  BY <1>1, <1>2 DEF CreditInv, TailOrdered, TailOfRun, TailBefore
<1>4. SpkTypes' /\ RunSound' /\ CreditSound'
  BY <1>1, <1>2 DEF CreditInv, SpkTypes, RunSound, CreditSound, AtMostOne
<1> QED BY <1>2, <1>3, <1>4 DEF CreditInv

(* So does closing. *)
LEMMA CloseCredit == ASSUME CreditInv, CloseStream PROVE CreditInv'
<1>1. /\ UNCHANGED <<spkNow, spkRun, spkFinishing, spkCommitted, spkTail, spkCredit>>
      /\ spkClosed' = TRUE /\ spkPending' = <<>> /\ spkWindow' = <<>> /\ spkWorker' = "done"
  BY DEF CloseStream, feeding, analyzer
<1>2. WindowsOrdered' /\ TailOrdered'
  BY <1>1 DEF CreditInv, WindowsOrdered, TailOrdered, TailOfRun
<1>3. SpkTypes' /\ RunSound' /\ CreditSound'
  BY <1>1 DEF CreditInv, SpkTypes, RunSound, CreditSound, AtMostOne
<1> QED BY <1>2, <1>3 DEF CreditInv

(* A retired tail is what lies between the committed end and the new one. *)
LEMMA RetiredTail ==
  ASSUME Settings, CreditInv, spkWindow # <<>>, NEW w, w = spkWindow[1]
  PROVE  /\ Retired(w).committed \in Nat /\ spkCommitted <= Retired(w).committed
         /\ \A u \in 0 .. (MaxUnits - 1) :
              u \in Retired(w).units <=> spkCommitted <= u /\ u < Retired(w).committed
         /\ \/ Retired(w).committed = spkCommitted
               /\ (spkTail # <<>> => spkTail[1].run = w.run /\ w.start <= spkTail[1].start)
            \/ /\ spkTail # <<>> /\ Retired(w).committed = spkTail[1].end
               /\ spkTail[1].run # w.run => Retired(w).committed <= w.runStart
               /\ spkTail[1].run = w.run => /\ Retired(w).committed <= w.end
                                            /\ ~w.final => Retired(w).committed + Guard <= w.end
<1>1. w \in Window /\ spkCommitted \in Nat
  BY DEF CreditInv, SpkTypes, AtMostOne
<1>2. CASE spkTail = <<>>
  BY <1>1, <1>2 DEF Retired
<1>3. CASE spkTail # <<>>
  <2>1. PICK t \in DeferredTail : t = spkTail[1] /\ TailOfRun(t) /\ TailBefore(t, w)
    BY <1>3 DEF CreditInv, SpkTypes, AtMostOne, TailOrdered
  <2>2. /\ t.start \in Nat /\ t.end \in Nat /\ t.run \in Nat /\ t.start < t.end /\ spkCommitted = t.start
        /\ Longer(spkCommitted, t.end) = t.end
    BY <2>1 DEF DeferredTail, TailOfRun, Longer
  <2>3. CASE t.run # w.run \/ w.start > t.start
    <3>1. Retired(w) = [units |-> Units(t.start, t.end), committed |-> t.end]
      BY <1>3, <2>1, <2>2, <2>3 DEF Retired
    <3>2. Retired(w).units = Units(t.start, t.end) /\ Retired(w).committed = t.end
      BY <3>1
    <3>3. t.run # w.run => t.end <= w.runStart
      BY <2>1, <1>1, <2>2 DEF TailBefore, Window
    <3>4. \A u \in 0 .. (MaxUnits - 1) : u \in Units(t.start, t.end) <=> t.start <= u /\ u < t.end
      BY DEF Units
    <3>5. t.run = w.run => t.end <= w.end /\ (~w.final => t.end + Guard <= w.end)
      BY <2>1 DEF TailBefore
    <3> QED BY <1>3, <2>1, <2>2, <3>2, <3>3, <3>4, <3>5
  <2>4. CASE ~(t.run # w.run \/ w.start > t.start)
    <3>1. Retired(w).units = {} /\ Retired(w).committed = spkCommitted
      BY <1>3, <2>1, <2>4 DEF Retired
    <3>2. t.run = w.run /\ w.start <= t.start
      BY <1>1, <2>2, <2>4 DEF Window
    <3> QED BY <1>1, <2>1, <3>1, <3>2
  <2> QED BY <2>3, <2>4
<1> QED BY <1>2, <1>3

(* analyze: the committed end, the tail and the credit afterwards. *)
LEMMA AnalyzeFacts ==
  ASSUME Settings, CreditInv, spkWindow # <<>>, NEW w, w = spkWindow[1],
         NEW limit \in Nat, NEW d \in Nat, Analyze(w, limit, d)
  PROVE  /\ spkCommitted' = Longer(spkCommitted, limit - d) /\ limit - d \in Nat
         /\ w.start <= limit - d /\ limit <= w.end /\ w.end <= limit + Guard
         /\ w.final => limit = w.end /\ d = 0
         /\ Retired(w).committed <= spkCommitted'
         /\ d = 0 => spkTail' = <<>>
         /\ d > 0 => /\ spkTail' = <<[run |-> w.run, start |-> limit - d, end |-> limit]>>
                     /\ Retired(w).committed <= limit - d
         /\ spkCredit' \in [0 .. (MaxUnits - 1) -> Nat]
         /\ \A u \in 0 .. (MaxUnits - 1) :
              spkCredit'[u] = spkCredit[u]
                + (IF spkCommitted <= u /\ u < Retired(w).committed THEN 1 ELSE 0)
                + (IF Longer(w.runStart, Retired(w).committed) <= u /\ u < w.start THEN 1 ELSE 0)
                + (IF Longer(w.start, Retired(w).committed) <= u /\ u < limit - d THEN 1 ELSE 0)
<1>1. PICK rc : rc = Retired(w).committed
  OBVIOUS
<1>2. PICK ru : ru = Retired(w).units
  OBVIOUS
<1>3. w \in Window /\ spkCommitted \in Nat /\ spkCredit \in [0 .. (MaxUnits - 1) -> Nat] /\ PastOfRun(w)
  BY DEF CreditInv, SpkTypes, AtMostOne, WindowsOrdered
<1>4. /\ w.start \in Nat /\ w.end \in Nat /\ w.runStart \in Nat /\ w.start < w.end
      /\ w.runStart <= w.start /\ Guard \in Nat
  BY <1>3 DEF Window, PastOfRun, Settings
<1>5. /\ rc \in Nat /\ spkCommitted <= rc
      /\ \A u \in 0 .. (MaxUnits - 1) : u \in ru <=> spkCommitted <= u /\ u < rc
      /\ rc = spkCommitted \/ rc <= w.runStart \/ (rc <= w.end /\ (~w.final => rc + Guard <= w.end))
  BY <1>1, <1>2, RetiredTail
<1>6. /\ limit \in Longer(w.start, w.end - Guard) .. w.end /\ (w.final => limit = w.end)
      /\ d < MinClean /\ (d > 0 => ~w.final /\ Longer(w.start, rc) <= limit - d)
      /\ spkCredit' = [u \in DOMAIN spkCredit |->
           spkCredit[u] + (IF u \in ru THEN 1 ELSE 0)
                        + (IF u \in Units(Longer(w.runStart, rc), w.start) THEN 1 ELSE 0)
                        + (IF u \in Units(Longer(w.start, rc), limit - d) THEN 1 ELSE 0)]
      /\ spkCommitted' = Longer(spkCommitted, limit - d)
      /\ spkTail' = IF d > 0 THEN <<[run |-> w.run, start |-> limit - d, end |-> limit]>> ELSE <<>>
  BY <1>1, <1>2 DEF Analyze
<1>7. limit >= w.start /\ limit <= w.end /\ w.end <= limit + Guard
  BY <1>4, <1>6 DEF Longer
<1>8. d > 0 => w.start <= limit - d /\ rc <= limit - d
  BY <1>4, <1>5, <1>6 DEF Longer
<1>9. w.final => limit = w.end /\ d = 0
  BY <1>6
<1>10. limit - d \in Nat /\ w.start <= limit - d
  BY <1>4, <1>7, <1>8
<1>11. rc <= Longer(spkCommitted, limit - d)
  <2>1. CASE d > 0
    BY <1>3, <1>5, <1>8, <1>10, <2>1 DEF Longer
  <2>2. CASE d = 0
    <3>1. rc = spkCommitted \/ rc <= limit
      BY <1>4, <1>5, <1>7, <1>9, <2>2
    <3> QED BY <1>3, <1>5, <2>2, <3>1 DEF Longer
  <2> QED BY <2>1, <2>2
<1>12. \A u \in 0 .. (MaxUnits - 1) :
         /\ u \in Units(Longer(w.runStart, rc), w.start) <=> Longer(w.runStart, rc) <= u /\ u < w.start
         /\ u \in Units(Longer(w.start, rc), limit - d) <=> Longer(w.start, rc) <= u /\ u < limit - d
  BY DEF Units
<1>13. \A u \in 0 .. (MaxUnits - 1) :
         spkCredit'[u] = spkCredit[u]
           + (IF spkCommitted <= u /\ u < rc THEN 1 ELSE 0)
           + (IF Longer(w.runStart, rc) <= u /\ u < w.start THEN 1 ELSE 0)
           + (IF Longer(w.start, rc) <= u /\ u < limit - d THEN 1 ELSE 0)
  BY <1>3, <1>5, <1>6, <1>12
<1>14. spkCredit' \in [0 .. (MaxUnits - 1) -> Nat]
  BY <1>3, <1>6
<1>15. /\ d = 0 => spkTail' = <<>>
       /\ d > 0 => spkTail' = <<[run |-> w.run, start |-> limit - d, end |-> limit]>>
  BY <1>6
<1> QED BY <1>1, <1>6, <1>7, <1>8, <1>9, <1>10, <1>11, <1>13, <1>14, <1>15

(* A successful analysis. *)
LEMMA AnalyzeCredit ==
  ASSUME Settings, CreditInv, spkWindow # <<>>,
         NEW limit \in Nat, NEW d \in Nat, Analyze(spkWindow[1], limit, d), UNCHANGED <<spkNow, spkRun>>
  PROVE  /\ spkCommitted' \in Nat /\ spkCredit' \in [0 .. (MaxUnits - 1) -> Nat]
         /\ AtMostOne(spkTail, DeferredTail)' /\ CreditSound'
         /\ spkTail' # <<>> =>
              /\ TailOfRun(spkTail[1])'
              /\ spkPending # <<>> => TailBefore(spkTail'[1], spkPending[1])
<1>1. PICK w : w = spkWindow[1]
  OBVIOUS
<1>2. PICK rc : rc = Retired(w).committed
  OBVIOUS
<1>3. /\ w \in Window /\ spkCommitted \in Nat /\ spkCredit \in [0 .. (MaxUnits - 1) -> Nat] /\ PastOfRun(w)
      /\ CreditSound
  BY <1>1 DEF CreditInv, SpkTypes, AtMostOne, WindowsOrdered
<1>4. /\ w.start \in Nat /\ w.end \in Nat /\ w.runStart \in Nat /\ w.start < w.end
      /\ w.runStart <= w.start /\ w.end <= spkNow /\ Guard \in Nat /\ Hop \in Nat /\ Guard <= Hop
      /\ w.run \in Nat /\ w.final \in BOOLEAN
  BY <1>3 DEF Window, PastOfRun, Settings
<1>5. /\ rc \in Nat /\ spkCommitted <= rc
  BY <1>1, <1>2, RetiredTail
<1>6. /\ spkCommitted' = Longer(spkCommitted, limit - d) /\ limit - d \in Nat
      /\ w.start <= limit - d /\ limit <= w.end /\ w.end <= limit + Guard
      /\ w.final => limit = w.end /\ d = 0
      /\ rc <= spkCommitted'
      /\ d = 0 => spkTail' = <<>>
      /\ d > 0 => spkTail' = <<[run |-> w.run, start |-> limit - d, end |-> limit]>> /\ rc <= limit - d
      /\ spkCredit' \in [0 .. (MaxUnits - 1) -> Nat]
      /\ \A u \in 0 .. (MaxUnits - 1) :
           spkCredit'[u] = spkCredit[u]
             + (IF spkCommitted <= u /\ u < rc THEN 1 ELSE 0)
             + (IF Longer(w.runStart, rc) <= u /\ u < w.start THEN 1 ELSE 0)
             + (IF Longer(w.start, rc) <= u /\ u < limit - d THEN 1 ELSE 0)
  BY <1>1, <1>2, AnalyzeFacts
<1>7. spkCommitted' \in Nat /\ spkCommitted <= spkCommitted' /\ limit - d <= spkCommitted'
  BY <1>3, <1>6 DEF Longer
<1>8. CreditSound'
  <2> SUFFICES ASSUME NEW u \in 0 .. (MaxUnits - 1)
               PROVE  spkCredit'[u] <= 1 /\ (spkCommitted' <= u => spkCredit'[u] = 0)
    BY DEF CreditSound
  <2>1. spkCredit[u] \in Nat /\ spkCredit[u] <= 1 /\ (spkCommitted <= u => spkCredit[u] = 0) /\ u \in Nat
    BY <1>3 DEF CreditSound, Settings
  <2>2. spkCredit'[u] = spkCredit[u]
             + (IF spkCommitted <= u /\ u < rc THEN 1 ELSE 0)
             + (IF Longer(w.runStart, rc) <= u /\ u < w.start THEN 1 ELSE 0)
             + (IF Longer(w.start, rc) <= u /\ u < limit - d THEN 1 ELSE 0)
    BY <1>6
  <2> QED BY <1>3, <1>4, <1>5, <1>6, <1>7, <2>1, <2>2 DEF Longer
<1>9. d > 0 =>
        /\ spkTail' # <<>> /\ spkTail'[1] \in DeferredTail /\ spkTail' = <<spkTail'[1]>>
        /\ spkTail'[1].run = w.run /\ spkTail'[1].start = limit - d /\ spkTail'[1].end = limit
        /\ spkCommitted' = limit - d
  <2> SUFFICES ASSUME d > 0
               PROVE  /\ spkTail' # <<>> /\ spkTail'[1] \in DeferredTail /\ spkTail' = <<spkTail'[1]>>
                      /\ spkTail'[1].run = w.run /\ spkTail'[1].start = limit - d /\ spkTail'[1].end = limit
                      /\ spkCommitted' = limit - d
    OBVIOUS
  <2>1. PICK t : t = [run |-> w.run, start |-> limit - d, end |-> limit]
    OBVIOUS
  <2>2. t \in DeferredTail /\ t.run = w.run /\ t.start = limit - d /\ t.end = limit
    BY <1>4, <1>6, <2>1 DEF DeferredTail
  <2>3. spkTail' = <<t>>
    BY <1>6, <2>1
  <2>4. spkCommitted' = limit - d
    BY <1>3, <1>5, <1>6 DEF Longer
  <2> QED BY <2>2, <2>3, <2>4
<1>10. AtMostOne(spkTail, DeferredTail)'
  BY <1>6, <1>9 DEF AtMostOne
<1>11. ASSUME d > 0 PROVE TailOfRun(spkTail[1])'
  <2>1. spkRun.id \in Nat /\ spkRun.start \in Nat /\ spkRun.scheduled \in Nat /\ spkNow \in Nat
    BY DEF CreditInv, SpkTypes
  <2>2. /\ w.run <= spkRun.id
        /\ w.run < spkRun.id => w.end <= spkRun.start
        /\ w.run = spkRun.id => spkRun.scheduled # 0 /\ w.end <= spkRun.scheduled
    BY <1>3, <1>6, <1>11 DEF PastOfRun
  <2> QED BY SMTT(20), <1>4, <1>6, <1>9, <1>11, <2>1, <2>2 DEF TailOfRun
<1>12. ASSUME d > 0, spkPending # <<>> PROVE TailBefore(spkTail'[1], spkPending[1])
  <2>1. PICK p \in Window : p = spkPending[1] /\ Before(w, p)
    BY <1>1, <1>12 DEF CreditInv, SpkTypes, AtMostOne, WindowsOrdered
  <2>2. p.run \in Nat /\ p.runStart \in Nat /\ p.end \in Nat
    BY DEF Window
  <2>3. /\ w.run <= p.run
        /\ w.run < p.run => w.end <= p.runStart
        /\ w.run = p.run => w.end <= p.end /\ (~p.final => w.end + Hop <= p.end)
    BY <2>1 DEF Before
  <2>4. TailBefore(spkTail'[1], p)
    BY <1>4, <1>6, <1>9, <1>12, <2>2, <2>3 DEF TailBefore
  <2> QED BY <2>1, <2>4
<1> QED BY <1>6, <1>7, <1>8, <1>10, <1>11, <1>12

(* A failed analysis. *)
LEMMA FailureCredit ==
  ASSUME Settings, CreditInv, spkWindow # <<>>, AnalysisFails(spkWindow[1]), UNCHANGED <<spkNow, spkRun>>
  PROVE  /\ spkCommitted' \in Nat /\ spkCredit' \in [0 .. (MaxUnits - 1) -> Nat]
         /\ AtMostOne(spkTail, DeferredTail)' /\ CreditSound'
         /\ spkTail' # <<>> =>
              /\ TailOfRun(spkTail[1])'
              /\ spkPending # <<>> => TailBefore(spkTail'[1], spkPending[1])
<1>1. CASE UNCHANGED analyzer
  BY <1>1 DEF analyzer, CreditInv, SpkTypes, AtMostOne, CreditSound, TailOrdered, TailOfRun
<1>2. CASE spkTail # <<>> /\ spkCredit' = Credited(Units(spkTail[1].start, spkTail[1].end))
           /\ spkCommitted' = Longer(spkCommitted, spkTail[1].end) /\ spkTail' = <<>>
  <2>1. PICK t \in DeferredTail : t = spkTail[1] /\ TailOfRun(t)
    BY <1>2 DEF CreditInv, SpkTypes, AtMostOne, TailOrdered
  <2>2. t.start \in Nat /\ t.end \in Nat /\ t.start < t.end /\ spkCommitted = t.start
    BY <2>1 DEF DeferredTail, TailOfRun
  <2>3. spkCommitted' = t.end
    BY <1>2, <2>1, <2>2 DEF Longer
  <2>4. spkCredit \in [0 .. (MaxUnits - 1) -> Nat]
    BY DEF CreditInv, SpkTypes
  <2>5. /\ spkCredit' \in [0 .. (MaxUnits - 1) -> Nat]
        /\ \A u \in 0 .. (MaxUnits - 1) :
             spkCredit'[u] = spkCredit[u] + (IF t.start <= u /\ u < t.end THEN 1 ELSE 0)
    BY <1>2, <2>1, <2>4 DEF Credited, Units
  <2>6. CreditSound'
    <3> SUFFICES ASSUME NEW u \in 0 .. (MaxUnits - 1)
                 PROVE  spkCredit'[u] <= 1 /\ (spkCommitted' <= u => spkCredit'[u] = 0)
      BY DEF CreditSound
    <3>1. spkCredit[u] \in Nat /\ spkCredit[u] <= 1 /\ (spkCommitted <= u => spkCredit[u] = 0) /\ u \in Nat
      BY <2>4 DEF CreditInv, CreditSound, Settings
    <3> QED BY <2>2, <2>3, <2>5, <3>1
  <2> QED BY <1>2, <2>2, <2>3, <2>5, <2>6 DEF AtMostOne
<1> QED BY <1>1, <1>2 DEF AnalysisFails

(* So does an analysis that returns or fails. *)
LEMMA AnalysisCredit ==
  ASSUME Settings, CreditInv, AnalysisReturns PROVE CreditInv'
<1>0. spkWindow # <<>>
  BY DEF AnalysisReturns, CreditInv, SpkTypes
<1>1. UNCHANGED <<spkNow, spkRun, spkFinishing, spkClosed>> /\ UNCHANGED <<feeding, spkFinishing>>
  BY DEF AnalysisReturns, feeding
<1>2. /\ spkCommitted' \in Nat /\ spkCredit' \in [0 .. (MaxUnits - 1) -> Nat]
      /\ AtMostOne(spkTail, DeferredTail)' /\ CreditSound'
      /\ spkTail' # <<>> =>
           /\ TailOfRun(spkTail[1])'
           /\ spkPending # <<>> => TailBefore(spkTail'[1], spkPending[1])
  <2>1. CASE \E limit \in 0 .. MaxUnits, d \in 0 .. (MinClean - 1) : Analyze(spkWindow[1], limit, d)
    <3>1. PICK limit \in 0 .. MaxUnits, d \in 0 .. (MinClean - 1) : Analyze(spkWindow[1], limit, d)
      BY <2>1
    <3>2. limit \in Nat /\ d \in Nat
      BY DEF Settings
    <3> QED BY <1>0, <1>1, <3>1, <3>2, AnalyzeCredit
  <2>2. CASE AnalysisFails(spkWindow[1])
    BY <1>0, <1>1, <2>2, FailureCredit
  <2> QED BY <2>1, <2>2 DEF AnalysisReturns
<1>3. PICK told, notices : GoOn(told, notices)
  BY DEF AnalysisReturns
<1>4. /\ AtMostOne(spkPending, Window)' /\ AtMostOne(spkWindow, Window)' /\ WindowsOrdered'
      /\ spkPending' = <<>> /\ spkWindow' = spkPending
      /\ spkWorker' = "busy" => spkWindow' # <<>>
  BY <1>1, <1>3, GoOnKeepsOrder DEF CreditInv, WindowsOrdered
<1>5. TailOrdered'
  BY <1>2, <1>4 DEF TailOrdered, TailBefore
<1>6. SpkTypes'
  BY <1>1, <1>2, <1>4 DEF CreditInv, SpkTypes
<1>7. RunSound'
  BY <1>1 DEF CreditInv, RunSound
<1> QED BY <1>2, <1>4, <1>5, <1>6, <1>7 DEF CreditInv

(* So does every step. *)
LEMMA NextCredit == ASSUME Settings PROVE CreditInv /\ [SpkNext]_spkVars => CreditInv'
<1> SUFFICES ASSUME CreditInv, [SpkNext]_spkVars PROVE CreditInv'
  OBVIOUS
<1>1. CASE SpkNext
  BY <1>1, FeedCredit, GapCredit, FinishCredit, WakeCredit, AnalysisCredit, CloseCredit DEF SpkNext
<1>2. CASE UNCHANGED spkVars
  BY <1>2 DEF spkVars, CreditInv, SpkTypes, RunSound, WindowsOrdered, TailOrdered, CreditSound,
    PastOfRun, TailOfRun, AtMostOne
<1> QED BY <1>1, <1>2

(* The invariant says that a unit is credited once. *)
LEMMA CreditIsOnce == ASSUME Settings PROVE CreditInv => CreditedOnce
<1> SUFFICES ASSUME CreditInv PROVE CreditedOnce
  OBVIOUS
<1>1. \A u \in DOMAIN spkCredit : spkCredit[u] <= 1
  BY DEF CreditInv, SpkTypes, CreditSound
<1>2. ASSUME spkTail # <<>>, NEW u \in Units(spkTail[1].start, spkTail[1].end) PROVE spkCredit[u] = 0
  <2>1. spkCommitted = spkTail[1].start
    BY <1>2 DEF CreditInv, TailOrdered, TailOfRun
  <2> QED BY <2>1 DEF Units, CreditInv, CreditSound
<1> QED BY <1>1, <1>2 DEF CreditedOnce

(* SpeakerStream: for every length of window, hop and guard and every      *)
(* number of gaps, no unit of audio is credited twice, and a deferred one  *)
(* has not been credited.                                                  *)
THEOREM AudioIsEvidenceOnce == ASSUME Settings PROVE SpkSpec => []CreditedOnce
<1>1. SpkSpec => []CreditInv
  BY InitCredit, NextCredit, PTL DEF SpkSpec
<1> QED BY <1>1, CreditIsOnce, PTL

-----------------------------------------------------------------------------
(* SpeakerStream, what becomes of all audio.  Until the last window has    *)
(* been analysed, a unit without an outcome is deferred, lies in a window  *)
(* that waits or is analysed, or is kept for the next window.              *)
In(w, u) == w.start <= u /\ u < w.end
InAny(q, u) == q # <<>> /\ In(q[1], u)
Frontier ==
  IF spkRun.scheduled = 0 THEN spkRun.first ELSE Longer(spkRun.first, spkRun.scheduled - Guard)
Kept(u) == ~spkFinishing /\ Frontier <= u
Reported(u) == u \in spkTold \/ \E i \in DOMAIN spkNotices : In(spkNotices[i], u)

LoopSound ==
  /\ spkNotices \in Seq(Window)
  /\ spkWorker = "busy" <=> spkWindow # <<>>
  /\ spkWorker = "done" => spkFinishing /\ spkPending = <<>> /\ spkNotices = <<>>
  /\ ~spkFinishing => Len(spkNotices) + (IF spkPending = <<>> THEN 0 ELSE 1) <= spkNow + spkRun.id
  /\ spkRun.id <= MaxBreaks
  /\ spkCommitted <= spkNow
Timely ==
  /\ spkRun.first = Longer(spkRun.start, spkNow - WindowLen)
  /\ spkRun.scheduled = 0 => spkNow < spkRun.first + FirstLen \/ spkNow = spkRun.first
  /\ spkRun.scheduled # 0 => spkNow < spkRun.scheduled + Hop
  /\ spkPending # <<>> /\ ~spkPending[1].final =>
       /\ ~spkFinishing /\ spkPending[1].run = spkRun.id /\ spkPending[1].end = spkRun.scheduled
FinalComes ==
  (spkPending # <<>> /\ spkPending[1].final) \/ (~spkFinishing /\ spkRun.first < spkNow)
TailHasFuture ==
  /\ spkTail # <<>> => FinalComes \/ (spkWindow # <<>> /\ spkWindow[1].final)
  /\ spkWindow # <<>> /\ ~spkWindow[1].final => FinalComes
(* Behind the committed end, all audio of a run that goes on is credited. *)
PassedIn(start) ==
  \A u \in 0 .. (MaxUnits - 1) : start <= u /\ u < spkCommitted => spkCredit[u] = 1
Passed ==
  /\ PassedIn(spkRun.start)
  /\ spkPending # <<>> => PassedIn(spkPending[1].runStart)
  /\ spkWindow # <<>> => PassedIn(spkWindow[1].runStart)
Accounted(u) ==
  spkCredit[u] = 1 \/ Reported(u) \/ InAny(spkTail, u) \/ InAny(spkWindow, u)
    \/ InAny(spkPending, u) \/ Kept(u)
(* The guarded end of a window is heard again. *)
HeardAgain(w) ==
  \A u \in 0 .. (MaxUnits - 1) :
    In(w, u) /\ w.end <= u + Guard => Reported(u) \/ InAny(spkPending, u) \/ Kept(u)
Covered ==
  /\ \A u \in 0 .. (MaxUnits - 1) : u < spkNow => Accounted(u)
  /\ spkWindow # <<>> /\ ~spkWindow[1].final => HeardAgain(spkWindow[1])
AccountInv == ~spkClosed => LoopSound /\ Timely /\ TailHasFuture /\ Passed /\ Covered

(* Windows overlap by more than a guard, and the deque of notices holds    *)
(* what is offered.                                                        *)
Sized ==
  /\ Settings /\ Hop >= 1 /\ FirstLen <= WindowLen /\ Hop + Guard <= WindowLen
  /\ MaxUnits + MaxBreaks <= NoticeSize

(* At the start there is nothing to account for. *)
LEMMA InitAccount == ASSUME Sized PROVE SpkInit => AccountInv
<1> SUFFICES ASSUME SpkInit PROVE AccountInv
  OBVIOUS
<1>1. /\ spkRun.id = 0 /\ spkRun.start = 0 /\ spkRun.first = 0 /\ spkRun.scheduled = 0
      /\ spkNow = 0 /\ spkCommitted = 0
  BY DEF SpkInit, NewRun
<1>2. /\ WindowLen \in Nat /\ FirstLen \in Nat /\ MaxBreaks \in Nat
  BY DEF Sized, Settings
<1>3. LoopSound
  BY <1>1, <1>2 DEF SpkInit, LoopSound
<1>4. Timely
  BY <1>1, <1>2 DEF SpkInit, Timely, Longer
<1>5. TailHasFuture /\ Passed /\ Covered
  BY <1>1 DEF SpkInit, TailHasFuture, Passed, PassedIn, Covered
<1> QED BY <1>3, <1>4, <1>5 DEF AccountInv

(* An offer reports a window it replaces, unless the new one covers it. *)
LEMMA OfferReports ==
  ASSUME Sized, CreditInv, LoopSound, ~spkFinishing, spkNow + spkRun.id <= MaxUnits + MaxBreaks,
         NEW w \in Window, spkPending' = <<w>>, UNCHANGED spkTold,
         spkNotices' = IF spkPending # <<>> /\ <<spkPending[1].start, spkPending[1].end>> # <<w.start, w.end>>
                       THEN Noticed(spkNotices, spkPending[1]) ELSE spkNotices
  PROVE  /\ spkNotices' \in Seq(Window)
         /\ Len(spkNotices') <= spkNow + spkRun.id
         /\ \A u : Reported(u) => Reported(u)'
         /\ \A u : InAny(spkPending, u) => Reported(u)' \/ InAny(spkPending, u)'
<1>1. /\ spkNow \in Nat /\ spkRun.id \in Nat /\ spkNotices \in Seq(Window) /\ Len(spkNotices) \in Nat
      /\ Len(spkNotices) + (IF spkPending = <<>> THEN 0 ELSE 1) <= spkNow + spkRun.id
      /\ spkPending # <<>> => spkPending[1] \in Window
      /\ MaxUnits \in Nat /\ MaxBreaks \in Nat /\ NoticeSize \in Nat /\ MaxUnits + MaxBreaks <= NoticeSize
  <2>1. MaxUnits \in Nat /\ MaxBreaks \in Nat /\ NoticeSize \in Nat /\ MaxUnits + MaxBreaks <= NoticeSize
    BY DEF Sized, Settings
  <2>6. spkNotices \in Seq(Window)
    BY DEF LoopSound
  <2>2. spkNow \in Nat /\ spkRun.id \in Nat /\ spkNotices \in Seq(Window)
    BY <2>1, <2>6 DEF CreditInv, SpkTypes
  <2>3. Len(spkNotices) \in Nat
    BY <2>2
  <2>4. Len(spkNotices) + (IF spkPending = <<>> THEN 0 ELSE 1) <= spkNow + spkRun.id
    BY DEF LoopSound
  <2>5. spkPending # <<>> => spkPending[1] \in Window
    BY DEF CreditInv, SpkTypes, AtMostOne
  <2> QED
    BY <2>1, <2>2, <2>3, <2>4, <2>5
<1>2. CASE spkPending # <<>> /\ <<spkPending[1].start, spkPending[1].end>> # <<w.start, w.end>>
  <2>1. PICK p \in Window : p = spkPending[1]
    BY <1>1, <1>2
  <2>2. spkNotices' = Append(spkNotices, p)
    <3>1. Len(Append(spkNotices, p)) = Len(spkNotices) + 1
      BY <1>1
    <3>2. ~(Len(Append(spkNotices, p)) > NoticeSize)
      BY <1>1, <1>2, <3>1
    <3> QED BY <1>2, <2>1, <3>2 DEF Noticed
  <2>3. /\ spkNotices' \in Seq(Window) /\ Len(spkNotices') = Len(spkNotices) + 1
        /\ \A i \in DOMAIN spkNotices : i \in DOMAIN spkNotices' /\ spkNotices'[i] = spkNotices[i]
        /\ Len(spkNotices) + 1 \in DOMAIN spkNotices' /\ spkNotices'[Len(spkNotices) + 1] = p
    <3>1. Len(Append(spkNotices, p)) = Len(spkNotices) + 1 /\ Append(spkNotices, p) \in Seq(Window)
      BY <1>1
    <3>2. \A i \in 1 .. Len(spkNotices) : Append(spkNotices, p)[i] = spkNotices[i]
      BY <1>1
    <3>3. Append(spkNotices, p)[Len(spkNotices) + 1] = p
      BY <1>1
    <3>4. DOMAIN spkNotices = 1 .. Len(spkNotices)
      BY <1>1
    <3>5. DOMAIN Append(spkNotices, p) = 1 .. (Len(spkNotices) + 1)
      BY <1>1, <3>1
    <3>6. \A i \in 1 .. Len(spkNotices) : i \in 1 .. (Len(spkNotices) + 1)
      BY <1>1
    <3>7. Len(spkNotices) + 1 \in 1 .. (Len(spkNotices) + 1)
      BY <1>1
    <3> HIDE DEF Noticed
    <3> QED BY <2>2, <3>1, <3>2, <3>3, <3>4, <3>5, <3>6, <3>7, Zenon
  <2>4. \A u : Reported(u) => Reported(u)'
    BY <2>3 DEF Reported, In
  <2>5. \A u : InAny(spkPending, u) => Reported(u)'
    BY <2>1, <2>3 DEF InAny, Reported, In
  <2> QED BY <1>1, <1>2, <2>3, <2>4, <2>5
<1>3. CASE ~(spkPending # <<>> /\ <<spkPending[1].start, spkPending[1].end>> # <<w.start, w.end>>)
  <2>1. spkNotices' = spkNotices
    BY <1>3
  <2>2. \A u : Reported(u) => Reported(u)'
    BY <2>1 DEF Reported, In
  <2>3. \A u : InAny(spkPending, u) => InAny(spkPending, u)'
    BY <1>3 DEF InAny, In
  <2> QED BY <1>1, <2>1, <2>2, <2>3
<1> QED BY <1>2, <1>3

(* What the facts of a stream say about the run in hand. *)
LEMMA RunFacts ==
  ASSUME Sized, CreditInv, LoopSound, Timely
  PROVE  /\ spkNow \in Nat /\ spkNow <= MaxUnits
         /\ spkRun \in [id: Nat, start: Nat, first: Nat, scheduled: Nat]
         /\ spkRun.id \in Nat /\ spkRun.start \in Nat /\ spkRun.first \in Nat /\ spkRun.scheduled \in Nat
         /\ spkRun.start <= spkRun.first /\ spkRun.first <= spkNow /\ spkRun.scheduled <= spkNow
         /\ spkRun.first = Longer(spkRun.start, spkNow - WindowLen)
         /\ spkRun.first = spkNow => spkRun.start = spkNow
         /\ spkNow - WindowLen < spkNow
         /\ spkNow + spkRun.id <= MaxUnits + MaxBreaks
         /\ WindowLen \in Nat /\ FirstLen \in Nat /\ Hop \in Nat /\ Guard \in Nat /\ MaxUnits \in Nat
         /\ MaxBreaks \in Nat
         /\ Hop >= 1 /\ WindowLen >= 1 /\ FirstLen <= WindowLen /\ Hop + Guard <= WindowLen
<1>1. /\ WindowLen \in Nat /\ FirstLen \in Nat /\ Hop \in Nat /\ Guard \in Nat /\ MaxUnits \in Nat
      /\ MaxBreaks \in Nat
      /\ Hop >= 1 /\ WindowLen >= 1 /\ FirstLen <= WindowLen /\ Hop + Guard <= WindowLen
  BY DEF Sized, Settings
<1>2. /\ spkNow \in Nat /\ spkNow <= MaxUnits
      /\ spkRun \in [id: Nat, start: Nat, first: Nat, scheduled: Nat]
      /\ spkRun.start <= spkRun.first /\ spkRun.first <= spkNow /\ spkRun.scheduled <= spkNow
  BY <1>1 DEF CreditInv, SpkTypes, RunSound
<1>3. spkRun.first = Longer(spkRun.start, spkNow - WindowLen) /\ spkRun.id <= MaxBreaks
  BY DEF Timely, LoopSound
<1> QED BY <1>1, <1>2, <1>3 DEF Longer

(* The waiting window and the one analysed, as records. *)
LEMMA WindowFacts ==
  ASSUME CreditInv
  PROVE  /\ spkPending # <<>> =>
              /\ spkPending[1] \in Window /\ PastOfRun(spkPending[1])
              /\ spkPending[1].start \in Nat /\ spkPending[1].end \in Nat
              /\ spkPending[1].runStart \in Nat /\ spkPending[1].run \in Nat
         /\ spkWindow # <<>> =>
              /\ spkWindow[1] \in Window /\ PastOfRun(spkWindow[1])
              /\ spkWindow[1].start \in Nat /\ spkWindow[1].end \in Nat
              /\ spkWindow[1].runStart \in Nat /\ spkWindow[1].run \in Nat
         /\ spkCommitted \in Nat /\ spkCredit \in [0 .. (MaxUnits - 1) -> Nat]
<1>1. \A w \in Window : w.start \in Nat /\ w.end \in Nat /\ w.runStart \in Nat /\ w.run \in Nat
  BY DEF Window
<1> QED BY <1>1 DEF CreditInv, SpkTypes, AtMostOne, WindowsOrdered

(* A unit not yet in the analysed window that will still be heard of. *)
Awaited(u) == Reported(u) \/ InAny(spkPending, u) \/ Kept(u)

(* The offer of a frame. *)
OfferFrame(run, now) == Offer(run, now, FALSE)

(* A frame leaves no unit unheard. *)
LEMMA FeedAccount == ASSUME Sized, CreditInv, AccountInv, FeedAudio PROVE AccountInv'
<1>0. LoopSound /\ Timely /\ TailHasFuture /\ Passed /\ Covered /\ ~spkFinishing
      /\ UNCHANGED <<spkWindow, spkTail, spkCommitted, spkCredit, spkFinishing, spkClosed, spkWorker, spkTold>>
      /\ spkNow' = spkNow + 1
  BY DEF AccountInv, FeedAudio, analyzer
<1>1. PICK run : run = [spkRun EXCEPT !.first = Longer(spkRun.first, spkNow + 1 - WindowLen)]
  OBVIOUS
<1>2. PICK N, f, s, f2 : N = spkNow /\ f = spkRun.first /\ s = spkRun.scheduled /\ f2 = Longer(f, N + 1 - WindowLen)
  OBVIOUS
<1>3. /\ N \in Nat /\ f \in Nat /\ s \in Nat /\ spkRun.start \in Nat /\ spkRun.id \in Nat
      /\ spkRun.start <= f /\ f <= N /\ s <= N /\ f = Longer(spkRun.start, N - WindowLen)
      /\ N + spkRun.id <= MaxUnits + MaxBreaks
      /\ WindowLen \in Nat /\ FirstLen \in Nat /\ Hop \in Nat /\ Guard \in Nat
      /\ Hop >= 1 /\ WindowLen >= 1 /\ FirstLen <= WindowLen /\ Hop + Guard <= WindowLen
      /\ s = 0 => N < f + FirstLen \/ N = f
      /\ s # 0 => N < s + Hop
  BY <1>0, <1>2, RunFacts DEF Timely
<1>4. /\ f2 \in Nat /\ f <= f2 /\ f2 <= N /\ f2 = Longer(spkRun.start, N + 1 - WindowLen)
      /\ f2 <= Frontier /\ Frontier <= N
      /\ s = 0 => f2 = f
      /\ s # 0 => Longer(f2, s - Guard) = Frontier
  BY <1>2, <1>3 DEF Frontier, Longer
<1>5. /\ run.id = spkRun.id /\ run.start = spkRun.start /\ run.scheduled = s /\ run.first = f2
      /\ [run EXCEPT !.scheduled = N + 1].first = f2
      /\ [run EXCEPT !.scheduled = N + 1].start = run.start
      /\ [run EXCEPT !.scheduled = N + 1].id = run.id
      /\ [run EXCEPT !.scheduled = N + 1].scheduled = N + 1
  BY <1>0, <1>1, <1>2, RunFacts
<1>6. \/ /\ spkRun' = run /\ UNCHANGED <<spkPending, spkNotices>>
         /\ IF s = 0 THEN N + 1 - f2 < FirstLen ELSE N + 1 - s < Hop
      \/ /\ spkRun' = [run EXCEPT !.scheduled = N + 1]
         /\ OfferFrame(run, N + 1)
  <2>1. \/ /\ spkRun' = run /\ UNCHANGED <<spkPending, spkNotices>>
           /\ ~(IF run.scheduled = 0 THEN N + 1 - run.first >= FirstLen ELSE N + 1 - run.scheduled >= Hop)
        \/ /\ spkRun' = [run EXCEPT !.scheduled = N + 1]
           /\ OfferFrame(run, N + 1)
    BY <1>1, <1>2 DEF FeedAudio, OfferFrame
  <2> QED BY <1>3, <1>4, <1>5, <2>1
<1>7. /\ spkRun'.id = spkRun.id /\ spkRun'.start = spkRun.start /\ spkRun'.first = f2
      /\ spkRun'.scheduled \in Nat
  <2>1. N + 1 \in Nat
    BY <1>3
  <2> QED BY <1>3, <1>5, <1>6, <2>1
<1>8. CASE /\ spkRun' = run /\ UNCHANGED <<spkPending, spkNotices>>
           /\ IF s = 0 THEN N + 1 - f2 < FirstLen ELSE N + 1 - s < Hop
  <2>1. Frontier' = Frontier
    <3>1. s = 0 => Frontier = f
      BY <1>2 DEF Frontier
    <3> QED BY <1>4, <1>5, <1>8, <3>1 DEF Frontier
  <2>2. \A u : Awaited(u) => Awaited(u)'
    BY <1>0, <1>8, <2>1 DEF Awaited, Reported, InAny, Kept
  <2>3. LoopSound'
    <3>1. Len(spkNotices) + (IF spkPending = <<>> THEN 0 ELSE 1) <= N + spkRun.id
      BY <1>0, <1>2 DEF LoopSound
    <3>2. Len(spkNotices) \in Nat
      BY <1>0 DEF LoopSound
    <3>3. Len(spkNotices) + (IF spkPending = <<>> THEN 0 ELSE 1) <= N + 1 + spkRun.id
      BY <1>3, <3>1, <3>2
    <3>4. Len(spkNotices') + (IF spkPending' = <<>> THEN 0 ELSE 1) <= spkNow' + spkRun'.id
      BY <1>0, <1>2, <1>3, <1>7, <1>8, <3>3
    <3>5. spkCommitted <= N + 1 /\ spkRun'.id <= MaxBreaks
      BY <1>0, <1>2, <1>3, <1>7, WindowFacts DEF LoopSound
    <3> QED BY <1>0, <1>2, <1>8, <3>4, <3>5 DEF LoopSound
  <2>4. Timely'
    <3>1. spkRun'.scheduled = s
      BY <1>5, <1>8
    <3> QED BY SMTT(60), <1>0, <1>2, <1>3, <1>4, <1>7, <1>8, <3>1 DEF Timely
  <2>5. TailHasFuture'
    BY <1>0, <1>2, <1>3, <1>4, <1>7 DEF TailHasFuture, FinalComes
  <2>6. Passed'
    BY <1>0, <1>7, <1>8 DEF Passed, PassedIn
  <2>7. ASSUME NEW u \in 0 .. (MaxUnits - 1), u < N + 1 PROVE Accounted(u)'
    <3>1. u = N => Kept(u)'
      BY <1>0, <1>4, <2>1 DEF Kept
    <3>2. u # N => Accounted(u)
      BY <1>0, <1>2, <1>3, <2>7 DEF Covered
    <3> QED BY <1>0, <2>2, <3>1, <3>2 DEF Accounted, Awaited, InAny
  <2>8. Covered'
    <3>1. spkWindow # <<>> /\ ~spkWindow[1].final => HeardAgain(spkWindow[1])'
      BY <1>0, <2>2 DEF Covered, HeardAgain, Awaited
    <3> QED BY <1>0, <1>2, <2>7, <3>1 DEF Covered
  <2> QED BY <2>3, <2>4, <2>5, <2>6, <2>8 DEF AccountInv
<1>9. CASE /\ spkRun' = [run EXCEPT !.scheduled = N + 1]
           /\ OfferFrame(run, N + 1)
  <2>1. PICK w : w = NewWindow(run, N + 1, FALSE)
    OBVIOUS
  <2>2. /\ w \in Window /\ w.run = spkRun.id /\ w.start = f2 /\ w.end = N + 1 /\ ~w.final
        /\ w.runStart = spkRun.start
    BY <1>3, <1>4, <1>5, <2>1 DEF Window, NewWindow
  <2>3. /\ spkPending' = <<w>>
        /\ spkNotices' = IF spkPending # <<>> /\ <<spkPending[1].start, spkPending[1].end>> # <<w.start, w.end>>
                         THEN Noticed(spkNotices, spkPending[1]) ELSE spkNotices
    <3>1. ~(f2 = N + 1) /\ ~(s # 0 /\ N + 1 <= s)
      BY <1>3, <1>4
    <3> QED BY ZenonT(30), <1>5, <1>9, <2>1, <2>2, <3>1, Offered DEF OfferFrame
  <2>4. /\ spkNotices' \in Seq(Window) /\ Len(spkNotices') <= N + spkRun.id
        /\ \A u : Reported(u) => Reported(u)'
        /\ \A u : InAny(spkPending, u) => Reported(u)' \/ InAny(spkPending, u)'
    BY <1>0, <1>2, <1>3, <2>2, <2>3, OfferReports
  <2>5. \A u \in Nat : f2 <= u /\ u < N + 1 => InAny(spkPending, u)'
    BY <2>2, <2>3 DEF InAny, In
  <2>6. ASSUME NEW u \in Nat, u < N + 1, Awaited(u) PROVE Awaited(u)'
    <3>1. CASE Kept(u)
      <4>1. f2 <= u
        BY <1>2, <1>3, <1>4, <3>1 DEF Kept, Frontier, Longer
      <4> QED BY <2>5, <2>6, <4>1 DEF Awaited
    <3>2. CASE Reported(u) \/ InAny(spkPending, u)
      BY <2>4, <3>2 DEF Awaited
    <3> QED BY <2>6, <3>1, <3>2 DEF Awaited
  <2>7. spkRun'.scheduled = N + 1 /\ spkPending' # <<>> /\ spkPending'[1] = w
    BY <1>5, <1>9, <2>3
  <2>8. LoopSound'
    <3>1. Len(spkNotices') \in Nat
      BY <2>4
    <3>2. Len(spkNotices') + (IF spkPending' = <<>> THEN 0 ELSE 1) <= spkNow' + spkRun'.id
      BY <1>0, <1>2, <1>3, <1>7, <2>4, <2>7, <3>1
    <3>3. spkCommitted <= N + 1 /\ spkRun'.id <= MaxBreaks
      BY <1>0, <1>2, <1>3, <1>7, WindowFacts DEF LoopSound
    <3> QED BY <1>0, <1>2, <2>4, <3>2, <3>3 DEF LoopSound
  <2>9. Timely'
    BY <1>0, <1>2, <1>3, <1>4, <1>7, <2>2, <2>7 DEF Timely
  <2>10. TailHasFuture'
    BY <1>0, <1>2, <1>3, <1>4, <1>7 DEF TailHasFuture, FinalComes
  <2>11. Passed'
    BY <1>0, <1>7, <2>2, <2>7 DEF Passed, PassedIn
  <2>12. ASSUME NEW u \in 0 .. (MaxUnits - 1), u < N + 1 PROVE Accounted(u)'
    <3>1. u = N => InAny(spkPending, u)'
      BY <1>3, <1>4, <2>5
    <3>2. u # N => Accounted(u)
      BY <1>0, <1>2, <1>3, <2>12 DEF Covered
    <3> QED BY <1>0, <2>6, <2>12, <3>1, <3>2 DEF Accounted, Awaited, InAny
  <2>13. Covered'
    <3>1. ASSUME spkWindow # <<>>, ~spkWindow[1].final PROVE HeardAgain(spkWindow[1])'
      <4> SUFFICES ASSUME NEW u \in 0 .. (MaxUnits - 1), In(spkWindow[1], u), spkWindow[1].end <= u + Guard
                   PROVE  Awaited(u)'
        BY <1>0 DEF HeardAgain, Awaited
      <4>1. Awaited(u)
        BY <1>0, <3>1 DEF Covered, HeardAgain, Awaited
      <4>2. u < N + 1
        BY <1>2, <1>3, <3>1, WindowFacts DEF In, PastOfRun
      <4> QED BY <2>6, <4>1, <4>2
    <3> QED BY <1>0, <1>2, <2>12, <3>1 DEF Covered
  <2> QED BY <2>8, <2>9, <2>10, <2>11, <2>13 DEF AccountInv
<1> QED BY <1>6, <1>8, <1>9

(* The last window of a run hears all the run has kept. *)
LEMMA LastOffer ==
  ASSUME Sized, CreditInv, LoopSound, Timely, ~spkFinishing, UNCHANGED spkTold,
         spkRun.first # spkNow => OfferLast,
         spkRun.first = spkNow => UNCHANGED <<spkPending, spkNotices>>
  PROVE  /\ spkNotices' \in Seq(Window)
         /\ Len(spkNotices') + (IF spkPending' = <<>> THEN 0 ELSE 1) <= spkNow + spkRun.id + 1
         /\ spkPending' # <<>> =>
              spkPending'[1].final /\ (spkPending'[1].runStart = spkRun.start \/ UNCHANGED spkPending)
         /\ FinalComes => spkPending' # <<>>
         /\ \A u \in Nat : u < spkNow /\ Awaited(u) => Reported(u)' \/ InAny(spkPending, u)'
<1>1. PICK N, f : N = spkNow /\ f = spkRun.first
  OBVIOUS
<1>2. /\ N \in Nat /\ f \in Nat /\ spkRun.id \in Nat /\ spkRun.start \in Nat
      /\ f <= N /\ (f = N => spkRun.start = N) /\ f <= Frontier /\ Frontier \in Nat /\ N + spkRun.id <= MaxUnits + MaxBreaks
  BY <1>1, RunFacts DEF Frontier, Longer
<1>3. CASE f = N
  <2>1. UNCHANGED <<spkPending, spkNotices>>
    BY <1>1, <1>3
  <2>2. spkPending # <<>> => spkPending[1].final
    <3> SUFFICES ASSUME spkPending # <<>>, ~spkPending[1].final PROVE FALSE
      OBVIOUS
    <3>1. /\ PastOfRun(spkPending[1]) /\ spkPending[1].run = spkRun.id
          /\ spkPending[1].start \in Nat /\ spkPending[1].end \in Nat /\ spkPending[1].runStart \in Nat
      BY WindowFacts DEF Timely
    <3> QED BY <1>1, <1>2, <1>3, <3>1 DEF PastOfRun
  <2>3. FinalComes => spkPending # <<>>
    BY <1>1, <1>2, <1>3 DEF FinalComes
  <2>4. \A u \in Nat : u < N /\ Awaited(u) => Reported(u)' \/ InAny(spkPending, u)'
    <3> SUFFICES ASSUME NEW u \in Nat, u < N, Awaited(u) PROVE Reported(u)' \/ InAny(spkPending, u)'
      OBVIOUS
    <3>1. ~Kept(u)
      BY <1>2, <1>3 DEF Kept
    <3>2. Reported(u) => Reported(u)'
      BY <2>1 DEF Reported
    <3>3. InAny(spkPending, u) => InAny(spkPending, u)'
      BY <2>1 DEF InAny
    <3> QED BY <3>1, <3>2, <3>3 DEF Awaited
  <2>5. Len(spkNotices) \in Nat /\ spkNotices \in Seq(Window)
        /\ Len(spkNotices) + (IF spkPending = <<>> THEN 0 ELSE 1) <= N + spkRun.id
    BY <1>1 DEF LoopSound
  <2>6. Len(spkNotices') + (IF spkPending' = <<>> THEN 0 ELSE 1) <= N + spkRun.id + 1
    BY <1>2, <2>1, <2>5
  <2> QED BY <1>1, <2>1, <2>2, <2>3, <2>4, <2>5, <2>6
<1>4. CASE f # N
  <2>1. PICK w : w = LastWindow
    OBVIOUS
  <2>2. /\ w \in Window /\ spkPending' = <<w>> /\ w.run = spkRun.id /\ w.start = f /\ w.end = N /\ w.final
        /\ w.runStart = spkRun.start
    BY <1>1, <1>4, <2>1, FinalOffer DEF Sized
  <2>3. spkNotices' = IF spkPending # <<>> /\ <<spkPending[1].start, spkPending[1].end>> # <<w.start, w.end>>
                      THEN Noticed(spkNotices, spkPending[1]) ELSE spkNotices
    BY <1>1, <1>4, <2>2 DEF OfferLast, Offer
  <2>4. /\ spkNotices' \in Seq(Window) /\ Len(spkNotices') <= N + spkRun.id
        /\ \A u : Reported(u) => Reported(u)'
        /\ \A u : InAny(spkPending, u) => Reported(u)' \/ InAny(spkPending, u)'
    BY <1>1, <1>2, <2>2, <2>3, OfferReports
  <2>5. ASSUME NEW u \in Nat, u < N, Awaited(u) PROVE Reported(u)' \/ InAny(spkPending, u)'
    <3>1. Kept(u) => f <= u
      BY <1>2 DEF Kept
    <3>2. f <= u => InAny(spkPending, u)'
      BY <2>2, <2>5 DEF InAny, In
    <3> QED BY <2>4, <2>5, <3>1, <3>2 DEF Awaited
  <2>6. spkPending' # <<>> /\ spkPending'[1] = w
    BY <2>2
  <2>7. Len(spkNotices') \in Nat
    BY <2>4
  <2>8. Len(spkNotices') + (IF spkPending' = <<>> THEN 0 ELSE 1) <= N + spkRun.id + 1
    BY <1>2, <2>4, <2>6, <2>7
  <2> QED BY <1>1, <2>2, <2>4, <2>5, <2>6, <2>8
<1> QED BY <1>3, <1>4

(* What has no outcome yet survives an action that only moves windows in. *)
LEMMA StillCovered ==
  ASSUME CreditInv, Covered, UNCHANGED <<spkNow, spkWindow, spkTail, spkCredit>>, spkNow \in Nat,
         \A u \in Nat : u < spkNow /\ Awaited(u) => Reported(u)' \/ InAny(spkPending, u)'
  PROVE  Covered'
<1>1. ASSUME NEW u \in 0 .. (MaxUnits - 1), u < spkNow PROVE Accounted(u)'
  <2>1. Accounted(u) /\ u \in Nat
    BY <1>1 DEF Covered
  <2> QED BY <1>1, <2>1 DEF Accounted, Awaited, InAny
<1>2. ASSUME spkWindow # <<>>, ~spkWindow[1].final PROVE HeardAgain(spkWindow[1])'
  <2> SUFFICES ASSUME NEW u \in 0 .. (MaxUnits - 1), In(spkWindow[1], u), spkWindow[1].end <= u + Guard
               PROVE  Awaited(u)'
    BY DEF HeardAgain, Awaited
  <2>1. Awaited(u) /\ u \in Nat
    BY <1>2 DEF Covered, HeardAgain, Awaited
  <2>2. u < spkNow
    BY <1>2, <2>1, WindowFacts DEF In, PastOfRun
  <2> QED BY <2>1, <2>2 DEF Awaited
<1> QED BY <1>1, <1>2 DEF Covered

(* A gap leaves no unit unheard. *)
LEMMA GapAccount == ASSUME Sized, CreditInv, AccountInv, SpkGap PROVE AccountInv'
<1>0. /\ LoopSound /\ Timely /\ TailHasFuture /\ Passed /\ Covered /\ ~spkFinishing
      /\ spkRun.id < MaxBreaks /\ OfferLast
      /\ UNCHANGED <<spkNow, spkWindow, spkTail, spkCommitted, spkCredit, spkFinishing, spkClosed, spkWorker, spkTold>>
      /\ spkRun' = NewRun(spkRun.id + 1, spkNow)
  BY DEF AccountInv, SpkGap, analyzer, OfferLast
<1>1. /\ spkNow \in Nat /\ spkRun.id \in Nat /\ spkRun.start \in Nat /\ WindowLen \in Nat /\ MaxBreaks \in Nat
      /\ WindowLen >= 1 /\ spkRun.start <= spkNow
  BY <1>0, RunFacts
<1>2. spkRun'.id = spkRun.id + 1 /\ spkRun'.start = spkNow /\ spkRun'.first = spkNow /\ spkRun'.scheduled = 0
  BY <1>0 DEF NewRun
<1>3. /\ spkNotices' \in Seq(Window)
      /\ Len(spkNotices') + (IF spkPending' = <<>> THEN 0 ELSE 1) <= spkNow + spkRun.id + 1
      /\ spkPending' # <<>> =>
           spkPending'[1].final /\ (spkPending'[1].runStart = spkRun.start \/ UNCHANGED spkPending)
      /\ FinalComes => spkPending' # <<>>
      /\ \A u \in Nat : u < spkNow /\ Awaited(u) => Reported(u)' \/ InAny(spkPending, u)'
  <2>1. spkRun.first = spkNow => UNCHANGED <<spkPending, spkNotices>>
    <3>1. PICK w : w = LastWindow
      OBVIOUS
    <3> QED BY <1>0, <3>1, FinalOffer DEF Sized
  <2> QED BY <1>0, <2>1, LastOffer
<1>4. LoopSound'
  <2>1. Len(spkNotices') + (IF spkPending' = <<>> THEN 0 ELSE 1) <= spkNow' + spkRun'.id
    <3>1. spkNow' + spkRun'.id = spkNow + spkRun.id + 1
      BY <1>0, <1>1, <1>2
    <3> QED BY <1>3, <3>1
  <2>2. spkRun'.id <= MaxBreaks /\ spkCommitted' <= spkNow'
    BY <1>0, <1>1, <1>2 DEF LoopSound
  <2> QED BY <1>0, <1>3, <2>1, <2>2 DEF LoopSound
<1>5. Timely'
  <2>1. spkRun'.first = Longer(spkRun'.start, spkNow' - WindowLen)
    BY <1>0, <1>1, <1>2 DEF Longer
  <2> QED BY <1>0, <1>2, <1>3, <2>1 DEF Timely
<1>6. TailHasFuture'
  BY <1>0, <1>3 DEF TailHasFuture, FinalComes
<1>7. Passed'
  <2>1. PassedIn(spkRun.start)'
    <3> SUFFICES ASSUME NEW u \in 0 .. (MaxUnits - 1), spkNow <= u, u < spkCommitted PROVE FALSE
      BY <1>0, <1>2 DEF PassedIn
    <3> QED BY <1>0, <1>1, WindowFacts DEF LoopSound
  <2> QED BY <1>0, <1>3, <2>1 DEF Passed, PassedIn
<1>8. Covered'
  BY <1>0, <1>1, <1>3, StillCovered
<1> QED BY <1>4, <1>5, <1>6, <1>7, <1>8 DEF AccountInv

(* The end of the input leaves no unit unheard. *)
LEMMA FinishAccount == ASSUME Sized, CreditInv, AccountInv, FinishInput PROVE AccountInv'
<1>0. /\ LoopSound /\ Timely /\ TailHasFuture /\ Passed /\ Covered /\ ~spkFinishing
      /\ spkRun.first # spkNow => OfferLast
      /\ spkRun.first = spkNow => UNCHANGED <<spkPending, spkNotices>>
      /\ UNCHANGED <<spkNow, spkRun, spkWindow, spkTail, spkCommitted, spkCredit, spkClosed, spkWorker, spkTold>>
      /\ spkFinishing'
  BY DEF AccountInv, FinishInput, analyzer, feeding, OfferLast
<1>1. spkNow \in Nat
  BY <1>0, RunFacts
<1>2. /\ spkNotices' \in Seq(Window)
      /\ spkPending' # <<>> =>
           spkPending'[1].final /\ (spkPending'[1].runStart = spkRun.start \/ UNCHANGED spkPending)
      /\ FinalComes => spkPending' # <<>>
      /\ \A u \in Nat : u < spkNow /\ Awaited(u) => Reported(u)' \/ InAny(spkPending, u)'
  BY <1>0, LastOffer
<1>3. LoopSound'
  BY <1>0, <1>2 DEF LoopSound
<1>4. Timely'
  BY <1>0, <1>2 DEF Timely
<1>5. TailHasFuture'
  BY <1>0, <1>2 DEF TailHasFuture, FinalComes
<1>6. Passed'
  BY <1>0, <1>2 DEF Passed, PassedIn
<1>7. Covered'
  BY <1>0, <1>1, <1>2, StillCovered
<1> QED BY <1>3, <1>4, <1>5, <1>6, <1>7 DEF AccountInv

(* What the loop takes next, and what becomes of the notices. *)
LEMMA GoOnAccount ==
  ASSUME Sized, CreditInv, LoopSound, Timely, NEW told, NEW notices, GoOn(told, notices),
         UNCHANGED <<spkNow, spkRun, spkFinishing>>, spkCommitted' <= spkNow, spkTold \subseteq told,
         notices = spkNotices \/ (notices = <<>> /\ NoticedUnits \subseteq told)
  PROVE  /\ LoopSound' /\ Timely' /\ spkPending' = <<>> /\ spkWindow' = spkPending
         /\ \A u \in 0 .. (MaxUnits - 1) : Reported(u) \/ u \in told => Reported(u)'
         /\ \A u : Kept(u) => Kept(u)'
         /\ spkPending # <<>> /\ ~spkPending[1].final =>
              ~spkFinishing /\ spkRun.first < spkNow /\ HeardAgain(spkWindow[1])'
         /\ FinalComes => FinalComes' \/ (spkWindow' # <<>> /\ spkWindow'[1].final)
<1>1. /\ spkPending' = <<>> /\ spkWindow' = spkPending
      /\ spkPending # <<>> => spkWorker' = "busy" /\ spkTold' = told /\ spkNotices' = notices
      /\ spkPending = <<>> => /\ spkWorker' = IF spkFinishing THEN "done" ELSE "wait"
                              /\ spkTold' = told \union NoticedUnits /\ spkNotices' = <<>>
  BY DEF GoOn
<1>2. /\ spkNotices' \in Seq(Window) /\ Len(spkNotices') <= Len(spkNotices)
      /\ Len(spkNotices) \in Nat /\ spkNotices \in Seq(Window)
  <2>1. Len(spkNotices) \in Nat /\ spkNotices \in Seq(Window)
    BY DEF LoopSound
  <2>2. spkNotices' = spkNotices \/ spkNotices' = <<>>
    BY <1>1
  <2>3. spkNotices' = <<>> => spkNotices' \in Seq(Window) /\ Len(spkNotices') = 0
    OBVIOUS
  <2>4. spkNotices' \in Seq(Window) /\ Len(spkNotices') <= Len(spkNotices)
    BY <2>1, <2>2, <2>3
  <2> QED BY <2>1, <2>4
<1>3. LoopSound'
  <2>1. ~spkFinishing => Len(spkNotices') + (IF spkPending' = <<>> THEN 0 ELSE 1) <= spkNow + spkRun.id
    <3>1. Len(spkNotices') \in Nat
      BY <1>2
    <3> QED BY SMTT(20), <1>1, <1>2, <3>1, RunFacts DEF LoopSound
  <2>2. (spkWorker' = "busy" <=> spkWindow' # <<>>) /\ (spkWorker' = "done" => spkFinishing /\ spkNotices' = <<>>)
    BY <1>1
  <2>3. spkRun.id <= MaxBreaks
    BY DEF LoopSound
  <2> QED BY <1>1, <1>2, <2>1, <2>2, <2>3 DEF LoopSound
<1>4. Timely'
  BY <1>1 DEF Timely
<1>5. ASSUME NEW u \in 0 .. (MaxUnits - 1), Reported(u) \/ u \in told PROVE Reported(u)'
  <2>1. ASSUME NEW i \in DOMAIN spkNotices, In(spkNotices[i], u) PROVE u \in NoticedUnits
    BY <2>1 DEF NoticedUnits, Units, In
  <2>2. CASE u \in told
    BY <1>1, <2>2 DEF Reported
  <2>3. CASE \E i \in DOMAIN spkNotices : In(spkNotices[i], u)
    <3>1. u \in NoticedUnits
      BY <2>1, <2>3
    <3>2. CASE u \in spkTold'
      BY <3>2 DEF Reported
    <3>3. CASE u \notin spkTold'
      <4>1. spkNotices' = spkNotices
        BY <1>1, <3>1, <3>3
      <4> QED BY <2>3, <4>1 DEF Reported
    <3> QED BY <3>2, <3>3
  <2>4. CASE u \in spkTold
    BY <1>1, <2>4 DEF Reported
  <2> QED BY <1>5, <2>2, <2>3, <2>4 DEF Reported
<1>6. \A u : Kept(u) => Kept(u)'
  BY DEF Kept, Frontier
<1>7. ASSUME spkPending # <<>>, ~spkPending[1].final
      PROVE  ~spkFinishing /\ spkRun.first < spkNow /\ HeardAgain(spkWindow[1])'
  <2>1. PICK p \in Window : p = spkPending[1] /\ PastOfRun(p)
    BY <1>7, WindowFacts
  <2>2. p.start \in Nat /\ p.end \in Nat /\ p.runStart \in Nat
    BY DEF Window
  <2>3. /\ ~spkFinishing /\ p.run = spkRun.id /\ p.end = spkRun.scheduled
        /\ spkRun.scheduled # 0 => spkNow < spkRun.scheduled + Hop
    BY <1>7, <2>1 DEF Timely
  <2>4. /\ p.runStart = spkRun.start /\ spkRun.scheduled # 0
        /\ p.runStart <= p.start /\ p.start < p.end /\ p.end <= spkNow
    BY <1>7, <2>1, <2>3 DEF PastOfRun
  <2>5. spkRun.first < spkNow
    BY SMTT(20), <2>2, <2>4, RunFacts
  <2>6. ASSUME NEW u \in 0 .. (MaxUnits - 1), In(p, u), p.end <= u + Guard PROVE Kept(u)
    <3>1. p.start <= u /\ u \in Nat
      BY <2>6 DEF In
    <3>2. spkRun.first <= u
      <4>1. /\ spkRun.first = Longer(spkRun.start, spkNow - WindowLen)
            /\ spkRun.start \in Nat /\ spkNow \in Nat
            /\ WindowLen \in Nat /\ Hop \in Nat /\ Guard \in Nat /\ Hop + Guard <= WindowLen
        BY RunFacts
      <4>2. spkRun.start <= u
        BY <2>2, <2>4, <3>1, <4>1
      <4>3. spkNow < p.end + Hop
        BY <2>3, <2>4
      <4>4. spkNow - WindowLen <= u
        BY <2>2, <2>6, <3>1, <4>1, <4>3
      <4> QED
        BY <4>1, <4>2, <4>4 DEF Longer
    <3>3. spkRun.scheduled - Guard <= u
      BY SMTT(20), <2>3, <2>6, <3>1, RunFacts
    <3>4. Frontier <= u
      BY <3>2, <3>3 DEF Frontier, Longer
    <3> QED BY <2>3, <3>4 DEF Kept
  <2>7. HeardAgain(spkWindow[1])'
    BY <1>1, <1>6, <2>1, <2>6 DEF HeardAgain, In
  <2> QED BY <2>3, <2>5, <2>7
<1>8. FinalComes => FinalComes' \/ (spkWindow' # <<>> /\ spkWindow'[1].final)
  BY <1>1 DEF FinalComes
<1> QED BY <1>1, <1>3, <1>4, <1>5, <1>6, <1>7, <1>8

(* Waking up, the loop loses sight of no unit. *)
LEMMA WakeAccount == ASSUME Sized, CreditInv, AccountInv, LoopWakes PROVE AccountInv'
<1>0. /\ LoopSound /\ Timely /\ TailHasFuture /\ Passed /\ Covered /\ spkWindow = <<>>
      /\ UNCHANGED <<spkNow, spkRun, spkFinishing, spkClosed, spkCommitted, spkTail, spkCredit>>
      /\ GoOn(spkTold \union NoticedUnits, <<>>) /\ spkCommitted' <= spkNow
  BY DEF AccountInv, LoopWakes, feeding, analyzer, LoopSound
<1>1. /\ LoopSound' /\ Timely' /\ spkPending' = <<>> /\ spkWindow' = spkPending
      /\ \A u \in 0 .. (MaxUnits - 1) : Reported(u) => Reported(u)'
      /\ \A u : Kept(u) => Kept(u)'
      /\ spkPending # <<>> /\ ~spkPending[1].final =>
           ~spkFinishing /\ spkRun.first < spkNow /\ HeardAgain(spkWindow[1])'
      /\ FinalComes => FinalComes' \/ (spkWindow' # <<>> /\ spkWindow'[1].final)
  BY <1>0, GoOnAccount
<1>2. TailHasFuture'
  BY <1>0, <1>1 DEF TailHasFuture, FinalComes
<1>3. Passed'
  BY <1>0, <1>1 DEF Passed, PassedIn
<1>4. ASSUME NEW u \in 0 .. (MaxUnits - 1), u < spkNow PROVE Accounted(u)'
  <2>1. Accounted(u)
    BY <1>0, <1>4 DEF Covered
  <2> QED BY <1>0, <1>1, <2>1 DEF Accounted, InAny
<1>5. Covered'
  BY <1>0, <1>1, <1>4 DEF Covered
<1> QED BY <1>1, <1>2, <1>3, <1>5 DEF AccountInv

(* The credit, the tail and the committed end after an analysis of w. *)
AnalysisTold(w) ==
  /\ spkCommitted' <= spkNow
  /\ spkTail' # <<>> => ~w.final
  /\ \A u \in 0 .. (MaxUnits - 1) :
       /\ spkCredit[u] = 1 => spkCredit'[u] = 1
       /\ InAny(spkTail, u) => spkCredit'[u] = 1 \/ InAny(spkTail, u)' \/ In(w, u)
  /\ \A start \in Nat : PassedIn(start) /\ (start = w.runStart \/ w.end <= start) => PassedIn(start)'

(* A successful analysis credits, defers or leaves to the next window. *)
LEMMA AnalyzeAccount ==
  ASSUME Sized, CreditInv, CreditInv', LoopSound, spkWindow # <<>>, NEW w, w = spkWindow[1],
         NEW limit \in Nat, NEW d \in Nat, Analyze(w, limit, d), PassedIn(w.runStart)
  PROVE  /\ AnalysisTold(w)
         /\ \A u \in 0 .. (MaxUnits - 1) :
              In(w, u) => spkCredit'[u] = 1 \/ InAny(spkTail, u)' \/ (~w.final /\ w.end <= u + Guard)
<1>1. PICK rc : rc = Retired(w).committed
  OBVIOUS
<1>2. /\ w \in Window /\ PastOfRun(w) /\ w.start \in Nat /\ w.end \in Nat /\ w.runStart \in Nat
      /\ w.runStart <= w.start /\ w.start < w.end /\ w.end <= spkNow
      /\ spkCommitted \in Nat /\ spkNow \in Nat /\ spkCommitted <= spkNow /\ Guard \in Nat
  <2>1. w \in Window /\ PastOfRun(w) /\ w.start \in Nat /\ w.end \in Nat /\ w.runStart \in Nat
        /\ spkCommitted \in Nat
    BY WindowFacts
  <2>2. w.runStart <= w.start /\ w.start < w.end /\ w.end <= spkNow
    BY <2>1 DEF PastOfRun
  <2>3. spkNow \in Nat /\ spkCommitted <= spkNow /\ Guard \in Nat
    BY DEF CreditInv, SpkTypes, LoopSound, Sized, Settings
  <2> QED BY <2>1, <2>2, <2>3
<1>3. /\ rc \in Nat /\ spkCommitted <= rc
      /\ \/ spkTail # <<>> => spkTail[1].run = w.run /\ w.start <= spkTail[1].start
         \/ spkTail # <<>> /\ rc = spkTail[1].end
  BY <1>1, RetiredTail DEF Sized
<1>4. /\ spkCommitted' = Longer(spkCommitted, limit - d) /\ limit - d \in Nat
      /\ w.start <= limit - d /\ limit <= w.end /\ w.end <= limit + Guard
      /\ w.final => limit = w.end /\ d = 0
      /\ rc <= spkCommitted'
      /\ d = 0 => spkTail' = <<>>
      /\ d > 0 => spkTail' = <<[run |-> w.run, start |-> limit - d, end |-> limit]>> /\ rc <= limit - d
      /\ \A u \in 0 .. (MaxUnits - 1) :
           spkCredit'[u] = spkCredit[u]
             + (IF spkCommitted <= u /\ u < rc THEN 1 ELSE 0)
             + (IF Longer(w.runStart, rc) <= u /\ u < w.start THEN 1 ELSE 0)
             + (IF Longer(w.start, rc) <= u /\ u < limit - d THEN 1 ELSE 0)
  <2>1. Settings
    BY DEF Sized
  <2>2. /\ spkCommitted' = Longer(spkCommitted, limit - d) /\ limit - d \in Nat
        /\ w.start <= limit - d /\ limit <= w.end /\ w.end <= limit + Guard
        /\ w.final => limit = w.end /\ d = 0
        /\ Retired(w).committed <= spkCommitted'
        /\ d = 0 => spkTail' = <<>>
        /\ d > 0 => /\ spkTail' = <<[run |-> w.run, start |-> limit - d, end |-> limit]>>
                    /\ Retired(w).committed <= limit - d
        /\ \A u \in 0 .. (MaxUnits - 1) :
             spkCredit'[u] = spkCredit[u]
               + (IF spkCommitted <= u /\ u < Retired(w).committed THEN 1 ELSE 0)
               + (IF Longer(w.runStart, Retired(w).committed) <= u /\ u < w.start THEN 1 ELSE 0)
               + (IF Longer(w.start, Retired(w).committed) <= u /\ u < limit - d THEN 1 ELSE 0)
    BY <2>1, AnalyzeFacts
  <2> QED
    BY <1>1, <2>2
<1>5. \A u \in 0 .. (MaxUnits - 1) :
        u \in Nat /\ spkCredit[u] \in Nat /\ spkCredit'[u] \in Nat /\ spkCredit'[u] <= 1
  <2>1. spkCredit \in [0 .. (MaxUnits - 1) -> Nat]
    BY DEF CreditInv, SpkTypes
  <2>2. spkCredit' \in [0 .. (MaxUnits - 1) -> Nat]
    BY DEF CreditInv, SpkTypes
  <2>3. \A u \in 0 .. (MaxUnits - 1) : spkCredit'[u] <= 1
    BY DEF CreditInv, CreditSound
  <2> QED
    BY <2>1, <2>2, <2>3
<1>6. spkCommitted' \in Nat /\ spkCommitted' <= spkNow
  BY <1>2, <1>4 DEF Longer
<1>7. spkTail' # <<>> => ~w.final
  BY <1>4
<1>8. \A u \in 0 .. (MaxUnits - 1) : spkCredit[u] = 1 => spkCredit'[u] = 1
  BY <1>4, <1>5
<1>9. ASSUME NEW u \in 0 .. (MaxUnits - 1), spkCommitted <= u, u < rc PROVE spkCredit'[u] = 1
  BY <1>4, <1>5, <1>9
<1>10. ASSUME NEW start \in Nat, PassedIn(start), start = w.runStart \/ w.end <= start PROVE PassedIn(start)'
  <2> SUFFICES ASSUME NEW u \in 0 .. (MaxUnits - 1), start <= u, u < spkCommitted' PROVE spkCredit'[u] = 1
    BY DEF PassedIn
  <2>1. CASE u < spkCommitted
    BY <1>8, <1>10, <2>1 DEF PassedIn
  <2>2. CASE ~(u < spkCommitted)
    <3>1. spkCommitted <= u /\ u < limit - d /\ u < w.end /\ u \in Nat
      BY <1>2, <1>4, <1>5, <2>2 DEF Longer
    <3>2. w.runStart <= u
      BY <1>2, <1>10, <3>1
    <3>3. \/ spkCommitted <= u /\ u < rc
          \/ Longer(w.runStart, rc) <= u /\ u < w.start
          \/ Longer(w.start, rc) <= u /\ u < limit - d
      BY <1>2, <1>3, <3>1, <3>2 DEF Longer
    <3> QED BY <1>4, <1>5, <3>3
  <2> QED BY <2>1, <2>2
<1>11. ASSUME NEW u \in 0 .. (MaxUnits - 1), InAny(spkTail, u) PROVE spkCredit'[u] = 1 \/ In(w, u)
  <2>1. PICK t \in DeferredTail : t = spkTail[1] /\ TailOfRun(t) /\ TailBefore(t, w)
    BY <1>11 DEF CreditInv, SpkTypes, AtMostOne, TailOrdered, InAny
  <2>2. /\ t.start \in Nat /\ t.end \in Nat /\ spkCommitted = t.start /\ t.start <= u /\ u < t.end
        /\ t.run = w.run => t.end <= w.end
    BY <1>11, <2>1 DEF DeferredTail, TailOfRun, TailBefore, InAny, In
  <2>3. CASE rc = t.end
    BY <1>9, <2>2, <2>3
  <2>4. CASE t.run = w.run /\ w.start <= t.start
    BY <1>2, <1>5, <2>2, <2>4 DEF In
  <2> QED BY <1>3, <1>11, <2>1, <2>3, <2>4 DEF InAny
<1>12. ASSUME NEW u \in 0 .. (MaxUnits - 1), In(w, u)
       PROVE  spkCredit'[u] = 1 \/ InAny(spkTail, u)' \/ (~w.final /\ w.end <= u + Guard)
  <2>1. w.start <= u /\ u < w.end /\ u \in Nat /\ w.runStart <= u
    BY <1>2, <1>5, <1>12 DEF In
  <2>2. CASE u < limit - d
    <3>1. u < spkCommitted'
      BY <1>2, <1>4, <2>1, <2>2 DEF Longer
    <3> QED BY <1>2, <1>10, <2>1, <3>1 DEF PassedIn
  <2>3. CASE ~(u < limit - d) /\ u < limit
    <3>1. d > 0
      BY <2>1, <2>3
    <3>2. PICK t : t = [run |-> w.run, start |-> limit - d, end |-> limit]
      OBVIOUS
    <3>3. spkTail' = <<t>> /\ t.start = limit - d /\ t.end = limit
      BY <1>4, <3>1, <3>2
    <3>4. t.start <= u /\ u < t.end
      BY <1>4, <2>1, <2>3, <3>3
    <3> QED BY <3>3, <3>4 DEF InAny, In
  <2>4. CASE ~(u < limit)
    BY <1>2, <1>4, <2>1, <2>4
  <2> QED BY <2>2, <2>3, <2>4
<1> QED BY <1>6, <1>7, <1>8, <1>10, <1>11, <1>12 DEF AnalysisTold

(* A failed analysis loses no more than its window. *)
LEMMA FailureAccount ==
  ASSUME Sized, CreditInv, CreditInv', LoopSound, spkWindow # <<>>, NEW w, w = spkWindow[1], AnalysisFails(w)
  PROVE  AnalysisTold(w)
<1>1. spkCommitted \in Nat /\ spkNow \in Nat /\ spkCommitted <= spkNow
  BY WindowFacts DEF CreditInv, SpkTypes, LoopSound, Sized, Settings
<1>2. CASE w.final /\ spkTail # <<>>
  <2>1. PICK t \in DeferredTail : t = spkTail[1] /\ TailOfRun(t)
    BY <1>2 DEF CreditInv, SpkTypes, AtMostOne, TailOrdered
  <2>2. t.start \in Nat /\ t.end \in Nat /\ t.start < t.end /\ spkCommitted = t.start /\ t.end <= spkNow
    BY <2>1 DEF DeferredTail, TailOfRun
  <2>3. spkCommitted' = t.end /\ spkTail' = <<>>
    BY <1>2, <2>1, <2>2 DEF AnalysisFails, Longer
  <2>4. \A u \in 0 .. (MaxUnits - 1) :
          /\ u \in Nat /\ spkCredit[u] \in Nat /\ spkCredit'[u] \in Nat /\ spkCredit'[u] <= 1
          /\ spkCredit'[u] = spkCredit[u] + (IF t.start <= u /\ u < t.end THEN 1 ELSE 0)
    <3>1. \A u \in 0 .. (MaxUnits - 1) :
            u \in Nat /\ spkCredit[u] \in Nat /\ spkCredit'[u] \in Nat /\ spkCredit'[u] <= 1
      BY SMTT(20), WindowFacts DEF CreditInv, SpkTypes, CreditSound
    <3>2. \A u \in 0 .. (MaxUnits - 1) :
            spkCredit'[u] = spkCredit[u] + (IF t.start <= u /\ u < t.end THEN 1 ELSE 0)
      BY <1>2, <2>1, WindowFacts DEF AnalysisFails, Credited, Units
    <3> QED BY <3>1, <3>2
  <2>5. \A u \in 0 .. (MaxUnits - 1) : InAny(spkTail, u) => spkCredit'[u] = 1
    BY <2>1, <2>2, <2>4 DEF InAny, In
  <2>6. \A start \in Nat : PassedIn(start) => PassedIn(start)'
    <3> SUFFICES ASSUME NEW start \in Nat, PassedIn(start),
                        NEW u \in 0 .. (MaxUnits - 1), start <= u, u < spkCommitted'
                 PROVE  spkCredit'[u] = 1
      BY DEF PassedIn
    <3>1. u < spkCommitted => spkCredit[u] = 1
      BY DEF PassedIn
    <3> QED BY <2>2, <2>3, <2>4, <3>1
  <2> QED BY <2>2, <2>3, <2>4, <2>5, <2>6 DEF AnalysisTold
<1>3. CASE ~(w.final /\ spkTail # <<>>)
  <2>1. UNCHANGED <<spkCommitted, spkTail, spkCredit>>
    BY <1>3 DEF AnalysisFails, analyzer
  <2> QED BY <1>1, <1>3, <2>1 DEF AnalysisTold, PassedIn, InAny
<1> QED BY <1>2, <1>3

(* An analysis that returns loses sight of no unit. *)
LEMMA AnalysisAccount ==
  ASSUME Sized, CreditInv, CreditInv', AccountInv, AnalysisReturns PROVE AccountInv'
<1>0. /\ LoopSound /\ Timely /\ TailHasFuture /\ Passed /\ Covered
      /\ UNCHANGED <<spkNow, spkRun, spkFinishing, spkClosed>>
      /\ spkWindow # <<>>
  BY DEF AccountInv, AnalysisReturns, feeding, LoopSound
<1>1. PICK w : w = spkWindow[1]
  OBVIOUS
<1>2. PassedIn(w.runStart) /\ w \in Window /\ PastOfRun(w) /\ w.start \in Nat /\ w.end \in Nat
      /\ w.runStart \in Nat /\ w.run \in Nat
  BY <1>0, <1>1, WindowFacts DEF Passed
<1>3. PICK told, notices :
        /\ GoOn(told, notices) /\ spkTold \subseteq told /\ notices = spkNotices
        /\ AnalysisTold(w)
        /\ \A u \in 0 .. (MaxUnits - 1) :
             In(w, u) => \/ spkCredit'[u] = 1 \/ InAny(spkTail, u)' \/ u \in told
                         \/ (~w.final /\ w.end <= u + Guard)
  <2>1. CASE /\ \E limit \in 0 .. MaxUnits, d \in 0 .. (MinClean - 1) : Analyze(spkWindow[1], limit, d)
             /\ GoOn(spkTold, spkNotices)
    <3>1. PICK limit \in 0 .. MaxUnits, d \in 0 .. (MinClean - 1) : Analyze(w, limit, d)
      BY <1>1, <2>1
    <3>2. limit \in Nat /\ d \in Nat
      BY DEF Sized, Settings
    <3>3. /\ AnalysisTold(w)
          /\ \A u \in 0 .. (MaxUnits - 1) :
               In(w, u) => spkCredit'[u] = 1 \/ InAny(spkTail, u)' \/ (~w.final /\ w.end <= u + Guard)
      BY <1>0, <1>1, <1>2, <3>1, <3>2, AnalyzeAccount
    <3> QED BY <2>1, <3>3
  <2>2. CASE /\ AnalysisFails(spkWindow[1])
             /\ GoOn(spkTold \union Units(spkWindow[1].start, spkWindow[1].end), spkNotices)
    <3>1. AnalysisTold(w)
      BY <1>0, <1>1, <2>2, FailureAccount
    <3>2. \A u \in 0 .. (MaxUnits - 1) : In(w, u) => u \in spkTold \union Units(w.start, w.end)
      BY DEF In, Units
    <3> QED BY <1>1, <2>2, <3>1, <3>2
  <2> QED BY <2>1, <2>2 DEF AnalysisReturns
<1>4. /\ LoopSound' /\ Timely' /\ spkPending' = <<>> /\ spkWindow' = spkPending
      /\ \A u \in 0 .. (MaxUnits - 1) : Reported(u) \/ u \in told => Reported(u)'
      /\ \A u : Kept(u) => Kept(u)'
      /\ spkPending # <<>> /\ ~spkPending[1].final =>
           ~spkFinishing /\ spkRun.first < spkNow /\ HeardAgain(spkWindow[1])'
      /\ FinalComes => FinalComes' \/ (spkWindow' # <<>> /\ spkWindow'[1].final)
  <2>1. spkCommitted' <= spkNow
    BY <1>3 DEF AnalysisTold
  <2> QED BY <1>0, <1>3, <2>1, GoOnAccount
<1>5. TailHasFuture'
  <2>1. spkTail' # <<>> => FinalComes
    BY <1>0, <1>1, <1>3 DEF AnalysisTold, TailHasFuture
  <2>2. spkWindow' # <<>> /\ ~spkWindow'[1].final => FinalComes'
    BY <1>0, <1>4 DEF FinalComes
  <2> QED BY <1>4, <2>1, <2>2 DEF TailHasFuture
<1>6. Passed'
  <2>1. PassedIn(spkRun.start)'
    <3>1. spkRun.start \in Nat /\ spkRun.id \in Nat
      BY <1>0, RunFacts
    <3>2. spkRun.start = w.runStart \/ w.end <= spkRun.start
      BY <1>2, <3>1 DEF PastOfRun
    <3>3. PassedIn(spkRun.start)
      BY <1>0 DEF Passed
    <3>4. \A u \in 0 .. (MaxUnits - 1) : spkRun.start <= u /\ u < spkCommitted' => spkCredit'[u] = 1
      BY <1>3, <3>1, <3>2, <3>3 DEF AnalysisTold, PassedIn
    <3> QED BY <1>0, <3>4 DEF PassedIn
  <2>2. ASSUME spkPending # <<>> PROVE PassedIn(spkWindow[1].runStart)'
    <3>1. PICK p \in Window : p = spkPending[1] /\ Before(w, p)
      BY <1>0, <1>1, <2>2, WindowFacts DEF CreditInv, WindowsOrdered
    <3>2. p.runStart \in Nat /\ p.run \in Nat
      BY DEF Window
    <3>3. p.runStart = w.runStart \/ w.end <= p.runStart
      BY <1>2, <3>1, <3>2 DEF Before
    <3>4. PassedIn(p.runStart)
      BY <1>0, <2>2, <3>1 DEF Passed
    <3>5. \A u \in 0 .. (MaxUnits - 1) : p.runStart <= u /\ u < spkCommitted' => spkCredit'[u] = 1
      BY <1>3, <3>2, <3>3, <3>4 DEF AnalysisTold, PassedIn
    <3> QED BY <1>4, <3>1, <3>5 DEF PassedIn
  <2> QED BY <1>4, <2>1, <2>2 DEF Passed
<1>7. ASSUME NEW u \in 0 .. (MaxUnits - 1), In(w, u) PROVE Accounted(u)'
  <2>1. CASE ~w.final /\ w.end <= u + Guard
    <3>1. Reported(u) \/ InAny(spkPending, u) \/ Kept(u)
      BY <1>0, <1>1, <1>7, <2>1 DEF Covered, HeardAgain
    <3> QED BY <1>4, <3>1 DEF Accounted, InAny
  <2>2. CASE ~(~w.final /\ w.end <= u + Guard)
    <3>1. spkCredit'[u] = 1 \/ InAny(spkTail, u)' \/ Reported(u)'
      BY <1>3, <1>4, <1>7, <2>2
    <3> QED BY <3>1 DEF Accounted
  <2> QED BY <2>1, <2>2
<1>8. ASSUME NEW u \in 0 .. (MaxUnits - 1), u < spkNow PROVE Accounted(u)'
  <2>1. Accounted(u)
    BY <1>0, <1>8 DEF Covered
  <2>2. InAny(spkWindow, u) => In(w, u)
    BY <1>1 DEF InAny
  <2>3. spkCredit[u] = 1 \/ InAny(spkTail, u) => spkCredit'[u] = 1 \/ InAny(spkTail, u)' \/ In(w, u)
    BY <1>3 DEF AnalysisTold
  <2>4. InAny(spkPending, u) => InAny(spkWindow, u)'
    BY <1>4 DEF InAny
  <2> QED BY <1>4, <1>7, <2>1, <2>2, <2>3, <2>4 DEF Accounted
<1>9. Covered'
  BY <1>0, <1>4, <1>8 DEF Covered
<1> QED BY <1>4, <1>5, <1>6, <1>9 DEF AccountInv

(* Every step keeps the account. *)
LEMMA NextAccount ==
  ASSUME Sized PROVE CreditInv /\ CreditInv' /\ AccountInv /\ [SpkNext]_spkVars => AccountInv'
<1> SUFFICES ASSUME CreditInv, CreditInv', AccountInv, [SpkNext]_spkVars PROVE AccountInv'
  OBVIOUS
<1>1. CASE CloseStream
  BY <1>1 DEF CloseStream, AccountInv
<1>2. CASE SpkNext
  BY <1>1, <1>2, FeedAccount, GapAccount, FinishAccount, WakeAccount, AnalysisAccount DEF SpkNext
<1>3. CASE UNCHANGED spkVars
  BY <1>3 DEF spkVars, AccountInv, LoopSound, Timely, TailHasFuture, FinalComes, Passed, PassedIn, Covered,
    Accounted, HeardAgain, Reported, InAny, Kept, Frontier
<1> QED BY <1>2, <1>3

(* When the worker is done, nothing is left that could still be credited. *)
LEMMA AccountSettles == ASSUME Sized PROVE CreditInv /\ AccountInv => AllAccounted
<1> SUFFICES ASSUME CreditInv, AccountInv PROVE AllAccounted
  OBVIOUS
<1>1. CreditedOnce
  BY CreditIsOnce DEF Sized
<1>2. ASSUME spkWorker = "done", ~spkClosed
      PROVE  /\ spkTail = <<>>
             /\ \A u \in 0 .. (spkNow - 1) : spkCredit[u] = 1 \/ u \in spkTold
  <2>1. /\ spkFinishing /\ spkPending = <<>> /\ spkNotices = <<>> /\ spkWindow = <<>>
        /\ TailHasFuture /\ Covered
    BY <1>2 DEF AccountInv, LoopSound
  <2>2. spkTail = <<>>
    BY <2>1 DEF TailHasFuture, FinalComes
  <2>3. ASSUME NEW u \in 0 .. (spkNow - 1) PROVE spkCredit[u] = 1 \/ u \in spkTold
    <3>1. u \in 0 .. (MaxUnits - 1) /\ u < spkNow
      BY DEF CreditInv, SpkTypes, Sized, Settings
    <3>2. Accounted(u)
      BY <2>1, <3>1 DEF Covered
    <3>3. DOMAIN spkNotices = {}
      BY <2>1
    <3> QED BY <2>1, <2>2, <3>2, <3>3 DEF Accounted, InAny, Kept, Reported
  <2> QED BY <2>2, <2>3
<1> QED BY <1>1, <1>2 DEF AllAccounted

(* SpeakerStream: all audio is accounted for once, for every length of     *)
(* window, hop and guard with hop and guard within a window, and as long   *)
(* as the deque of notices holds what is reported.                         *)
THEOREM AudioIsAccounted == ASSUME Sized PROVE SpkSpec => []AllAccounted
<1>1. Settings
  BY DEF Sized
<1>2. SpkInit => CreditInv /\ AccountInv
  BY <1>1, InitCredit, InitAccount
<1>3. CreditInv /\ AccountInv /\ [SpkNext]_spkVars => CreditInv' /\ AccountInv'
  BY <1>1, NextCredit, NextAccount
<1>4. SpkSpec => [](CreditInv /\ AccountInv)
  BY <1>2, <1>3, PTL DEF SpkSpec
<1> QED BY <1>4, AccountSettles, PTL

-----------------------------------------------------------------------------
(* WireAudio.  A run is a piece of audio labelled with the time of its     *)
(* first sample, and its samples are those that follow it.                 *)
Runs == [start : Int, samples : Seq(Int)]
IsRun(b) == b \in Runs /\ \A i \in 1..Len(b.samples) : b.samples[i] = b.start + i - 1
End(b) == b.start + Len(b.samples)
Covers(b, t) == b.start <= t /\ t < End(b)
Real(b) == b # NoBuffer

(* Blocks follow each other unless the pipeline was told of a gap. *)
Follow(blocks) ==
  \A i \in 2..Len(blocks) :
    Real(blocks[i]) /\ Real(blocks[i - 1]) => blocks[i].start = End(blocks[i - 1])
BlocksOK(blocks) ==
  blocks \in Seq(Runs) /\ (\A i \in 1..Len(blocks) : IsRun(blocks[i])) /\ Follow(blocks)
Held(blocks, buf, t) == (\E i \in 1..Len(blocks) : Covers(blocks[i], t)) \/ Covers(buf, t)

(* Samples that follow each other, labelled with the first, are a run. *)
LEMMA MakeRun ==
  ASSUME NEW a \in Int, NEW s \in Seq(Int), \A i \in 1..Len(s) : s[i] = a + i - 1
  PROVE  \E b \in {[start |-> a, samples |-> s]} :
           IsRun(b) /\ End(b) = a + Len(s) /\ b.start = a /\ b.samples = s
<1>1. PICK b : b = [start |-> a, samples |-> s]
  OBVIOUS
<1>2. b \in Runs /\ b.start = a /\ b.samples = s
  BY <1>1 DEF Runs
<1> QED
  BY <1>1, <1>2 DEF IsRun, End

(* A run holds the samples of its label. *)
LEMMA RunSamples ==
  ASSUME NEW b, IsRun(b)
  PROVE  /\ b.samples = Samples(b.start, Len(b.samples))
         /\ \A t : t \in ToSet(b.samples) <=> t \in Int /\ Covers(b, t)
<1>1. PICK s : s = b.samples
  OBVIOUS
<1>2. PICK a : a = b.start
  OBVIOUS
<1>3. a \in Int /\ s \in Seq(Int) /\ Len(s) \in Nat /\ DOMAIN s = 1..Len(s)
      /\ \A i \in 1..Len(s) : s[i] = a + i - 1
  BY <1>1, <1>2 DEF IsRun, Runs
<1>4. s = Samples(a, Len(s))
  BY <1>3 DEF Samples
<1>5. ASSUME NEW t PROVE t \in ToSet(s) <=> t \in Int /\ a <= t /\ t < a + Len(s)
  <2>1. ASSUME t \in ToSet(s) PROVE t \in Int /\ a <= t /\ t < a + Len(s)
    <3>1. PICK i \in 1..Len(s) : t = s[i]
      BY <1>3, <2>1 DEF ToSet
    <3> QED
      BY <1>3, <3>1
  <2>2. ASSUME t \in Int /\ a <= t /\ t < a + Len(s) PROVE t \in ToSet(s)
    <3>1. t - a + 1 \in 1..Len(s) /\ s[t - a + 1] = t
      BY <1>3, <2>2
    <3> QED
      BY <1>3, <3>1 DEF ToSet
  <2> QED
    BY <2>1, <2>2
<1> QED
  BY <1>1, <1>2, <1>4, <1>5 DEF Covers, End

(* A frame that follows the buffer makes it longer. *)
LEMMA PushRun ==
  ASSUME NEW buf, IsRun(buf), NEW start \in Int, NEW len \in Nat,
         buf.samples # <<>> => End(buf) = start
  PROVE  \E new \in {PushFrame(buf, start, len)} :
           /\ IsRun(new) /\ End(new) = start + len /\ Len(new.samples) = Len(buf.samples) + len
           /\ new.start = IF buf.samples = <<>> THEN start ELSE buf.start
           /\ \A t \in Int : Covers(new, t) <=> Covers(buf, t) \/ (start <= t /\ t < start + len)
<1>1. PICK s : s = buf.samples
  OBVIOUS
<1>2. PICK a : a = buf.start
  OBVIOUS
<1>3. a \in Int /\ s \in Seq(Int) /\ Len(s) \in Nat
      /\ \A i \in 1..Len(s) : s[i] = a + i - 1
  BY <1>1, <1>2 DEF IsRun, Runs
<1>4. PICK more : more = Samples(start, len)
  OBVIOUS
<1>5. more \in Seq(Int) /\ Len(more) = len /\ \A i \in 1..len : more[i] = start + i - 1
  BY <1>4 DEF Samples
<1>6. PICK both : both = s \o more
  OBVIOUS
<1>7. /\ both \in Seq(Int) /\ Len(both) = Len(s) + len
      /\ \A i \in 1..Len(s) : both[i] = s[i]
      /\ \A i \in (Len(s) + 1)..(Len(s) + len) : both[i] = more[i - Len(s)]
  <2>0. s \in Seq(Int) /\ more \in Seq(Int) /\ Len(more) = len
    BY <1>3, <1>5
  <2>1. both \in Seq(Int) /\ Len(both) = Len(s) + len
    <3>1. s \o more \in Seq(Int)
      BY <2>0
    <3>2. Len(s \o more) = Len(s) + Len(more)
      BY <2>0
    <3> QED
      BY <1>6, <2>0, <3>1, <3>2
  <2>2. ASSUME NEW i \in 1..Len(s) PROVE both[i] = s[i]
    BY <1>3, <1>5, <1>6, <2>2
  <2>3. ASSUME NEW i \in (Len(s) + 1)..(Len(s) + len) PROVE both[i] = more[i - Len(s)]
    BY <1>3, <1>5, <1>6, <2>3
  <2> QED
    BY <2>1, <2>2, <2>3
<1>8. PICK first : first = IF s = <<>> THEN start ELSE a
  OBVIOUS
<1>9. PICK new : new = [start |-> first, samples |-> both]
  OBVIOUS
<1>10. new = PushFrame(buf, start, len) /\ new.start = first /\ new.samples = both
  BY <1>1, <1>2, <1>4, <1>6, <1>8, <1>9 DEF PushFrame
<1>11. first \in Int /\ first + Len(s) = start
  BY <1>1, <1>2, <1>3, <1>8 DEF End
<1>12. \A i \in 1..Len(both) : both[i] = first + i - 1
  <2>1. ASSUME NEW i \in 1..Len(s) PROVE both[i] = first + i - 1
    BY <1>3, <1>7, <1>8, <2>1
  <2>2. ASSUME NEW i \in (Len(s) + 1)..(Len(s) + len) PROVE both[i] = first + i - 1
    <3>1. i - Len(s) \in 1..len
      BY <1>3, <2>2
    <3>2. both[i] = start + (i - Len(s)) - 1
      BY <1>5, <1>7, <2>2, <3>1
    <3> QED
      BY <1>3, <1>11, <2>2, <3>2
  <2>3. \A i \in 1..Len(both) : i \in 1..Len(s) \/ i \in (Len(s) + 1)..(Len(s) + len)
    BY <1>3, <1>7
  <2> QED
    BY <2>1, <2>2, <2>3
<1>13. IsRun(new) /\ End(new) = start + len
  <2>1. IsRun(new) /\ End(new) = first + Len(both)
    BY <1>7, <1>9, <1>11, <1>12, MakeRun
  <2>2. first \in Int /\ Len(s) \in Nat /\ first + Len(s) = start /\ Len(both) = Len(s) + len
    BY <1>3, <1>7, <1>11
  <2>3. first + (Len(s) + len) = start + len
    BY <2>2
  <2> QED
    BY <2>1, <2>2, <2>3
<1>14. \A t \in Int : Covers(new, t) <=> Covers(buf, t) \/ (start <= t /\ t < start + len)
  <2>1. CASE s = <<>>
    <3>1. Len(s) = 0 /\ first = start
      BY <1>8, <2>1
    <3> QED
      BY <1>1, <1>2, <1>3, <1>10, <1>13, <3>1 DEF Covers, End
  <2>2. CASE s # <<>>
    <3>1. first = a /\ a + Len(s) = start
      BY <1>8, <1>11, <2>2
    <3> QED
      BY <1>1, <1>2, <1>3, <1>10, <1>13, <3>1 DEF Covers, End
  <2> QED
    BY <2>1, <2>2
<1> QED
  BY <1>1, <1>2, <1>7, <1>8, <1>10, <1>13, <1>14

(* A block and the rest are the buffer. *)
LEMMA TakeRun ==
  ASSUME NEW buf, IsRun(buf), NEW size \in 1..Len(buf.samples)
  PROVE  \E block \in {TakeBlock(buf, size)}, rest \in {Rest(buf, size)} :
           /\ IsRun(block) /\ IsRun(rest) /\ Real(block) /\ block.start = buf.start
           /\ End(block) = rest.start /\ End(rest) = End(buf)
           /\ Len(rest.samples) = Len(buf.samples) - size
           /\ \A t \in Int : Covers(buf, t) <=> Covers(block, t) \/ Covers(rest, t)
<1>1. PICK s : s = buf.samples
  OBVIOUS
<1>2. PICK a : a = buf.start
  OBVIOUS
<1>3. a \in Int /\ s \in Seq(Int) /\ Len(s) \in Nat /\ size \in 1..Len(s)
      /\ \A i \in 1..Len(s) : s[i] = a + i - 1
  BY <1>1, <1>2 DEF IsRun, Runs
<1>4. PICK s1 : s1 = SubSeq(s, 1, size)
  OBVIOUS
<1>5. PICK s2 : s2 = SubSeq(s, size + 1, Len(s))
  OBVIOUS
<1>6. s1 \in Seq(Int) /\ Len(s1) = size /\ \A i \in 1..size : s1[i] = s[i]
  BY <1>3, <1>4
<1>7. s2 \in Seq(Int) /\ Len(s2) = Len(s) - size /\ \A i \in 1..Len(s2) : s2[i] = s[size + i]
  BY <1>3, <1>5
<1>8. PICK block : block = [start |-> a, samples |-> s1]
  OBVIOUS
<1>9. PICK rest : rest = [start |-> a + size, samples |-> s2]
  OBVIOUS
<1>10. block = TakeBlock(buf, size) /\ rest = Rest(buf, size)
  BY <1>1, <1>2, <1>4, <1>5, <1>8, <1>9 DEF TakeBlock, Rest
<1>11. IsRun(block) /\ End(block) = a + size /\ block.start = a
  <2>1. \A i \in 1..Len(s1) : s1[i] = a + i - 1
    BY <1>3, <1>6
  <2> QED
    BY <1>3, <1>6, <1>8, <2>1 DEF IsRun, Runs, End
<1>12. IsRun(rest) /\ End(rest) = a + Len(s) /\ rest.start = a + size /\ rest.samples = s2
  <2>1. \A i \in 1..Len(s2) : s2[i] = a + size + i - 1
    BY <1>3, <1>7
  <2> QED
    <3>1. a + size \in Int /\ (a + size) + (Len(s) - size) = a + Len(s)
      BY <1>3
    <3>2. /\ IsRun(rest) /\ End(rest) = (a + size) + Len(s2)
          /\ rest.start = a + size /\ rest.samples = s2
      BY <1>7, <1>9, <2>1, <3>1, MakeRun
    <3> QED
      BY <1>7, <3>1, <3>2
<1>13. Real(block)
  <2>1. s1 # <<>>
    BY <1>3, <1>6
  <2> QED
    BY <1>8, <2>1 DEF Real, NoBuffer
<1>14. \A t \in Int : Covers(buf, t) <=> Covers(block, t) \/ Covers(rest, t)
  BY <1>1, <1>2, <1>3, <1>11, <1>12 DEF Covers, End
<1> QED
  BY <1>1, <1>2, <1>7, <1>10, <1>11, <1>12, <1>13, <1>14 DEF End

(* A block is fed after the others. *)
LEMMA AddBlock ==
  ASSUME NEW blocks, BlocksOK(blocks), NEW b, IsRun(b),
         blocks # <<>> /\ Real(b) /\ Real(blocks[Len(blocks)]) => b.start = End(blocks[Len(blocks)])
  PROVE  \E new \in {blocks \o <<b>>} :
           /\ BlocksOK(new) /\ Len(new) = Len(blocks) + 1 /\ new[Len(new)] = b /\ new # <<>>
           /\ \A t : (\E i \in 1..Len(new) : Covers(new[i], t)) <=>
                       (\E i \in 1..Len(blocks) : Covers(blocks[i], t)) \/ Covers(b, t)
<1>1. PICK new : new = blocks \o <<b>>
  OBVIOUS
<1>2. blocks \in Seq(Runs) /\ b \in Runs /\ Len(blocks) \in Nat
  BY DEF BlocksOK, IsRun
<1>3. <<b>> \in Seq(Runs) /\ Len(<<b>>) = 1
  BY <1>2
<1>4. new \in Seq(Runs) /\ Len(new) = Len(blocks) + 1 /\ new # <<>>
  BY <1>1, <1>2, <1>3
<1>5. new[Len(new)] = b
  BY <1>1, <1>2, <1>3, <1>4
<1>6. \A i \in 1..Len(blocks) : new[i] = blocks[i]
  BY <1>1, <1>2, <1>3
<1>7. \A i \in 1..Len(new) : i \in 1..Len(blocks) \/ i = Len(new)
  BY <1>2, <1>4
<1>8. \A i \in 1..Len(new) : IsRun(new[i])
  BY <1>5, <1>6, <1>7 DEF BlocksOK
<1>9. ASSUME NEW i \in 2..Len(new), Real(new[i]), Real(new[i - 1])
      PROVE  new[i].start = End(new[i - 1])
  <2>1. CASE i \in 1..Len(blocks)
    <3>1. i \in 2..Len(blocks) /\ i - 1 \in 1..Len(blocks)
      BY <1>2, <1>9, <2>1
    <3> QED
      BY <1>6, <1>9, <3>1 DEF BlocksOK, Follow
  <2>2. CASE i = Len(new)
    <3>1. i - 1 = Len(blocks) /\ i - 1 \in 1..Len(blocks) /\ blocks # <<>>
      BY <1>2, <1>4, <1>9, <2>2
    <3>2. new[i - 1] = blocks[Len(blocks)] /\ new[i] = b
      BY <1>5, <1>6, <2>2, <3>1
    <3> QED
      BY <1>9, <3>1, <3>2
  <2> QED
    BY <1>2, <1>4, <1>7, <1>9, <2>1, <2>2
<1>10. BlocksOK(new)
  BY <1>4, <1>8, <1>9 DEF BlocksOK, Follow
<1>11. 1..Len(blocks) \subseteq 1..Len(new) /\ Len(new) \in 1..Len(new)
  BY <1>2, <1>4
<1>12. \A t : (\E i \in 1..Len(new) : Covers(new[i], t)) <=>
                (\E i \in 1..Len(blocks) : Covers(blocks[i], t)) \/ Covers(b, t)
  BY <1>5, <1>6, <1>7, <1>11
<1> QED
  BY <1>1, <1>4, <1>5, <1>10, <1>12

(* What is fed and what is buffered join, up to the last sample accepted.  *)
Fed(blocks, buf, at) ==
  /\ BlocksOK(blocks) /\ IsRun(buf) /\ at \in Int
  /\ buf.samples # <<>> => at >= 0 /\ End(buf) = at
  /\ blocks # <<>> /\ Real(blocks[Len(blocks)]) =>
       at >= 0 /\ End(blocks[Len(blocks)]) = at - Len(buf.samples)
(* Whatever comes next need not follow. *)
Closed(blocks, buf) ==
  /\ buf.samples = <<>>
  /\ blocks # <<>> => ~Real(blocks[Len(blocks)])

(* A fresh buffer is an empty run that is no block.                        *)
LEMMA FreshRun == IsRun(NoBuffer) /\ ~Real(NoBuffer) /\ NoBuffer.samples = <<>>
                  /\ \A t \in Int : ~Covers(NoBuffer, t)
<1>1. PICK e : e = <<>>
  OBVIOUS
<1>2. e \in Seq(Int) /\ Len(e) = 0 /\ e = <<>>
  BY <1>1
<1>3. PICK a : a = -1
  OBVIOUS
<1>5. a \in Int /\ \A i \in 1..Len(e) : e[i] = a + i - 1
  BY <1>2, <1>3
<1>6. PICK b \in {[start |-> a, samples |-> e]} :
        IsRun(b) /\ End(b) = a + Len(e) /\ b.start = a /\ b.samples = e
  BY <1>2, <1>5, MakeRun
<1>4. b = NoBuffer
  BY <1>1, <1>3, <1>6 DEF NoBuffer
<1> QED
  BY <1>2, <1>3, <1>4, <1>5, <1>6 DEF Real, Covers

(* A gap feeds what is buffered and starts afresh. *)
LEMMA FlushFed ==
  ASSUME NEW blocks, NEW buf, NEW at, Fed(blocks, buf, at), NEW next \in Int
  PROVE  \E new \in {blocks \o GapBlocks(buf)} :
           /\ Fed(new, NoBuffer, next) /\ Closed(new, NoBuffer)
           /\ \A t \in Int : Held(new, NoBuffer, t) <=> Held(blocks, buf, t)
<1>0. IsRun(buf) /\ buf.samples \in Seq(Int) /\ blocks \in Seq(Runs) /\ BlocksOK(blocks)
      /\ Len(buf.samples) \in Nat /\ buf.start \in Int /\ NoBuffer \in Runs
  BY FreshRun DEF Fed, IsRun, Runs, BlocksOK
<1>1. ASSUME NEW mid, BlocksOK(mid), mid \o <<NoBuffer>> = blocks \o GapBlocks(buf),
             \A t \in Int : (\E i \in 1..Len(mid) : Covers(mid[i], t)) <=> Held(blocks, buf, t)
      PROVE  \E new \in {blocks \o GapBlocks(buf)} :
           /\ Fed(new, NoBuffer, next) /\ Closed(new, NoBuffer)
           /\ \A t \in Int : Held(new, NoBuffer, t) <=> Held(blocks, buf, t)
  <2>1. PICK new \in {mid \o <<NoBuffer>>} :
           /\ BlocksOK(new) /\ Len(new) = Len(mid) + 1 /\ new[Len(new)] = NoBuffer /\ new # <<>>
           /\ \A t : (\E i \in 1..Len(new) : Covers(new[i], t)) <=>
                       (\E i \in 1..Len(mid) : Covers(mid[i], t)) \/ Covers(NoBuffer, t)
    BY <1>1, FreshRun, AddBlock
  <2>2. Fed(new, NoBuffer, next) /\ Closed(new, NoBuffer)
    BY <2>1, FreshRun DEF Fed, Closed
  <2>3. \A t \in Int : Held(new, NoBuffer, t) <=> Held(blocks, buf, t)
    BY <1>1, <2>1, FreshRun DEF Held
  <2> QED
    BY <1>1, <2>1, <2>2, <2>3
<1>2. CASE buf.samples = <<>>
  <2>1. GapBlocks(buf) = <<NoBuffer>>
    BY <1>2 DEF GapBlocks, FlushBlocks
  <2>2. \A t \in Int : ~Covers(buf, t)
    BY <1>0, <1>2 DEF Covers, End
  <2> QED
    BY <1>0, <1>1, <2>1, <2>2 DEF Held
<1>3. CASE buf.samples # <<>>
  <2>1. PICK block : block = TakeBlock(buf, Len(buf.samples))
    OBVIOUS
  <2>2. SubSeq(buf.samples, 1, Len(buf.samples)) = buf.samples
    BY <1>0
  <2>3. block = buf
    <3>1. PICK a : a = buf.start
      OBVIOUS
    <3>2. PICK s : s = buf.samples
      OBVIOUS
    <3>3. buf = [start |-> a, samples |-> s]
      BY <3>1, <3>2 DEF Fed, IsRun, Runs
    <3> QED
      BY <2>1, <2>2, <3>1, <3>2, <3>3 DEF TakeBlock
  <2>4. GapBlocks(buf) = <<buf>> \o <<NoBuffer>>
    BY <1>3, <2>1, <2>3 DEF GapBlocks, FlushBlocks
  <2>5. blocks # <<>> /\ Real(blocks[Len(blocks)]) => buf.start = End(blocks[Len(blocks)])
    BY <1>0, <1>3 DEF Fed, End
  <2>6. PICK mid \in {blocks \o <<buf>>} :
           /\ BlocksOK(mid) /\ Len(mid) = Len(blocks) + 1 /\ mid[Len(mid)] = buf /\ mid # <<>>
           /\ \A t : (\E i \in 1..Len(mid) : Covers(mid[i], t)) <=>
                       (\E i \in 1..Len(blocks) : Covers(blocks[i], t)) \/ Covers(buf, t)
    BY <1>0, <2>5, AddBlock
  <2>7. mid \o <<NoBuffer>> = blocks \o (<<buf>> \o <<NoBuffer>>)
    <3>1. buf \in Runs
      BY <1>0 DEF IsRun
    <3> QED
      BY <1>0, <2>6, <3>1
  <2> QED
    BY <1>1, <2>4, <2>6, <2>7 DEF Held
<1> QED
  BY <1>2, <1>3

(* A frame that follows, or that follows nothing, is buffered. *)
LEMMA PushFed ==
  ASSUME NEW blocks, NEW buf, NEW at, Fed(blocks, buf, at), NEW start \in Nat, NEW len \in Nat,
         Closed(blocks, buf) \/ at = start \/ at < 0
  PROVE  \E new \in {PushFrame(buf, start, len)} :
           /\ Fed(blocks, new, start + len) /\ Len(new.samples) = Len(buf.samples) + len
           /\ \A t \in Int : Held(blocks, new, t) <=>
                               Held(blocks, buf, t) \/ (start <= t /\ t < start + len)
<1>1. buf.samples # <<>> => End(buf) = start
  BY DEF Fed, Closed
<1>2. PICK new \in {PushFrame(buf, start, len)} :
           /\ IsRun(new) /\ End(new) = start + len /\ Len(new.samples) = Len(buf.samples) + len
           /\ new.start = IF buf.samples = <<>> THEN start ELSE buf.start
           /\ \A t \in Int : Covers(new, t) <=> Covers(buf, t) \/ (start <= t /\ t < start + len)
  BY <1>1, PushRun DEF Fed
<1>3. Len(buf.samples) \in Nat
  BY DEF Fed, IsRun, Runs
<1>4. blocks # <<>> /\ Real(blocks[Len(blocks)]) =>
        End(blocks[Len(blocks)]) = (start + len) - Len(new.samples)
  <2>1. SUFFICES ASSUME blocks # <<>>, Real(blocks[Len(blocks)])
                 PROVE  End(blocks[Len(blocks)]) = (start + len) - Len(new.samples)
    OBVIOUS
  <2>2. at = start /\ End(blocks[Len(blocks)]) = at - Len(buf.samples)
    BY <2>1 DEF Fed, Closed
  <2> QED
    BY <1>2, <1>3, <2>2
<1>5. Fed(blocks, new, start + len)
  <2>1. BlocksOK(blocks)
    BY DEF Fed
  <2>2. PICK end : end = start + len
    OBVIOUS
  <2>3. end \in Int /\ end >= 0
    BY <2>2
  <2>4. Fed(blocks, new, end)
    BY <1>2, <1>4, <2>1, <2>2, <2>3 DEF Fed
  <2> QED
    BY <2>2, <2>4
<1>6. \A t \in Int : Held(blocks, new, t) <=> Held(blocks, buf, t) \/ (start <= t /\ t < start + len)
  BY <1>2 DEF Held
<1> QED
  BY <1>2, <1>5, <1>6

(* A full block is fed and the rest stays. *)
LEMMA TakeFed ==
  ASSUME NEW blocks, NEW buf, NEW at, Fed(blocks, buf, at), NEW size \in 1..Len(buf.samples)
  PROVE  \E new \in {blocks \o <<TakeBlock(buf, size)>>}, rest \in {Rest(buf, size)} :
           /\ Fed(new, rest, at)
           /\ \A t \in Int : Held(new, rest, t) <=> Held(blocks, buf, t)
<1>1. PICK block \in {TakeBlock(buf, size)}, rest \in {Rest(buf, size)} :
           /\ IsRun(block) /\ IsRun(rest) /\ Real(block) /\ block.start = buf.start
           /\ End(block) = rest.start /\ End(rest) = End(buf)
           /\ Len(rest.samples) = Len(buf.samples) - size
           /\ \A t \in Int : Covers(buf, t) <=> Covers(block, t) \/ Covers(rest, t)
  BY TakeRun DEF Fed
<1>2. /\ Len(buf.samples) \in Nat /\ buf.start \in Int /\ buf.samples # <<>>
      /\ rest.start \in Int /\ Len(rest.samples) \in Nat
  BY <1>1 DEF Fed, IsRun, Runs
<1>3. at >= 0 /\ End(buf) = at /\ at \in Int
  BY <1>2 DEF Fed
<1>4. blocks # <<>> /\ Real(block) /\ Real(blocks[Len(blocks)]) =>
        block.start = End(blocks[Len(blocks)])
  <2>1. buf.start + Len(buf.samples) = at
    BY <1>3 DEF End
  <2>2. blocks # <<>> /\ Real(blocks[Len(blocks)]) => End(blocks[Len(blocks)]) = at - Len(buf.samples)
    BY DEF Fed
  <2>3. block.start = at - Len(buf.samples)
    BY <1>1, <1>2, <1>3, <2>1
  <2> QED
    BY <2>2, <2>3
<1>5. PICK new \in {blocks \o <<block>>} :
           /\ BlocksOK(new) /\ Len(new) = Len(blocks) + 1 /\ new[Len(new)] = block /\ new # <<>>
           /\ \A t : (\E i \in 1..Len(new) : Covers(new[i], t)) <=>
                       (\E i \in 1..Len(blocks) : Covers(blocks[i], t)) \/ Covers(block, t)
  BY <1>1, <1>4, AddBlock DEF Fed
<1>6. End(block) = at - Len(rest.samples)
  <2>1. rest.start + Len(rest.samples) = at
    BY <1>1, <1>3 DEF End
  <2>2. rest.start = at - Len(rest.samples)
    BY <1>2, <1>3, <2>1
  <2> QED
    BY <1>1, <2>2
<1>7. Fed(new, rest, at)
  BY <1>1, <1>3, <1>5, <1>6 DEF Fed
<1>8. \A t \in Int : Held(new, rest, t) <=> Held(blocks, buf, t)
  BY <1>1, <1>5 DEF Held
<1> QED
  BY <1>1, <1>5, <1>7, <1>8

-----------------------------------------------------------------------------
(* Receipts are the last frames, and the receipts of one run are frames    *)
(* that follow each other.                                                 *)
Receipts == [start : Int, end : Int, at : Int, run : Int]
Received(receipts, frames) ==
  /\ receipts \in Seq(Receipts) /\ Len(receipts) <= Len(frames) /\ Len(frames) \in Nat
  /\ \A i \in 1..Len(receipts) :
       \E at \in {Len(frames) - Len(receipts) + i} :
         /\ receipts[i].at = at
         /\ receipts[i].start = frames[at].start /\ receipts[i].end = frames[at].end
  /\ \A i \in 2..Len(receipts) :
       receipts[i].run = receipts[i - 1].run =>
         /\ ~frames[Len(frames) - Len(receipts) + i].new
         /\ receipts[i].start = receipts[i - 1].end

(* Where a receipt is when the oldest may have gone. *)
LEMMA ReceiptPlaces ==
  ASSUME NEW l \in Nat, NEW d \in Nat, NEW o \in {0, 1}, o <= l, NEW i \in 1..(l - o + 1)
  PROVE  /\ i \in Int /\ (d + l + 1) - (l - o + 1) + i = d + (i + o)
         /\ i <= l - o => i + o \in 1..l /\ d + (i + o) \in 1..(d + l)
         /\ i = l - o + 1 => d + (i + o) = d + l + 1
         /\ i >= 2 => /\ i - 1 \in 1..(l - o) /\ (i - 1) + o = (i + o) - 1
                      /\ i <= l - o => i + o \in 2..l
                      /\ i = l - o + 1 => (i - 1) + o = l /\ l > 0
OBVIOUS

(* A frame is received, and the oldest receipt may go. *)
LEMMA WireReceives ==
  ASSUME NEW receipts, NEW frames, Received(receipts, frames), NEW r \in Receipts, NEW more,
         Len(more) = Len(frames) + 1, NEW f, more[Len(frames) + 1] = f,
         \A i \in 1..Len(frames) : more[i] = frames[i],
         r.at = Len(frames) + 1, r.start = f.start, r.end = f.end,
         receipts # <<>> /\ r.run = receipts[Len(receipts)].run =>
           ~f.new /\ r.start = receipts[Len(receipts)].end,
         NEW kept, kept = receipts \/ (receipts # <<>> /\ kept = Tail(receipts))
  PROVE  Received(Append(kept, r), more)
<1>1. PICK d : d = Len(frames) - Len(receipts)
  OBVIOUS
<1>2. receipts \in Seq(Receipts) /\ Len(receipts) \in Nat /\ Len(frames) \in Nat /\ d \in Nat
      /\ Len(frames) = d + Len(receipts)
  BY <1>1 DEF Received
<1>3. PICK o : o = IF kept = receipts THEN 0 ELSE 1
  OBVIOUS
<1>4. /\ kept \in Seq(Receipts) /\ o \in {0, 1} /\ Len(kept) = Len(receipts) - o /\ Len(kept) \in Nat
      /\ \A i \in 1..Len(kept) : kept[i] = receipts[i + o] /\ i + o \in 1..Len(receipts)
  <2>1. CASE kept = receipts
    BY <1>2, <1>3, <2>1
  <2>2. CASE kept # receipts
    <3>1. receipts # <<>> /\ kept = Tail(receipts) /\ o = 1
      BY <1>3, <2>2
    <3>2. kept \in Seq(Receipts) /\ Len(kept) = Len(receipts) - 1 /\ Len(receipts) > 0
      BY <1>2, <3>1
    <3>3. \A i \in 1..Len(kept) : kept[i] = receipts[i + 1]
      BY <1>2, <3>1
    <3>4. \A i \in 1..Len(kept) : i + 1 \in 1..Len(receipts)
      BY <1>2, <3>2
    <3>5. Len(kept) \in Nat /\ Len(kept) = Len(receipts) - o
      <4>1. o = 1
        BY <3>1
      <4>2. kept \in Seq(Receipts)
        BY <3>2
      <4>3. Len(kept) \in Nat
        BY <4>2
      <4> QED
        BY <3>2, <4>1, <4>3
    <3> QED
      BY <3>1, <3>2, <3>3, <3>4, <3>5
  <2> QED
    BY <2>1, <2>2
<1>5. PICK new : new = Append(kept, r)
  OBVIOUS
<1>6. /\ new \in Seq(Receipts) /\ Len(new) = Len(kept) + 1
      /\ new[Len(kept) + 1] = r /\ \A i \in 1..Len(kept) : new[i] = kept[i]
  BY <1>4, <1>5
<1>7. PICK l : l = Len(receipts)
  OBVIOUS
<1>8. /\ l \in Nat /\ o <= l /\ Len(kept) = l - o /\ Len(new) = l - o + 1 /\ Len(frames) = d + l
      /\ Len(more) = d + l + 1 /\ d \in Nat /\ o \in {0, 1}
  BY <1>2, <1>4, <1>6, <1>7
<1>9. \A i \in 1..Len(kept) : new[i] = receipts[i + o]
  BY <1>4, <1>6
<1>10. ASSUME NEW i \in 1..Len(new)
       PROVE  \E at \in {Len(more) - Len(new) + i} :
                /\ new[i].at = at /\ new[i].start = more[at].start /\ new[i].end = more[at].end
  <2>0. Len(more) - Len(new) + i = d + (i + o) /\ i \in Int
        /\ (i <= l - o => i + o \in 1..l /\ d + (i + o) \in 1..(d + l))
        /\ (i = l - o + 1 => d + (i + o) = d + l + 1)
    BY <1>8, ReceiptPlaces
  <2>1. CASE i <= l - o
    <3>0. i \in 1..Len(kept)
      BY <1>8, <2>0, <2>1
    <3>1. PICK at \in {d + (i + o)} : /\ receipts[i + o].at = at
            /\ receipts[i + o].start = frames[at].start /\ receipts[i + o].end = frames[at].end
      BY <1>1, <1>7, <2>0, <2>1 DEF Received
    <3>2. at = Len(more) - Len(new) + i /\ more[at] = frames[at]
      BY <1>8, <2>0, <2>1, <3>1
    <3> QED
      BY <1>9, <3>0, <3>1, <3>2
  <2>2. CASE i = l - o + 1
    <3>1. Len(more) - Len(new) + i = Len(frames) + 1 /\ i = Len(kept) + 1
      BY <1>8, <2>0, <2>2
    <3> QED
      BY <1>6, <3>1
  <2> QED
    BY <1>8, <2>0, <2>1, <2>2
<1>11. ASSUME NEW i \in 2..Len(new), new[i].run = new[i - 1].run
       PROVE  ~more[Len(more) - Len(new) + i].new /\ new[i].start = new[i - 1].end
  <2>00. i \in 1..(l - o + 1) /\ i >= 2
    BY <1>8
  <2>0. /\ Len(more) - Len(new) + i = d + (i + o) /\ i \in Int
        /\ i <= l - o => i + o \in 1..l /\ d + (i + o) \in 1..(d + l)
        /\ i = l - o + 1 => d + (i + o) = d + l + 1
        /\ i - 1 \in 1..(l - o) /\ (i - 1) + o = (i + o) - 1
        /\ i <= l - o => i + o \in 2..l
        /\ i = l - o + 1 => (i - 1) + o = l /\ l > 0
    BY <1>8, <2>00, ReceiptPlaces
  <2>3. new[i - 1] = receipts[(i + o) - 1]
    BY <1>8, <1>9, <2>0
  <2>1. CASE i <= l - o
    <3>1. i + o \in 2..Len(receipts) /\ new[i] = receipts[i + o]
      <4>1. i \in 1..Len(kept)
        BY <1>8, <2>0, <2>00, <2>1
      <4> QED
        BY <1>7, <1>9, <2>0, <2>1, <4>1
    <3>2. ~frames[d + (i + o)].new /\ receipts[i + o].start = receipts[(i + o) - 1].end
      BY <1>1, <1>11, <2>3, <3>1 DEF Received
    <3>3. more[d + (i + o)] = frames[d + (i + o)]
      BY <1>8, <2>0, <2>1
    <3> QED
      BY <2>0, <2>3, <3>1, <3>2, <3>3
  <2>2. CASE i = l - o + 1
    <3>1. d + (i + o) = Len(frames) + 1 /\ (i + o) - 1 = Len(receipts) /\ i = Len(kept) + 1
      BY <1>7, <1>8, <2>0, <2>2
    <3>2. receipts # <<>>
      BY <1>2, <1>7, <2>0, <2>2
    <3>3. new[i] = r /\ new[i - 1] = receipts[Len(receipts)]
      BY <1>6, <2>3, <3>1
    <3>4. ~f.new /\ r.start = receipts[Len(receipts)].end
      BY <1>11, <3>2, <3>3
    <3>5. more[Len(more) - Len(new) + i] = f
      BY <2>0, <3>1
    <3> QED
      BY <3>3, <3>4, <3>5
  <2> QED
    BY <1>8, <2>0, <2>00, <2>1, <2>2
<1>12. Received(new, more)
  BY <1>6, <1>8, <1>10, <1>11 DEF Received
<1> QED
  BY <1>5, <1>12

(* A set of positions has a greatest one. *)
LEMMA GreatestOf ==
  ASSUME NEW n \in Nat, NEW S \in SUBSET (1..n), S # {}
  PROVE  Max(S) \in S
<1>0. \A x \in S : x \in Int /\ 1 <= x /\ x <= n
  OBVIOUS
<1>1. PICK T : T = {n - x : x \in S}
  OBVIOUS
<1>2. T \in SUBSET Nat /\ T # {}
  <2>1. ASSUME NEW y \in T PROVE y \in Nat
    <3>1. PICK x \in S : y = n - x
      BY <1>1
    <3> QED
      BY <1>0, <3>1
  <2> QED
    BY <1>1, <2>1
<1>4. PICK m \in T : \A y \in T : m <= y
  <2>1. \E x \in T : \A y \in T : ~(<<y, x>> \in OpToRel(<, Nat))
    BY <1>2, NatLessThanWellFounded, WFMin
  <2>2. PICK m \in T : \A y \in T : ~(<<y, m>> \in OpToRel(<, Nat))
    BY <2>1
  <2>3. \A y \in T : ~(y < m)
    BY <1>2, <2>2 DEF OpToRel
  <2> QED
    BY <1>2, <2>3
<1>5. PICK g \in S : m = n - g
  BY <1>1
<1>6. \A y \in S : g >= y
  <2>1. ASSUME NEW y \in S PROVE g >= y
    <3>1. n - g <= n - y
      BY <1>1, <1>4, <1>5
    <3> QED
      BY <1>0, <3>1
  <2> QED
    BY <2>1
<1> QED
  BY <1>5, <1>6 DEF Max

(* Within one run of receipts the frames follow each other. *)
LEMMA AnchorHonest ==
  ASSUME Received(wreceipts, wframes), NEW a, NEW b, NEW at, at = Anchor(a, b), at # -1
  PROVE  /\ wframes[at].start < b /\ b <= wframes[at].end
         /\ \E first \in 1..at :
              /\ wframes[first].start <= a
              /\ \A i \in (first + 1)..at :
                   ~wframes[i].new /\ wframes[i].start = wframes[i - 1].end
<1>1. PICK ends : ends = {i \in DOMAIN wreceipts : wreceipts[i].start < b /\ b <= wreceipts[i].end}
  OBVIOUS
<1>2. PICK i : i = Max(ends)
  OBVIOUS
<1>3. PICK run : run = {j \in 1..i : \A k \in j..i : wreceipts[k].run = wreceipts[i].run}
  OBVIOUS
<1>4. at = IF ends = {} THEN -1
           ELSE IF \E j \in run : wreceipts[j].start <= a THEN wreceipts[i].at ELSE -1
  BY <1>1, <1>2, <1>3 DEF Anchor
<1>5. ends # {} /\ at = wreceipts[i].at
  BY <1>4
<1>6. PICK j \in run : wreceipts[j].start <= a
  BY <1>4
<1>7. PICK l : l = Len(wreceipts)
  OBVIOUS
<1>8. PICK d : d = Len(wframes) - l
  OBVIOUS
<1>9. l \in Nat /\ d \in Nat /\ DOMAIN wreceipts = 1..l
  BY <1>7, <1>8 DEF Received
<1>10. i \in ends
  BY <1>1, <1>2, <1>5, <1>9, GreatestOf
<1>11. i \in 1..l /\ j \in 1..i /\ \A k \in j..i : wreceipts[k].run = wreceipts[i].run
  BY <1>1, <1>3, <1>9, <1>10
<1>12. \A k \in 1..l : /\ wreceipts[k].at = d + k
                       /\ wreceipts[k].start = wframes[d + k].start
                       /\ wreceipts[k].end = wframes[d + k].end
  BY <1>7, <1>8 DEF Received
<1>13. \A k \in 2..l : wreceipts[k].run = wreceipts[k - 1].run =>
                         ~wframes[d + k].new /\ wreceipts[k].start = wreceipts[k - 1].end
  BY <1>7, <1>8 DEF Received
<1>14. at = d + i /\ wframes[at].start < b /\ b <= wframes[at].end
  BY <1>1, <1>5, <1>10, <1>11, <1>12
<1>15. d + j \in 1..at /\ wframes[d + j].start <= a
  <2>1. j \in 1..l
    BY <1>9, <1>11
  <2>2. d + j \in 1..at
    BY <1>9, <1>11, <1>14
  <2> QED
    BY <1>6, <1>12, <2>1, <2>2
<1>16. ASSUME NEW n \in (d + j + 1)..at
       PROVE  ~wframes[n].new /\ wframes[n].start = wframes[n - 1].end
  <2>1. PICK k : k = n - d
    OBVIOUS
  <2>2. k \in 2..l /\ n = d + k /\ k \in j..i /\ k - 1 \in j..i /\ k - 1 \in 1..l /\ n - 1 = d + (k - 1)
    BY <1>9, <1>11, <1>14, <2>1
  <2>3. wreceipts[k].run = wreceipts[k - 1].run
    BY <1>11, <2>2
  <2>4. ~wframes[d + k].new /\ wreceipts[k].start = wreceipts[k - 1].end
    BY <1>13, <2>2, <2>3
  <2>5. wreceipts[k].start = wframes[d + k].start /\ wreceipts[k - 1].end = wframes[d + (k - 1)].end
    BY <1>9, <1>12, <2>2
  <2> QED
    BY <2>2, <2>4, <2>5
<1> QED
  BY <1>14, <1>15, <1>16

-----------------------------------------------------------------------------
FramesOK(frames) ==
  /\ frames \in Seq(ToSet(frames))
  /\ \A i \in 1..Len(frames) : frames[i].start \in Int /\ frames[i].end \in Int
Framed(frames, t) == \E i \in 1..Len(frames) : frames[i].start <= t /\ t < frames[i].end

WireInv ==
  /\ Fed(wblocks, wbuf, wlast)
  /\ wgap => Closed(wblocks, wbuf)
  /\ FramesOK(wframes) /\ Received(wreceipts, wframes)
  /\ \A t \in Int : Held(wblocks, wbuf, t) <=> Framed(wframes, t)

(* What the invariant says of blocks and receipts is what they promise. *)
LEMMA WireTruth == WireInv => BlocksTellTheTruth
<1> SUFFICES ASSUME WireInv PROVE BlocksTellTheTruth
  OBVIOUS
<1>1. AnchorsAreHonest
  BY AnchorHonest DEF AnchorsAreHonest, WireInv
<1>2. /\ DOMAIN wblocks = 1..Len(wblocks) /\ Len(wblocks) \in Nat
      /\ DOMAIN wframes = 1..Len(wframes) /\ Len(wframes) \in Nat
      /\ \A i \in 1..Len(wblocks) : IsRun(wblocks[i])
      /\ IsRun(wbuf)
  BY DEF WireInv, Fed, BlocksOK, FramesOK
<1>3. ASSUME NEW i \in DOMAIN wblocks, wblocks[i] # NoBuffer
      PROVE  /\ wblocks[i].samples = Samples(wblocks[i].start, Len(wblocks[i].samples))
             /\ (i > 1 /\ wblocks[i - 1] # NoBuffer) =>
                  wblocks[i].start = wblocks[i - 1].start + Len(wblocks[i - 1].samples)
  <2>1. wblocks[i].samples = Samples(wblocks[i].start, Len(wblocks[i].samples))
    BY <1>2, RunSamples
  <2>2. ASSUME i > 1, wblocks[i - 1] # NoBuffer
        PROVE  wblocks[i].start = wblocks[i - 1].start + Len(wblocks[i - 1].samples)
    <3>1. i \in 2..Len(wblocks)
      BY <1>2, <2>2
    <3> QED
      BY <1>3, <2>2, <3>1 DEF WireInv, Fed, BlocksOK, Follow, Real, End
  <2> QED
    BY <2>1, <2>2
<1>9. PICK real : real = {j \in DOMAIN wblocks : wblocks[j] # NoBuffer}
  OBVIOUS
<1>10. PICK sets : sets = {ToSet(wblocks[i].samples) : i \in real}
  OBVIOUS
<1>11. PICK all : all = UNION sets
  OBVIOUS
<1>4. PICK fed : fed = all \cup ToSet(wbuf.samples)
  OBVIOUS
<1>5. PICK got : got = UNION {wframes[i].start..(wframes[i].end - 1) : i \in DOMAIN wframes}
  OBVIOUS
<1>6. ASSUME NEW t PROVE t \in got <=> t \in Int /\ Framed(wframes, t)
  <2>1. \A i \in 1..Len(wframes) : wframes[i].start \in Int /\ wframes[i].end \in Int
    BY DEF WireInv, FramesOK
  <2>2. t \in got <=> \E i \in 1..Len(wframes) : t \in wframes[i].start..(wframes[i].end - 1)
    BY <1>2, <1>5
  <2>3. \A i \in 1..Len(wframes) : t \in wframes[i].start..(wframes[i].end - 1) <=>
          t \in Int /\ wframes[i].start <= t /\ t < wframes[i].end
    BY <2>1
  <2> QED
    BY <2>2, <2>3 DEF Framed
<1>7. ASSUME NEW t PROVE t \in fed <=> t \in Int /\ Held(wblocks, wbuf, t)
  <2>1. t \in fed <=> \/ \E i \in 1..Len(wblocks) : wblocks[i] # NoBuffer /\ t \in ToSet(wblocks[i].samples)
                      \/ t \in ToSet(wbuf.samples)
    <3>1. t \in fed <=> (\E i \in real : t \in ToSet(wblocks[i].samples)) \/ t \in ToSet(wbuf.samples)
      <4>3. t \in all <=> \E s \in sets : t \in s
        BY <1>11
      <4>4. t \in fed <=> t \in all \/ t \in ToSet(wbuf.samples)
        BY <1>4
      <4>5. (\E s \in sets : t \in s) <=> (\E i \in real : t \in ToSet(wblocks[i].samples))
        BY <1>10
      <4> QED
        BY <4>3, <4>4, <4>5
    <3>2. \A i : i \in real <=> i \in 1..Len(wblocks) /\ wblocks[i] # NoBuffer
      BY <1>2, <1>9
    <3> QED
      BY <3>1, <3>2
  <2>2. \A i \in 1..Len(wblocks) : t \in ToSet(wblocks[i].samples) <=> t \in Int /\ Covers(wblocks[i], t)
    BY <1>2, RunSamples
  <2>3. t \in ToSet(wbuf.samples) <=> t \in Int /\ Covers(wbuf, t)
    BY <1>2, RunSamples
  <2>4. \A i \in 1..Len(wblocks) : t \in Int /\ Covers(wblocks[i], t) => wblocks[i] # NoBuffer
    BY FreshRun
  <2> QED
    BY <2>1, <2>2, <2>3, <2>4 DEF Held
<1>8. fed = got
  BY <1>6, <1>7 DEF WireInv
<1>12. all \cup ToSet(wbuf.samples) = got
  BY <1>4, <1>8
<1>13. (UNION {ToSet(wblocks[i].samples) : i \in {j \in DOMAIN wblocks : wblocks[j] # NoBuffer}})
         \cup ToSet(wbuf.samples)
       = UNION {wframes[i].start..(wframes[i].end - 1) : i \in DOMAIN wframes}
  BY <1>5, <1>9, <1>10, <1>11, <1>12
<1> QED
  BY <1>1, <1>3, <1>13 DEF BlocksTellTheTruth

-----------------------------------------------------------------------------
(* A session starts with nothing fed, framed or received.                  *)
LEMMA WireStarts ==
  ASSUME WireInit
  PROVE  WireInv
<1>1. PICK blocks : blocks = wblocks
  OBVIOUS
<1>2. blocks = <<>> /\ blocks \in Seq(Runs) /\ Len(blocks) = 0
  BY <1>1 DEF WireInit
<1>3. BlocksOK(blocks)
  BY <1>2 DEF BlocksOK, Follow
<1>4. Fed(wblocks, wbuf, wlast)
  BY <1>1, <1>2, <1>3, FreshRun DEF Fed, WireInit
<1>5. FramesOK(wframes) /\ Received(wreceipts, wframes)
  BY DEF WireInit, FramesOK, Received
<1>6. \A t \in Int : ~Held(wblocks, wbuf, t) /\ ~Framed(wframes, t)
  BY <1>1, <1>2, FreshRun DEF Held, Framed, WireInit
<1> QED
  BY <1>4, <1>5, <1>6 DEF WireInv, WireInit

(* A gap message. *)
LEMMA GapKeeps ==
  ASSUME WireInv, NEW next \in Int, WireGap(next)
  PROVE  WireInv'
<1>0. UNCHANGED <<wlast, wreceipts, wframes>> /\ wlast \in Int
  BY DEF WireGap, WireInv, Fed
<1>1. CASE UNCHANGED <<wgap, wbarrier, wbuf, wblocks, wbreak>>
  BY <1>0, <1>1 DEF WireInv
<1>2. CASE wblocks' = wblocks \o GapBlocks(wbuf) /\ wbuf' = NoBuffer
  <2>1. PICK new \in {wblocks \o GapBlocks(wbuf)} :
           /\ Fed(new, NoBuffer, wlast) /\ Closed(new, NoBuffer)
           /\ \A t \in Int : Held(new, NoBuffer, t) <=> Held(wblocks, wbuf, t)
    BY <1>0, FlushFed DEF WireInv
  <2> QED
    BY <1>0, <1>2, <2>1 DEF WireInv
<1> QED
  BY <1>1, <1>2 DEF WireGap

(* What a frame does to blocks and buffer. *)
LEMMA FrameFed ==
  ASSUME WireInv, Block \in Nat \ {0}, NEW start \in Nat, NEW len \in 1..Block,
         NEW blocks, NEW buf, NEW at, Fed(blocks, buf, at),
         Closed(blocks, buf) \/ at = start \/ at < 0,
         \A t \in Int : Held(blocks, buf, t) <=> Held(wblocks, wbuf, t),
         NEW long, long = PushFrame(buf, start, len),
         wblocks' = blocks \o (IF HoldsBlock(long) THEN <<TakeBlock(long, Block)>> ELSE <<>>),
         wbuf' = IF HoldsBlock(long) THEN Rest(long, Block) ELSE long
  PROVE  /\ Fed(wblocks', wbuf', start + len)
         /\ \A t \in Int : Held(wblocks', wbuf', t) <=>
                             Held(wblocks, wbuf, t) \/ (start <= t /\ t < start + len)
<1>0. len \in Nat
  OBVIOUS
<1>1. PICK new \in {PushFrame(buf, start, len)} :
           /\ Fed(blocks, new, start + len) /\ Len(new.samples) = Len(buf.samples) + len
           /\ \A t \in Int : Held(blocks, new, t) <=>
                               Held(blocks, buf, t) \/ (start <= t /\ t < start + len)
  BY <1>0, PushFed
<1>2. Fed(blocks, long, start + len)
      /\ \A t \in Int : Held(blocks, long, t) <=>
                               Held(wblocks, wbuf, t) \/ (start <= t /\ t < start + len)
  BY <1>1
<1>3. blocks \in Seq(Runs) /\ Len(long.samples) \in Nat
  BY <1>2 DEF Fed, BlocksOK, IsRun, Runs
<1>4. CASE HoldsBlock(long)
  <2>1. Block \in 1..Len(long.samples)
    BY <1>3, <1>4 DEF HoldsBlock
  <2>4. PICK end : end = start + len
    OBVIOUS
  <2>5. Fed(blocks, long, end)
    BY <1>2, <2>4
  <2>6. end \in Int
    BY <1>0, <2>4
  <2>2. PICK fed \in {blocks \o <<TakeBlock(long, Block)>>}, rest \in {Rest(long, Block)} :
           /\ Fed(fed, rest, end)
           /\ \A t \in Int : Held(fed, rest, t) <=> Held(blocks, long, t)
    BY <2>1, <2>5, <2>6, TakeFed
  <2>3. wblocks' = fed /\ wbuf' = rest
    BY <1>4, <2>2
  <2> QED
    BY <1>2, <2>2, <2>3, <2>4
<1>5. CASE ~HoldsBlock(long)
  <2>1. wblocks' = blocks \o <<>> /\ wbuf' = long
    BY <1>5
  <2>2. wblocks' = blocks
    BY <1>3, <2>1
  <2> QED
    BY <1>2, <2>1, <2>2
<1> QED
  BY <1>4, <1>5

(* What a frame does to the receipts. *)
LEMMA FrameReceived ==
  ASSUME WireInv, MaxReceipts \in Nat \ {0}, NEW start \in Nat, NEW len \in Nat,
         NEW jump, NEW broken, NEW new,
         wreceipts' = Observe(start, len, jump \/ broken),
         NEW f, wframes' = Append(wframes, f), f.start = start, f.end = start + len,
         f.new <=> (jump \/ wbreak \/ broken)
  PROVE  /\ Received(wreceipts', wframes') /\ FramesOK(wframes')
         /\ \A t \in Int : Framed(wframes', t) <=>
                             Framed(wframes, t) \/ (start <= t /\ t < start + len)
<1>1. PICK S : S = ToSet(wframes) \cup {f}
  OBVIOUS
<1>2. wframes \in Seq(S) /\ f \in S /\ Len(wframes) \in Nat
  BY <1>1 DEF WireInv, FramesOK
<1>3. PICK more : more = Append(wframes, f)
  OBVIOUS
<1>4. /\ more \in Seq(S) /\ Len(more) = Len(wframes) + 1 /\ more[Len(wframes) + 1] = f
      /\ \A i \in 1..Len(wframes) : more[i] = wframes[i]
  BY <1>2, <1>3
<1>5. \A i \in 1..Len(more) : i \in 1..Len(wframes) \/ i = Len(wframes) + 1
  BY <1>2, <1>4
<1>6. FramesOK(more)
  <2>1. \A i \in 1..Len(more) : more[i].start \in Int /\ more[i].end \in Int
    BY SMTT(20), <1>4, <1>5 DEF WireInv, FramesOK
  <2>2. more \in Seq(ToSet(more))
    BY <1>4 DEF ToSet
  <2> QED
    BY <2>1, <2>2 DEF FramesOK
<1>7. \A t \in Int : Framed(more, t) <=> Framed(wframes, t) \/ (start <= t /\ t < start + len)
  <2>1. 1..Len(wframes) \subseteq 1..Len(more) /\ Len(wframes) + 1 \in 1..Len(more)
    BY <1>2, <1>4
  <2> QED
    BY <1>4, <1>5, <2>1 DEF Framed
<1>8. wreceipts \in Seq(Receipts) /\ Len(wreceipts) \in Nat
  BY DEF WireInv, Received
<1>9. PICK run : run = Continuity(start, jump \/ broken)
  OBVIOUS
<1>10. /\ run \in Int
       /\ wreceipts # <<>> /\ run = wreceipts[Len(wreceipts)].run =>
            ~(jump \/ wbreak \/ broken) /\ start = wreceipts[Len(wreceipts)].end
  <2>1. CASE wreceipts = <<>>
    BY <1>9, <2>1 DEF Continuity
  <2>2. CASE wreceipts # <<>>
    <3>1. PICK last : last = wreceipts[Len(wreceipts)]
      OBVIOUS
    <3>2. last \in Receipts
      BY <1>8, <2>2, <3>1
    <3>3. run = last.run + (IF wbreak \/ (jump \/ broken) \/ start # last.end THEN 1 ELSE 0)
      BY <1>9, <2>2, <3>1 DEF Continuity, Last
    <3>4. last.run \in Int
      BY <3>2 DEF Receipts
    <3> QED
      BY <3>1, <3>3, <3>4
  <2> QED
    BY <2>1, <2>2
<1>11. PICK kept : kept = IF Len(wreceipts) = MaxReceipts THEN Tail(wreceipts) ELSE wreceipts
  OBVIOUS
<1>12. kept = wreceipts \/ (wreceipts # <<>> /\ kept = Tail(wreceipts))
  BY <1>8, <1>11
<1>13. PICK r : r = [start |-> start, end |-> start + len, at |-> Len(wframes) + 1, run |-> run]
  OBVIOUS
<1>14. r \in Receipts /\ r.start = start /\ r.end = start + len /\ r.at = Len(wframes) + 1 /\ r.run = run
  BY <1>2, <1>10, <1>13 DEF Receipts
<1>15. wreceipts' = Append(kept, r)
  BY <1>9, <1>11, <1>13 DEF Observe
<1>16. Received(Append(kept, r), more)
  BY <1>4, <1>10, <1>12, <1>14, WireReceives DEF WireInv
<1> QED
  BY <1>3, <1>6, <1>7, <1>15, <1>16

(* An audio frame. *)
LEMMA FrameKeeps ==
  ASSUME WireInv, Block \in Nat \ {0}, MaxReceipts \in Nat \ {0},
         NEW start \in Nat, NEW len \in 1..Block, NEW jump \in BOOLEAN, WireFrame(start, len, jump)
  PROVE  WireInv'
<1>0. len \in Nat /\ wlast \in Int
  BY DEF WireInv, Fed
<1>1. CASE UNCHANGED <<wlast, wgap, wbarrier, wbuf, wblocks, wreceipts, wbreak, wframes>>
  BY <1>1 DEF WireInv
<1>2. ASSUME NEW broken \in {Discontinuous(start, jump)},
             NEW buf \in {PushFrame(IF broken THEN NoBuffer ELSE wbuf, start, len)},
             /\ wblocks' = wblocks \o (IF broken THEN GapBlocks(wbuf) ELSE <<>>)
                                   \o (IF HoldsBlock(buf) THEN <<TakeBlock(buf, Block)>> ELSE <<>>)
             /\ wbuf' = IF HoldsBlock(buf) THEN Rest(buf, Block) ELSE buf
             /\ wreceipts' = Observe(start, len, jump \/ broken)
             /\ wbreak' = FALSE
             /\ wframes' = Append(wframes, [start |-> start, end |-> start + len,
                                            new |-> jump \/ wbreak \/ broken])
             /\ wlast' = start + len
             /\ wgap' = FALSE /\ wbarrier' = -1
             /\ UNCHANGED wdead
      PROVE  WireInv'
  <2>1. PICK f : f = [start |-> start, end |-> start + len, new |-> jump \/ wbreak \/ broken]
    OBVIOUS
  <2>2. f.start = start /\ f.end = start + len /\ (f.new <=> (jump \/ wbreak \/ broken))
    BY <2>1
  <2>3. /\ Received(wreceipts', wframes') /\ FramesOK(wframes')
        /\ \A t \in Int : Framed(wframes', t) <=>
                            Framed(wframes, t) \/ (start <= t /\ t < start + len)
    BY <1>0, <1>2, <2>1, <2>2, FrameReceived
  <2>4. /\ Fed(wblocks', wbuf', start + len)
        /\ \A t \in Int : Held(wblocks', wbuf', t) <=>
                            Held(wblocks, wbuf, t) \/ (start <= t /\ t < start + len)
    <3>1. CASE broken
      <4>1. PICK blocks \in {wblocks \o GapBlocks(wbuf)} :
           /\ Fed(blocks, NoBuffer, start) /\ Closed(blocks, NoBuffer)
           /\ \A t \in Int : Held(blocks, NoBuffer, t) <=> Held(wblocks, wbuf, t)
        BY FlushFed DEF WireInv
      <4>2. /\ buf = PushFrame(NoBuffer, start, len)
            /\ wblocks' = blocks \o (IF HoldsBlock(buf) THEN <<TakeBlock(buf, Block)>> ELSE <<>>)
            /\ wbuf' = IF HoldsBlock(buf) THEN Rest(buf, Block) ELSE buf
        BY <1>2, <3>1, <4>1
      <4> QED
        BY <4>1, <4>2, FrameFed
    <3>2. CASE ~broken
      <4>1. wlast = -1 \/ wgap \/ start = wlast
        BY <1>2, <3>2 DEF Discontinuous
      <4>2. Closed(wblocks, wbuf) \/ wlast = start \/ wlast < 0
        BY <4>1 DEF WireInv
      <4>3. wblocks \in Seq(Runs)
        BY DEF WireInv, Fed, BlocksOK
      <4>4. wblocks \o <<>> = wblocks
        BY <4>3
      <4>5. /\ buf = PushFrame(wbuf, start, len)
            /\ wblocks' = wblocks \o (IF HoldsBlock(buf) THEN <<TakeBlock(buf, Block)>> ELSE <<>>)
            /\ wbuf' = IF HoldsBlock(buf) THEN Rest(buf, Block) ELSE buf
        BY <1>2, <3>2, <4>4
      <4> QED
        BY <4>2, <4>5, FrameFed DEF WireInv
    <3> QED
      BY <3>1, <3>2
  <2>5. wlast' = start + len /\ ~wgap'
    BY <1>2
  <2> QED
    BY <2>3, <2>4, <2>5 DEF WireInv
<1> QED
  BY <1>1, <1>2 DEF WireFrame

(* WireAudio: for every size of blocks and number of retained receipts, and *)
(* whatever frames and gaps arrive, every block holds exactly the samples  *)
(* its label says and follows the one before it unless the pipeline was    *)
(* told of a gap, nothing accepted is lost, and a deadline is anchored in  *)
(* continuous audio only (_Reblocker, process_input, IngressTimeline).     *)
THEOREM AudioIsLabelledTruly ==
  ASSUME Block \in Nat \ {0}, MaxReceipts \in Nat \ {0}
  PROVE  WireSpec => []BlocksTellTheTruth
<1>1. WireInit => WireInv
  BY WireStarts
<1>2. WireInv /\ [WireNext]_wireVars => WireInv'
  <2> SUFFICES ASSUME WireInv, [WireNext]_wireVars PROVE WireInv'
    OBVIOUS
  <2>1. CASE UNCHANGED wireVars
    BY <2>1 DEF wireVars, WireInv
  <2>2. ASSUME NEW next \in -1..MaxTime, WireGap(next) PROVE WireInv'
    BY <2>2, GapKeeps
  <2>3. ASSUME NEW start \in 0..MaxTime, NEW len \in 1..Block, NEW jump \in BOOLEAN,
               WireFrame(start, len, jump)
        PROVE  WireInv'
    BY <2>3, FrameKeeps
  <2> QED
    BY <2>1, <2>2, <2>3 DEF WireNext
<1> QED
  BY <1>1, <1>2, WireTruth, PTL DEF WireSpec

-----------------------------------------------------------------------------
(* CaptureTimeline.  What the client hands on, seen from the end: a run knows *)
(* the packet its pending samples end with and where its last frame ended.   *)
Sample == [packet: Nat, device: Nat]
Chained(ss) == \A k \in 1 .. Len(ss) - 1 : Adjacent(ss[k], ss[k + 1])
FrameItem == {f \in [kind: {"frame"}, epoch: Nat, sequence: Nat, start: Nat, samples: Seq(Sample)] :
                f.samples # <<>> /\ Chained(f.samples)}
IsFrame(f) == f.kind = "frame"

(* The frame g goes on where f ended. *)
GoesOn(f, g) ==
  /\ g.epoch = f.epoch /\ g.sequence = f.sequence + 1 /\ g.start = EndOf(f)
  /\ Adjacent(f.samples[Len(f.samples)], g.samples[1])

(* What was handed on, as EpochsAreWhole demands it. *)
Whole(out) ==
  /\ out \in Seq(FrameItem \cup {GapItem})
  /\ \A i, j \in 1 .. Len(out) : i < j /\ IsFrame(out[i]) /\ IsFrame(out[j]) =>
       /\ EndOf(out[i]) <= out[j].start
       /\ j = i + 1 => GoesOn(out[i], out[j])

FrameSpan == [epoch: Nat, start: Nat, end: Nat, sequence: Nat]

(* A moment of an epoch that a frame holds. *)
HeldBy(out, e, u) ==
  \E i \in 1 .. Len(out) :
    IsFrame(out[i]) /\ out[i].epoch = e /\ out[i].start <= u /\ u < EndOf(out[i])

(* Every range is held by frames of its epoch. *)
LineOK(t, out) ==
  /\ DOMAIN t = {"ranges", "tail", "invalid"}
  /\ t.ranges \in Seq(FrameSpan) /\ t.tail \in 0 .. Len(t.ranges)
  /\ \A i \in 1 .. Len(t.ranges) : \A u \in Nat :
       t.ranges[i].start <= u /\ u < t.ranges[i].end => HeldBy(out, t.ranges[i].epoch, u)

(* The last sample of a packet. *)
Tip(p) == [packet |-> p.sequence, device |-> p.device + p.frames - 1]

(* A run remembers its last packet, and what is pending ends with it. *)
RunOK(run) ==
  /\ DOMAIN run = {"last", "anchor", "pending", "position", "frames"}
  /\ run.pending \in Seq(Sample) /\ run.position \in Nat /\ run.frames \in Nat /\ run.anchor \in Int
  /\ Chained(run.pending)
  /\ \/ run = ClearRun
     \/ /\ run.anchor \in Nat /\ \E p \in Packets : run.last = <<p>>
        /\ run.pending # <<>> => run.pending[Len(run.pending)] = Tip(run.last[1])

(* The run goes on where the frame f, the last item, ended. *)
Reaches(f, run) ==
  /\ run # ClearRun /\ run.frames = f.sequence + 1 /\ EndOf(f) = run.anchor + run.position
  /\ IF run.pending = <<>> THEN f.samples[Len(f.samples)] = Tip(run.last[1])
     ELSE Adjacent(f.samples[Len(f.samples)], run.pending[1])

(* What a push threads through is sound: the last item, if a frame, is of the *)
(* present epoch, and the run reaches it.                                     *)
StateOK(s) ==
  /\ DOMAIN s = {"run", "epoch", "end", "out", "line"}
  /\ RunOK(s.run) /\ s.epoch \in Nat /\ s.end \in Nat
  /\ Whole(s.out) /\ LineOK(s.line, s.out)
  /\ \A i \in 1 .. Len(s.out) : IsFrame(s.out[i]) => EndOf(s.out[i]) <= s.end /\ s.out[i].epoch <= s.epoch
  /\ s.run # ClearRun => s.end <= s.run.anchor + s.run.position
  /\ s.out # <<>> /\ IsFrame(s.out[Len(s.out)]) =>
       s.out[Len(s.out)].epoch = s.epoch /\ Reaches(s.out[Len(s.out)], s.run)

(* A step within a push: what was held stays held. *)
Keeps(s, new) == StateOK(new) /\ \A e, u : HeldBy(s.out, e, u) => HeldBy(new.out, e, u)

-----------------------------------------------------------------------------
(* Handing on one item more leaves the earlier ones in place. *)
LEMMA OneMore ==
  ASSUME NEW S, NEW out \in Seq(S), NEW item \in S, NEW more, more = out \o <<item>>
  PROVE  /\ more \in Seq(S) /\ Len(more) = Len(out) + 1 /\ more[Len(out) + 1] = item /\ Len(out) \in Nat
         /\ \A i \in 1 .. Len(out) : more[i] = out[i]
         /\ more # <<>> /\ Len(more) \in Nat
OBVIOUS

(* A frame is not empty and its fields are numbers. *)
LEMMA FrameEnd ==
  ASSUME NEW f \in FrameItem
  PROVE  /\ IsFrame(f) /\ EndOf(f) \in Nat /\ f.start \in Nat /\ f.start < EndOf(f) /\ f.epoch \in Nat
         /\ f.sequence \in Nat
         /\ f.samples \in Seq(Sample) /\ Len(f.samples) \in Nat \ {0} /\ Chained(f.samples)
<1>1. f.samples \in Seq(Sample) /\ f.samples # <<>> /\ f.start \in Nat /\ Chained(f.samples)
      /\ f.kind = "frame" /\ f.epoch \in Nat /\ f.sequence \in Nat
  BY DEF FrameItem
<1>2. Len(f.samples) \in Nat \ {0}
  BY <1>1
<1> QED
  BY <1>1, <1>2 DEF EndOf, IsFrame

(* The announcement of a hole is no frame. *)
LEMMA NoFrame == ~IsFrame(GapItem) /\ GapItem \notin FrameItem
BY DEF IsFrame, GapItem, FrameItem

(* A frame that begins where the stream ended, or behind a hole, keeps it whole. *)
LEMMA OneMoreFrame ==
  ASSUME NEW out, Whole(out), NEW f \in FrameItem,
         \A i \in 1 .. Len(out) : IsFrame(out[i]) => EndOf(out[i]) <= f.start,
         out # <<>> /\ IsFrame(out[Len(out)]) => GoesOn(out[Len(out)], f)
  PROVE  Whole(out \o <<f>>)
<1>1. PICK more : more = out \o <<f>>
  OBVIOUS
<1>2. out \in Seq(FrameItem \cup {GapItem}) /\ f \in FrameItem \cup {GapItem}
  BY DEF Whole
<1>3. /\ more \in Seq(FrameItem \cup {GapItem}) /\ Len(more) = Len(out) + 1
      /\ more[Len(out) + 1] = f /\ Len(out) \in Nat
      /\ \A i \in 1 .. Len(out) : more[i] = out[i]
  BY <1>1, <1>2, OneMore
<1>4. ASSUME NEW i \in 1 .. Len(more), NEW j \in 1 .. Len(more), i < j, IsFrame(more[i]), IsFrame(more[j])
      PROVE  EndOf(more[i]) <= more[j].start /\ (j = i + 1 => GoesOn(more[i], more[j]))
  <2>1. i \in 1 .. Len(out) /\ more[i] = out[i]
    BY <1>3, <1>4
  <2>2. CASE j \in 1 .. Len(out)
    BY <1>3, <1>4, <2>1, <2>2 DEF Whole
  <2>3. CASE j = Len(out) + 1
    <3>1. j = i + 1 => i = Len(out) /\ out # <<>>
      BY <1>3, <2>1, <2>3
    <3> QED
      BY <1>3, <1>4, <2>1, <2>3, <3>1
  <2> QED
    BY <1>3, <2>2, <2>3
<1> QED
  BY <1>1, <1>3, <1>4 DEF Whole

(* An announced hole keeps the stream whole. *)
LEMMA OneMoreGap ==
  ASSUME NEW out, Whole(out)
  PROVE  Whole(out \o <<GapItem>>)
<1>1. PICK more : more = out \o <<GapItem>>
  OBVIOUS
<1>2. out \in Seq(FrameItem \cup {GapItem})
  BY DEF Whole
<1>3. /\ more \in Seq(FrameItem \cup {GapItem}) /\ Len(more) = Len(out) + 1
      /\ more[Len(out) + 1] = GapItem /\ Len(out) \in Nat
      /\ \A i \in 1 .. Len(out) : more[i] = out[i]
  BY <1>1, <1>2, OneMore
<1>4. \A i \in 1 .. Len(more) : IsFrame(more[i]) => i \in 1 .. Len(out)
  BY <1>3, NoFrame
<1> QED
  BY <1>1, <1>3, <1>4 DEF Whole

(* What was held stays held. *)
LEMMA StillHeld ==
  ASSUME NEW out, Whole(out), NEW item \in FrameItem \cup {GapItem}, NEW e, NEW u, HeldBy(out, e, u)
  PROVE  HeldBy(out \o <<item>>, e, u)
<1>1. PICK more : more = out \o <<item>>
  OBVIOUS
<1>2. Len(more) = Len(out) + 1 /\ Len(out) \in Nat /\ \A i \in 1 .. Len(out) : more[i] = out[i]
  BY <1>1, OneMore DEF Whole
<1> QED
  BY <1>1, <1>2 DEF HeldBy

(* The tracker opens a range or lets one grow with a frame. *)
LEMMA LineOfFrame ==
  ASSUME NEW out, Whole(out), NEW f \in FrameItem, NEW t, LineOK(t, out)
  PROVE  LineOK(Register(t, f), out \o <<f>>)
<1>1. PICK more : more = out \o <<f>>
  OBVIOUS
<1>2. /\ Len(more) = Len(out) + 1 /\ more[Len(out) + 1] = f /\ Len(out) \in Nat
  BY <1>1, OneMore DEF Whole
<1>3. \A e, u : HeldBy(out, e, u) => HeldBy(more, e, u)
  BY <1>1, StillHeld
<1>4. \A u \in Nat : f.start <= u /\ u < EndOf(f) => HeldBy(more, f.epoch, u)
  <2>1. Len(out) + 1 \in 1 .. Len(more)
    BY <1>2
  <2> QED
    BY <1>2, <2>1, FrameEnd DEF HeldBy
<1>5. PICK r : r = t.ranges[t.tail]
  OBVIOUS
<1>6. PICK new : new = Register(t, f)
  OBVIOUS
<1>7. LineOK(t, more)
  BY <1>3 DEF LineOK
<1>8. CASE new = t
  BY <1>1, <1>6, <1>7, <1>8
<1>9. CASE new = [t EXCEPT !.invalid = TRUE]
  <2>1. DOMAIN new = DOMAIN t /\ new.ranges = t.ranges /\ new.tail = t.tail
    BY <1>9, <1>7 DEF LineOK
  <2> QED
    BY <1>1, <1>6, <1>7, <2>1 DEF LineOK
<1>10. CASE /\ t.tail # 0 /\ r.epoch = f.epoch /\ f.start = r.end
            /\ new = [t EXCEPT !.ranges = [@ EXCEPT ![t.tail] = Lengthened(r, f)]]
  <2>1. PICK g : g = Lengthened(r, f)
    OBVIOUS
  <2>2. PICK ranges : ranges = [t.ranges EXCEPT ![t.tail] = g]
    OBVIOUS
  <2>3. new = [t EXCEPT !.ranges = ranges]
    BY <1>10, <2>1, <2>2
  <2>4. DOMAIN new = DOMAIN t /\ new.ranges = ranges /\ new.tail = t.tail
    BY <2>3, <1>7 DEF LineOK
  <2>5. t.tail \in 1 .. Len(t.ranges) /\ t.ranges \in Seq(FrameSpan) /\ r \in FrameSpan
    BY <1>5, <1>7, <1>10 DEF LineOK
  <2>6. g \in FrameSpan /\ g.start = r.start /\ g.end = EndOf(f) /\ g.epoch = r.epoch
    BY <2>1, <2>5, FrameEnd DEF Lengthened, FrameSpan
  <2>7. ranges \in Seq(FrameSpan) /\ Len(ranges) = Len(t.ranges) /\ ranges[t.tail] = g
        /\ \A i \in 1 .. Len(t.ranges) : i # t.tail => ranges[i] = t.ranges[i]
    BY <2>2, <2>5, <2>6
  <2>8. \A u \in Nat : g.start <= u /\ u < g.end => HeldBy(more, g.epoch, u)
    <3> SUFFICES ASSUME NEW u \in Nat, g.start <= u, u < g.end PROVE HeldBy(more, g.epoch, u)
      OBVIOUS
    <3>1. CASE u < r.end
      BY <1>5, <1>7, <2>5, <2>6, <3>1 DEF LineOK
    <3>2. CASE u >= f.start
      BY <1>4, <1>10, <2>6, <3>2
    <3> QED
      BY <1>10, <2>5, <3>1, <3>2, FrameEnd DEF FrameSpan
  <2> QED
    BY <1>1, <1>6, <1>7, <2>4, <2>5, <2>7, <2>8 DEF LineOK
<1>11. CASE new = [t EXCEPT !.ranges = @ \o <<RangeOf(f)>>, !.tail = Len(t.ranges) + 1]
  <2>1. PICK g : g = RangeOf(f)
    OBVIOUS
  <2>2. PICK ranges : ranges = t.ranges \o <<g>>
    OBVIOUS
  <2>3. PICK tail : tail = Len(t.ranges) + 1
    OBVIOUS
  <2>4. new = [t EXCEPT !.ranges = ranges, !.tail = tail]
    BY <1>11, <2>1, <2>2, <2>3
  <2>5. DOMAIN new = DOMAIN t /\ new.ranges = ranges /\ new.tail = tail
    BY <2>4, <1>7 DEF LineOK
  <2>6. g \in FrameSpan /\ g.start = f.start /\ g.end = EndOf(f) /\ g.epoch = f.epoch
    BY <2>1, FrameEnd DEF RangeOf, FrameSpan
  <2>7. ranges \in Seq(FrameSpan) /\ Len(ranges) = tail /\ ranges[tail] = g /\ Len(t.ranges) \in Nat
        /\ \A i \in 1 .. Len(t.ranges) : ranges[i] = t.ranges[i]
    BY <1>7, <2>2, <2>3, <2>6, OneMore DEF LineOK
  <2>8. ASSUME NEW i \in 1 .. tail
        PROVE  \A u \in Nat : ranges[i].start <= u /\ u < ranges[i].end => HeldBy(more, ranges[i].epoch, u)
    <3>1. CASE i = tail
      BY <1>4, <2>6, <2>7, <3>1
    <3>2. CASE i \in 1 .. Len(t.ranges)
      BY <1>7, <2>7, <3>2 DEF LineOK
    <3> QED
      BY <2>3, <2>7, <2>8, <3>1, <3>2
  <2> QED
    BY <1>1, <1>6, <1>7, <2>3, <2>5, <2>7, <2>8 DEF LineOK
<1> QED
  <2>1. f.kind # "gap"
    BY FrameEnd DEF IsFrame
  <2>2. new = ObserveFrame(t, f)
    BY <1>6, <2>1 DEF Register
  <2> QED
    BY <1>5, <1>8, <1>9, <1>10, <1>11, <2>2 DEF ObserveFrame
-----------------------------------------------------------------------------
(* A cut takes head and leaves rest pending. *)
CutsInto(ss, n, head, rest) ==
  /\ head \in Seq(Sample) /\ Len(head) = n /\ head # <<>> /\ Chained(head)
  /\ rest \in Seq(Sample) /\ Len(rest) = Len(ss) - n /\ Chained(rest)
  /\ head[1] = ss[1] /\ head[Len(head)] = ss[n]
  /\ rest = <<>> <=> n = Len(ss)
  /\ rest # <<>> => rest[Len(rest)] = ss[Len(ss)] /\ Adjacent(ss[n], rest[1])

(* SubSeq cuts so. *)
LEMMA Pieces ==
  ASSUME NEW ss \in Seq(Sample), Chained(ss), NEW n \in 1 .. Len(ss),
         NEW head, head = SubSeq(ss, 1, n), NEW rest, rest = SubSeq(ss, n + 1, Len(ss))
  PROVE  CutsInto(ss, n, head, rest)
<1>1. Len(ss) \in Nat /\ n \in Nat /\ 1 <= n /\ n <= Len(ss)
  OBVIOUS
<1>2. head \in Seq(Sample) /\ Len(head) = n /\ \A k \in 1 .. n : head[k] = ss[k]
  BY <1>1
<1>3. rest \in Seq(Sample) /\ Len(rest) = Len(ss) - n /\ \A k \in 1 .. (Len(ss) - n) : rest[k] = ss[n + k]
  BY <1>1
<1>4. Chained(head)
  BY <1>1, <1>2 DEF Chained
<1>5. Chained(rest)
  <2> SUFFICES ASSUME NEW k \in 1 .. Len(rest) - 1 PROVE Adjacent(rest[k], rest[k + 1])
    BY DEF Chained
  <2>1. /\ k \in 1 .. (Len(ss) - n) /\ k + 1 \in 1 .. (Len(ss) - n)
        /\ n + k \in 1 .. Len(ss) - 1 /\ n + (k + 1) = (n + k) + 1
    BY <1>1, <1>3
  <2>2. rest[k] = ss[n + k] /\ rest[k + 1] = ss[(n + k) + 1]
    BY <1>3, <2>1
  <2> QED
    BY <2>1, <2>2 DEF Chained
<1>6. rest # <<>> => Len(rest) >= 1
  BY <1>3
<1>7. ASSUME rest # <<>> PROVE rest[Len(rest)] = ss[Len(ss)] /\ Adjacent(ss[n], rest[1])
  <2>1. Len(rest) \in 1 .. (Len(ss) - n) /\ 1 \in 1 .. (Len(ss) - n) /\ n \in 1 .. Len(ss) - 1
        /\ n + Len(rest) = Len(ss)
    BY <1>1, <1>3, <1>6, <1>7
  <2> QED
    BY <1>3, <2>1 DEF Chained
<1>8. rest = <<>> <=> n = Len(ss)
  <2>1. rest = <<>> <=> Len(rest) = 0
    BY <1>3, EmptySeq
  <2>2. Len(rest) = 0 <=> n = Len(ss)
    BY <1>1, <1>3
  <2> QED
    BY <2>1, <2>2
<1>9. head # <<>> /\ head[1] = ss[1] /\ head[Len(head)] = ss[n]
  <2>1. 1 \in 1 .. n /\ n \in 1 .. n
    BY <1>1
  <2>2. Len(head) # 0
    BY <1>1, <1>2
  <2>3. head # <<>>
    BY <2>2
  <2> QED
    BY <1>2, <2>1, <2>3
<1> QED
  BY <1>2, <1>3, <1>4, <1>5, <1>7, <1>8, <1>9 DEF CutsInto

(* An item handed on. *)
LEMMA GiveParts ==
  ASSUME NEW s, DOMAIN s = {"run", "epoch", "end", "out", "line"}, NEW item, NEW new, new = Give(s, item)
  PROVE  /\ DOMAIN new = {"run", "epoch", "end", "out", "line"}
         /\ new.run = s.run /\ new.epoch = s.epoch /\ new.end = s.end
         /\ new.out = s.out \o <<item>> /\ new.line = Register(s.line, item)
<1>1. PICK out : out = s.out \o <<item>>
  OBVIOUS
<1>2. PICK line : line = Register(s.line, item)
  OBVIOUS
<1>3. new = [s EXCEPT !.out = out, !.line = line]
  BY <1>1, <1>2 DEF Give
<1> QED
  BY <1>1, <1>2, <1>3

(* A cut takes n pending samples as the next frame. *)
LEMMA CutParts ==
  ASSUME NEW s, StateOK(s), NEW n \in 1 .. Len(s.run.pending), NEW new, new = Cut(s, n)
  PROVE  /\ DOMAIN new = {"run", "epoch", "end", "out", "line"} /\ new.epoch = s.epoch
         /\ \E f \in {Frame(s, SubSeq(s.run.pending, 1, n))} :
              /\ new.end = f.start + n
              /\ new.out = s.out \o <<f>> /\ new.line = Register(s.line, f)
         /\ DOMAIN new.run = {"last", "anchor", "pending", "position", "frames"}
         /\ new.run.last = s.run.last /\ new.run.anchor = s.run.anchor
         /\ new.run.pending = SubSeq(s.run.pending, n + 1, Len(s.run.pending))
         /\ new.run.position = s.run.position + n /\ new.run.frames = s.run.frames + 1
<1>1. PICK f : f = Frame(s, SubSeq(s.run.pending, 1, n))
  OBVIOUS
<1>2. PICK run : run = AfterCut(s.run, n)
  OBVIOUS
<1>3. PICK end : end = f.start + n
  OBVIOUS
<1>4. PICK mid : mid = [s EXCEPT !.run = run, !.end = end]
  OBVIOUS
<1>5. new = Give(mid, f)
  BY <1>1, <1>2, <1>3, <1>4 DEF Cut
<1>6. /\ DOMAIN mid = {"run", "epoch", "end", "out", "line"} /\ mid.run = run /\ mid.end = end
      /\ mid.epoch = s.epoch /\ mid.out = s.out /\ mid.line = s.line
  BY <1>4 DEF StateOK
<1>7. /\ DOMAIN new = {"run", "epoch", "end", "out", "line"}
      /\ new.run = run /\ new.epoch = s.epoch /\ new.end = end
      /\ new.out = s.out \o <<f>> /\ new.line = Register(s.line, f)
  <2>1. /\ DOMAIN new = {"run", "epoch", "end", "out", "line"}
        /\ new.run = mid.run /\ new.epoch = mid.epoch /\ new.end = mid.end
        /\ new.out = mid.out \o <<f>> /\ new.line = Register(mid.line, f)
    <3>1. DOMAIN mid = {"run", "epoch", "end", "out", "line"}
      BY <1>6
    <3> QED
      BY <1>5, <3>1, GiveParts
  <2> QED
    BY <1>6, <2>1
<1>8. PICK rest : rest = SubSeq(s.run.pending, n + 1, Len(s.run.pending))
  OBVIOUS
<1>9. PICK position : position = s.run.position + n
  OBVIOUS
<1>10. PICK frames : frames = s.run.frames + 1
  OBVIOUS
<1>11. run = [s.run EXCEPT !.pending = rest, !.position = position, !.frames = frames]
  BY <1>2, <1>8, <1>9, <1>10 DEF AfterCut
<1>12. /\ DOMAIN run = {"last", "anchor", "pending", "position", "frames"}
       /\ run.last = s.run.last /\ run.anchor = s.run.anchor
       /\ run.pending = rest /\ run.position = position /\ run.frames = frames
  BY <1>11 DEF StateOK, RunOK
<1> QED
  BY <1>1, <1>3, <1>7, <1>8, <1>9, <1>10, <1>12

(* _clear_run() remembers nothing. *)
LEMMA ClearRunParts ==
  /\ RunOK(ClearRun) /\ ClearRun.pending = <<>> /\ ClearRun.last = <<>> /\ ClearRun.anchor = -1
  /\ ClearRun.position = 0 /\ ClearRun.frames = 0
<1>1. /\ DOMAIN ClearRun = {"last", "anchor", "pending", "position", "frames"}
      /\ ClearRun.pending = <<>> /\ ClearRun.last = <<>> /\ ClearRun.anchor = -1
      /\ ClearRun.position = 0 /\ ClearRun.frames = 0
  BY DEF ClearRun
<1>2. <<>> \in Seq(Sample) /\ Chained(<<>>)
  BY DEF Chained
<1> QED
  BY <1>1, <1>2 DEF RunOK

(* A cut keeps the state, and the run goes on. *)
LEMMA CutKeeps ==
  ASSUME NEW s, StateOK(s), NEW n \in 1 .. Len(s.run.pending), NEW new, new = Cut(s, n)
  PROVE  Keeps(s, new)
<1>1. PICK ss : ss = s.run.pending
  OBVIOUS
<1>2. /\ RunOK(s.run) /\ ss \in Seq(Sample) /\ Chained(ss) /\ n \in 1 .. Len(ss) /\ n \in Nat
      /\ s.run.position \in Nat /\ s.run.frames \in Nat /\ s.epoch \in Nat /\ s.end \in Nat
  BY <1>1 DEF StateOK, RunOK
<1>3. s.run # ClearRun
  <2>1. Len(ss) # 0
    BY <1>2
  <2> QED
    BY <1>1, <2>1, ClearRunParts
<1>4. /\ s.run.anchor \in Nat /\ ss[Len(ss)] = Tip(s.run.last[1])
      /\ \E p \in Packets : s.run.last = <<p>>
  <2>1. ss # <<>>
    BY <1>2
  <2> QED
    BY <1>1, <1>2, <1>3, <2>1 DEF RunOK
<1>5. PICK head : head = SubSeq(ss, 1, n)
  OBVIOUS
<1>6. PICK rest : rest = SubSeq(ss, n + 1, Len(ss))
  OBVIOUS
<1>7. /\ head \in Seq(Sample) /\ Len(head) = n /\ head # <<>> /\ Chained(head)
      /\ rest \in Seq(Sample) /\ Chained(rest)
      /\ head[1] = ss[1] /\ head[Len(head)] = ss[n]
      /\ rest = <<>> <=> n = Len(ss)
      /\ rest # <<>> => rest[Len(rest)] = ss[Len(ss)] /\ Adjacent(ss[n], rest[1])
  <2>1. CutsInto(ss, n, head, rest)
    BY <1>2, <1>5, <1>6, Pieces
  <2> QED
    BY <2>1 DEF CutsInto
<1>8. PICK f : f = Frame(s, head)
  OBVIOUS
<1>9. /\ f.kind = "frame" /\ f.epoch = s.epoch /\ f.sequence = s.run.frames
      /\ f.start = s.run.anchor + s.run.position /\ f.samples = head
      /\ f \in FrameItem
  <2>1. f = [kind |-> "frame", epoch |-> s.epoch, sequence |-> s.run.frames,
             start |-> s.run.anchor + s.run.position, samples |-> head]
    BY <1>8 DEF Frame
  <2>2. s.run.anchor + s.run.position \in Nat
    BY <1>2, <1>4
  <2> QED
    BY <1>2, <1>7, <2>1, <2>2 DEF FrameItem
<1>10. EndOf(f) = f.start + n /\ f.start \in Nat
  BY <1>7, <1>9, FrameEnd DEF EndOf
<1>11. /\ DOMAIN new = {"run", "epoch", "end", "out", "line"} /\ new.epoch = s.epoch
       /\ new.end = EndOf(f) /\ new.out = s.out \o <<f>> /\ new.line = Register(s.line, f)
       /\ DOMAIN new.run = {"last", "anchor", "pending", "position", "frames"}
       /\ new.run.last = s.run.last /\ new.run.anchor = s.run.anchor /\ new.run.pending = rest
       /\ new.run.position = s.run.position + n /\ new.run.frames = s.run.frames + 1
  BY <1>1, <1>5, <1>6, <1>8, <1>10, CutParts
<1>12. new.run # ClearRun
  BY <1>11, <1>2, ClearRunParts
<1>13. RunOK(new.run)
  <2>1. rest # <<>> => rest[Len(rest)] = Tip(s.run.last[1])
    BY <1>4, <1>7
  <2>2. /\ new.run.pending \in Seq(Sample) /\ Chained(new.run.pending)
        /\ DOMAIN new.run = {"last", "anchor", "pending", "position", "frames"}
    BY <1>7, <1>11
  <2>4. new.run.position \in Nat /\ new.run.frames \in Nat /\ new.run.anchor \in Nat
    BY SMTT(20), <1>2, <1>4, <1>11
  <2>3. /\ \E p \in Packets : new.run.last = <<p>>
        /\ new.run.pending # <<>> => new.run.pending[Len(new.run.pending)] = Tip(new.run.last[1])
    BY <1>4, <1>11, <2>1
  <2> QED
    BY <2>2, <2>3, <2>4 DEF RunOK
<1>14. s.end <= f.start
  BY <1>3, <1>9 DEF StateOK
<1>15. \A i \in 1 .. Len(s.out) : IsFrame(s.out[i]) =>
         EndOf(s.out[i]) <= f.start /\ EndOf(s.out[i]) <= EndOf(f) /\ s.out[i].epoch <= s.epoch
  <2> SUFFICES ASSUME NEW i \in 1 .. Len(s.out), IsFrame(s.out[i])
               PROVE  EndOf(s.out[i]) <= f.start /\ EndOf(s.out[i]) <= EndOf(f) /\ s.out[i].epoch <= s.epoch
    OBVIOUS
  <2>1. s.out[i] \in FrameItem
    <3>1. s.out[i] \in FrameItem \cup {GapItem}
      BY DEF StateOK, Whole
    <3> QED
      BY <3>1, NoFrame
  <2>2. EndOf(s.out[i]) \in Nat /\ EndOf(s.out[i]) <= s.end /\ s.out[i].epoch <= s.epoch
    BY <2>1, FrameEnd DEF StateOK
  <2> QED
    BY <1>2, <1>10, <1>14, <2>2
<1>16. s.out # <<>> /\ IsFrame(s.out[Len(s.out)]) => GoesOn(s.out[Len(s.out)], f)
  <2> SUFFICES ASSUME s.out # <<>>, IsFrame(s.out[Len(s.out)]) PROVE GoesOn(s.out[Len(s.out)], f)
    OBVIOUS
  <2>1. s.out[Len(s.out)].epoch = s.epoch /\ Reaches(s.out[Len(s.out)], s.run)
    BY DEF StateOK
  <2>2. ss # <<>>
    BY <1>2
  <2> QED
    BY <1>1, <1>7, <1>9, <2>1, <2>2 DEF Reaches, GoesOn
<1>17. Whole(new.out)
  <2>1. Whole(s.out) /\ f \in FrameItem
    BY <1>9 DEF StateOK
  <2>2. \A i \in 1 .. Len(s.out) : IsFrame(s.out[i]) => EndOf(s.out[i]) <= f.start
    BY <1>15
  <2>3. Whole(s.out \o <<f>>)
    BY Zenon, <1>16, <2>1, <2>2, OneMoreFrame
  <2> QED
    BY <1>11, <2>3
<1>18. LineOK(new.line, new.out)
  BY <1>9, <1>11, LineOfFrame DEF StateOK
<1>19. /\ Len(new.out) = Len(s.out) + 1 /\ Len(s.out) \in Nat /\ new.out[Len(s.out) + 1] = f
       /\ \A i \in 1 .. Len(s.out) : new.out[i] = s.out[i]
  BY <1>9, <1>11, OneMore DEF StateOK, Whole
<1>20. \A i \in 1 .. Len(new.out) : IsFrame(new.out[i]) =>
         EndOf(new.out[i]) <= new.end /\ new.out[i].epoch <= new.epoch
  <2> SUFFICES ASSUME NEW i \in 1 .. Len(new.out), IsFrame(new.out[i])
               PROVE  EndOf(new.out[i]) <= new.end /\ new.out[i].epoch <= new.epoch
    OBVIOUS
  <2>1. CASE i \in 1 .. Len(s.out)
    BY <1>11, <1>15, <1>19, <2>1
  <2>2. CASE i = Len(s.out) + 1
    BY <1>2, <1>9, <1>10, <1>11, <1>19, <2>2
  <2> QED
    BY <1>19, <2>1, <2>2
<1>21. EndOf(f) = new.run.anchor + new.run.position /\ new.end = EndOf(f) /\ EndOf(f) \in Nat
  <2>1. new.run.anchor = s.run.anchor /\ new.run.position = s.run.position + n /\ new.end = EndOf(f)
    BY <1>11
  <2>2. EndOf(f) = (s.run.anchor + s.run.position) + n
    BY <1>9, <1>10
  <2>3. s.run.anchor \in Nat /\ s.run.position \in Nat /\ n \in Nat
    BY <1>2, <1>4
  <2> QED
    BY <2>1, <2>2, <2>3
<1>22. Reaches(f, new.run)
  <2>1. EndOf(f) = new.run.anchor + new.run.position
    BY <1>21
  <2>2. rest = <<>> => f.samples[Len(f.samples)] = Tip(new.run.last[1])
    BY <1>4, <1>7, <1>9, <1>11
  <2>3. rest # <<>> => Adjacent(f.samples[Len(f.samples)], rest[1])
    BY <1>7, <1>9
  <2> QED
    BY <1>9, <1>11, <1>12, <2>1, <2>2, <2>3 DEF Reaches
<1> QED
  <2>1. new.out[Len(new.out)] = f
    BY <1>19
  <2>2. DOMAIN new = {"run", "epoch", "end", "out", "line"} /\ new.epoch \in Nat /\ f.epoch = new.epoch
    BY <1>2, <1>9, <1>11
  <2>3. new.end \in Nat /\ new.end <= new.run.anchor + new.run.position
    BY <1>21
  <2>4. StateOK(new)
    BY <1>13, <1>17, <1>18, <1>20, <1>22, <2>1, <2>2, <2>3 DEF StateOK
  <2>5. \A e, u : HeldBy(s.out, e, u) => HeldBy(new.out, e, u)
    BY <1>9, <1>11, StillHeld DEF StateOK
  <2> QED
    BY <2>4, <2>5 DEF Keeps
-----------------------------------------------------------------------------
(* _output() hands on a full frame, if there is one. *)
LEMMA OutputKeeps ==
  ASSUME NEW s, StateOK(s)
  PROVE  Keeps(s, Output(s))
<1>1. s.run.pending \in Seq(Sample) /\ Len(s.run.pending) \in Nat
  BY DEF StateOK, RunOK
<1>2. CASE Len(s.run.pending) >= FrameSize
  <2>1. FrameSize \in 1 .. Len(s.run.pending)
    BY <1>1, <1>2, CaptureAssumption
  <2>2. Keeps(s, Cut(s, FrameSize))
    BY <2>1, CutKeeps
  <2> QED
    BY <1>2, <2>2 DEF Output
<1>3. CASE ~(Len(s.run.pending) >= FrameSize)
  BY <1>3 DEF Output, Keeps
<1> QED
  BY <1>2, <1>3

(* The tail of a run leaves with it. *)
LEMMA FinishKeeps ==
  ASSUME NEW s, StateOK(s)
  PROVE  Keeps(s, FinishRun(s))
<1>1. s.run.pending \in Seq(Sample) /\ Len(s.run.pending) \in Nat
  BY DEF StateOK, RunOK
<1>2. CASE s.run.pending # <<>>
  <2>1. Len(s.run.pending) \in 1 .. Len(s.run.pending)
    BY <1>1, <1>2, EmptySeq
  <2>2. Keeps(s, Cut(s, Len(s.run.pending)))
    BY <2>1, CutKeeps
  <2> QED
    BY <1>2, <2>2 DEF FinishRun
<1>3. CASE s.run.pending = <<>>
  BY <1>3 DEF FinishRun, Keeps
<1> QED
  BY <1>2, <1>3

(* A gap is announced and the next epoch begins with nothing of the last. *)
LEMMA NextEpochKeeps ==
  ASSUME NEW s, StateOK(s), NEW new, new = Gap(s)
  PROVE  Keeps(s, new) /\ new.run = ClearRun
<1>1. PICK t : t = FinishRun(s)
  OBVIOUS
<1>2. StateOK(t) /\ \A e, u : HeldBy(s.out, e, u) => HeldBy(t.out, e, u)
  BY <1>1, FinishKeeps DEF Keeps
<1>3. PICK g : g = Give(t, GapItem)
  OBVIOUS
<1>4. /\ DOMAIN g = {"run", "epoch", "end", "out", "line"}
      /\ g.run = t.run /\ g.epoch = t.epoch /\ g.end = t.end
      /\ g.out = t.out \o <<GapItem>> /\ g.line = Register(t.line, GapItem)
  <2>1. DOMAIN t = {"run", "epoch", "end", "out", "line"}
    BY <1>2 DEF StateOK
  <2> QED
    BY <1>3, <2>1, GiveParts
<1>5. PICK epoch : epoch = t.epoch + 1
  OBVIOUS
<1>6. new = [g EXCEPT !.run = ClearRun, !.epoch = epoch]
  BY <1>1, <1>3, <1>4, <1>5 DEF Gap
<1>7. /\ DOMAIN new = {"run", "epoch", "end", "out", "line"}
      /\ new.run = ClearRun /\ new.epoch = epoch /\ new.end = t.end
      /\ new.out = t.out \o <<GapItem>> /\ new.line = Register(t.line, GapItem)
  BY <1>4, <1>6
<1>8. epoch \in Nat /\ t.epoch \in Nat /\ t.epoch <= epoch /\ t.end \in Nat
  BY <1>2, <1>5 DEF StateOK
<1>9. Whole(new.out)
  BY <1>2, <1>7, OneMoreGap DEF StateOK
<1>10. /\ Len(new.out) = Len(t.out) + 1 /\ Len(t.out) \in Nat /\ new.out[Len(new.out)] = GapItem
       /\ \A i \in 1 .. Len(t.out) : new.out[i] = t.out[i]
  <2>1. t.out \in Seq(FrameItem \cup {GapItem}) /\ GapItem \in FrameItem \cup {GapItem}
    BY <1>2 DEF StateOK, Whole
  <2> QED
    BY <1>7, <2>1, OneMore
<1>11. LineOK(new.line, new.out)
  <2>1. new.line = [t.line EXCEPT !.tail = 0]
    BY <1>7 DEF Register, GapItem
  <2>2. /\ DOMAIN new.line = {"ranges", "tail", "invalid"} /\ new.line.ranges = t.line.ranges
        /\ new.line.tail = 0
    BY <1>2, <2>1 DEF StateOK, LineOK
  <2>3. \A e, u : HeldBy(t.out, e, u) => HeldBy(new.out, e, u)
    BY <1>2, <1>7, StillHeld DEF StateOK
  <2>4. LineOK(t.line, t.out) /\ 0 \in 0 .. Len(t.line.ranges)
    BY <1>2 DEF StateOK, LineOK
  <2> QED
    BY <2>2, <2>3, <2>4 DEF LineOK
<1>12. \A i \in 1 .. Len(new.out) : IsFrame(new.out[i]) =>
         EndOf(new.out[i]) <= new.end /\ new.out[i].epoch <= new.epoch
  <2> SUFFICES ASSUME NEW i \in 1 .. Len(new.out), IsFrame(new.out[i])
               PROVE  EndOf(new.out[i]) <= new.end /\ new.out[i].epoch <= new.epoch
    OBVIOUS
  <2>1. i \in 1 .. Len(t.out) /\ new.out[i] = t.out[i]
    BY <1>10, NoFrame
  <2>2. t.out[i] \in FrameItem
    <3>1. t.out[i] \in FrameItem \cup {GapItem}
      BY <1>2, <2>1 DEF StateOK, Whole
    <3> QED
      BY <2>1, <3>1, NoFrame
  <2>3. t.out[i].epoch \in Nat /\ t.out[i].epoch <= t.epoch /\ EndOf(t.out[i]) <= t.end
    BY <1>2, <2>1, <2>2, FrameEnd DEF StateOK
  <2> QED
    BY <1>7, <1>8, <2>1, <2>3
<1>13. ~IsFrame(new.out[Len(new.out)])
  BY <1>10, NoFrame
<1>14. StateOK(new)
  BY <1>7, <1>8, <1>9, <1>11, <1>12, <1>13, ClearRunParts DEF StateOK
<1>15. \A e, u : HeldBy(t.out, e, u) => HeldBy(new.out, e, u)
  BY <1>2, <1>7, StillHeld DEF StateOK
<1> QED
  BY <1>2, <1>7, <1>14, <1>15 DEF Keeps

-----------------------------------------------------------------------------
(* The samples of a packet. *)
LEMMA Decodings ==
  ASSUME NEW p \in Packets
  PROVE  /\ Decoded(p) \in Seq(Sample) /\ Len(Decoded(p)) = p.frames /\ p.frames \in {1, 2}
         /\ Decoded(p) # <<>> /\ Chained(Decoded(p))
         /\ Decoded(p)[1] = [packet |-> p.sequence, device |-> p.device]
         /\ Decoded(p)[p.frames] = Tip(p)
         /\ p.sequence \in Nat /\ p.device \in Nat /\ p.qpc \in Nat
<1>1. p.sequence \in Nat /\ p.device \in Nat /\ p.qpc \in Nat /\ p.frames \in {1, 2}
  BY CaptureAssumption DEF Packets
<1>2. PICK ss : ss = Decoded(p)
  OBVIOUS
<1>3. ASSUME NEW i \in 1 .. p.frames
      PROVE  ss[i] = [packet |-> p.sequence, device |-> p.device + i - 1] /\ ss[i] \in Sample
  BY <1>1, <1>2, <1>3 DEF Decoded, Sample
<1>4. ss \in [1 .. p.frames -> Sample]
  BY <1>2, <1>3 DEF Decoded
<1>5. ss \in Seq(Sample) /\ Len(ss) = p.frames
  BY <1>1, <1>4
<1>6. Chained(ss)
  <2> SUFFICES ASSUME NEW k \in 1 .. Len(ss) - 1 PROVE Adjacent(ss[k], ss[k + 1])
    BY DEF Chained
  <2>1. k = 1 /\ k + 1 = 2 /\ 1 \in 1 .. p.frames /\ 2 \in 1 .. p.frames
    BY <1>1, <1>5
  <2>2. /\ ss[1] = [packet |-> p.sequence, device |-> p.device + 1 - 1]
        /\ ss[2] = [packet |-> p.sequence, device |-> p.device + 2 - 1]
    BY <1>3, <2>1
  <2> QED
    BY <1>1, <2>1, <2>2 DEF Adjacent
<1>7. 1 \in 1 .. p.frames /\ p.frames \in 1 .. p.frames
  BY <1>1
<1>8. ss[1] = [packet |-> p.sequence, device |-> p.device]
  BY <1>1, <1>3, <1>7
<1>9. ss[p.frames] = Tip(p)
  BY <1>1, <1>3, <1>7 DEF Tip
<1> QED
  BY <1>1, <1>2, <1>5, <1>6, <1>8, <1>9

(* Two chains make one where they meet. *)
Joined(aa, bb, both) ==
  /\ both \in Seq(Sample) /\ Chained(both) /\ both # <<>>
  /\ both[Len(both)] = bb[Len(bb)]
  /\ both[1] = IF aa = <<>> THEN bb[1] ELSE aa[1]

(* Two chains make one where they meet. *)
LEMMA Joins ==
  ASSUME NEW aa \in Seq(Sample), NEW bb \in Seq(Sample), Chained(aa), Chained(bb), bb # <<>>,
         aa # <<>> => Adjacent(aa[Len(aa)], bb[1]), NEW both, both = aa \o bb
  PROVE  Joined(aa, bb, both)
<1>1. Len(aa) \in Nat /\ Len(bb) \in Nat \ {0}
  BY EmptySeq
<1>2. /\ both \in Seq(Sample) /\ Len(both) = Len(aa) + Len(bb)
      /\ \A i \in 1 .. Len(aa) : both[i] = aa[i]
  BY <1>1
<1>3. \A i \in 1 .. Len(bb) : both[Len(aa) + i] = bb[i]
  BY <1>1
<1>4. aa # <<>> => Len(aa) >= 1
  BY <1>1, EmptySeq
<1>5. Chained(both)
  <2> SUFFICES ASSUME NEW k \in 1 .. Len(both) - 1 PROVE Adjacent(both[k], both[k + 1])
    BY DEF Chained
  <2>1. CASE k < Len(aa)
    <3>1. k \in 1 .. Len(aa) - 1 /\ k \in 1 .. Len(aa) /\ k + 1 \in 1 .. Len(aa)
      BY <1>1, <1>2, <2>1
    <3> QED
      BY <1>2, <3>1 DEF Chained
  <2>2. CASE k = Len(aa)
    <3>1. k \in 1 .. Len(aa) /\ 1 \in 1 .. Len(bb) /\ aa # <<>>
      BY <1>1, <1>2, <2>2
    <3>2. both[k] = aa[Len(aa)] /\ both[k + 1] = bb[1]
      BY <1>2, <1>3, <2>2, <3>1
    <3> QED
      BY <3>1, <3>2
  <2>3. CASE k > Len(aa)
    <3>0. Len(both) = Len(aa) + Len(bb) /\ k \in 1 .. Len(both) - 1
      BY <1>2
    <3>1. PICK i : i = k - Len(aa)
      OBVIOUS
    <3>2. PICK la \in Nat, lb \in Nat : la = Len(aa) /\ lb = Len(bb)
      BY <1>1
    <3>3. i \in 1 .. lb - 1 /\ i \in 1 .. lb /\ i + 1 \in 1 .. lb /\ k = la + i /\ k + 1 = la + (i + 1)
      BY <2>3, <3>0, <3>1, <3>2
    <3>4. both[k] = bb[i] /\ both[k + 1] = bb[i + 1]
      BY <1>3, <3>2, <3>3
    <3> QED
      BY <3>2, <3>3, <3>4 DEF Chained
  <2> QED
    BY <1>1, <1>2, <2>1, <2>2, <2>3
<1>6. both[Len(both)] = bb[Len(bb)]
  <2>1. Len(bb) \in 1 .. Len(bb)
    BY <1>1
  <2> QED
    BY <1>2, <1>3, <2>1
<1>7. both # <<>>
  <2>1. Len(both) # 0
    BY <1>1, <1>2
  <2> QED
    BY <2>1
<1>8. CASE aa = <<>>
  <2>1. Len(aa) = 0 /\ 1 \in 1 .. Len(bb) /\ 1 = 0 + 1
    BY <1>1, <1>8
  <2>2. both[1] = bb[1]
    BY <1>3, <2>1
  <2> QED
    BY <1>2, <1>5, <1>6, <1>7, <1>8, <2>2 DEF Joined
<1>9. CASE aa # <<>>
  <2>1. 1 \in 1 .. Len(aa)
    BY <1>1, <1>4, <1>9
  <2>2. both[1] = aa[1]
    BY <1>2, <2>1
  <2> QED
    BY <1>2, <1>5, <1>6, <1>7, <1>9, <2>2 DEF Joined
<1> QED
  BY <1>8, <1>9
(* A packet comes into a run that it goes on with: what is pending, or     *)
(* else the last frame, ends where the packet begins.                      *)
LEMMA EnterKeeps ==
  ASSUME NEW t, StateOK(t), NEW p \in Packets, NEW run, NEW s,
         /\ DOMAIN run = {"last", "anchor", "pending", "position", "frames"}
         /\ run.pending \in Seq(Sample) /\ Chained(run.pending)
         /\ run.position \in Nat /\ run.frames \in Nat /\ run.anchor \in Nat,
         t.end <= run.anchor + run.position,
         run.pending # <<>> => Adjacent(run.pending[Len(run.pending)], Decoded(p)[1]),
         t.out # <<>> /\ IsFrame(t.out[Len(t.out)]) =>
           LET f == t.out[Len(t.out)] IN
           /\ f.epoch = t.epoch
           /\ run.frames = f.sequence + 1 /\ EndOf(f) = run.anchor + run.position
           /\ Adjacent(f.samples[Len(f.samples)],
                       IF run.pending = <<>> THEN Decoded(p)[1] ELSE run.pending[1]),
         DOMAIN s = {"run", "epoch", "end", "out", "line"},
         s.run = Filled(run, p),
         s.epoch = t.epoch, s.end = t.end, s.out = t.out, s.line = t.line
  PROVE  StateOK(s)
<1>1. PICK both : both = run.pending \o Decoded(p)
  OBVIOUS
<1>2. Joined(run.pending, Decoded(p), both)
  BY <1>1, Decodings, Joins
<1>3. PICK last : last = <<p>>
  OBVIOUS
<1>4. /\ DOMAIN s.run = {"last", "anchor", "pending", "position", "frames"}
      /\ s.run.pending = both /\ s.run.last = <<p>> /\ s.run.position = run.position
      /\ s.run.frames = run.frames /\ s.run.anchor = run.anchor
  <2>1. s.run = [run EXCEPT !.pending = both, !.last = last]
    BY <1>1, <1>3 DEF Filled
  <2>2. /\ DOMAIN s.run = {"last", "anchor", "pending", "position", "frames"}
        /\ s.run.pending = both /\ s.run.last = last /\ s.run.position = run.position
        /\ s.run.frames = run.frames /\ s.run.anchor = run.anchor
    BY <2>1
  <2> QED
    BY <1>3, <2>2
<1>5. s.run # ClearRun
  BY <1>4, ClearRunParts
<1>6. both[Len(both)] = Tip(p) /\ both # <<>>
      /\ both[1] = IF run.pending = <<>> THEN Decoded(p)[1] ELSE run.pending[1]
  <2>1. Decoded(p)[Len(Decoded(p))] = Tip(p)
    BY Decodings
  <2> QED
    BY <1>2, <2>1 DEF Joined
<1>7. RunOK(s.run)
  <2>1. both \in Seq(Sample) /\ Chained(both)
    BY <1>2 DEF Joined
  <2>2. s.run.last[1] = p /\ \E q \in Packets : s.run.last = <<q>>
    BY <1>4
  <2>3. s.run.position \in Nat /\ s.run.frames \in Nat /\ s.run.anchor \in Nat
    BY <1>4
  <2>4. /\ DOMAIN s.run = {"last", "anchor", "pending", "position", "frames"}
        /\ s.run.pending \in Seq(Sample) /\ Chained(s.run.pending)
        /\ s.run.pending # <<>> => s.run.pending[Len(s.run.pending)] = Tip(s.run.last[1])
    BY <1>4, <1>6, <2>1, <2>2
  <2> QED
    BY <2>2, <2>3, <2>4 DEF RunOK
<1>8. s.out # <<>> /\ IsFrame(s.out[Len(s.out)]) =>
        s.out[Len(s.out)].epoch = s.epoch /\ Reaches(s.out[Len(s.out)], s.run)
  BY <1>4, <1>5, <1>6 DEF Reaches
<1> QED
  BY <1>4, <1>7, <1>8 DEF StateOK

(* A packet that goes on with its predecessor begins where it ended. *)
LEMMA ContinuesAt ==
  ASSUME NEW q \in Packets, NEW p \in Packets, Continues(q, p)
  PROVE  Adjacent(Tip(q), Decoded(p)[1])
<1>1. p.sequence = q.sequence + 1 /\ p.device = q.device + q.frames
  BY DEF Continues
<1>2. /\ Decoded(p)[1] = [packet |-> p.sequence, device |-> p.device]
      /\ q.sequence \in Nat /\ q.device \in Nat /\ q.frames \in {1, 2}
  BY Decodings
<1> QED
  BY <1>1, <1>2 DEF Tip, Adjacent

(* push() in a run that goes on. *)
LEMMA GoOnKeeps ==
  ASSUME NEW t, StateOK(t), NEW p \in Packets, t.run # ClearRun, Continues(t.run.last[1], p)
  PROVE  Keeps(t, TakeIn(t, p))
<1>1. PICK run : run = t.run
  OBVIOUS
<1>2. PICK new : new = Filled(run, p)
  OBVIOUS
<1>3. PICK s : s = [t EXCEPT !.run = new]
  OBVIOUS
<1>4. TakeIn(t, p) = Output(s)
  BY <1>1, <1>2, <1>3 DEF TakeIn
<1>5. /\ DOMAIN s = {"run", "epoch", "end", "out", "line"} /\ s.run = new
      /\ s.epoch = t.epoch /\ s.end = t.end /\ s.out = t.out /\ s.line = t.line
  BY <1>3 DEF StateOK
<1>6. /\ DOMAIN run = {"last", "anchor", "pending", "position", "frames"}
      /\ run.pending \in Seq(Sample) /\ Chained(run.pending)
      /\ run.position \in Nat /\ run.frames \in Nat /\ run.anchor \in Nat
      /\ run.pending # <<>> => run.pending[Len(run.pending)] = Tip(run.last[1])
  BY <1>1 DEF StateOK, RunOK
<1>7. Adjacent(Tip(run.last[1]), Decoded(p)[1])
  <2>1. PICK q \in Packets : run.last = <<q>>
    BY <1>1 DEF StateOK, RunOK
  <2>2. run.last[1] = q
    BY <2>1
  <2> QED
    BY <1>1, <2>2, ContinuesAt
<1>8. t.end <= run.anchor + run.position
  BY <1>1 DEF StateOK
<1>9. ASSUME t.out # <<>>, IsFrame(t.out[Len(t.out)])
      PROVE  LET f == t.out[Len(t.out)] IN
             /\ f.epoch = t.epoch
             /\ run.frames = f.sequence + 1 /\ EndOf(f) = run.anchor + run.position
             /\ Adjacent(f.samples[Len(f.samples)],
                         IF run.pending = <<>> THEN Decoded(p)[1] ELSE run.pending[1])
  BY <1>1, <1>7, <1>9 DEF StateOK, Reaches
<1>10. run.pending # <<>> => Adjacent(run.pending[Len(run.pending)], Decoded(p)[1])
  BY <1>6, <1>7
<1>11. StateOK(s)
  BY <1>2, <1>5, <1>6, <1>8, <1>9, <1>10, EnterKeeps
<1> QED
  BY <1>4, <1>5, <1>11, OutputKeeps DEF Keeps

(* push() that opens a run, no earlier than the last frame ended. *)
LEMMA OpenKeeps ==
  ASSUME NEW t, StateOK(t), NEW p \in Packets, t.run = ClearRun, ~(p.qpc < t.end)
  PROVE  Keeps(t, TakeIn([t EXCEPT !.run = Anchored(@, p.qpc)], p))
<1>1. PICK anchor : anchor = p.qpc
  OBVIOUS
<1>2. PICK run : run = Anchored(t.run, anchor)
  OBVIOUS
<1>3. PICK new : new = Filled(run, p)
  OBVIOUS
<1>4. PICK u : u = [t EXCEPT !.run = run]
  OBVIOUS
<1>5. PICK s : s = [u EXCEPT !.run = new]
  OBVIOUS
<1>6. u = [t EXCEPT !.run = Anchored(@, p.qpc)]
  BY <1>1, <1>2, <1>4
<1>7. /\ DOMAIN u = {"run", "epoch", "end", "out", "line"} /\ u.run = run
      /\ u.epoch = t.epoch /\ u.end = t.end /\ u.out = t.out /\ u.line = t.line
  BY <1>4 DEF StateOK
<1>8. TakeIn(u, p) = Output(s)
  BY <1>3, <1>5, <1>7 DEF TakeIn
<1>9. /\ DOMAIN s = {"run", "epoch", "end", "out", "line"} /\ s.run = new
      /\ s.epoch = t.epoch /\ s.end = t.end /\ s.out = t.out /\ s.line = t.line
  BY <1>5, <1>7
<1>10. /\ DOMAIN run = {"last", "anchor", "pending", "position", "frames"}
       /\ run.pending = <<>> /\ run.position = 0 /\ run.frames = 0 /\ run.anchor = anchor
  BY <1>2, ClearRunParts DEF RunOK, Anchored
<1>11. run.pending \in Seq(Sample) /\ Chained(run.pending) /\ anchor \in Nat
  BY <1>1, <1>10, ClearRunParts, Decodings DEF RunOK
<1>12. t.end <= run.anchor + run.position
  BY <1>1, <1>10, <1>11 DEF StateOK
<1>13. ~(t.out # <<>> /\ IsFrame(t.out[Len(t.out)]))
  BY DEF StateOK, Reaches
<1>14. run.position \in Nat /\ run.frames \in Nat /\ run.anchor \in Nat
  BY <1>10, <1>11
<1>15. StateOK(s)
  BY <1>3, <1>9, <1>10, <1>11, <1>12, <1>13, <1>14, EnterKeeps
<1> QED
  BY <1>6, <1>8, <1>9, <1>15, OutputKeeps DEF Keeps

(* push() as a whole. *)
LEMMA PushKeeps ==
  ASSUME NEW s, StateOK(s), NEW p \in Packets
  PROVE  Keeps(s, Push(s, p))
<1>1. CASE p.flag = "timestamp_error"
  BY <1>1, NextEpochKeeps DEF Push
<1>2. CASE p.flag # "timestamp_error"
  <2>1. PICK t : t = IF s.run.last # <<>> /\ ~Continues(s.run.last[1], p) THEN Gap(s) ELSE s
    OBVIOUS
  <2>2. Push(s, p) = IF t.run.anchor >= 0 THEN TakeIn(t, p)
                     ELSE IF p.qpc < t.end THEN Gap(t)
                     ELSE TakeIn([t EXCEPT !.run = Anchored(@, p.qpc)], p)
    BY <1>2, <2>1 DEF Push
  <2>3. Keeps(s, t) /\ StateOK(t) /\ (t.run = ClearRun \/ Continues(t.run.last[1], p))
    <3>1. s.run.last = <<>> => s.run = ClearRun
      BY DEF StateOK, RunOK
    <3> QED
      BY <2>1, <3>1, NextEpochKeeps DEF Keeps
  <2>4. CASE t.run = ClearRun
    <3>1. ~(t.run.anchor >= 0)
      BY <2>4, ClearRunParts
    <3> QED
      BY <2>2, <2>3, <2>4, <3>1, NextEpochKeeps, OpenKeeps DEF Keeps
  <2>5. CASE t.run # ClearRun /\ Continues(t.run.last[1], p)
    <3>1. t.run.anchor \in Nat
      BY <2>3, <2>5 DEF StateOK, RunOK
    <3>2. t.run.anchor >= 0
      BY <3>1
    <3> QED
      BY <2>2, <2>3, <2>5, <3>2, GoOnKeeps DEF Keeps
  <2> QED
    BY <2>3, <2>4, <2>5
<1> QED
  BY <1>1, <1>2

(* flush() hands on the last tail; the stream is over. *)
LEMMA FlushParts ==
  ASSUME NEW s, StateOK(s), NEW new, new = [FinishRun(s) EXCEPT !.run = ClearRun]
  PROVE  /\ Whole(new.out) /\ LineOK(new.line, new.out) /\ new.epoch \in Nat
         /\ \A i \in 1 .. Len(new.out) : IsFrame(new.out[i]) => new.out[i].epoch <= new.epoch
         /\ \A e, u : HeldBy(s.out, e, u) => HeldBy(new.out, e, u)
<1>1. PICK t : t = FinishRun(s)
  OBVIOUS
<1>2. Keeps(s, t)
  BY <1>1, FinishKeeps
<1>3. new.out = t.out /\ new.line = t.line /\ new.epoch = t.epoch
  BY <1>1, <1>2 DEF Keeps, StateOK
<1> QED
  BY <1>2, <1>3 DEF Keeps, StateOK

-----------------------------------------------------------------------------
(* A measured interval is held by one epoch. *)
Measured(out) ==
  \A m \in capSample :
    /\ m[1] \in Nat /\ m[2] \in Nat /\ m[1] < m[2]
    /\ \E e \in Nat : \A u \in m[1] .. (m[2] - 1) : HeldBy(out, e, u)

(* What the client's timeline keeps, step by step. *)
CaptureInv ==
  /\ Whole(capOut) /\ LineOK(Timeline, capOut) /\ capEpoch \in Nat
  /\ \A i \in 1 .. Len(capOut) : IsFrame(capOut[i]) => capOut[i].epoch <= capEpoch
  /\ Measured(capOut)
  /\ capClosed \/ StateOK(State)

(* The parts of the normalizer and of the tracker. *)
LEMMA StateParts ==
  /\ DOMAIN State = {"run", "epoch", "end", "out", "line"}
  /\ State.run = capRun /\ State.epoch = capEpoch /\ State.end = capEnd /\ State.out = capOut
  /\ State.line = Timeline /\ DOMAIN Timeline = {"ranges", "tail", "invalid"}
  /\ Timeline.ranges = capRanges /\ Timeline.tail = capTail /\ Timeline.invalid = capInvalid
BY DEF State, Timeline

(* Nothing was captured when the client starts. *)
LEMMA CaptureStarts == CapInit => CaptureInv
<1> SUFFICES ASSUME CapInit PROVE CaptureInv
  OBVIOUS
<1>1. capOut = <<>> /\ capEpoch = 0 /\ capEnd = 0 /\ capRun = ClearRun /\ capRanges = <<>> /\ capTail = 0
  BY DEF CapInit
<1>2. Len(capOut) = 0 /\ Len(capRanges) = 0
  BY <1>1
<1>3. Whole(capOut)
  BY <1>1, <1>2 DEF Whole
<1>4. LineOK(Timeline, capOut)
  BY <1>1, <1>2, StateParts DEF LineOK
<1>5. StateOK(State)
  BY <1>1, <1>2, <1>3, <1>4, StateParts, ClearRunParts DEF StateOK
<1>6. Measured(capOut)
  BY DEF CapInit, Measured
<1> QED
  BY <1>1, <1>2, <1>3, <1>4, <1>5, <1>6 DEF CaptureInv

(* What a push or a flush leaves behind. *)
LEMMA LeavesParts ==
  ASSUME NEW s, Leaves(s), LineOK(s.line, s.out)
  PROVE  /\ capOut' = s.out /\ capEpoch' = s.epoch /\ LineOK(Timeline', s.out)
         /\ StateOK(s) => StateOK(State')
<1>1. /\ capRun' = s.run /\ capEpoch' = s.epoch /\ capEnd' = s.end /\ capOut' = s.out
      /\ capRanges' = s.line.ranges /\ capTail' = s.line.tail /\ capInvalid' = s.line.invalid
  BY DEF Leaves
<1>2. PICK t : t = Timeline'
  OBVIOUS
<1>3. /\ DOMAIN t = {"ranges", "tail", "invalid"}
      /\ t.ranges = s.line.ranges /\ t.tail = s.line.tail
  BY <1>1, <1>2 DEF Timeline
<1>4. LineOK(t, s.out)
  BY <1>3 DEF LineOK
<1>5. PICK u : u = State'
  OBVIOUS
<1>6. /\ DOMAIN u = {"run", "epoch", "end", "out", "line"}
      /\ u.run = s.run /\ u.epoch = s.epoch /\ u.end = s.end /\ u.out = s.out /\ u.line = t
  BY <1>1, <1>2, <1>5 DEF State
<1>7. StateOK(s) => StateOK(u)
  BY <1>4, <1>6 DEF StateOK
<1> QED
  BY <1>1, <1>2, <1>4, <1>5, <1>7

(* A packet of the helper keeps the timeline whole. *)
LEMMA PacketKeeps ==
  ASSUME CaptureInv, NEW p \in Packets, PushPacket(p)
  PROVE  CaptureInv'
<1>1. PICK s : s = Push(State, p)
  OBVIOUS
<1>2. StateOK(State)
  BY DEF CaptureInv, PushPacket
<1>3. Keeps(State, s)
  BY <1>1, <1>2, PushKeeps
<1>4. Leaves(s) /\ capClosed' = capClosed /\ capSample' = capSample
  BY <1>1 DEF PushPacket
<1>5. StateOK(s)
  BY <1>3 DEF Keeps
<1>6. capOut' = s.out /\ capEpoch' = s.epoch /\ LineOK(Timeline', s.out) /\ StateOK(State')
  BY <1>4, <1>5, LeavesParts DEF StateOK
<1>7. \A e, u : HeldBy(capOut, e, u) => HeldBy(s.out, e, u)
  BY <1>3, StateParts DEF Keeps
<1>8. Measured(s.out)
  BY <1>7 DEF CaptureInv, Measured
<1>9. Measured(capOut)'
  BY <1>4, <1>6, <1>8 DEF Measured
<1> QED
  BY <1>5, <1>6, <1>9 DEF CaptureInv, StateOK

(* The end of the stream keeps the timeline whole. *)
LEMMA FlushKeeps ==
  ASSUME CaptureInv, Flush
  PROVE  CaptureInv'
<1>1. PICK s : s = [FinishRun(State) EXCEPT !.run = ClearRun]
  OBVIOUS
<1>2. StateOK(State)
  BY DEF CaptureInv, Flush
<1>3. /\ Whole(s.out) /\ LineOK(s.line, s.out) /\ s.epoch \in Nat
      /\ \A i \in 1 .. Len(s.out) : IsFrame(s.out[i]) => s.out[i].epoch <= s.epoch
      /\ \A e, u : HeldBy(capOut, e, u) => HeldBy(s.out, e, u)
  BY <1>1, <1>2, FlushParts, StateParts
<1>4. Leaves(s) /\ capClosed' = TRUE /\ capSample' = capSample
  BY <1>1 DEF Flush
<1>6. capOut' = s.out /\ capEpoch' = s.epoch /\ LineOK(Timeline', s.out)
  BY <1>3, <1>4, LeavesParts
<1>7. Measured(s.out)
  BY <1>3 DEF CaptureInv, Measured
<1>8. Measured(capOut)'
  BY <1>4, <1>6, <1>7 DEF Measured
<1> QED
  BY <1>3, <1>4, <1>6, <1>8 DEF CaptureInv

(* A caption measured within one range lies in audio of one epoch. *)
LEMMA CaptionMeasured ==
  ASSUME CaptureInv, NEW from \in 0 .. MaxQpc, NEW to \in 0 .. MaxQpc, ObserveCaption(from, to)
  PROVE  CaptureInv'
<1>1. /\ UNCHANGED <<capRun, capEpoch, capEnd, capClosed, capOut, capRanges, capTail, capInvalid>>
      /\ from < to
  BY DEF ObserveCaption
<1>2. Timeline' = Timeline /\ State' = State
  BY <1>1 DEF Timeline, State
<1>3. from \in Nat /\ to \in Nat
  BY CaptureAssumption
<1>4. ASSUME NEW i \in Matches(from, to)
      PROVE  \E e \in Nat : \A u \in from .. (to - 1) : HeldBy(capOut, e, u)
  <2>1. /\ i \in 1 .. Len(capRanges) /\ capRanges[i].start <= from /\ to <= capRanges[i].end
        /\ capRanges \in Seq(FrameSpan)
    BY <1>4, StateParts DEF Matches, CaptureInv, LineOK
  <2>2. PICK r \in FrameSpan : r = capRanges[i]
    BY <2>1
  <2>3. \A u \in Nat : r.start <= u /\ u < r.end => HeldBy(capOut, r.epoch, u)
    BY <2>1, <2>2, StateParts DEF CaptureInv, LineOK
  <2>4. r.epoch \in Nat /\ r.start \in Nat /\ r.end \in Nat /\ r.start <= from /\ to <= r.end
    BY <2>1, <2>2 DEF FrameSpan
  <2>5. \A u \in from .. (to - 1) : u \in Nat /\ r.start <= u /\ u < r.end
    BY <1>3, <2>4
  <2> QED
    BY <2>3, <2>4, <2>5
<1>5. capSample' # {} => capSample' = {<<from, to>>} /\ \E i : i \in Matches(from, to)
  <2>1. Cardinality({}) = 0
    BY FS_EmptySet
  <2> QED
    BY <2>1 DEF ObserveCaption
<1>6. Measured(capOut)'
  BY <1>1, <1>3, <1>4, <1>5 DEF Measured
<1> QED
  BY <1>1, <1>2, <1>6 DEF CaptureInv

(* Every step of the client keeps the timeline whole. *)
LEMMA CaptureInductive == CaptureInv /\ [CapNext]_capVars => CaptureInv'
<1> SUFFICES ASSUME CaptureInv, [CapNext]_capVars PROVE CaptureInv'
  OBVIOUS
<1>1. CASE UNCHANGED capVars
  BY <1>1 DEF capVars, CaptureInv, Measured, Timeline, State
<1>2. ASSUME NEW p \in Packets, PushPacket(p) PROVE CaptureInv'
  BY <1>2, PacketKeeps
<1>3. CASE Flush
  BY <1>3, FlushKeeps
<1>4. ASSUME NEW from \in 0 .. MaxQpc, NEW to \in 0 .. MaxQpc, ObserveCaption(from, to) PROVE CaptureInv'
  BY <1>4, CaptionMeasured
<1> QED
  BY <1>1, <1>2, <1>3, <1>4 DEF CapNext

(* What is kept says that epochs are whole. *)
LEMMA CaptureInvShows == CaptureInv => EpochsAreWhole
<1> SUFFICES ASSUME CaptureInv PROVE EpochsAreWhole
  OBVIOUS
<1>1. capOut \in Seq(FrameItem \cup {GapItem}) /\ DOMAIN capOut = 1 .. Len(capOut) /\ Len(capOut) \in Nat
  BY DEF CaptureInv, Whole
<1>2. ASSUME NEW i \in Frames
      PROVE  i \in 1 .. Len(capOut) /\ IsFrame(capOut[i]) /\ capOut[i] \in FrameItem
  <2>1. i \in 1 .. Len(capOut) /\ IsFrame(capOut[i])
    BY <1>1, <1>2 DEF Frames, IsFrame
  <2>2. capOut[i] \in FrameItem \cup {GapItem}
    BY <1>1, <2>1
  <2> QED
    BY <2>1, <2>2, NoFrame
<1>3. MeasuredIsWhole
  <2> SUFFICES ASSUME NEW m \in capSample
               PROVE  \E e \in 0..capEpoch : \A u \in m[1]..(m[2] - 1) :
                        \E i \in Frames : capOut[i].epoch = e /\ capOut[i].start <= u /\ u < EndOf(capOut[i])
    BY DEF MeasuredIsWhole
  <2>1. m[1] \in Nat /\ m[2] \in Nat /\ m[1] < m[2]
    BY DEF CaptureInv, Measured
  <2>2. PICK e \in Nat : \A u \in m[1] .. (m[2] - 1) : HeldBy(capOut, e, u)
    BY DEF CaptureInv, Measured
  <2>3. m[1] \in m[1] .. (m[2] - 1)
    BY <2>1
  <2>4. e <= capEpoch
    BY <2>2, <2>3 DEF HeldBy, CaptureInv
  <2>5. e \in 0 .. capEpoch
    BY <2>4 DEF CaptureInv
  <2>6. \A u \in m[1] .. (m[2] - 1) :
          \E i \in Frames : capOut[i].epoch = e /\ capOut[i].start <= u /\ u < EndOf(capOut[i])
    BY <1>1, <2>2 DEF HeldBy, Frames, IsFrame
  <2> QED
    BY <2>5, <2>6
<1>4. \A i \in Frames : \A k \in 1..(Len(capOut[i].samples) - 1) :
        Adjacent(capOut[i].samples[k], capOut[i].samples[k + 1])
  BY <1>2, FrameEnd DEF Chained
<1>5. ASSUME NEW i \in Frames, NEW j \in Frames, i < j
      PROVE  LET f == capOut[i] g == capOut[j] IN
             /\ EndOf(f) <= g.start
             /\ j = i + 1 => /\ f.epoch = g.epoch /\ g.sequence = f.sequence + 1 /\ g.start = EndOf(f)
                             /\ Adjacent(Last(f.samples), g.samples[1])
  <2>1. /\ EndOf(capOut[i]) <= capOut[j].start
        /\ j = i + 1 => GoesOn(capOut[i], capOut[j])
    BY <1>2, <1>5 DEF CaptureInv, Whole
  <2> QED
    BY <2>1 DEF GoesOn, Last
<1> QED
  BY <1>3, <1>4, <1>5 DEF EpochsAreWhole

(* The client never hides a hole of the capture: for every size of frames, any   *)
(* packets of the helper and any tolerance for the device clock, a frame is      *)
(* continuous audio, frames of one epoch that follow each other are continuous   *)
(* in sequence, time and samples, a hole is announced before the next epoch, and *)
(* a caption is measured against audio of one epoch only (dsp.py, client_latency.py). *)
THEOREM CaptureIsWhole == CapSpec => []EpochsAreWhole
<1>1. CapSpec => []CaptureInv
  BY CaptureStarts, CaptureInductive, PTL DEF CapSpec
<1> QED
  BY <1>1, CaptureInvShows, PTL

-----------------------------------------------------------------------------
(* SpeakerNames.  A name depends on the evidence about the caption's own   *)
(* audio only.  It stays right when evidence is dropped, because captions  *)
(* that begin before what is dropped ends are no longer tracked, and when  *)
(* a candidate is confirmed, because Affected finds all that rests on it.  *)

(* An assignment is about audio before its end. *)
Evidence(a) == a.end \in Nat /\ \A u \in a.units : u \in Int /\ u < a.end

(* A sequence of assignments. *)
EvidenceSeq(h) == h \in Seq(Range(h)) /\ \A a \in Range(h) : Evidence(a)

(* A caption's record. *)
IsCaption(cap) ==
  /\ DOMAIN cap = {"start", "end", "speaker", "manual", "superseded"}
  /\ cap.start \in Int /\ cap.end \in Int

NamesInv ==
  /\ EvidenceSeq(nmHistory) /\ nmRetention \in Int /\ nmMark \in Int
  /\ DOMAIN nmCaps = Captions /\ \A c \in Captions : IsCaption(nmCaps[c])
  /\ \A c \in nmRefs : /\ c \in Captions /\ nmCaps[c].start < nmCaps[c].end
                        /\ nmCaps[c].start >= nmRetention
  /\ NamesAreCurrent

-----------------------------------------------------------------------------
(* A sequence is one over its own items. *)
LEMMA OwnItems ==
  ASSUME NEW S, NEW s \in Seq(S)
  PROVE  /\ s \in Seq(Range(s)) /\ Range(s) \subseteq S
         /\ Len(s) \in Nat /\ DOMAIN s = 1 .. Len(s)
         /\ \A e : e \in Range(s) <=> \E i \in 1 .. Len(s) : e = s[i]
<1>1. Len(s) \in Nat /\ DOMAIN s = 1 .. Len(s) /\ s \in [1 .. Len(s) -> S]
  OBVIOUS
<1>2. \A e : e \in Range(s) <=> \E i \in 1 .. Len(s) : e = s[i]
  BY <1>1 DEF Range
<1>3. Range(s) \subseteq S
  BY <1>1, <1>2
<1>4. s \in [1 .. Len(s) -> Range(s)]
  BY <1>1, <1>2
<1>5. s \in Seq(Range(s))
  BY <1>1, <1>4
<1> QED
  BY <1>1, <1>2, <1>3, <1>5

(* One assignment more. *)
LEMMA MoreEvidence ==
  ASSUME NEW h, EvidenceSeq(h), NEW a, Evidence(a)
  PROVE  EvidenceSeq(Append(h, a)) /\ Range(Append(h, a)) = Range(h) \cup {a}
<1>1. PICK g : g = Append(h, a)
  OBVIOUS
<1>2. PICK S : S = Range(h) \cup {a}
  OBVIOUS
<1>3. h \in Seq(S) /\ a \in S
  <2>1. h \in Seq(Range(h)) /\ Range(h) \subseteq S
    BY <1>2 DEF EvidenceSeq
  <2>2. h \in Seq(S)
    BY <2>1, SeqMonotonic
  <2> QED
    BY <1>2, <2>2
<1>4. /\ g \in Seq(S) /\ Len(g) = Len(h) + 1 /\ g[Len(h) + 1] = a
      /\ \A i \in 1 .. Len(h) : g[i] = h[i]
  BY <1>1, <1>3, AppendProperties
<1>5. /\ Len(h) \in Nat /\ \A e : e \in Range(h) <=> \E i \in 1 .. Len(h) : e = h[i]
      /\ g \in Seq(Range(g)) /\ Range(g) \subseteq S
      /\ \A e : e \in Range(g) <=> \E i \in 1 .. Len(g) : e = g[i]
  BY <1>3, <1>4, OwnItems
<1>6. S \subseteq Range(g)
  <2> SUFFICES ASSUME NEW e \in S PROVE \E i \in 1 .. Len(g) : e = g[i]
    BY <1>5
  <2>1. CASE e = a
    <3>1. Len(h) + 1 \in 1 .. Len(g)
      BY <1>4, <1>5
    <3> QED
      BY <1>4, <2>1, <3>1
  <2>2. CASE e \in Range(h)
    <3>1. PICK i \in 1 .. Len(h) : e = h[i]
      BY <1>5, <2>2
    <3>2. i \in 1 .. Len(g)
      BY <1>4, <1>5
    <3> QED
      BY <1>4, <3>1, <3>2
  <2> QED
    BY <1>2, <2>1, <2>2
<1>7. Range(g) = S
  BY <1>5, <1>6
<1>8. EvidenceSeq(g)
  BY <1>2, <1>5, <1>7 DEF EvidenceSeq
<1> QED
  BY <1>1, <1>2, <1>7, <1>8

(* One assignment less: all others stay. *)
LEMMA WithoutOne ==
  ASSUME NEW S, NEW s \in Seq(S), NEW i \in 1 .. Len(s)
  PROVE  /\ RemoveAt(s, i) \in Seq(S) /\ Range(RemoveAt(s, i)) \subseteq Range(s)
         /\ \A e \in Range(s) : e = s[i] \/ e \in Range(RemoveAt(s, i))
<1>1. PICK p : p = SubSeq(s, 1, i - 1)
  OBVIOUS
<1>2. PICK q : q = SubSeq(s, i + 1, Len(s))
  OBVIOUS
<1>3. PICK r : r = RemoveAt(s, i)
  OBVIOUS
<1>4. r = p \o q
  BY <1>1, <1>2, <1>3 DEF RemoveAt
<1>5. Len(s) \in Nat /\ \A e : e \in Range(s) <=> \E j \in 1 .. Len(s) : e = s[j]
  BY OwnItems
<1>6. p \in Seq(S) /\ Len(p) = i - 1 /\ \A j \in 1 .. i - 1 : p[j] = s[j]
  <2>1. \A j \in 1 .. i - 1 : s[j] \in S
    BY <1>5
  <2>2. /\ p \in Seq(S) /\ Len(p) = (IF 1 <= i - 1 THEN i - 1 - 1 + 1 ELSE 0)
        /\ \A j \in 1 .. i - 1 - 1 + 1 : p[j] = s[1 + j - 1]
    BY <1>1, <1>5, <2>1, SubSeqProperties
  <2> QED
    BY <1>5, <2>2
<1>7. q \in Seq(S) /\ Len(q) = Len(s) - i /\ \A j \in 1 .. Len(s) - i : q[j] = s[i + j]
  <2>1. PICK f : f = i + 1
    OBVIOUS
  <2>2. f \in Int /\ Len(s) \in Int /\ \A j \in f .. Len(s) : s[j] \in S
    BY <1>5, <2>1
  <2>3. /\ q \in Seq(S) /\ Len(q) = (IF f <= Len(s) THEN Len(s) - f + 1 ELSE 0)
        /\ \A j \in 1 .. Len(s) - f + 1 : q[j] = s[f + j - 1]
    BY <1>2, <2>1, <2>2, SubSeqProperties
  <2>4. Len(s) - f + 1 = Len(s) - i /\ \A j \in 1 .. Len(s) - i : f + j - 1 = i + j
    BY <1>5, <2>1
  <2> QED
    BY <1>5, <2>1, <2>3, <2>4
<1>8. /\ r \in Seq(S) /\ Len(r) = Len(s) - 1
      /\ \A j \in 1 .. Len(s) - 1 : r[j] = IF j < i THEN s[j] ELSE s[j + 1]
  <2>1. /\ r \in Seq(S) /\ Len(r) = Len(p) + Len(q)
        /\ \A j \in 1 .. Len(p) + Len(q) : r[j] = IF j <= Len(p) THEN p[j] ELSE q[j - Len(p)]
    BY <1>4, <1>6, <1>7, ConcatProperties
  <2>2. ASSUME NEW j \in 1 .. Len(s) - 1 PROVE r[j] = IF j < i THEN s[j] ELSE s[j + 1]
    <3>1. j \in 1 .. Len(p) + Len(q)
      BY <1>5, <1>6, <1>7
    <3>2. CASE j < i
      <4>1. j <= Len(p) /\ j \in 1 .. i - 1
        BY <1>5, <1>6, <3>2
      <4> QED
        BY <1>6, <2>1, <3>1, <3>2, <4>1
    <3>3. CASE ~(j < i)
      <4>1. ~(j <= Len(p)) /\ j - Len(p) \in 1 .. Len(s) - i /\ i + (j - Len(p)) = j + 1
        BY <1>5, <1>6, <3>3
      <4> QED
        BY <1>7, <2>1, <3>1, <3>3, <4>1
    <3> QED
      BY <3>2, <3>3
  <2> QED
    BY <1>5, <1>6, <1>7, <2>1, <2>2
<1>9. \A e : e \in Range(r) <=> \E j \in 1 .. Len(r) : e = r[j]
  BY <1>8, OwnItems
<1>10. Range(r) \subseteq Range(s)
  <2> SUFFICES ASSUME NEW j \in 1 .. Len(r) PROVE \E k \in 1 .. Len(s) : r[j] = s[k]
    BY <1>5, <1>9
  <2>1. j \in 1 .. Len(s) /\ j + 1 \in 1 .. Len(s) /\ j \in 1 .. Len(s) - 1
    BY <1>5, <1>8
  <2> QED
    BY <1>8, <2>1
<1>11. ASSUME NEW e \in Range(s), e # s[i] PROVE e \in Range(r)
  <2>1. PICK k \in 1 .. Len(s) : e = s[k]
    BY <1>5
  <2>2. CASE k < i
    <3>1. k \in 1 .. Len(s) - 1 /\ k \in 1 .. Len(r)
      BY <1>5, <1>8, <2>2
    <3> QED
      BY <1>8, <1>9, <2>1, <2>2, <3>1
  <2>3. CASE k > i
    <3>1. PICK l : l = k - 1
      OBVIOUS
    <3>2. l \in 1 .. Len(s) - 1 /\ l \in 1 .. Len(r) /\ ~(l < i) /\ l + 1 = k
      BY <1>5, <1>8, <2>3, <3>1
    <3> QED
      BY <1>8, <1>9, <2>1, <3>2
  <2> QED
    BY <1>11, <2>1, <2>2, <2>3
<1> QED
  BY <1>3, <1>8, <1>10, <1>11

(* What is not expired is kept. *)
LEMMA UnexpiredStay ==
  ASSUME NEW h, EvidenceSeq(h), NEW mark
  PROVE  /\ Unexpired(h, mark) \in Seq(Range(h))
         /\ Range(Unexpired(h, mark)) = {a \in Range(h) : a.end > Expiry(mark)}
<1>1. PICK keep : keep = {i \in DOMAIN h : h[i].end > Expiry(mark)}
  OBVIOUS
<1>2. PICK r : r = KeepAt(h, keep)
  OBVIOUS
<1>3. Unexpired(h, mark) = r
  BY <1>1, <1>2 DEF Unexpired, Filter
<1>4. h \in Seq(Range(h)) /\ keep \in SUBSET DOMAIN h
  BY <1>1 DEF EvidenceSeq
<1>5. r \in Seq(Range(h)) /\ KeepsInOrder(h, keep)
  BY <1>2, <1>4, KeepAtProperties
<1>6. /\ \A e : e \in Range(h) <=> \E i \in 1 .. Len(h) : e = h[i]
      /\ \A e : e \in Range(r) <=> \E i \in 1 .. Len(r) : e = r[i]
      /\ DOMAIN h = 1 .. Len(h)
  BY <1>4, <1>5, OwnItems
<1>7. /\ Len(r) = Cardinality(keep)
      /\ \A k \in 1 .. Len(r) : Nth(keep, k) \in keep /\ r[k] = h[Nth(keep, k)]
      /\ \A i \in keep : \E k \in 1 .. Len(r) : Nth(keep, k) = i
  BY <1>2, <1>5 DEF KeepsInOrder
<1>8. Range(r) \subseteq {a \in Range(h) : a.end > Expiry(mark)}
  BY <1>1, <1>6, <1>7
<1>9. {a \in Range(h) : a.end > Expiry(mark)} \subseteq Range(r)
  <2> SUFFICES ASSUME NEW i \in 1 .. Len(h), h[i].end > Expiry(mark) PROVE h[i] \in Range(r)
    BY <1>6
  <2>1. i \in keep
    BY <1>1, <1>6
  <2>2. PICK k \in 1 .. Len(r) : Nth(keep, k) = i
    BY <1>7, <2>1
  <2> QED
    BY <1>6, <1>7, <2>2
<1> QED
  BY <1>3, <1>5, <1>8, <1>9

(* There is an oldest assignment. *)
LEMMA OldestExists ==
  ASSUME NEW h, EvidenceSeq(h), h # <<>>
  PROVE  Oldest(h) \in 1 .. Len(h)
<1>1. /\ h \in Seq(Range(h)) /\ Len(h) \in Nat /\ DOMAIN h = 1 .. Len(h)
      /\ \A e : e \in Range(h) <=> \E i \in 1 .. Len(h) : e = h[i]
  BY OwnItems DEF EvidenceSeq
<1>2. 1 \in 1 .. Len(h)
  BY <1>1, EmptySeq
<1>3. \A i \in 1 .. Len(h) : h[i].end \in Nat
  BY <1>1 DEF EvidenceSeq, Evidence
<1>4. PICK E : E = {h[i].end : i \in 1 .. Len(h)}
  OBVIOUS
<1>5. PICK m \in E : \A e \in E : m <= e
  <2>1. E \in SUBSET Nat /\ E # {}
    BY <1>2, <1>3, <1>4
  <2> QED
    BY <2>1, LeastNatural
<1>6. PICK T : T = {i \in 1 .. Len(h) : h[i].end = m}
  OBVIOUS
<1>7. PICK k \in T : \A i \in T : k <= i
  <2>1. T \in SUBSET Nat /\ T # {}
    BY <1>1, <1>4, <1>6
  <2> QED
    BY <2>1, LeastNatural
<1>8. k \in DOMAIN h /\ \A j \in DOMAIN h : h[k].end <= h[j].end
  BY <1>1, <1>4, <1>5, <1>6, <1>7
<1>9. \A j \in 1 .. k - 1 : h[k].end < h[j].end
  <2> SUFFICES ASSUME NEW j \in 1 .. k - 1 PROVE h[k].end < h[j].end
    OBVIOUS
  <2>1. j \in 1 .. Len(h) /\ k \in 1 .. Len(h) /\ ~(k <= j)
    BY <1>1, <1>6, <1>7
  <2>2. h[j].end # m /\ h[k].end = m
    BY <1>6, <1>7, <2>1
  <2>3. h[k].end <= h[j].end /\ h[k].end \in Nat /\ h[j].end \in Nat
    BY <1>1, <1>3, <1>8, <2>1
  <2> QED
    BY <2>2, <2>3
<1>10. \E i \in DOMAIN h : /\ \A j \in DOMAIN h : h[i].end <= h[j].end
                           /\ \A j \in 1 .. i - 1 : h[i].end < h[j].end
  BY <1>8, <1>9
<1> QED
  BY <1>1, <1>10 DEF Oldest

-----------------------------------------------------------------------------
(* What _prune drops ends before its floor. *)
LEMMA PrunedParts ==
  ASSUME History \in Int, MaxHistory \in Nat, nmRetention \in Int,
         NEW h, EvidenceSeq(h), NEW confirmed, NEW mark \in Int, NEW refs, NEW caps,
         NEW p, p = Pruned(h, confirmed, mark, refs, caps)
  PROVE  /\ EvidenceSeq(p.history) /\ Range(p.history) \subseteq Range(h)
         /\ p.floor \in Int /\ nmRetention <= p.floor
         /\ \A a \in Range(h) : a \in Range(p.history) \/ a.end <= p.floor
         /\ p.refs = {c \in refs : caps[c].start >= p.floor}
         /\ p.confirmed = {q \in confirmed : \E a \in Range(p.history) : a.candidate = q.candidate}
<1>1. PICK kept : kept = Unexpired(h, mark)
  OBVIOUS
<1>2. /\ kept \in Seq(Range(h)) /\ Range(kept) = {a \in Range(h) : a.end > Expiry(mark)}
      /\ kept \in Seq(Range(kept)) /\ Len(kept) \in Nat
      /\ \A e : e \in Range(kept) <=> \E i \in 1 .. Len(kept) : e = kept[i]
  <2>1. kept \in Seq(Range(h)) /\ Range(kept) = {a \in Range(h) : a.end > Expiry(mark)}
    BY <1>1, UnexpiredStay
  <2> QED
    BY <2>1, OwnItems
<1>3. EvidenceSeq(kept)
  BY <1>2 DEF EvidenceSeq
<1>4. Expiry(mark) \in Int /\ nmRetention <= Expiry(mark)
  BY DEF Expiry, Later
<1>5. \A a \in Range(h) : a.end \in Nat
  BY DEF EvidenceSeq, Evidence
<1>6. /\ p.refs = {c \in refs : caps[c].start >= p.floor}
      /\ p.confirmed = {q \in confirmed : \E a \in Range(p.history) : a.candidate = q.candidate}
  BY DEF Pruned
<1>7. CASE Len(kept) > MaxHistory
  <2>1. PICK k : k = Oldest(kept)
    OBVIOUS
  <2>2. k \in 1 .. Len(kept)
    <3>1. kept # <<>>
      BY <1>2, <1>7
    <3> QED
      BY <1>3, <2>1, <3>1, OldestExists
  <2>3. p.history = RemoveAt(kept, k) /\ p.floor = Later(Expiry(mark), kept[k].end)
    BY <1>1, <1>7, <2>1 DEF Pruned
  <2>4. /\ p.history \in Seq(Range(kept)) /\ Range(p.history) \subseteq Range(kept)
        /\ \A e \in Range(kept) : e = kept[k] \/ e \in Range(p.history)
    BY <1>2, <2>2, <2>3, WithoutOne
  <2>5. EvidenceSeq(p.history)
    <3>1. p.history \in Seq(Range(p.history))
      BY <2>4, OwnItems
    <3> QED
      BY <1>3, <2>4, <3>1 DEF EvidenceSeq
  <2>6. kept[k] \in Range(kept) /\ kept[k].end \in Nat
    BY <1>2, <1>5, <2>2
  <2>7. p.floor \in Int /\ Expiry(mark) <= p.floor /\ kept[k].end <= p.floor
    BY <1>4, <2>3, <2>6 DEF Later
  <2>8. ASSUME NEW a \in Range(h), a \notin Range(p.history) PROVE a.end <= p.floor
    <3>1. CASE a \in Range(kept)
      BY <2>4, <2>7, <2>8, <3>1
    <3>2. CASE a \notin Range(kept)
      <4>1. ~(a.end > Expiry(mark)) /\ a.end \in Nat
        BY <1>2, <1>5, <3>2
      <4> QED
        BY <1>4, <2>7, <4>1
    <3> QED
      BY <3>1, <3>2
  <2>9. nmRetention <= p.floor
    BY <1>4, <2>7
  <2>10. Range(p.history) \subseteq Range(h)
    BY <1>2, <2>4
  <2>11. \A a \in Range(h) : a \in Range(p.history) \/ a.end <= p.floor
    BY <2>8
  <2> QED
    BY <1>6, <2>5, <2>7, <2>9, <2>10, <2>11
<1>8. CASE ~(Len(kept) > MaxHistory)
  <2>1. p.history = kept /\ p.floor = Expiry(mark)
    BY <1>1, <1>8 DEF Pruned
  <2>2. ASSUME NEW a \in Range(h), a \notin Range(p.history) PROVE a.end <= p.floor
    <3>1. ~(a.end > Expiry(mark)) /\ a.end \in Nat
      BY <1>2, <1>5, <2>1, <2>2
    <3> QED
      BY <1>4, <2>1, <3>1
  <2> QED
    BY <1>2, <1>3, <1>4, <1>6, <2>1, <2>2
<1> QED
  BY <1>7, <1>8

(* Units of audio are numbers. *)
LEMMA SpanUnits ==
  ASSUME MaxAudio \in Nat, NEW a \in Int, NEW b \in Int, NEW u \in Span(a, b)
  PROVE  u \in Int /\ a <= u /\ u < b
<1>1. 0 .. (MaxAudio - 1) \subseteq Int
  OBVIOUS
<1> QED
  BY <1>1 DEF Span

(* The decision depends on the evidence about the caption's audio only. *)
LEMMA DecisionAgrees ==
  ASSUME NEW cap, NEW dap, cap.start = dap.start, cap.end = dap.end,
         NEW h, NEW g, NEW c, NEW d,
         \A u \in Span(cap.start, cap.end) :
           /\ EvidenceAt(u, h) = EvidenceAt(u, g)
           /\ \A a \in EvidenceAt(u, h) : Label(a, c) = Label(a, d)
  PROVE  Decision(cap, h, c) = Decision(dap, g, d)
<1>1. PICK units : units = Span(cap.start, cap.end)
  OBVIOUS
<1>2. \A u \in units : Named(u, h, c) = Named(u, g, d)
  <2> SUFFICES ASSUME NEW u \in units PROVE Named(u, h, c) = Named(u, g, d)
    OBVIOUS
  <2>1. EvidenceAt(u, h) = EvidenceAt(u, g) /\ \A a \in EvidenceAt(u, h) : Label(a, c) = Label(a, d)
    BY <1>1
  <2>2. {Label(a, c) : a \in EvidenceAt(u, h)} = {Label(a, d) : a \in EvidenceAt(u, g)}
    BY <2>1
  <2> QED
    BY <2>2 DEF Named
<1>3. \A u \in units : Unlabelled(u, h, c) = Unlabelled(u, g, d)
  BY <1>1 DEF Unlabelled
<1>4. \A u \in units : Unknown(u, h, c) <=> Unknown(u, g, d)
  BY <1>3 DEF Unknown
<1>5. \A u \in units : Conflict(u, h, c) <=> Conflict(u, g, d)
  BY <1>2, <1>3 DEF Conflict
<1>6. PICK voices : voices = UNION {Named(u, h, c) : u \in units}
  OBVIOUS
<1>7. PICK refused : refused = {u \in units : Unknown(u, h, c) \/ Conflict(u, h, c)}
  OBVIOUS
<1>8. PICK spoken : spoken = {u \in units : Named(u, h, c) # {}}
  OBVIOUS
<1>9. /\ voices = UNION {Named(u, g, d) : u \in units}
      /\ refused = {u \in units : Unknown(u, g, d) \/ Conflict(u, g, d)}
      /\ spoken = {u \in units : Named(u, g, d) # {}}
  <2>1. {Named(u, h, c) : u \in units} = {Named(u, g, d) : u \in units}
    BY <1>2
  <2> QED
    BY <1>2, <1>4, <1>5, <1>6, <1>7, <1>8, <2>1
<1>10. Decision(cap, h, c) = IF /\ Cardinality(voices) = 1 /\ refused = {}
                                /\ 10 * Cardinality(spoken) >= 8 * Cardinality(units)
                             THEN CHOOSE s \in voices : TRUE ELSE 0
  BY <1>1, <1>6, <1>7, <1>8 DEF Decision
<1>11. Decision(dap, g, d) = IF /\ Cardinality(voices) = 1 /\ refused = {}
                                /\ 10 * Cardinality(spoken) >= 8 * Cardinality(units)
                             THEN CHOOSE s \in voices : TRUE ELSE 0
  BY <1>1, <1>9 DEF Decision
<1> QED
  BY <1>10, <1>11

(* _prune changes no decision about a caption it leaves tracked. *)
LEMMA PruningKeeps ==
  ASSUME MaxAudio \in Nat, History \in Int, MaxHistory \in Nat, nmRetention \in Int,
         NEW h, EvidenceSeq(h), NEW confirmed, NEW mark \in Int, NEW refs, NEW caps,
         NEW p, p = Pruned(h, confirmed, mark, refs, caps),
         NEW cap, IsCaption(cap), cap.start >= p.floor
  PROVE  Decision(cap, p.history, p.confirmed) = Decision(cap, h, confirmed)
<1>1. /\ Range(p.history) \subseteq Range(h) /\ p.floor \in Int
      /\ \A a \in Range(h) : a \in Range(p.history) \/ a.end <= p.floor
      /\ p.confirmed = {q \in confirmed : \E a \in Range(p.history) : a.candidate = q.candidate}
  BY PrunedParts
<1>2. ASSUME NEW u \in Span(cap.start, cap.end)
      PROVE  /\ EvidenceAt(u, p.history) = EvidenceAt(u, h)
             /\ \A a \in EvidenceAt(u, p.history) : Label(a, p.confirmed) = Label(a, confirmed)
  <2>1. u \in Int /\ p.floor <= u
    <3>1. cap.start \in Int /\ cap.end \in Int /\ p.floor <= cap.start
      BY <1>1 DEF IsCaption
    <3>2. u \in Int /\ cap.start <= u
      BY <3>1, SpanUnits
    <3> QED
      BY <1>1, <3>1, <3>2
  <2>2. \A a \in Range(h) : u \in a.units => a \in Range(p.history)
    <3> SUFFICES ASSUME NEW a \in Range(h), u \in a.units, a.end <= p.floor PROVE FALSE
      BY <1>1
    <3>1. a.end \in Nat /\ u < a.end
      BY DEF EvidenceSeq, Evidence
    <3> QED
      BY <1>1, <2>1, <3>1
  <2>3. EvidenceAt(u, p.history) = EvidenceAt(u, h)
    BY <1>1, <2>2 DEF EvidenceAt
  <2>4. ASSUME NEW a \in EvidenceAt(u, p.history) PROVE Label(a, p.confirmed) = Label(a, confirmed)
    <3>1. a \in Range(p.history)
      BY DEF EvidenceAt
    <3>2. {q \in p.confirmed : q.candidate = a.candidate} = {q \in confirmed : q.candidate = a.candidate}
      BY <1>1, <3>1
    <3> QED
      BY <3>2 DEF Label
  <2> QED
    BY <2>3, <2>4
<1> QED
  BY <1>2, DecisionAgrees

(* Two histories, with what each knows of candidates, say the same about a caption's audio. *)
SameEvidence(cap, h, c, g, d) ==
  \A u \in Span(cap.start, cap.end) :
    /\ EvidenceAt(u, h) = EvidenceAt(u, g)
    /\ \A e \in EvidenceAt(u, h) : Label(e, c) = Label(e, d)

(* What a history has beyond another one ends before a floor. *)
KeptFrom(floor, h, g) == \A e \in Range(h) : e \in Range(g) \/ e.end <= floor

(* A new assignment leaves the evidence about other audio, and what it says, alone. *)
LEMMA UnaffectedSame ==
  ASSUME MaxAudio \in Nat, NEW h, EvidenceSeq(h), NEW a, Evidence(a),
         NEW known, NEW became, became.candidate = a.candidate,
         NEW confirmed, confirmed = (IF a.status = "new" THEN known \union {became} ELSE known),
         NEW more, Range(more) = Range(h) \cup {a}, NEW g, NEW floor \in Int, KeptFrom(floor, more, g),
         NEW cap, IsCaption(cap), cap.start >= floor,
         Span(cap.start, cap.end) \cap Affected(a, g) = {}
  PROVE  SameEvidence(cap, more, confirmed, h, known)
<1>1. ASSUME NEW u \in Span(cap.start, cap.end)
      PROVE  /\ EvidenceAt(u, more) = EvidenceAt(u, h)
             /\ \A e \in EvidenceAt(u, more) : Label(e, confirmed) = Label(e, known)
  <2>1. u \in Int /\ floor <= u
    <3>1. cap.start \in Int /\ cap.end \in Int /\ floor <= cap.start
      BY DEF IsCaption
    <3>2. u \in Int /\ cap.start <= u
      BY <3>1, SpanUnits
    <3> QED
      BY <3>1, <3>2
  <2>2. u \notin Affected(a, g) /\ u \notin a.units
    BY <1>1 DEF Affected
  <2>3. EvidenceAt(u, more) = EvidenceAt(u, h)
    BY <2>2 DEF EvidenceAt
  <2>4. ASSUME NEW e \in EvidenceAt(u, h), Label(e, confirmed) # Label(e, known) PROVE FALSE
    <3>1. e \in Range(h) /\ u \in e.units
      BY DEF EvidenceAt
    <3>2. e.end \in Nat /\ u < e.end
      BY <3>1 DEF EvidenceSeq, Evidence
    <3>3. e \in Range(g)
      BY <2>1, <3>1, <3>2 DEF KeptFrom
    <3>4. e.status = "provisional" /\ a.status = "new"
      BY <2>4 DEF Label
    <3>5. e.candidate = a.candidate
      <4> SUFFICES ASSUME e.candidate # a.candidate PROVE FALSE
        OBVIOUS
      <4>1. confirmed = known \cup {became}
        BY <3>4
      <4>2. {q \in confirmed : q.candidate = e.candidate} = {q \in known : q.candidate = e.candidate}
        BY <4>1
      <4> QED
        BY <2>4, <4>2 DEF Label
    <3>6. e.units \subseteq Affected(a, g)
      BY <3>3, <3>4, <3>5 DEF Affected
    <3> QED
      BY <2>2, <3>1, <3>6
  <2> QED
    BY <2>3, <2>4
<1> QED
  BY <1>1 DEF SameEvidence

-----------------------------------------------------------------------------
(* Rechecked captions keep their interval, and get the decision. *)
LEMMA PatchedParts ==
  ASSUME NEW caps, \A c \in Captions : IsCaption(caps[c]), NEW refs, NEW h, NEW confirmed,
         NEW new, new = Patched(caps, refs, h, confirmed)
  PROVE  /\ DOMAIN new = Captions
         /\ \A c \in Captions :
              /\ IsCaption(new[c]) /\ new[c].start = caps[c].start /\ new[c].end = caps[c].end
              /\ new[c].manual = caps[c].manual /\ new[c].superseded = caps[c].superseded
              /\ c \notin refs => new[c] = caps[c]
              /\ c \in refs /\ ~new[c].manual /\ ~new[c].superseded =>
                   new[c].speaker = Decision(caps[c], h, confirmed)
<1>1. DOMAIN new = Captions
  BY DEF Patched
<1>2. ASSUME NEW c \in Captions
      PROVE  /\ IsCaption(new[c]) /\ new[c].start = caps[c].start /\ new[c].end = caps[c].end
             /\ new[c].manual = caps[c].manual /\ new[c].superseded = caps[c].superseded
             /\ c \notin refs => new[c] = caps[c]
             /\ c \in refs /\ ~new[c].manual /\ ~new[c].superseded =>
                  new[c].speaker = Decision(caps[c], h, confirmed)
  <2>1. PICK cap : cap = caps[c]
    OBVIOUS
  <2>2. PICK s : s = Decision(cap, h, confirmed)
    OBVIOUS
  <2>3. new[c] = IF c \in refs /\ ~cap.superseded /\ ~cap.manual THEN [cap EXCEPT !.speaker = s] ELSE cap
    BY <2>1, <2>2 DEF Patched
  <2>4. DOMAIN cap = {"start", "end", "speaker", "manual", "superseded"} /\ cap.start \in Int /\ cap.end \in Int
    BY <2>1 DEF IsCaption
  <2>5. PICK new1 : new1 = [cap EXCEPT !.speaker = s]
    OBVIOUS
  <2>6. /\ DOMAIN new1 = {"start", "end", "speaker", "manual", "superseded"} /\ new1.speaker = s
        /\ new1.start = cap.start /\ new1.end = cap.end
        /\ new1.manual = cap.manual /\ new1.superseded = cap.superseded
    BY <2>4, <2>5
  <2>7. new[c] = IF c \in refs /\ ~cap.superseded /\ ~cap.manual THEN new1 ELSE cap
    BY <2>3, <2>5
  <2> QED
    BY <2>1, <2>2, <2>4, <2>6, <2>7 DEF IsCaption
<1> QED
  BY <1>1, <1>2

(* SpeakerCaptionReducer.observe keeps names current. *)
LEMMA ReduceKeeps ==
  ASSUME MaxAudio \in Nat, History \in Int, MaxHistory \in Nat, NamesInv,
         NEW a, Evidence(a), Reduce(a)
  PROVE  NamesInv'
<1>1. CASE a.end <= nmRetention
  <2>1. UNCHANGED <<nmHistory, nmConfirmed, nmMark, nmRetention, nmRefs, nmCaps>>
    BY <1>1 DEF Reduce, reducerVars
  <2> QED
    BY <2>1 DEF NamesInv, NamesAreCurrent
<1>2. CASE ~(a.end <= nmRetention)
  <2>1. PICK confirmed : confirmed = (IF a.status = "new"
          THEN nmConfirmed \union {[candidate |-> a.candidate, speaker |-> a.speaker]} ELSE nmConfirmed)
    OBVIOUS
  <2>2. PICK mark : mark = Later(nmMark, a.end)
    OBVIOUS
  <2>3. PICK h : h = Append(nmHistory, a)
    OBVIOUS
  <2>4. PICK p : p = Pruned(h, confirmed, mark, nmRefs, nmCaps)
    OBVIOUS
  <2>5. PICK hit : hit = {c \in p.refs : Span(nmCaps[c].start, nmCaps[c].end) \cap Affected(a, p.history) # {}}
    OBVIOUS
  <2>6. /\ nmHistory' = p.history /\ nmConfirmed' = p.confirmed /\ nmMark' = mark /\ nmRetention' = p.floor
        /\ nmCaps' = Patched(nmCaps, hit, p.history, p.confirmed)
        /\ nmRefs' = p.refs \ {c \in hit : nmCaps[c].superseded}
    BY <1>2, <2>1, <2>2, <2>3, <2>4, <2>5 DEF Reduce
  <2>7. /\ EvidenceSeq(nmHistory) /\ nmRetention \in Int /\ nmMark \in Int /\ a.end \in Nat
        /\ \A c \in Captions : IsCaption(nmCaps[c])
        /\ \A c \in nmRefs : c \in Captions /\ nmCaps[c].start < nmCaps[c].end
    BY DEF NamesInv, Evidence
  <2>8. mark \in Int
    BY <2>2, <2>7 DEF Later
  <2>9. EvidenceSeq(h)
    BY <2>3, <2>7, MoreEvidence
  <2>10. /\ EvidenceSeq(p.history) /\ p.floor \in Int
         /\ \A e \in Range(h) : e \in Range(p.history) \/ e.end <= p.floor
         /\ p.refs = {c \in nmRefs : nmCaps[c].start >= p.floor}
    BY <2>4, <2>7, <2>8, <2>9, PrunedParts
  <2>11. PICK new : new = Patched(nmCaps, hit, p.history, p.confirmed)
    OBVIOUS
  <2>12. /\ DOMAIN new = Captions
         /\ \A c \in Captions :
              /\ IsCaption(new[c]) /\ new[c].start = nmCaps[c].start /\ new[c].end = nmCaps[c].end
              /\ new[c].manual = nmCaps[c].manual /\ new[c].superseded = nmCaps[c].superseded
              /\ c \notin hit => new[c] = nmCaps[c]
              /\ c \in hit /\ ~new[c].manual /\ ~new[c].superseded =>
                   new[c].speaker = Decision(nmCaps[c], p.history, p.confirmed)
    BY <2>7, <2>11, PatchedParts
  <2>13. ASSUME NEW c \in nmRefs, nmCaps[c].start >= p.floor, c \notin hit \/ ~nmCaps[c].superseded,
                ~new[c].manual, ~new[c].superseded
         PROVE  new[c].speaker = Decision(new[c], p.history, p.confirmed)
    <3>1. c \in Captions /\ c \in p.refs /\ IsCaption(nmCaps[c])
      BY <2>7, <2>10, <2>13
    <3>2. new[c].start = nmCaps[c].start /\ new[c].end = nmCaps[c].end
      BY <2>12, <3>1
    <3>3. Decision(new[c], p.history, p.confirmed) = Decision(nmCaps[c], p.history, p.confirmed)
      BY <3>2, DecisionAgrees
    <3>4. CASE c \in hit
      BY <2>12, <2>13, <3>1, <3>3, <3>4
    <3>5. CASE c \notin hit
      <4>1. Span(nmCaps[c].start, nmCaps[c].end) \cap Affected(a, p.history) = {}
        BY <2>5, <3>1, <3>5
      <4>2. Decision(nmCaps[c], p.history, p.confirmed) = Decision(nmCaps[c], h, confirmed)
        BY <2>4, <2>7, <2>8, <2>9, <2>13, <3>1, PruningKeeps
      <4>3. Decision(nmCaps[c], h, confirmed) = Decision(nmCaps[c], nmHistory, nmConfirmed)
        <5>1. PICK cap : cap = nmCaps[c]
          OBVIOUS
        <5>2. PICK known : known = nmConfirmed
          OBVIOUS
        <5>3. PICK became : became = [candidate |-> a.candidate, speaker |-> a.speaker]
          OBVIOUS
        <5>4. /\ became.candidate = a.candidate
              /\ confirmed = (IF a.status = "new" THEN known \union {became} ELSE known)
          BY <2>1, <5>2, <5>3
        <5>5. KeptFrom(p.floor, h, p.history) /\ Range(h) = Range(nmHistory) \cup {a}
          BY <2>3, <2>7, <2>10, MoreEvidence DEF KeptFrom
        <5>6. /\ IsCaption(cap) /\ cap.start >= p.floor /\ p.floor \in Int /\ EvidenceSeq(nmHistory)
              /\ Span(cap.start, cap.end) \cap Affected(a, p.history) = {}
          BY <2>7, <2>10, <2>13, <3>1, <4>1, <5>1
        <5>7. SameEvidence(cap, h, confirmed, nmHistory, known)
          BY <5>4, <5>5, <5>6, UnaffectedSame
        <5>8. Decision(cap, h, confirmed) = Decision(cap, nmHistory, known)
          BY <5>7, DecisionAgrees DEF SameEvidence
        <5> QED
          BY <5>1, <5>2, <5>8
      <4>4. new[c] = nmCaps[c]
        BY <2>12, <3>1, <3>5
      <4>5. nmCaps[c].speaker = Decision(nmCaps[c], nmHistory, nmConfirmed)
        BY <2>13, <4>4 DEF NamesInv, NamesAreCurrent
      <4> QED
        BY <3>3, <4>2, <4>3, <4>4, <4>5
    <3> QED
      BY <3>4, <3>5
  <2>14. nmCaps' = new
    BY <2>6, <2>11
  <2>15. \A c \in nmRefs' : /\ c \in nmRefs /\ c \in Captions /\ nmCaps[c].start >= p.floor
                            /\ c \notin hit \/ ~nmCaps[c].superseded
    BY <2>6, <2>7, <2>10
  <2>16. \A c \in nmRefs' : nmCaps'[c].start = nmCaps[c].start /\ nmCaps'[c].end = nmCaps[c].end
    BY <2>12, <2>14, <2>15
  <2>17. EvidenceSeq(nmHistory') /\ nmRetention' \in Int /\ nmMark' \in Int
    <3>1. EvidenceSeq(p.history) /\ p.floor \in Int /\ mark \in Int
      BY <2>8, <2>10
    <3>2. nmHistory' = p.history /\ nmRetention' = p.floor /\ nmMark' = mark
      BY <2>6
    <3> QED
      BY <3>1, <3>2
  <2>18. DOMAIN nmCaps' = Captions /\ \A c \in Captions : IsCaption(nmCaps'[c])
    BY <2>12, <2>14
  <2>19. \A c \in nmRefs' : /\ c \in Captions /\ nmCaps'[c].start < nmCaps'[c].end
                            /\ nmCaps'[c].start >= nmRetention'
    BY <2>6, <2>7, <2>15, <2>16
  <2>20. NamesAreCurrent'
    <3> SUFFICES ASSUME NEW c \in nmRefs', ~nmCaps'[c].manual, ~nmCaps'[c].superseded
                 PROVE  nmCaps'[c].speaker = Decision(nmCaps'[c], nmHistory', nmConfirmed')
      BY DEF NamesAreCurrent
    <3>1. new[c].speaker = Decision(new[c], p.history, p.confirmed)
      BY <2>13, <2>14, <2>15
    <3> QED
      BY <2>6, <2>14, <3>1
  <2> QED
    BY <2>17, <2>18, <2>19, <2>20 DEF NamesInv, EvidenceSeq, Evidence, IsCaption
<1> QED
  BY <1>1, <1>2

(* An assignment is about the observation it answers. *)
IsAbout(r, o) == r.assignment.end = o.end /\ r.assignment.units = Span(o.start, o.end)

(* The tracker answers an observation with an assignment about its audio. *)
LEMMA ObservedIsAbout ==
  ASSUME NEW o
  PROVE  IsAbout(Observed(o), o)
<1>1. \A state, status, speaker, candidate, reason :
        IsAbout(ObservedAs(o, state, status, speaker, candidate, reason), o)
  BY DEF ObservedAs, Assignment, IsAbout
<1>2. \A c, others, state : IsAbout(Confirm(o, c, others, state), o)
  BY <1>1 DEF Confirm
<1> QED
  BY <1>1, <1>2 DEF Observed

(* Such an assignment is evidence. *)
LEMMA AboutIsEvidence ==
  ASSUME MaxAudio \in Nat, NEW a, NEW from \in Int, a.end \in Nat, a.units = Span(from, a.end)
  PROVE  Evidence(a)
<1>1. \A u \in Span(from, a.end) : u \in Int /\ u < a.end
  BY SpanUnits
<1> QED
  BY <1>1 DEF Evidence

(* Intervals are within the audio. *)
LEMMA IntervalBounds ==
  ASSUME MaxAudio \in Nat, NEW i \in Intervals
  PROVE  i[1] \in Nat /\ i[2] \in Nat /\ i[1] < i[2]
BY DEF Intervals

-----------------------------------------------------------------------------
(* A clean stretch with a voice. *)
LEMMA ObserveVoiceKeeps ==
  ASSUME MaxAudio \in Nat, History \in Int, MaxHistory \in Nat, NamesInv,
         NEW voice, NEW i \in Intervals, NEW ready, NEW sparse,
         ObserveVoice(voice, i, ready, sparse)
  PROVE  NamesInv'
<1>1. PICK o : o = [voice |-> voice, start |-> i[1], end |-> i[2], ready |-> ready, sparse |-> sparse]
  OBVIOUS
<1>2. o.start \in Nat /\ o.end \in Nat
  BY <1>1, IntervalBounds
<1>3. CASE ready < nmClock
  <2>1. UNCHANGED <<nmHistory, nmConfirmed, nmMark, nmRetention, nmRefs, nmCaps>>
    BY <1>3 DEF ObserveVoice, reducerVars
  <2> QED
    BY <2>1 DEF NamesInv, NamesAreCurrent
<1>4. CASE ~(ready < nmClock)
  <2>1. PICK r : r = Observed(o) /\ Reduce(r.assignment)
    BY <1>1, <1>4 DEF ObserveVoice
  <2>2. IsAbout(r, o)
    BY <2>1, ObservedIsAbout
  <2>3. PICK a : a = r.assignment
    OBVIOUS
  <2>4. Evidence(a)
    BY <1>2, <2>2, <2>3, AboutIsEvidence DEF IsAbout
  <2> QED
    BY <2>1, <2>3, <2>4, ReduceKeeps
<1> QED
  BY <1>3, <1>4

(* Audio credited to nobody. *)
LEMMA ObserveNobodyKeeps ==
  ASSUME MaxAudio \in Nat, History \in Int, MaxHistory \in Nat, NamesInv,
         NEW i \in Intervals, NEW reason, ObserveNobody(i, reason)
  PROVE  NamesInv'
<1>1. PICK o : o = [start |-> i[1], end |-> i[2]]
  OBVIOUS
<1>2. PICK a : a = Assignment(o, "unknown", 0, 0, reason)
  OBVIOUS
<1>3. o.start = i[1] /\ o.end = i[2] /\ i[1] \in Nat /\ i[2] \in Nat
  BY <1>1, IntervalBounds
<1>4. a.end = o.end /\ a.units = Span(o.start, o.end)
  BY <1>2 DEF Assignment
<1>5. Evidence(a)
  BY <1>3, <1>4, AboutIsEvidence
<1>6. Reduce(a)
  BY <1>1, <1>2 DEF ObserveNobody
<1> QED
  BY <1>5, <1>6, ReduceKeeps

(* The user's and the store's steps leave the evidence alone. *)
LEMMA CaptionStepKeeps ==
  ASSUME NamesInv, UNCHANGED reducerVars,
         NEW c \in Captions, NEW new, new = nmCaps', DOMAIN new = Captions,
         \A d \in Captions \ {c} : new[d] = nmCaps[d],
         IsCaption(new[c]), new[c].start = nmCaps[c].start, new[c].end = nmCaps[c].end,
         new[c].manual \/ new[c].superseded
  PROVE  NamesInv'
<1>1. UNCHANGED <<nmHistory, nmConfirmed, nmMark, nmRetention, nmRefs>>
  BY DEF reducerVars
<1>2. \A d \in Captions : IsCaption(new[d]) /\ new[d].start = nmCaps[d].start /\ new[d].end = nmCaps[d].end
  <2> SUFFICES ASSUME NEW d \in Captions
               PROVE  IsCaption(new[d]) /\ new[d].start = nmCaps[d].start /\ new[d].end = nmCaps[d].end
    OBVIOUS
  <2>1. CASE d = c
    BY <2>1
  <2>2. CASE d # c
    BY <2>2 DEF NamesInv
  <2> QED
    BY <2>1, <2>2
<1>3. \A d \in nmRefs : /\ d \in Captions /\ new[d].start < new[d].end
                        /\ new[d].start >= nmRetention
  BY <1>2 DEF NamesInv
<1>4. NamesAreCurrent'
  <2> SUFFICES ASSUME NEW d \in nmRefs', ~nmCaps'[d].manual, ~nmCaps'[d].superseded
               PROVE  nmCaps'[d].speaker = Decision(nmCaps'[d], nmHistory', nmConfirmed')
    BY DEF NamesAreCurrent
  <2>1. d \in nmRefs /\ d \in Captions /\ d # c
    BY <1>1, <1>3
  <2>2. nmCaps'[d] = nmCaps[d] /\ ~nmCaps[d].manual /\ ~nmCaps[d].superseded
    BY <2>1
  <2>3. nmCaps[d].speaker = Decision(nmCaps[d], nmHistory, nmConfirmed)
    BY <2>1, <2>2 DEF NamesInv, NamesAreCurrent
  <2> QED
    BY <1>1, <2>2, <2>3
<1>5. EvidenceSeq(nmHistory') /\ nmRetention' \in Int /\ nmMark' \in Int
  BY <1>1 DEF NamesInv
<1>6. DOMAIN nmCaps' = Captions /\ \A d \in Captions : IsCaption(nmCaps'[d])
  BY <1>2
<1>7. \A d \in nmRefs' : /\ d \in Captions /\ nmCaps'[d].start < nmCaps'[d].end
                         /\ nmCaps'[d].start >= nmRetention'
  BY <1>1, <1>3
<1> QED
  BY <1>4, <1>5, <1>6, <1>7 DEF NamesInv, EvidenceSeq, Evidence, IsCaption

(* The user names a speaker. *)
LEMMA NameByHandKeeps ==
  ASSUME NamesInv, NEW c \in Captions, NameByHand(c)
  PROVE  NamesInv'
<1>1. PICK cap : cap = nmCaps[c]
  OBVIOUS
<1>2. PICK one : one = [cap EXCEPT !.manual = TRUE, !.speaker = MaxSpeakers + 1]
  OBVIOUS
<1>3. PICK new : new = nmCaps'
  OBVIOUS
<1>4. DOMAIN nmCaps = Captions /\ IsCaption(cap)
  BY <1>1 DEF NamesInv
<1>5. IsCaption(one) /\ one.start = cap.start /\ one.end = cap.end /\ one.manual
  BY <1>2, <1>4 DEF IsCaption
<1>6. nmCaps' = [nmCaps EXCEPT ![c] = one]
  BY <1>1, <1>2 DEF NameByHand
<1>7. DOMAIN new = Captions /\ new[c] = one /\ \A d \in Captions \ {c} : new[d] = nmCaps[d]
  BY <1>3, <1>4, <1>6
<1>8. UNCHANGED reducerVars
  BY DEF NameByHand
<1> QED
  BY <1>1, <1>3, <1>5, <1>7, <1>8, CaptionStepKeeps

(* A caption group takes the caption's place. *)
LEMMA SupersedeKeeps ==
  ASSUME NamesInv, NEW c \in Captions, Supersede(c)
  PROVE  NamesInv'
<1>1. PICK cap : cap = nmCaps[c]
  OBVIOUS
<1>2. PICK one : one = [cap EXCEPT !.superseded = TRUE]
  OBVIOUS
<1>3. PICK new : new = nmCaps'
  OBVIOUS
<1>4. DOMAIN nmCaps = Captions /\ IsCaption(cap)
  BY <1>1 DEF NamesInv
<1>5. IsCaption(one) /\ one.start = cap.start /\ one.end = cap.end /\ one.superseded
  BY <1>2, <1>4 DEF IsCaption
<1>6. nmCaps' = [nmCaps EXCEPT ![c] = one]
  BY <1>1, <1>2 DEF Supersede
<1>7. DOMAIN new = Captions /\ new[c] = one /\ \A d \in Captions \ {c} : new[d] = nmCaps[d]
  BY <1>3, <1>4, <1>6
<1>8. UNCHANGED reducerVars
  BY DEF Supersede
<1> QED
  BY <1>1, <1>3, <1>5, <1>7, <1>8, CaptionStepKeeps

(* A caption enters the store. *)
LEMMA RegisterCaptionKeeps ==
  ASSUME MaxAudio \in Nat, History \in Int, MaxHistory \in Nat, NamesInv,
         NEW c \in Captions, NEW i \in Intervals, RegisterCaption(c, i)
  PROVE  NamesInv'
<1>1. PICK one : one = [Absent EXCEPT !.start = i[1], !.end = i[2]]
  OBVIOUS
<1>2. PICK caps : caps = [nmCaps EXCEPT ![c].start = i[1], ![c].end = i[2]]
  OBVIOUS
<1>3. PICK mark : mark = Later(nmMark, i[2])
  OBVIOUS
<1>4. PICK p : p = Pruned(nmHistory, nmConfirmed, mark, nmRefs, caps)
  OBVIOUS
<1>5. i[1] \in Nat /\ i[2] \in Nat /\ i[1] < i[2]
  BY IntervalBounds
<1>6. /\ EvidenceSeq(nmHistory) /\ nmRetention \in Int /\ nmMark \in Int /\ DOMAIN nmCaps = Captions
      /\ \A d \in Captions : IsCaption(nmCaps[d])
      /\ \A d \in nmRefs : d \in Captions /\ nmCaps[d].start < nmCaps[d].end
  BY DEF NamesInv
<1>7. nmCaps[c] = Absent
  BY DEF RegisterCaption
<1>8. c \notin nmRefs
  <2>1. ~(Absent.start < Absent.end)
    BY DEF Absent
  <2> QED
    BY <1>6, <1>7, <2>1
<1>9. IsCaption(one) /\ one.start = i[1] /\ one.end = i[2]
  BY <1>1, <1>5 DEF Absent, IsCaption
<1>10. DOMAIN caps = Captions /\ caps[c] = one /\ \A d \in Captions \ {c} : caps[d] = nmCaps[d]
  <2>1. DOMAIN caps = Captions /\ \A d \in Captions \ {c} : caps[d] = nmCaps[d]
    BY <1>2, <1>6
  <2>2. caps[c] = [nmCaps[c] EXCEPT !.start = i[1], !.end = i[2]]
    BY <1>2, <1>6
  <2> QED
    BY <1>1, <1>7, <2>1, <2>2
<1>11. \A d \in Captions : IsCaption(caps[d])
  BY <1>6, <1>9, <1>10
<1>12. mark \in Int
  BY <1>3, <1>5, <1>6 DEF Later
<1>13. /\ EvidenceSeq(p.history) /\ p.floor \in Int
       /\ p.refs = {d \in nmRefs : caps[d].start >= p.floor}
  BY <1>4, <1>6, <1>12, PrunedParts
<1>14. ASSUME NEW d \in p.refs, ~caps[d].manual, ~caps[d].superseded
       PROVE  caps[d].speaker = Decision(caps[d], p.history, p.confirmed)
  <2>1. d \in nmRefs /\ d \in Captions /\ d # c /\ caps[d].start >= p.floor
    BY <1>6, <1>8, <1>13
  <2>2. caps[d] = nmCaps[d] /\ IsCaption(caps[d])
    BY <1>10, <1>11, <2>1
  <2>3. caps[d].speaker = Decision(caps[d], nmHistory, nmConfirmed)
    BY <1>14, <2>1, <2>2 DEF NamesInv, NamesAreCurrent
  <2>4. Decision(caps[d], p.history, p.confirmed) = Decision(caps[d], nmHistory, nmConfirmed)
    BY <1>4, <1>6, <1>12, <2>1, <2>2, PruningKeeps
  <2> QED
    BY <2>3, <2>4
<1>15. /\ nmHistory' = p.history /\ nmConfirmed' = p.confirmed /\ nmMark' = mark /\ nmRetention' = p.floor
       /\ IF i[1] < p.floor THEN nmCaps' = caps /\ nmRefs' = p.refs
          ELSE nmRefs' = p.refs \union {c} /\ nmCaps' = Patched(caps, {c}, p.history, p.confirmed)
  BY <1>2, <1>3, <1>4 DEF RegisterCaption
<1>16. EvidenceSeq(nmHistory') /\ nmRetention' \in Int /\ nmMark' \in Int
  <2>1. nmHistory' = p.history /\ nmRetention' = p.floor /\ nmMark' = mark
    BY <1>15
  <2> QED
    BY <1>12, <1>13, <2>1
<1>17. ASSUME NEW new, new = nmCaps', DOMAIN new = Captions, \A d \in Captions : IsCaption(new[d]),
              \A d \in nmRefs' : /\ d \in Captions /\ new[d].start < new[d].end /\ new[d].start >= p.floor
                                 /\ ~new[d].manual /\ ~new[d].superseded =>
                                      new[d].speaker = Decision(new[d], p.history, p.confirmed)
       PROVE  NamesInv'
  <2>1. NamesAreCurrent'
    <3> SUFFICES ASSUME NEW d \in nmRefs', ~nmCaps'[d].manual, ~nmCaps'[d].superseded
                 PROVE  nmCaps'[d].speaker = Decision(nmCaps'[d], nmHistory', nmConfirmed')
      BY DEF NamesAreCurrent
    <3>1. new[d].speaker = Decision(new[d], p.history, p.confirmed)
      BY <1>17
    <3> QED
      BY <1>15, <1>17, <3>1
  <2>2. DOMAIN nmCaps' = Captions /\ \A d \in Captions : IsCaption(nmCaps'[d])
    BY <1>17
  <2>3. \A d \in nmRefs' : /\ d \in Captions /\ nmCaps'[d].start < nmCaps'[d].end
                           /\ nmCaps'[d].start >= nmRetention'
    BY <1>15, <1>17
  <2> QED
    BY <1>16, <2>1, <2>2, <2>3 DEF NamesInv, EvidenceSeq, Evidence, IsCaption
<1>18. \A d \in p.refs : /\ d \in Captions /\ d # c /\ caps[d].start < caps[d].end /\ caps[d].start >= p.floor
  BY <1>6, <1>8, <1>10, <1>13
<1>19. CASE i[1] < p.floor
  <2>1. nmCaps' = caps /\ nmRefs' = p.refs
    BY <1>15, <1>19
  <2> QED
    BY <1>10, <1>11, <1>14, <1>17, <1>18, <2>1
<1>20. CASE ~(i[1] < p.floor)
  <2>1. PICK new : new = Patched(caps, {c}, p.history, p.confirmed)
    OBVIOUS
  <2>2. nmRefs' = p.refs \union {c} /\ nmCaps' = new
    BY <1>15, <1>20, <2>1
  <2>3. /\ DOMAIN new = Captions
        /\ \A d \in Captions :
             /\ IsCaption(new[d]) /\ new[d].start = caps[d].start /\ new[d].end = caps[d].end
             /\ new[d].manual = caps[d].manual /\ new[d].superseded = caps[d].superseded
             /\ d \notin {c} => new[d] = caps[d]
             /\ d \in {c} /\ ~new[d].manual /\ ~new[d].superseded =>
                  new[d].speaker = Decision(caps[d], p.history, p.confirmed)
    BY <1>11, <2>1, PatchedParts
  <2>4. ASSUME NEW d \in p.refs
        PROVE  /\ d \in Captions /\ new[d].start < new[d].end /\ new[d].start >= p.floor
               /\ ~new[d].manual /\ ~new[d].superseded =>
                    new[d].speaker = Decision(new[d], p.history, p.confirmed)
    <3>1. d \in Captions /\ d # c /\ caps[d].start < caps[d].end /\ caps[d].start >= p.floor
      BY <1>18
    <3>2. new[d] = caps[d]
      BY <2>3, <3>1
    <3> QED
      BY <1>14, <3>1, <3>2
  <2>5. /\ new[c].start < new[c].end /\ new[c].start >= p.floor
        /\ ~new[c].manual /\ ~new[c].superseded =>
             new[c].speaker = Decision(new[c], p.history, p.confirmed)
    <3>1. new[c].start = i[1] /\ new[c].end = i[2] /\ caps[c].start = i[1] /\ caps[c].end = i[2]
      BY <1>9, <1>10, <2>3
    <3>2. Decision(new[c], p.history, p.confirmed) = Decision(caps[c], p.history, p.confirmed)
      BY <3>1, DecisionAgrees
    <3>3. new[c].start < new[c].end /\ new[c].start >= p.floor
      BY <1>5, <1>13, <1>20, <3>1
    <3> QED
      BY <2>3, <3>2, <3>3
  <2> QED
    BY <1>17, <2>2, <2>3, <2>4, <2>5
<1> QED
  BY <1>19, <1>20

-----------------------------------------------------------------------------
(* Nothing is tracked at first. *)
LEMMA NamesInvInit ==
  ASSUME NmInit
  PROVE  NamesInv
<1>1. EvidenceSeq(<<>>)
  <2>1. Range(<<>>) = {}
    BY DEF Range
  <2> QED
    BY <2>1 DEF EvidenceSeq
<1>2. IsCaption(Absent)
  BY DEF Absent, IsCaption
<1> QED
  BY <1>1, <1>2 DEF NmInit, NamesInv, NamesAreCurrent

(* The names on screen are what the evidence says, for any voices, captions and   *)
(* amount of audio, whatever the limits of the tracker and of the reducer: every   *)
(* caption still tracked, not named by hand and not replaced carries the speaker   *)
(* that _decision finds from the retained history (speaker_captions.py).           *)
THEOREM NamesStayCurrent == NmSpec => []NamesAreCurrent
<1>1. NmInit => NamesInv
  BY NamesInvInit
<1>2. NamesInv /\ [NmNext]_nmVars => NamesInv'
  <2> SUFFICES ASSUME NamesInv, [NmNext]_nmVars PROVE NamesInv'
    OBVIOUS
  <2>0. MaxAudio \in Nat /\ History \in Int /\ MaxHistory \in Nat
    BY NamesAssumption
  <2>1. CASE \E v \in HeardVoices, i \in Intervals, ready \in 1..MaxAudio, sparse \in BOOLEAN :
               ObserveVoice(v, i, ready, sparse)
    BY <2>0, <2>1, ObserveVoiceKeeps
  <2>2. CASE \E i \in Intervals, reason \in {"nonspeech", "overlap"} : ObserveNobody(i, reason)
    BY <2>0, <2>2, ObserveNobodyKeeps
  <2>3. CASE GapClears
    BY <2>3 DEF GapClears, reducerVars, NamesInv, NamesAreCurrent
  <2>4. CASE \E c \in Captions, i \in Intervals : RegisterCaption(c, i)
    BY <2>0, <2>4, RegisterCaptionKeeps
  <2>5. CASE \E c \in Captions : NameByHand(c) \/ Supersede(c)
    BY <2>5, NameByHandKeeps, SupersedeKeeps
  <2>6. CASE UNCHANGED nmVars
    BY <2>6 DEF nmVars, reducerVars, NamesInv, NamesAreCurrent
  <2> QED
    BY <2>1, <2>2, <2>3, <2>4, <2>5, <2>6 DEF NmNext
<1>3. NamesInv => NamesAreCurrent
  BY DEF NamesInv
<1> QED
  BY <1>1, <1>2, <1>3, PTL DEF NmSpec

-----------------------------------------------------------------------------
(* OverlapStream: a request is in one place at a time.  It waits, is worked *)
(* on, is to be reported skipped, or has been answered, once.               *)
AnswerOf(n) == [request : 1 .. n, kind : {"skipped", "failed", "completed"}]

(* No request is in two places: work is the one worked on, 0 for none. *)
Apart(answers, notices, pending, work) ==
  /\ \A i, j \in DOMAIN answers : answers[i].request = answers[j].request => i = j
  /\ \A i, j \in DOMAIN notices : notices[i] = notices[j] => i = j
  /\ \A i \in DOMAIN answers, j \in DOMAIN notices : answers[i].request # notices[j]
  /\ \A i \in DOMAIN answers, k \in DOMAIN pending : answers[i].request # pending[k]
  /\ \A j \in DOMAIN notices, k \in DOMAIN pending : notices[j] # pending[k]
  /\ \A i \in DOMAIN answers : answers[i].request # work
  /\ \A j \in DOMAIN notices : notices[j] # work
  /\ \A k \in DOMAIN pending : pending[k] # work

(* The books of n requests. *)
Books(n, answers, notices, pending, work) ==
  /\ n \in Nat /\ work \in 0 .. n
  /\ answers \in Seq(AnswerOf(n)) /\ notices \in Seq(1 .. n)
  /\ pending \in Seq(1 .. n) /\ Len(pending) <= 1
  /\ Apart(answers, notices, pending, work)

Native == {"separate", "lane1", "lane2"}
OverlapInv ==
  /\ Books(Len(ovlRuns), ovlAnswers, ovlNotices, ovlPending, ovlWork)
  /\ ovlWork # 0 <=> ovlStage \in Native
  /\ ovlRuns \in Seq(Nat) /\ ovlRun \in Nat

(* The deque loses notices. *)
LEMMA NoticesLost ==
  ASSUME NEW n, NEW answers, NEW notices, NEW pending, NEW work,
         Books(n, answers, notices, pending, work), NEW k \in 0 .. Len(notices)
  PROVE  Books(n, answers, SubSeq(notices, k + 1, Len(notices)), pending, work)
<1> DEFINE rest == SubSeq(notices, k + 1, Len(notices))
<1>1. notices \in Seq(1 .. n) /\ Len(notices) \in Nat /\ DOMAIN notices = 1 .. Len(notices)
  BY DEF Books
<1>2. /\ rest \in Seq(1 .. n) /\ DOMAIN rest = 1 .. Len(notices) - k
      /\ \A i \in 1 .. Len(notices) - k : rest[i] = notices[k + i]
  <2>1. k \in Nat /\ k <= Len(notices) /\ k + 1 \in 1 .. Len(notices) + 1 /\ Len(notices) \in k .. Len(notices)
    BY <1>1
  <2>2. rest \in Seq(1 .. n) /\ Len(rest) = (IF k + 1 <= Len(notices) THEN Len(notices) - (k + 1) + 1 ELSE 0)
        /\ \A i \in 1 .. Len(notices) - (k + 1) + 1 : rest[i] = notices[(k + 1) + i - 1]
    <3>1. \A i \in k + 1 .. Len(notices) : i \in 1 .. Len(notices)
      BY <2>1
    <3>2. \A i \in k + 1 .. Len(notices) : notices[i] \in 1 .. n
      BY <1>1, <3>1, ElementOfSeq
    <3>3. k + 1 \in Int /\ Len(notices) \in Int
      BY <1>1, <2>1
    <3> DEFINE S == 1 .. n
    <3>4. \A i \in k + 1 .. Len(notices) : notices[i] \in S
      BY <3>2
    <3> HIDE DEF S
    <3>5. rest \in Seq(S) /\ Len(rest) = (IF k + 1 <= Len(notices) THEN Len(notices) - (k + 1) + 1 ELSE 0)
          /\ \A i \in 1 .. Len(notices) - (k + 1) + 1 : rest[i] = notices[(k + 1) + i - 1]
      BY <3>3, <3>4, SubSeqProperties
    <3> QED
      BY <3>5 DEF S
  <2>3. Len(rest) = Len(notices) - k /\ DOMAIN rest = 1 .. Len(rest)
    BY <1>1, <2>1, <2>2, LenProperties
  <2>4. \A i \in 1 .. Len(notices) - k : i \in 1 .. Len(notices) - (k + 1) + 1 /\ k + i = (k + 1) + i - 1
    BY <1>1, <2>1
  <2>5. \A i \in 1 .. Len(notices) - k : rest[i] = notices[k + i]
    BY <2>2, <2>4
  <2>6. DOMAIN rest = 1 .. Len(notices) - k
    BY <2>3
  <2> QED
    BY <2>2, <2>5, <2>6
<1>3. \A i \in 1 .. Len(notices) - k : k + i \in DOMAIN notices
  BY <1>1
<1>4. \A i, j \in DOMAIN rest : rest[i] = rest[j] => i = j
  <2> TAKE i, j \in DOMAIN rest
  <2> HAVE rest[i] = rest[j]
  <2>1. k + i \in DOMAIN notices /\ k + j \in DOMAIN notices /\ notices[k + i] = notices[k + j]
    BY <1>2, <1>3
  <2>2. k + i = k + j
    BY <2>1 DEF Books, Apart
  <2> QED
    BY <1>1, <1>2, <2>2
<1>5. \A i \in DOMAIN rest : \E j \in DOMAIN notices : rest[i] = notices[j]
  BY <1>2, <1>3
<1> HIDE DEF rest
<1>6. Apart(answers, rest, pending, work)
  BY <1>4, <1>5 DEF Books, Apart
<1> QED
  BY <1>2, <1>6 DEF Books, rest

(* A notice more, of a request that was waiting nowhere. *)
LEMMA NoticeMore ==
  ASSUME NEW n, NEW answers, NEW notices, NEW pending, NEW work,
         Books(n, answers, notices, pending, work), NEW r \in 1 .. n,
         \A i \in DOMAIN answers : answers[i].request # r,
         \A j \in DOMAIN notices : notices[j] # r,
         \A k \in DOMAIN pending : pending[k] # r,
         work # r
  PROVE  Books(n, answers, Append(notices, r), pending, work)
<1> DEFINE all == Append(notices, r)
<1>1. notices \in Seq(1 .. n) /\ Len(notices) \in Nat /\ DOMAIN notices = 1 .. Len(notices)
  BY DEF Books
<1>2. /\ all \in Seq(1 .. n) /\ DOMAIN all = 1 .. Len(notices) + 1
      /\ \A i \in 1 .. Len(notices) : all[i] = notices[i]
      /\ all[Len(notices) + 1] = r
  BY <1>1
<1>3. \A i \in DOMAIN all :
        \/ i \in DOMAIN notices /\ all[i] = notices[i]
        \/ i = Len(notices) + 1 /\ all[i] = r
  BY <1>1, <1>2
<1> HIDE DEF all
<1>4. Apart(answers, all, pending, work)
  BY <1>1, <1>3 DEF Books, Apart
<1> QED
  BY <1>2, <1>4 DEF Books, all

(* An answer more. *)
LEMMA AnswerMore ==
  ASSUME NEW n, NEW answers, NEW notices, NEW pending, NEW work,
         Books(n, answers, notices, pending, work), NEW r \in 1 .. n,
         NEW kind \in {"skipped", "failed", "completed"},
         \A i \in DOMAIN answers : answers[i].request # r,
         \A j \in DOMAIN notices : notices[j] # r,
         \A k \in DOMAIN pending : pending[k] # r,
         work # r
  PROVE  Books(n, Append(answers, Told(kind, r)), notices, pending, work)
<1> DEFINE a == Told(kind, r)
           all == Append(answers, a)
<1>1. answers \in Seq(AnswerOf(n)) /\ Len(answers) \in Nat /\ DOMAIN answers = 1 .. Len(answers)
  BY DEF Books
<1>2. a \in AnswerOf(n) /\ a.request = r
  BY DEF Told, AnswerOf
<1> HIDE DEF a
<1>3. /\ all \in Seq(AnswerOf(n)) /\ DOMAIN all = 1 .. Len(answers) + 1
      /\ \A i \in 1 .. Len(answers) : all[i] = answers[i]
      /\ all[Len(answers) + 1] = a
  BY <1>1, <1>2
<1>4. \A i \in DOMAIN all :
        \/ i \in DOMAIN answers /\ all[i] = answers[i]
        \/ i = Len(answers) + 1 /\ all[i].request = r
  BY <1>1, <1>2, <1>3
<1> HIDE DEF all
<1>5. Apart(all, notices, pending, work)
  <2>1. Apart(answers, notices, pending, work)
    BY DEF Books
  <2>2. \A i, j \in DOMAIN all : all[i].request = all[j].request => i = j
    BY <1>1, <1>4, <2>1 DEF Apart
  <2>3. /\ \A i \in DOMAIN all, j \in DOMAIN notices : all[i].request # notices[j]
        /\ \A i \in DOMAIN all, k \in DOMAIN pending : all[i].request # pending[k]
        /\ \A i \in DOMAIN all : all[i].request # work
    BY <1>4, <2>1 DEF Apart
  <2> QED
    BY <2>1, <2>2, <2>3 DEF Apart
<1>6. Books(n, all, notices, pending, work)
  BY <1>3, <1>5 DEF Books
<1> QED
  BY <1>6 DEF all, a

(* The notices are told. *)
LEMMA NoticesTold ==
  ASSUME NEW n, NEW answers, NEW notices, NEW pending, NEW work,
         Books(n, answers, notices, pending, work)
  PROVE  /\ Books(n, answers \o Skips(notices), <<>>, pending, work)
         /\ Skips(notices) \in Seq(AnswerOf(n))
         /\ \A j \in DOMAIN Skips(notices) : Skips(notices)[j].kind = "skipped"
<1> DEFINE told == Skips(notices)
           all == answers \o told
<1>1. /\ notices \in Seq(1 .. n) /\ Len(notices) \in Nat /\ DOMAIN notices = 1 .. Len(notices)
      /\ answers \in Seq(AnswerOf(n)) /\ Len(answers) \in Nat /\ DOMAIN answers = 1 .. Len(answers)
  BY DEF Books
<1>2. \A i \in 1 .. Len(notices) : notices[i] \in 1 .. n
  BY <1>1, ElementOfSeq
<1>3. \A i \in 1 .. Len(notices) :
        /\ told[i] \in AnswerOf(n) /\ told[i].request = notices[i] /\ told[i].kind = "skipped"
  BY <1>2 DEF Skips, Told, AnswerOf
<1>4. told = [i \in 1 .. Len(notices) |-> told[i]]
  BY DEF Skips
<1> HIDE DEF told
<1>5. told \in Seq(AnswerOf(n)) /\ Len(told) = Len(notices) /\ DOMAIN told = 1 .. Len(notices)
  BY <1>1, <1>3, <1>4
<1>6. /\ all \in Seq(AnswerOf(n)) /\ DOMAIN all = 1 .. Len(answers) + Len(notices)
      /\ \A i \in 1 .. Len(answers) : all[i] = answers[i]
      /\ \A j \in 1 .. Len(notices) : all[Len(answers) + j] = told[j]
  BY <1>1, <1>5
<1>7. \A i \in DOMAIN all :
        \/ i \in DOMAIN answers /\ all[i] = answers[i]
        \/ /\ i - Len(answers) \in DOMAIN notices /\ i > Len(answers)
           /\ all[i].request = notices[i - Len(answers)]
  <2> TAKE i \in DOMAIN all
  <2>1. CASE i \in 1 .. Len(answers)
    BY <1>1, <1>6, <2>1
  <2>2. CASE i \notin 1 .. Len(answers)
    <3>1. i - Len(answers) \in 1 .. Len(notices) /\ i > Len(answers) /\ i = Len(answers) + (i - Len(answers))
      BY <1>1, <1>6, <2>2
    <3> QED
      BY <1>1, <1>3, <1>6, <3>1
  <2> QED
    BY <2>1, <2>2
<1> HIDE DEF all
<1>8. \A i, j \in DOMAIN all : all[i].request = all[j].request => i = j
  <2>0. /\ \A i, j \in DOMAIN answers : answers[i].request = answers[j].request => i = j
        /\ \A i, j \in DOMAIN notices : notices[i] = notices[j] => i = j
        /\ \A i \in DOMAIN answers, j \in DOMAIN notices : answers[i].request # notices[j]
    BY DEF Books, Apart
  <2> TAKE i, j \in DOMAIN all
  <2> HAVE all[i].request = all[j].request
  <2>1. i \in Int /\ j \in Int
    BY <1>1, <1>6
  <2>2. CASE i \in DOMAIN answers /\ all[i] = answers[i]
    BY <1>7, <2>0, <2>2
  <2>3. CASE j \in DOMAIN answers /\ all[j] = answers[j]
    BY <1>7, <2>0, <2>3
  <2>4. CASE ~(i \in DOMAIN answers /\ all[i] = answers[i]) /\ ~(j \in DOMAIN answers /\ all[j] = answers[j])
    <3>1. i - Len(answers) = j - Len(answers)
      BY <1>7, <2>0, <2>4
    <3> QED
      BY <1>1, <2>1, <3>1
  <2> QED
    BY <2>2, <2>3, <2>4
<1>9. Books(n, all, <<>>, pending, work)
  <2>1. <<>> \in Seq(1 .. n) /\ DOMAIN <<>> = {}
    OBVIOUS
  <2>2. Apart(all, <<>>, pending, work)
    <3>1. \A i \in DOMAIN all :
            \/ \E j \in DOMAIN answers : all[i].request = answers[j].request
            \/ \E j \in DOMAIN notices : all[i].request = notices[j]
      BY <1>7
    <3>2. /\ \A i \in DOMAIN all, k \in DOMAIN pending : all[i].request # pending[k]
          /\ \A i \in DOMAIN all : all[i].request # work
      <4>1. /\ \A j \in DOMAIN answers, k \in DOMAIN pending : answers[j].request # pending[k]
            /\ \A j \in DOMAIN notices, k \in DOMAIN pending : notices[j] # pending[k]
            /\ \A j \in DOMAIN answers : answers[j].request # work
            /\ \A j \in DOMAIN notices : notices[j] # work
        BY DEF Books, Apart
      <4> QED
        BY <3>1, <4>1
    <3>3. \A k \in DOMAIN pending : pending[k] # work
      BY DEF Books, Apart
    <3> QED
      BY <1>8, <2>1, <3>2, <3>3 DEF Apart
  <2> QED
    BY <1>6, <2>1, <2>2 DEF Books
<1> QED
  BY <1>3, <1>5, <1>9 DEF all, told

(* The loop goes on from books without work: what is told is skipped. *)
LEMMA NextWorkKeeps ==
  ASSUME NEW notices, NEW answers, Books(Len(ovlRuns), answers, notices, ovlPending, 0),
         NextWork(notices, answers), UNCHANGED ovlRuns
  PROVE  /\ Books(Len(ovlRuns'), ovlAnswers', ovlNotices', ovlPending', ovlWork')
         /\ ovlWork' # 0 <=> ovlStage' \in Native
         /\ Len(ovlAnswers') >= Len(answers)
         /\ \A i \in 1 .. Len(answers) : ovlAnswers'[i] = answers[i]
         /\ \A i \in DOMAIN ovlAnswers' : i > Len(answers) => ovlAnswers'[i].kind = "skipped"
<1> DEFINE n == Len(ovlRuns)
<1>0. /\ n \in Nat /\ answers \in Seq(AnswerOf(n)) /\ Len(answers) \in Nat
      /\ ovlPending \in Seq(1 .. n) /\ Len(ovlPending) <= 1
  BY DEF Books
<1>1. CASE ovlPending # <<>>
  <2>1. /\ ovlStage' = "separate" /\ ovlWork' = ovlPending[1] /\ ovlPending' = <<>>
        /\ ovlNotices' = notices /\ ovlAnswers' = answers /\ ovlRuns' = ovlRuns
    BY <1>1 DEF NextWork
  <2>2. 1 \in DOMAIN ovlPending /\ ovlPending[1] \in 1 .. n
    BY <1>0, <1>1
  <2>3. <<>> \in Seq(1 .. n) /\ DOMAIN <<>> = {} /\ Len(<<>>) = 0
    OBVIOUS
  <2>4. Books(n, answers, notices, <<>>, ovlPending[1])
    <3>1. Apart(answers, notices, <<>>, ovlPending[1])
      BY <2>2, <2>3 DEF Books, Apart
    <3> QED
      BY <1>0, <2>2, <2>3, <3>1 DEF Books
  <2> QED
    BY <1>0, <2>1, <2>2, <2>4 DEF Native
<1>2. CASE ovlPending = <<>>
  <2>1. /\ ovlStage' \in {"done", "wait"} /\ ovlWork' = 0 /\ ovlPending' = ovlPending
        /\ ovlNotices' = <<>> /\ ovlAnswers' = answers \o Skips(notices) /\ ovlRuns' = ovlRuns
    BY <1>2 DEF NextWork
  <2>2. /\ Books(n, answers \o Skips(notices), <<>>, ovlPending, 0)
        /\ Skips(notices) \in Seq(AnswerOf(n))
        /\ \A j \in DOMAIN Skips(notices) : Skips(notices)[j].kind = "skipped"
    BY NoticesTold
  <2> DEFINE told == Skips(notices)
  <2>3. told \in Seq(AnswerOf(n)) /\ \A j \in DOMAIN told : told[j].kind = "skipped"
    BY <2>2
  <2> HIDE DEF told
  <2>4. /\ Len(answers \o told) >= Len(answers) /\ Len(told) \in Nat
        /\ DOMAIN (answers \o told) = 1 .. Len(answers) + Len(told) /\ DOMAIN told = 1 .. Len(told)
        /\ \A i \in 1 .. Len(answers) : (answers \o told)[i] = answers[i]
        /\ \A i \in Len(answers) + 1 .. Len(answers) + Len(told) :
             (answers \o told)[i] = told[i - Len(answers)]
    BY <1>0, <2>3
  <2>5. \A i \in DOMAIN (answers \o told) :
          i > Len(answers) => i - Len(answers) \in DOMAIN told /\ i \in Len(answers) + 1 .. Len(answers) + Len(told)
    BY <1>0, <2>4
  <2>6. ovlAnswers' = answers \o told
    BY <2>1 DEF told
  <2> QED
    BY <2>1, <2>2, <2>3, <2>4, <2>5, <2>6 DEF Native, told
<1> QED
  BY <1>1, <1>2

(* Nothing waits or is worked on any more. *)
LEMMA LessWork ==
  ASSUME NEW n, NEW answers, NEW notices, NEW pending, NEW work,
         Books(n, answers, notices, pending, work), NEW waiting, NEW going,
         waiting = pending \/ waiting = <<>>, going = work \/ going = 0
  PROVE  Books(n, answers, notices, waiting, going)
<1>1. waiting \in Seq(1 .. n) /\ Len(waiting) <= 1
  <2>1. CASE waiting = <<>>
    BY <2>1
  <2>2. CASE waiting = pending
    BY <2>2 DEF Books
  <2> QED
    BY <2>1, <2>2
<1>2. \A k \in DOMAIN waiting : k \in DOMAIN pending /\ waiting[k] = pending[k]
  OBVIOUS
<1>3. /\ \A i \in DOMAIN answers : answers[i].request # 0
      /\ \A j \in DOMAIN notices : notices[j] # 0
      /\ \A k \in DOMAIN pending : pending[k] # 0
  <2>1. \A i \in DOMAIN answers : answers[i] \in AnswerOf(n)
    BY ElementOfSeq, LenProperties DEF Books
  <2>2. /\ \A j \in DOMAIN notices : notices[j] \in 1 .. n
        /\ \A k \in DOMAIN pending : pending[k] \in 1 .. n
    BY ElementOfSeq, LenProperties DEF Books
  <2>3. 0 \notin 1 .. n
    BY DEF Books
  <2> QED
    BY <2>1, <2>2, <2>3 DEF AnswerOf
<1>4. Apart(answers, notices, waiting, going)
  BY <1>2, <1>3 DEF Books, Apart
<1>5. going \in 0 .. n
  BY DEF Books
<1> QED
  BY <1>1, <1>4, <1>5 DEF Books

(* A number that no request has had. *)
LEMMA NextNumber ==
  ASSUME NEW n, NEW answers, NEW notices, NEW pending, NEW work,
         Books(n, answers, notices, pending, work)
  PROVE  /\ Books(n + 1, answers, notices, pending, work)
         /\ \A i \in DOMAIN answers : answers[i].request # n + 1
         /\ \A j \in DOMAIN notices : notices[j] # n + 1
         /\ \A k \in DOMAIN pending : pending[k] # n + 1
         /\ work # n + 1
<1>0. n \in Nat /\ work \in 0 .. n
  BY DEF Books
<1>1. 1 .. n \subseteq 1 .. n + 1 /\ n + 1 \notin 1 .. n /\ work # n + 1 /\ n + 1 \in Nat /\ work \in 0 .. n + 1
  BY <1>0
<1>2. AnswerOf(n) \subseteq AnswerOf(n + 1)
  BY <1>1 DEF AnswerOf
<1>3. /\ answers \in Seq(AnswerOf(n + 1)) /\ notices \in Seq(1 .. n + 1)
      /\ pending \in Seq(1 .. n + 1)
  BY <1>1, <1>2, SeqMonotonic DEF Books
<1>4. Books(n + 1, answers, notices, pending, work)
  BY <1>1, <1>3 DEF Books
<1>5. \A i \in DOMAIN answers : answers[i] \in AnswerOf(n)
  BY ElementOfSeq, LenProperties DEF Books
<1>6. /\ \A j \in DOMAIN notices : notices[j] \in 1 .. n
      /\ \A k \in DOMAIN pending : pending[k] \in 1 .. n
  BY ElementOfSeq, LenProperties DEF Books
<1> QED
  BY <1>1, <1>4, <1>5, <1>6 DEF AnswerOf

(* At most one request is noticed at a time. *)
LEMMA NoticeKeeps ==
  ASSUME NEW n, NEW answers, NEW pending, NEW work, Books(n, answers, ovlNotices, pending, work),
         NEW requests, Notice(requests),
         \/ requests = <<>>
         \/ \E x \in 1 .. n :
              /\ requests = <<x>> /\ work # x
              /\ \A i \in DOMAIN answers : answers[i].request # x
              /\ \A j \in DOMAIN ovlNotices : ovlNotices[j] # x
              /\ \A k \in DOMAIN pending : pending[k] # x
  PROVE  Books(n, answers, ovlNotices', pending, work)
<1> DEFINE all == ovlNotices \o requests
           lost == IF Len(all) > NoticeLimit THEN Len(all) - NoticeLimit ELSE 0
<1>1. ovlNotices' = SubSeq(all, lost + 1, Len(all))
  BY DEF Notice
<1>2. ovlNotices \in Seq(1 .. n)
  BY DEF Books
<1>3. Books(n, answers, all, pending, work)
  <2>1. CASE requests = <<>>
    <3>1. all = ovlNotices
      BY <1>2, <2>1
    <3> QED
      BY <3>1
  <2>2. CASE requests # <<>>
    <3>1. PICK x \in 1 .. n :
            /\ requests = <<x>> /\ work # x
            /\ \A i \in DOMAIN answers : answers[i].request # x
            /\ \A j \in DOMAIN ovlNotices : ovlNotices[j] # x
            /\ \A k \in DOMAIN pending : pending[k] # x
      BY <2>2
    <3>2. all = Append(ovlNotices, x)
      BY <1>2, <3>1
    <3>3. Books(n, answers, Append(ovlNotices, x), pending, work)
      BY <3>1, NoticeMore
    <3> QED
      BY <3>2, <3>3
  <2> QED
    BY <2>1, <2>2
<1> HIDE DEF all
<1>4. lost \in 0 .. Len(all)
  <2>1. all \in Seq(1 .. n)
    BY <1>3 DEF Books
  <2>2. Len(all) \in Nat
    BY <2>1, LenProperties
  <2> QED
    BY <2>2, NoticeAssumption
<1> HIDE DEF lost
<1> QED
  BY <1>1, <1>3, <1>4, NoticesLost

(* The request in progress is answered, or is to be reported, and the loop *)
(* goes on: what a retired run returned is not told as completed.          *)
LEMMA NativeReturnsKeeps ==
  ASSUME OverlapInv, NativeReturns
  PROVE  /\ OverlapInv'
         /\ Len(ovlAnswers') >= Len(ovlAnswers)
         /\ \A i \in DOMAIN ovlAnswers' :
              i > Len(ovlAnswers) /\ ovlAnswers'[i].kind = "completed"
                => ovlRuns[ovlAnswers'[i].request] = ovlRun
<1> DEFINE n == Len(ovlRuns)
<1>0. /\ Books(n, ovlAnswers, ovlNotices, ovlPending, ovlWork)
      /\ ovlRuns' = ovlRuns /\ ovlRun' = ovlRun /\ ovlRuns \in Seq(Nat) /\ ovlRun \in Nat
      /\ ovlStage \in Native /\ ovlWork # 0
  BY DEF OverlapInv, NativeReturns, Native
<1>1. /\ n \in Nat /\ ovlWork \in 1 .. n
      /\ ovlAnswers \in Seq(AnswerOf(n)) /\ Len(ovlAnswers) \in Nat
      /\ DOMAIN ovlAnswers = 1 .. Len(ovlAnswers)
      /\ ovlNotices \in Seq(1 .. n) /\ Len(ovlNotices) \in Nat
  BY <1>0 DEF Books
<1>2. /\ Books(n, ovlAnswers, ovlNotices, ovlPending, 0)
      /\ \A i \in DOMAIN ovlAnswers : ovlAnswers[i].request # ovlWork
      /\ \A j \in DOMAIN ovlNotices : ovlNotices[j] # ovlWork
      /\ \A k \in DOMAIN ovlPending : ovlPending[k] # ovlWork
      /\ 0 # ovlWork
  <2>1. Books(n, ovlAnswers, ovlNotices, ovlPending, 0)
    BY <1>0, LessWork
  <2> QED
    BY <1>0, <2>1 DEF Books, Apart
<1>3. ASSUME NEW kind \in {"failed", "completed"}, Answer(kind), kind = "completed" => CurrentRun(ovlWork)
      PROVE  /\ OverlapInv'
             /\ Len(ovlAnswers') >= Len(ovlAnswers)
             /\ \A i \in DOMAIN ovlAnswers' :
                  i > Len(ovlAnswers) /\ ovlAnswers'[i].kind = "completed"
                    => ovlRuns[ovlAnswers'[i].request] = ovlRun
  <2> DEFINE a == Told(kind, ovlWork)
             told == Append(ovlAnswers, a)
  <2>1. Books(n, told, ovlNotices, ovlPending, 0)
    BY <1>1, <1>2, AnswerMore
  <2>2. NextWork(ovlNotices, told)
    BY <1>3 DEF Answer
  <2>3. a.request = ovlWork /\ a.kind = kind
    BY DEF Told
  <2>4. Len(told) = Len(ovlAnswers) + 1 /\ told[Len(ovlAnswers) + 1] = a
    BY <1>1
  <2> HIDE DEF a, told
  <2>5. /\ Books(Len(ovlRuns'), ovlAnswers', ovlNotices', ovlPending', ovlWork')
        /\ ovlWork' # 0 <=> ovlStage' \in Native
        /\ Len(ovlAnswers') >= Len(told)
        /\ \A i \in 1 .. Len(told) : ovlAnswers'[i] = told[i]
        /\ \A i \in DOMAIN ovlAnswers' : i > Len(told) => ovlAnswers'[i].kind = "skipped"
    BY <1>0, <2>1, <2>2, NextWorkKeeps
  <2>6. OverlapInv'
    BY <1>0, <2>5 DEF OverlapInv
  <2>7. ovlAnswers' \in Seq(AnswerOf(n)) /\ Len(ovlAnswers') \in Nat /\ DOMAIN ovlAnswers' = 1 .. Len(ovlAnswers')
    <3>1. ovlAnswers' \in Seq(AnswerOf(n))
      BY <1>0, <2>5 DEF Books
    <3> QED
      BY <3>1, LenProperties
  <2>8. ASSUME NEW i \in DOMAIN ovlAnswers', i > Len(ovlAnswers), ovlAnswers'[i].kind = "completed"
        PROVE  ovlRuns[ovlAnswers'[i].request] = ovlRun
    <3>1. i = Len(ovlAnswers) + 1
      BY <1>1, <2>4, <2>5, <2>7, <2>8
    <3>2. ovlAnswers'[i] = a
      BY <1>1, <2>4, <2>5, <3>1
    <3> QED
      BY <1>3, <2>3, <2>8, <3>2 DEF CurrentRun
  <2> QED
    BY <1>1, <2>4, <2>5, <2>6, <2>7, <2>8
<1>4. CASE Answer("failed")
  BY <1>3, <1>4
<1>5. CASE CurrentRun(ovlWork) /\ Answer("completed")
  BY <1>3, <1>5
<1>6. CASE Skip
  <2> DEFINE all == Append(ovlNotices, ovlWork)
             lost == IF Len(all) > NoticeLimit THEN 1 ELSE 0
             kept == SubSeq(all, lost + 1, Len(all))
  <2>1. Books(n, ovlAnswers, all, ovlPending, 0)
    BY <1>1, <1>2, NoticeMore
  <2>2. lost \in 0 .. Len(all)
    BY <1>1
  <2>3. NextWork(kept, ovlAnswers)
    BY <1>6 DEF Skip
  <2> HIDE DEF all, lost
  <2>4. Books(n, ovlAnswers, kept, ovlPending, 0)
    BY <2>1, <2>2, NoticesLost
  <2> HIDE DEF kept
  <2>5. /\ Books(Len(ovlRuns'), ovlAnswers', ovlNotices', ovlPending', ovlWork')
        /\ ovlWork' # 0 <=> ovlStage' \in Native
        /\ Len(ovlAnswers') >= Len(ovlAnswers)
        /\ \A i \in DOMAIN ovlAnswers' : i > Len(ovlAnswers) => ovlAnswers'[i].kind = "skipped"
    BY <1>0, <2>3, <2>4, NextWorkKeeps
  <2> QED
    BY <1>0, <2>5 DEF OverlapInv
<1>7. CASE /\ ovlStage # "lane2"
           /\ ovlStage' = IF ovlStage = "separate" THEN "lane1" ELSE "lane2"
           /\ UNCHANGED <<ovlPending, ovlNotices, ovlDropped, ovlAwake, ovlWork, ovlAnswers>>
  <2>1. OverlapInv'
    BY <1>0, <1>7 DEF OverlapInv, Native
  <2> QED
    BY <1>1, <1>7, <2>1
<1> QED
  BY <1>4, <1>5, <1>6, <1>7 DEF NativeReturns

(* The worker wakes and tells the notices. *)
LEMMA WorkerWakesKeeps ==
  ASSUME OverlapInv, WorkerWakes
  PROVE  /\ OverlapInv'
         /\ Len(ovlAnswers') >= Len(ovlAnswers)
         /\ \A i \in DOMAIN ovlAnswers' : i > Len(ovlAnswers) => ovlAnswers'[i].kind = "skipped"
<1> DEFINE n == Len(ovlRuns)
           all == ovlAnswers \o Skips(ovlNotices)
<1>0. /\ Books(n, ovlAnswers, ovlNotices, ovlPending, 0)
      /\ ovlRuns' = ovlRuns /\ ovlRun' = ovlRun /\ ovlRuns \in Seq(Nat) /\ ovlRun \in Nat
      /\ NextWork(<<>>, all)
  BY DEF OverlapInv, WorkerWakes, Native
<1>1. ovlAnswers \in Seq(AnswerOf(n)) /\ Len(ovlAnswers) \in Nat
  BY <1>0 DEF Books
<1>2. /\ Books(n, all, <<>>, ovlPending, 0)
      /\ Skips(ovlNotices) \in Seq(AnswerOf(n))
      /\ \A j \in DOMAIN Skips(ovlNotices) : Skips(ovlNotices)[j].kind = "skipped"
  BY <1>0, NoticesTold
<1> DEFINE told == Skips(ovlNotices)
<1>3. told \in Seq(AnswerOf(n)) /\ \A j \in DOMAIN told : told[j].kind = "skipped"
  BY <1>2
<1>4. all = ovlAnswers \o told
  OBVIOUS
<1> HIDE DEF told, all
<1>5. /\ Len(told) \in Nat /\ DOMAIN told = 1 .. Len(told)
      /\ Len(all) = Len(ovlAnswers) + Len(told)
      /\ \A i \in Len(ovlAnswers) + 1 .. Len(ovlAnswers) + Len(told) :
           all[i] = told[i - Len(ovlAnswers)]
  BY <1>1, <1>3, <1>4
<1>6. \A i \in Len(ovlAnswers) + 1 .. Len(all) : all[i].kind = "skipped"
  <2> TAKE i \in Len(ovlAnswers) + 1 .. Len(all)
  <2>1. i - Len(ovlAnswers) \in 1 .. Len(told) /\ i \in Len(ovlAnswers) + 1 .. Len(ovlAnswers) + Len(told)
    BY <1>1, <1>5
  <2> QED
    BY <1>3, <1>5, <2>1
<1>7. /\ Books(Len(ovlRuns'), ovlAnswers', ovlNotices', ovlPending', ovlWork')
      /\ ovlWork' # 0 <=> ovlStage' \in Native
      /\ Len(ovlAnswers') >= Len(all)
      /\ \A i \in 1 .. Len(all) : ovlAnswers'[i] = all[i]
      /\ \A i \in DOMAIN ovlAnswers' : i > Len(all) => ovlAnswers'[i].kind = "skipped"
  BY <1>0, <1>2, NextWorkKeeps
<1>8. OverlapInv'
  BY <1>0, <1>7 DEF OverlapInv
<1>9. ovlAnswers' \in Seq(AnswerOf(n)) /\ Len(ovlAnswers') \in Nat /\ DOMAIN ovlAnswers' = 1 .. Len(ovlAnswers')
  <2>1. ovlAnswers' \in Seq(AnswerOf(n))
    BY <1>0, <1>7 DEF Books
  <2> QED
    BY <2>1, LenProperties
<1>10. ASSUME NEW i \in DOMAIN ovlAnswers', i > Len(ovlAnswers)
       PROVE  ovlAnswers'[i].kind = "skipped"
  <2>1. CASE i > Len(all)
    BY <1>7, <2>1
  <2>2. CASE ~(i > Len(all))
    <3>1. i \in Len(ovlAnswers) + 1 .. Len(all) /\ i \in 1 .. Len(all)
      BY <1>1, <1>5, <1>9, <1>10, <2>2
    <3> QED
      BY <1>6, <1>7, <3>1
  <2> QED
    BY <2>1, <2>2
<1> QED
  BY <1>1, <1>5, <1>7, <1>8, <1>9, <1>10

(* What a sequence of at most one holds. *)
LEMMA OneAtMost ==
  ASSUME NEW S, NEW s \in Seq(S), Len(s) <= 1, s # <<>>
  PROVE  1 \in DOMAIN s /\ s = <<s[1]>> /\ s[1] \in S
<1>1. Len(s) \in Nat \ {0}
  BY EmptySeq
<1>2. Len(s) = 1 /\ DOMAIN s = 1 .. 1 /\ s[1] \in S
  <2>1. Len(s) = 1
    <3>1. \A m \in Nat \ {0} : m <= 1 => m = 1
      OBVIOUS
    <3> QED
      BY <1>1, <3>1, Zenon
  <2>2. DOMAIN s = 1 .. 1
    <3>1. DOMAIN s = 1 .. Len(s)
      BY LenProperties
    <3> QED
      BY <2>1, <3>1
  <2>3. 1 \in 1 .. Len(s)
    BY <2>1
  <2> QED
    BY <2>1, <2>2, <2>3, ElementOfSeq
<1> DEFINE x == s[1]
<1>3. Len(<<x>>) = 1 /\ <<x>>[1] = x /\ <<x>> \in Seq(S)
  BY <1>2
<1>4. s = <<x>>
  BY <1>2, <1>3, SeqEqual
<1> QED
  BY <1>2, <1>4

(* The waiting request is replaced or retired, and noticed. *)
LEMMA PendingNoticed ==
  ASSUME NEW n, NEW answers, NEW work, Books(n, answers, ovlNotices, ovlPending, work),
         Notice(ovlPending)
  PROVE  Books(n, answers, ovlNotices', <<>>, work)
<1>1. Books(n, answers, ovlNotices, <<>>, work)
  BY LessWork
<1>2. CASE ovlPending = <<>>
  BY <1>1, <1>2, NoticeKeeps
<1>3. CASE ovlPending # <<>>
  <2>1. ovlPending \in Seq(1 .. n) /\ Len(ovlPending) <= 1
    BY DEF Books
  <2>2. /\ 1 \in DOMAIN ovlPending /\ ovlPending = <<ovlPending[1]>> /\ ovlPending[1] \in 1 .. n
    BY <1>3, <2>1, OneAtMost
  <2> DEFINE x == ovlPending[1]
  <2>3. /\ x \in 1 .. n /\ ovlPending = <<x>> /\ work # x
        /\ \A i \in DOMAIN answers : answers[i].request # x
        /\ \A j \in DOMAIN ovlNotices : ovlNotices[j] # x
    BY <2>2 DEF Books, Apart
  <2> HIDE DEF x
  <2>4. \A k \in DOMAIN <<>> : <<>>[k] # x
    OBVIOUS
  <2> QED
    BY <1>1, <2>3, <2>4, NoticeKeeps
<1> QED
  BY <1>2, <1>3

(* A new request waits. *)
LEMMA WaitMore ==
  ASSUME NEW n, NEW answers, NEW notices, NEW work, Books(n, answers, notices, <<>>, work),
         NEW r \in 1 .. n, work # r,
         \A i \in DOMAIN answers : answers[i].request # r,
         \A j \in DOMAIN notices : notices[j] # r
  PROVE  Books(n, answers, notices, <<r>>, work)
<1>1. <<r>> \in Seq(1 .. n) /\ Len(<<r>>) <= 1 /\ DOMAIN <<r>> = {1} /\ <<r>>[1] = r
  OBVIOUS
<1>2. Apart(answers, notices, <<r>>, work)
  BY <1>1 DEF Books, Apart
<1> QED
  BY <1>1, <1>2 DEF Books

(* A request is written down under a number of its own. *)
LEMMA RequestKeeps ==
  ASSUME OverlapInv, NEW run \in 0 .. ovlRun, NEW buffered \in BOOLEAN, Request(run, buffered)
  PROVE  OverlapInv'
<1> DEFINE n == Len(ovlRuns)
<1>0. /\ Books(n, ovlAnswers, ovlNotices, ovlPending, ovlWork)
      /\ ovlWork # 0 <=> ovlStage \in Native
      /\ ovlRuns \in Seq(Nat) /\ ovlRun \in Nat /\ run \in Nat
      /\ UNCHANGED <<ovlRun, ovlStage, ovlWork, ovlAnswers>>
      /\ ovlRuns' = Append(ovlRuns, run)
  BY DEF OverlapInv, Request
<1>1. n \in Nat /\ Len(ovlRuns') = n + 1 /\ ovlRuns' \in Seq(Nat)
  BY <1>0
<1> DEFINE r == n + 1
<1>2. /\ Books(r, ovlAnswers, ovlNotices, ovlPending, ovlWork)
      /\ \A i \in DOMAIN ovlAnswers : ovlAnswers[i].request # r
      /\ \A j \in DOMAIN ovlNotices : ovlNotices[j] # r
      /\ \A k \in DOMAIN ovlPending : ovlPending[k] # r
      /\ ovlWork # r
  BY <1>0, NextNumber
<1>3. r \in 1 .. r
  BY <1>1
<1>4. \/ ovlPending' = <<r>> /\ ovlPending = <<>> /\ UNCHANGED ovlNotices
      \/ ovlPending' = <<r>> /\ ovlPending # <<>> /\ Notice(ovlPending)
      \/ Notice(<<r>>) /\ UNCHANGED ovlPending
  BY DEF Request
<1> HIDE DEF r
<1>5. Books(r, ovlAnswers, ovlNotices', ovlPending', ovlWork)
  <2>1. CASE Notice(<<r>>) /\ UNCHANGED ovlPending
    BY <1>2, <1>3, <2>1, NoticeKeeps
  <2>2. CASE ovlPending' = <<r>> /\ ovlPending = <<>> /\ UNCHANGED ovlNotices
    BY <1>2, <1>3, <2>2, WaitMore
  <2>3. CASE ovlPending' = <<r>> /\ Notice(ovlPending)
    <3>1. Books(n, ovlAnswers, ovlNotices', <<>>, ovlWork)
      BY <1>0, <2>3, PendingNoticed, Zenon
    <3>2. /\ Books(r, ovlAnswers, ovlNotices', <<>>, ovlWork)
          /\ \A j \in DOMAIN ovlNotices' : ovlNotices'[j] # r
      BY <3>1, NextNumber DEF r
    <3> QED
      BY <1>2, <1>3, <2>3, <3>2, WaitMore
  <2> QED
    BY <1>4, <2>1, <2>2, <2>3
<1> QED
  BY <1>0, <1>1, <1>5 DEF OverlapInv, r

(* No other step answers anything. *)
LEMMA RestKeepsBooks ==
  ASSUME OverlapInv, FeedFrame \/ RetireRun \/ FinishOverlap \/ CloseOverlap \/ UNCHANGED ovlVars
  PROVE  OverlapInv' /\ ovlAnswers' = ovlAnswers
<1>0. /\ Books(Len(ovlRuns), ovlAnswers, ovlNotices, ovlPending, ovlWork)
      /\ ovlWork # 0 <=> ovlStage \in Native
      /\ ovlRuns \in Seq(Nat) /\ ovlRun \in Nat
  BY DEF OverlapInv
<1>1. CASE FeedFrame \/ FinishOverlap
  <2>1. UNCHANGED <<ovlRun, ovlRuns, ovlPending, ovlNotices, ovlStage, ovlWork, ovlAnswers>>
    BY <1>1 DEF FeedFrame, FinishOverlap
  <2> QED
    BY <1>0, <2>1 DEF OverlapInv
<1>2. CASE UNCHANGED ovlVars
  BY <1>0, <1>2 DEF OverlapInv, ovlVars
<1>3. CASE RetireRun
  <2>1. /\ UNCHANGED <<ovlRuns, ovlStage, ovlWork, ovlAnswers>>
        /\ ovlRun' = ovlRun + 1 /\ ovlPending' = <<>> /\ Notice(ovlPending)
    BY <1>3 DEF RetireRun
  <2>2. Books(Len(ovlRuns), ovlAnswers, ovlNotices', <<>>, ovlWork)
    BY <1>0, <2>1, PendingNoticed
  <2> QED
    BY <1>0, <2>1, <2>2 DEF OverlapInv
<1>4. CASE CloseOverlap
  <2>1. /\ UNCHANGED <<ovlRun, ovlRuns, ovlNotices, ovlAnswers>>
        /\ ovlStage' = "done" /\ ovlPending' = <<>> /\ ovlWork' = 0
    BY <1>4 DEF CloseOverlap
  <2>2. Books(Len(ovlRuns), ovlAnswers, ovlNotices, <<>>, 0)
    BY <1>0, LessWork
  <2> QED
    BY <1>0, <2>1, <2>2 DEF OverlapInv, Native
<1> QED
  BY <1>1, <1>2, <1>3, <1>4

(* The invariant holds initially. *)
LEMMA InitOverlap == OvlInit => OverlapInv
<1> SUFFICES ASSUME OvlInit PROVE OverlapInv
  OBVIOUS
<1>1. /\ ovlRun = 0 /\ ovlRuns = <<>> /\ ovlPending = <<>> /\ ovlNotices = <<>>
      /\ ovlStage = "wait" /\ ovlWork = 0 /\ ovlAnswers = <<>>
  BY DEF OvlInit
<1>2. Len(<<>>) = 0 /\ DOMAIN <<>> = {} /\ \A S : <<>> \in Seq(S)
  OBVIOUS
<1>3. Apart(<<>>, <<>>, <<>>, 0)
  BY <1>2 DEF Apart
<1>4. Books(0, <<>>, <<>>, <<>>, 0)
  BY <1>2, <1>3 DEF Books
<1> QED
  BY <1>1, <1>2, <1>4 DEF OverlapInv, Native

(* A step keeps the books, and what it answers is current. *)
LEMMA OverlapStep ==
  ASSUME OverlapInv, [OvlNext]_ovlVars
  PROVE  /\ OverlapInv'
         /\ \A i \in (DOMAIN ovlAnswers') \ (DOMAIN ovlAnswers) :
              LET a == ovlAnswers'[i] IN
              /\ a.kind = "completed" => ovlRuns[a.request] = ovlRun
              /\ \A j \in 1..(i - 1) : ovlAnswers'[j].request # a.request
<1>1. /\ OverlapInv'
      /\ \A i \in DOMAIN ovlAnswers' :
           i > Len(ovlAnswers) /\ ovlAnswers'[i].kind = "completed"
             => ovlRuns[ovlAnswers'[i].request] = ovlRun
  <2>1. CASE NativeReturns
    BY <2>1, NativeReturnsKeeps
  <2>2. CASE WorkerWakes
    BY <2>2, WorkerWakesKeeps
  <2>3. CASE ovlAnswers' = ovlAnswers /\ OverlapInv'
    <3>1. DOMAIN ovlAnswers = 1 .. Len(ovlAnswers) /\ Len(ovlAnswers) \in Nat
      BY LenProperties DEF OverlapInv, Books
    <3> QED
      BY <2>3, <3>1
  <2>4. CASE \E run \in 0 .. ovlRun, buffered \in BOOLEAN : Request(run, buffered)
    BY <2>3, <2>4, RequestKeeps DEF Request
  <2>5. CASE FeedFrame \/ RetireRun \/ FinishOverlap \/ CloseOverlap \/ UNCHANGED ovlVars
    BY <2>3, <2>5, RestKeepsBooks
  <2> QED
    BY <2>1, <2>2, <2>4, <2>5 DEF OvlNext
<1>2. /\ DOMAIN ovlAnswers = 1 .. Len(ovlAnswers) /\ Len(ovlAnswers) \in Nat
      /\ DOMAIN ovlAnswers' = 1 .. Len(ovlAnswers') /\ Len(ovlAnswers') \in Nat
  <2>1. /\ ovlAnswers \in Seq(AnswerOf(Len(ovlRuns)))
        /\ ovlAnswers' \in Seq(AnswerOf(Len(ovlRuns')))
    BY <1>1 DEF OverlapInv, Books
  <2> QED
    BY <2>1, LenProperties
<1>3. \A i, j \in DOMAIN ovlAnswers' : ovlAnswers'[i].request = ovlAnswers'[j].request => i = j
  BY <1>1 DEF OverlapInv, Books, Apart
<1>4. ASSUME NEW i \in (DOMAIN ovlAnswers') \ (DOMAIN ovlAnswers)
      PROVE  /\ i \in DOMAIN ovlAnswers' /\ i > Len(ovlAnswers)
             /\ \A j \in 1 .. i - 1 : j \in DOMAIN ovlAnswers' /\ j # i
  BY <1>2, <1>4
<1> QED
  BY <1>1, <1>3, <1>4

(* AnswersAreCurrent, the safety part of EveryRequestAnswered: a request is *)
(* answered once, and completed only in the run it was made for.            *)
THEOREM AnswersOnceAndCurrent == OvlSpec => AnswersAreCurrent
<1>1. OvlInit => OverlapInv
  BY InitOverlap
<1>2. OverlapInv /\ [OvlNext]_ovlVars => OverlapInv'
  BY OverlapStep
<1>3. OverlapInv /\ [OvlNext]_ovlVars =>
        [\A i \in (DOMAIN ovlAnswers') \ (DOMAIN ovlAnswers) :
           LET a == ovlAnswers'[i] IN
           /\ a.kind = "completed" => ovlRuns[a.request] = ovlRun
           /\ \A j \in 1..(i - 1) : ovlAnswers'[j].request # a.request]_ovlVars
  BY OverlapStep
<1> QED
  BY <1>1, <1>2, <1>3, PTL DEF OvlSpec, AnswersAreCurrent

-----------------------------------------------------------------------------
(* InferenceScheduler: who gets the recognizer.  A primary call that waits *)
(* is not passed over for a correction when the result of the last call is *)
(* given: that call is in no queue, so its own end empties none.           *)
Futures == {"new", "pending", "cancelled", "returned", "expired", "failed"}

(* By the futures fut, q holds calls that were made, each once. *)
Queued(fut, q) ==
  /\ q \in Seq(AsrCalls)
  /\ \A i \in DOMAIN q : fut[q[i]] # "new"
  /\ \A i, j \in DOMAIN q : q[i] = q[j] => i = j

(* The call that holds the recognizer was made, and no primary queue has it. *)
Holder ==
  asrActive # NoAsrCall =>
    /\ asrActive \in AsrCalls /\ asrFuture[asrActive] # "new"
    /\ \A i \in DOMAIN asrQueue[0] : asrQueue[0][i] # asrActive

SlotInv ==
  /\ asrQueue \in [{0, 1} -> Seq(AsrCalls)]
  /\ Queued(asrFuture, asrQueue[0]) /\ Queued(asrFuture, asrQueue[1])
  /\ \A i \in DOMAIN asrQueue[0] : asrQueue[0][i] \in Primary
  /\ asrFuture \in [AsrCalls -> Futures]
  /\ Holder
  /\ asrClosed => asrQueue[0] = <<>> /\ asrQueue[1] = <<>>

(* r holds some of what q holds, each once. *)
Drawn(r, q) ==
  /\ r \in Seq(AsrCalls)
  /\ \A i \in DOMAIN r : \E j \in DOMAIN q : r[i] = q[j]
  /\ \A i, j \in DOMAIN r : r[i] = r[j] => i = j

(* Nothing can be drawn from an empty queue, and nothing always can. *)
LEMMA DrawNothing ==
  /\ \A q : Drawn(<<>>, q)
  /\ \A r : Drawn(r, <<>>) => r = <<>>
<1>1. \A q : Drawn(<<>>, q)
  <2> SUFFICES ASSUME NEW q PROVE Drawn(<<>>, q)
    OBVIOUS
  <2>1. <<>> \in Seq(AsrCalls) /\ DOMAIN <<>> = {}
    OBVIOUS
  <2> QED
    BY <2>1 DEF Drawn
<1>2. ASSUME NEW r, Drawn(r, <<>>) PROVE r = <<>>
  <2>1. r \in Seq(AsrCalls) /\ DOMAIN r = {}
    BY <1>2 DEF Drawn
  <2>2. Len(r) = 0
    BY <2>1
  <2> QED
    BY <2>1, <2>2, EmptySeq
<1> QED
  BY <1>1, <1>2

(* What is drawn from what was drawn. *)
LEMMA DrawTwice ==
  ASSUME NEW q, NEW r, NEW s, Drawn(s, r), Drawn(r, q)
  PROVE  Drawn(s, q)
BY DEF Drawn

(* Taking the head of a queue. *)
LEMMA DrawHead ==
  ASSUME NEW q, Drawn(q, q), q # <<>>
  PROVE  /\ Drawn(Tail(q), q)
         /\ 1 \in DOMAIN q /\ Head(q) = q[1]
         /\ \A i \in DOMAIN Tail(q) : Tail(q)[i] # Head(q)
<1>1. q \in Seq(AsrCalls) /\ Len(q) \in Nat \ {0} /\ DOMAIN q = 1 .. Len(q)
  <2>1. q \in Seq(AsrCalls)
    BY DEF Drawn
  <2> QED
    BY <2>1, EmptySeq, LenProperties
<1>2. Tail(q) \in Seq(AsrCalls) /\ Head(q) = q[1] /\ DOMAIN Tail(q) = 1 .. Len(q) - 1
  BY <1>1
<1>3. \A i \in 1 .. Len(q) - 1 : Tail(q)[i] = q[i + 1]
  BY <1>1
<1>4. \A i \in 1 .. Len(q) - 1 : i + 1 \in DOMAIN q /\ i + 1 # 1
  BY <1>1
<1>5. 1 \in DOMAIN q
  BY <1>1
<1>6. \A i \in DOMAIN Tail(q) : \E j \in DOMAIN q : Tail(q)[i] = q[j]
  BY <1>2, <1>3, <1>4
<1>7. ASSUME NEW i \in DOMAIN Tail(q), NEW j \in DOMAIN Tail(q), Tail(q)[i] = Tail(q)[j]
      PROVE  i = j
  <2>1. q[i + 1] = q[j + 1] /\ i + 1 \in DOMAIN q /\ j + 1 \in DOMAIN q
    BY <1>2, <1>3, <1>4, <1>7
  <2>2. i + 1 = j + 1
    BY <2>1 DEF Drawn
  <2>3. i \in Int /\ j \in Int
    BY <1>1, <1>2
  <2> QED
    BY <2>2, <2>3
<1>8. \A i \in DOMAIN Tail(q) : Tail(q)[i] # Head(q)
  <2> SUFFICES ASSUME NEW i \in DOMAIN Tail(q), q[i + 1] = q[1] PROVE FALSE
    BY <1>2, <1>3
  <2>1. i + 1 = 1
    BY <1>2, <1>4, <1>5 DEF Drawn
  <2> QED
    BY <1>2, <1>4, <2>1
<1> QED
  BY <1>2, <1>5, <1>6, <1>7, <1>8 DEF Drawn

(* What _next leaves of a queue, and what it popped. *)
LEMMA TrimDraws ==
  ASSUME NEW q, Drawn(q, q), NEW gone
  PROVE  /\ Drawn(Trimmed(q, gone), q)
         /\ Trimmed(q, gone) = <<>> => \A i \in DOMAIN q : q[i] \in gone
         /\ Trimmed(q, gone) # <<>> => Head(Trimmed(q, gone)) \notin gone
<1> DEFINE kept == {i \in DOMAIN q : q[i] \notin gone}
           k == CHOOSE i \in kept : \A j \in kept : i <= j
           rest == SubSeq(q, k, Len(q))
<1>0. q \in Seq(AsrCalls) /\ Len(q) \in Nat /\ DOMAIN q = 1 .. Len(q)
  <2>1. q \in Seq(AsrCalls)
    BY DEF Drawn
  <2> QED
    BY <2>1, LenProperties
<1>1. CASE kept = {}
  <2>1. Trimmed(q, gone) = <<>>
    BY <1>1 DEF Trimmed
  <2> QED
    BY <1>1, <2>1, DrawNothing
<1>2. CASE kept # {}
  <2>1. k \in kept
    <3>1. kept \in SUBSET Nat
      BY <1>0
    <3>2. \E i \in kept : \A j \in kept : i <= j
      BY <1>2, <3>1, LeastNatural
    <3> QED
      BY <3>2
  <2> HIDE DEF k
  <2>2. k \in 1 .. Len(q) /\ q[k] \notin gone /\ k \in Int /\ Len(q) \in Int
    BY <1>0, <2>1
  <2>3. /\ rest \in Seq(AsrCalls) /\ Len(rest) = Len(q) - k + 1
        /\ \A i \in 1 .. Len(q) - k + 1 : rest[i] = q[k + i - 1]
    <3>1. \A i \in k .. Len(q) : q[i] \in AsrCalls
      BY <1>0, <2>2, ElementOfSeq
    <3>2. k <= Len(q)
      BY <2>2
    <3> QED
      BY <2>2, <3>1, <3>2, SubSeqProperties
  <2> HIDE DEF rest
  <2>4. DOMAIN rest = 1 .. Len(q) - k + 1 /\ 1 \in DOMAIN rest
    <3>1. DOMAIN rest = 1 .. Len(rest)
      BY <2>3, LenProperties
    <3> QED
      BY <2>2, <2>3, <3>1
  <2>5. \A i \in DOMAIN rest : i \in Int /\ k + i - 1 \in DOMAIN q /\ rest[i] = q[k + i - 1]
    BY <1>0, <2>2, <2>3, <2>4
  <2>6. ASSUME NEW i \in DOMAIN rest, NEW j \in DOMAIN rest, rest[i] = rest[j]
        PROVE  i = j
    <3>1. k + i - 1 = k + j - 1
      BY <2>5, <2>6 DEF Drawn
    <3> QED
      BY <2>2, <2>5, <3>1
  <2>7. Drawn(rest, q)
    BY <2>3, <2>5, <2>6 DEF Drawn
  <2>8. rest # <<>> /\ Head(rest) = q[k]
    <3>1. rest # <<>> /\ Head(rest) = rest[1]
      BY <2>3, <2>4
    <3>2. k + 1 - 1 = k
      BY <2>2
    <3> QED
      BY <2>4, <2>5, <3>1, <3>2
  <2>9. Trimmed(q, gone) = rest
    BY <1>2 DEF Trimmed, rest, k
  <2> QED
    BY <2>2, <2>7, <2>8, <2>9
<1> QED
  BY <1>1, <1>2

(* A filtered queue. *)
LEMMA FilterDraws ==
  ASSUME NEW q, Drawn(q, q), NEW keep \in SUBSET DOMAIN q
  PROVE  Drawn(KeepAt(q, keep), q)
<1> DEFINE n == Cardinality(keep)
           r == KeepAt(q, keep)
<1>1. q \in Seq(AsrCalls)
  BY DEF Drawn
<1>2. r \in Seq(AsrCalls) /\ KeepsInOrder(q, keep)
  BY <1>1, KeepAtProperties
<1>3. DOMAIN r = 1 .. n /\ n \in Nat
  BY <1>2 DEF KeepsInOrder
<1>4. \A i \in 1 .. n : Nth(keep, i) \in DOMAIN q /\ r[i] = q[Nth(keep, i)]
  BY <1>2 DEF KeepsInOrder
<1>5. \A i, j \in 1 .. n : i < j => Nth(keep, i) < Nth(keep, j)
  BY <1>2 DEF KeepsInOrder
<1> HIDE DEF n, r
<1>6. ASSUME NEW i \in DOMAIN r, NEW j \in DOMAIN r, r[i] = r[j]
      PROVE  i = j
  <2>1. Nth(keep, i) = Nth(keep, j)
    BY <1>3, <1>4, <1>6 DEF Drawn
  <2>2. i \in 1 .. n /\ j \in 1 .. n /\ i \in Int /\ j \in Int
    BY <1>3
  <2>3. Nth(keep, i) \in Int
    <3>1. DOMAIN q = 1 .. Len(q)
      BY <1>1, LenProperties
    <3> QED
      BY <1>4, <2>2, <3>1
  <2>4. ~(i < j) /\ ~(j < i)
    BY <1>5, <2>1, <2>2, <2>3
  <2> QED
    BY <2>2, <2>4
<1> QED
  BY <1>2, <1>3, <1>4, <1>6 DEF Drawn, r

(* A queue in order can be drawn from itself. *)
LEMMA QueuesDrawn ==
  ASSUME SlotInv
  PROVE  Drawn(asrQueue[0], asrQueue[0]) /\ Drawn(asrQueue[1], asrQueue[1])
BY DEF SlotInv, Queued, Drawn

(* Both queues. *)
Lanes(f, p, s) == f \in [{0, 1} -> Seq(AsrCalls)] /\ f[0] = p /\ f[1] = s

(* Queues that are drawn from, by futures that are not forgotten. *)
LEMMA DrawingKeeps ==
  ASSUME SlotInv, NEW p, NEW s, Drawn(p, asrQueue[0]), Drawn(s, asrQueue[1]),
         Lanes(asrQueue', p, s),
         asrFuture' \in [AsrCalls -> Futures],
         \A c \in AsrCalls : asrFuture'[c] = "new" => asrFuture[c] = "new",
         Holder', asrClosed' => asrClosed \/ (p = <<>> /\ s = <<>>)
  PROVE  SlotInv'
<1>1. asrQueue'[0] = p /\ asrQueue'[1] = s /\ asrQueue' \in [{0, 1} -> Seq(AsrCalls)]
  BY DEF Lanes
<1>2. Queued(asrFuture', p) /\ Queued(asrFuture', s)
  <2>1. ASSUME NEW q, NEW r, Queued(asrFuture, q), Drawn(r, q)
        PROVE  /\ r \in Seq(AsrCalls)
               /\ \A i \in DOMAIN r : asrFuture'[r[i]] # "new"
               /\ \A i, j \in DOMAIN r : r[i] = r[j] => i = j
    <3>1. \A i \in DOMAIN r : r[i] \in AsrCalls
      <4>1. \A j \in DOMAIN q : q[j] \in AsrCalls
        BY <2>1, ElementOfSeq, LenProperties DEF Queued
      <4> QED
        BY <2>1, <4>1 DEF Drawn
    <3>2. ASSUME NEW i \in DOMAIN r PROVE asrFuture'[r[i]] # "new"
      <4>1. asrFuture[r[i]] # "new"
        BY <2>1 DEF Drawn, Queued
      <4> QED
        BY <3>1, <4>1
    <3> QED
      BY <2>1, <3>2 DEF Drawn
  <2>2. Queued(asrFuture, asrQueue[0]) /\ Queued(asrFuture, asrQueue[1])
    BY DEF SlotInv
  <2> QED
    BY <2>1, <2>2 DEF Queued
<1>3. \A i \in DOMAIN p : p[i] \in Primary
  BY DEF SlotInv, Drawn
<1>4. asrClosed' => p = <<>> /\ s = <<>>
  BY DrawNothing DEF SlotInv
<1> QED
  BY <1>1, <1>2, <1>3, <1>4 DEF SlotInv, Queued

(* Outcomes are given to calls that wait. *)
LEMMA SettleGives ==
  ASSUME NEW fut \in [AsrCalls -> Futures], NEW cs, NEW outcome \in Futures \ {"new", "pending"}
  PROVE  LET g == Settle(fut, cs, outcome) IN
         /\ g \in [AsrCalls -> Futures]
         /\ \A c \in AsrCalls : g[c] = "new" => fut[c] = "new"
         /\ \A c \in AsrCalls : g[c] = "pending" => fut[c] = "pending" /\ c \notin cs
         /\ \A c \in AsrCalls : c \notin cs => g[c] = fut[c]
BY DEF Settle, Futures

(* What SlotDiscipline asks of a step. *)
Orderly ==
  asrActive' # asrActive /\ asrActive' # NoAsrCall
    => /\ asrFuture[asrActive'] = "pending" /\ ~asrClosed
       /\ asrActive' \in Primary
            \/ \A i \in DOMAIN asrQueue[0] : asrFuture[asrQueue[0][i]] # "pending"

(* The head of what is left of a queue gets the recognizer. *)
LEMMA HeadWaits ==
  ASSUME SlotInv, NEW fut \in [AsrCalls -> Futures], NEW gone,
         \A c \in AsrCalls : fut[c] # "pending" => c \in gone,
         NEW q, Queued(asrFuture, q), Drawn(q, q), NEW r, r = Trimmed(q, gone), r # <<>>
  PROVE  /\ Head(r) \in AsrCalls /\ fut[Head(r)] = "pending"
         /\ Drawn(Tail(r), q)
         /\ \A i \in DOMAIN Tail(r) : Tail(r)[i] # Head(r)
         /\ \E j \in DOMAIN q : Head(r) = q[j]
<1>1. Drawn(r, q) /\ Head(r) \notin gone
  BY TrimDraws
<1>2. Drawn(r, r)
  BY <1>1 DEF Drawn
<1>3. /\ Drawn(Tail(r), r) /\ 1 \in DOMAIN r /\ Head(r) = r[1]
      /\ \A i \in DOMAIN Tail(r) : Tail(r)[i] # Head(r)
  BY <1>2, DrawHead
<1>4. \E j \in DOMAIN q : Head(r) = q[j]
  BY <1>1, <1>3 DEF Drawn
<1>5. Head(r) \in AsrCalls
  BY <1>4, ElementOfSeq, LenProperties DEF Queued
<1>6. Drawn(Tail(r), q)
  BY <1>1, <1>3, DrawTwice
<1> QED
  BY <1>1, <1>3, <1>4, <1>5, <1>6

(* Both queues are replaced, or the head of one is taken. *)
LEMMA LanesChange ==
  ASSUME NEW p \in Seq(AsrCalls), NEW s \in Seq(AsrCalls)
  PROVE  /\ \A f \in [{0, 1} -> Seq(AsrCalls)] : Lanes([f EXCEPT ![0] = p, ![1] = s], p, s)
         /\ \A f : Lanes(f, p, s) /\ Tail(p) \in Seq(AsrCalls) => Lanes([f EXCEPT ![0] = Tail(@)], Tail(p), s)
         /\ \A f : Lanes(f, p, s) /\ Tail(s) \in Seq(AsrCalls) => Lanes([f EXCEPT ![1] = Tail(@)], p, Tail(s))
<1> DEFINE S == Seq(AsrCalls)
<1>1. p \in S /\ s \in S /\ <<>> \in S
  OBVIOUS
<1>2. \A f, x, y : Lanes(f, x, y) <=> f \in [{0, 1} -> S] /\ f[0] = x /\ f[1] = y
  BY DEF Lanes
<1>3. \A q : Tail(q) \in Seq(AsrCalls) <=> Tail(q) \in S
  OBVIOUS
<1> HIDE DEF S
<1>4. \A f \in [{0, 1} -> S] : Lanes([f EXCEPT ![0] = p, ![1] = s], p, s)
  BY <1>1, <1>2
<1>5. ASSUME NEW f, Lanes(f, p, s), Tail(p) \in S
      PROVE  Lanes([f EXCEPT ![0] = Tail(@)], Tail(p), s)
  <2> DEFINE t == Tail(p)
  <2>1. f \in [{0, 1} -> S] /\ f[0] = p /\ f[1] = s /\ t \in S
    BY <1>2, <1>5
  <2> HIDE DEF t
  <2> DEFINE g == [f EXCEPT ![0] = t]
  <2>2. Lanes(g, t, s)
    <3>1. g \in [{0, 1} -> S] /\ g[0] = t /\ g[1] = s
      BY <2>1
    <3> HIDE DEF g
    <3> QED
      BY <1>2, <3>1, Zenon
  <2> QED
    BY <2>1, <2>2 DEF t
<1>6. ASSUME NEW f, Lanes(f, p, s), Tail(s) \in S
      PROVE  Lanes([f EXCEPT ![1] = Tail(@)], p, Tail(s))
  <2> DEFINE t == Tail(s)
  <2>1. f \in [{0, 1} -> S] /\ f[0] = p /\ f[1] = s /\ t \in S
    BY <1>2, <1>6
  <2> HIDE DEF t
  <2> DEFINE g == [f EXCEPT ![1] = t]
  <2>2. Lanes(g, p, t)
    <3>1. g \in [{0, 1} -> S] /\ g[0] = p /\ g[1] = t
      BY <2>1
    <3> HIDE DEF g
    <3> QED
      BY <1>2, <3>1, Zenon
  <2> QED
    BY <2>1, <2>2 DEF t
<1> QED
  BY <1>3, <1>4, <1>5, <1>6 DEF S

(* Both queues are emptied. *)
LEMMA LanesEmptied == Lanes([lane \in {0, 1} |-> <<>>], <<>>, <<>>)
<1> DEFINE S == Seq(AsrCalls)
<1>1. <<>> \in S
  OBVIOUS
<1> HIDE DEF S
<1>2. [lane \in {0, 1} |-> <<>>] \in [{0, 1} -> S]
  BY <1>1
<1> QED
  BY <1>2 DEF Lanes, S

(* The worker goes on, from futures fut in which only a call that is in no *)
(* primary queue has a new outcome.                                        *)
LEMMA AdvanceInOrder ==
  ASSUME SlotInv, NEW fut \in [AsrCalls -> Futures],
         \A c \in AsrCalls : fut[c] = "new" => asrFuture[c] = "new",
         \A c \in AsrCalls : fut[c] = "pending" => asrFuture[c] = "pending",
         \A i \in DOMAIN asrQueue[0] : fut[asrQueue[0][i]] = asrFuture[asrQueue[0][i]],
         Advance(fut), UNCHANGED asrClosed
  PROVE  SlotInv' /\ Orderly
<1> DEFINE done == {c \in AsrCalls : fut[c] # "pending"}
           primary == Trimmed(asrQueue[0], done)
           secondary == Trimmed(asrQueue[1], done)
           admissible == Trimmed(secondary, done \cup asrLate)
           expiring == Settle(fut, Range(secondary) \ Range(admissible), "expired")
           left == [asrQueue EXCEPT ![0] = primary, ![1] = secondary]
           now == [asrQueue EXCEPT ![0] = primary, ![1] = admissible]
<1>1. \/ primary # <<>> /\ Begin(0, left, fut)
      \/ /\ primary = <<>> /\ admissible # <<>>
         /\ Begin(1, now, expiring)
      \/ /\ primary = <<>>
         /\ asrQueue' = now /\ asrFuture' = expiring /\ asrActive' = NoAsrCall
      \/ /\ asrQueue' = [lane \in {0, 1} |-> <<>>]
         /\ asrFuture' = Settle(Settle(expiring, Range(admissible) \cap asrLate, "expired"),
                                Range(admissible), "failed")
         /\ asrActive' = NoAsrCall
  <2> DEFINE Step(x, y, z, e) ==
        \/ x # <<>> /\ Begin(0, [asrQueue EXCEPT ![0] = x, ![1] = y], fut)
        \/ /\ x = <<>> /\ z # <<>> /\ asrAdmission = "yes"
           /\ Begin(1, [asrQueue EXCEPT ![0] = x, ![1] = z], e)
        \/ /\ x = <<>> /\ z # <<>> /\ asrAdmission = "no"
           /\ asrQueue' = [asrQueue EXCEPT ![0] = x, ![1] = z] /\ asrFuture' = e
           /\ asrWorker' = "polling" /\ asrActive' = NoAsrCall
        \/ /\ x = <<>> /\ (z = <<>> \/ asrAdmission = "raises")
           /\ asrQueue' = [lane \in {0, 1} |-> <<>>]
           /\ asrFuture' = Settle(Settle(e, Range(z) \cap asrLate, "expired"), Range(z), "failed")
           /\ asrWorker' = "none" /\ asrActive' = NoAsrCall
  <2>1. \E d \in {{c \in AsrCalls : fut[c] # "pending"}} :
        \E x \in {Trimmed(asrQueue[0], d)}, y \in {Trimmed(asrQueue[1], d)} :
        \E z \in {Trimmed(y, d \cup asrLate)} :
        \E e \in {Settle(fut, Range(y) \ Range(z), "expired")} : Step(x, y, z, e)
    BY Zenon DEF Advance
  <2> HIDE DEF Step
  <2>2. \E x \in {Trimmed(asrQueue[0], done)}, y \in {Trimmed(asrQueue[1], done)} :
        \E z \in {Trimmed(y, done \cup asrLate)} :
        \E e \in {Settle(fut, Range(y) \ Range(z), "expired")} : Step(x, y, z, e)
    <3> DEFINE After(d) ==
          \E x \in {Trimmed(asrQueue[0], d)}, y \in {Trimmed(asrQueue[1], d)} :
          \E z \in {Trimmed(y, d \cup asrLate)} :
          \E e \in {Settle(fut, Range(y) \ Range(z), "expired")} : Step(x, y, z, e)
    <3>1. \E d \in {done} : After(d)
      BY <2>1
    <3> HIDE DEF After, done
    <3>2. After(done)
      BY <3>1, Zenon
    <3> QED
      BY <3>2 DEF After
  <2> HIDE DEF done
  <2>3. \E z \in {admissible} :
        \E e \in {Settle(fut, Range(secondary) \ Range(z), "expired")} :
          Step(primary, secondary, z, e)
    <3> DEFINE After(x, y) ==
          \E z \in {Trimmed(y, done \cup asrLate)} :
          \E e \in {Settle(fut, Range(y) \ Range(z), "expired")} : Step(x, y, z, e)
    <3>1. \E x \in {primary}, y \in {secondary} : After(x, y)
      BY <2>2
    <3> HIDE DEF After, primary, secondary
    <3>2. After(primary, secondary)
      BY <3>1, Zenon
    <3> QED
      BY <3>2 DEF After
  <2> HIDE DEF primary, secondary, admissible
  <2>4. Step(primary, secondary, admissible, expiring)
    BY <2>3, Zenon
  <2> QED
    BY <2>4 DEF Step
<1>2. Drawn(asrQueue[0], asrQueue[0]) /\ Drawn(asrQueue[1], asrQueue[1])
  BY QueuesDrawn
<1>3. Drawn(primary, asrQueue[0]) /\ Drawn(secondary, asrQueue[1])
  BY <1>2, TrimDraws
<1>4. Drawn(secondary, secondary)
  BY <1>3 DEF Drawn
<1>5. Drawn(admissible, secondary) /\ Drawn(admissible, asrQueue[1])
  BY <1>3, <1>4, TrimDraws, DrawTwice
<1>6. /\ expiring \in [AsrCalls -> Futures]
      /\ \A c \in AsrCalls : expiring[c] = "new" => asrFuture[c] = "new"
      /\ \A c \in AsrCalls : expiring[c] = "pending" => fut[c] = "pending"
  BY SettleGives DEF Futures
<1>7. /\ Queued(asrFuture, asrQueue[0]) /\ Queued(asrFuture, asrQueue[1])
      /\ \A i \in DOMAIN asrQueue[0] : asrQueue[0][i] \in Primary
      /\ asrQueue \in [{0, 1} -> Seq(AsrCalls)]
      /\ asrClosed => asrQueue[0] = <<>> /\ asrQueue[1] = <<>>
  BY DEF SlotInv
<1>8. Queued(asrFuture, secondary)
  <2> HIDE DEF secondary
  <2>1. \A i \in DOMAIN secondary : asrFuture[secondary[i]] # "new"
    BY <1>3, <1>7 DEF Drawn, Queued
  <2> QED
    BY <1>3, <2>1 DEF Drawn, Queued
<1>9. \A c \in AsrCalls : fut[c] # "pending" => c \in done /\ c \in done \cup asrLate
  OBVIOUS
<1>10. \A i \in DOMAIN asrQueue[0] : asrQueue[0][i] \in AsrCalls
  BY <1>7, ElementOfSeq, LenProperties DEF Queued
<1>11. primary = <<>> => \A i \in DOMAIN asrQueue[0] : asrFuture[asrQueue[0][i]] # "pending"
  <2>1. primary = <<>> => \A i \in DOMAIN asrQueue[0] : asrQueue[0][i] \in done
    BY <1>2, TrimDraws
  <2> QED
    BY <2>1
<1> HIDE DEF done, primary, secondary, admissible, expiring
<1>12. Lanes(left, primary, secondary) /\ Lanes(now, primary, admissible)
  <2>1. primary \in Seq(AsrCalls) /\ secondary \in Seq(AsrCalls) /\ admissible \in Seq(AsrCalls)
    BY <1>3, <1>5 DEF Drawn
  <2> QED
    BY <1>7, <2>1, LanesChange
<1> HIDE DEF left, now
<1>13. CASE primary # <<>> /\ Begin(0, left, fut)
  <2>1. /\ asrActive' = Head(left[0]) /\ asrFuture' = fut
        /\ asrQueue' = [left EXCEPT ![0] = Tail(@)]
    BY <1>13 DEF Begin
  <2>2. /\ Head(primary) \in AsrCalls /\ fut[Head(primary)] = "pending"
        /\ Drawn(Tail(primary), asrQueue[0])
        /\ \A i \in DOMAIN Tail(primary) : Tail(primary)[i] # Head(primary)
        /\ \E j \in DOMAIN asrQueue[0] : Head(primary) = asrQueue[0][j]
    <3> DEFINE q == asrQueue[0]
    <3>1. /\ primary = Trimmed(q, done) /\ Queued(asrFuture, q) /\ Drawn(q, q)
          /\ \A c \in AsrCalls : fut[c] # "pending" => c \in done
      BY <1>2, <1>7, <1>9 DEF primary
    <3> HIDE DEF q
    <3>2. /\ Head(primary) \in AsrCalls /\ fut[Head(primary)] = "pending"
          /\ Drawn(Tail(primary), q)
          /\ \A i \in DOMAIN Tail(primary) : Tail(primary)[i] # Head(primary)
          /\ \E j \in DOMAIN q : Head(primary) = q[j]
      BY <1>13, <3>1, HeadWaits
    <3> QED
      BY <3>2 DEF q
  <2>0. asrActive' = Head(primary) /\ Lanes(asrQueue', Tail(primary), secondary)
    <3>1. primary \in Seq(AsrCalls) /\ secondary \in Seq(AsrCalls) /\ Tail(primary) \in Seq(AsrCalls)
      BY <1>3, <2>2 DEF Drawn
    <3>2. Lanes([left EXCEPT ![0] = Tail(@)], Tail(primary), secondary)
      BY <1>12, <3>1, LanesChange, Zenon
    <3>3. left[0] = primary
      BY <1>12 DEF Lanes
    <3> QED
      BY <2>1, <3>2, <3>3, Zenon
  <2>3. Holder'
    BY <2>0, <2>1, <2>2 DEF Holder, Lanes
  <2>4. SlotInv'
    BY <1>3, <2>0, <2>1, <2>2, <2>3, DrawingKeeps
  <2>5. ~asrClosed
    <3>1. asrQueue[0] # <<>>
      BY <2>2
    <3> QED
      BY <1>7, <3>1
  <2>6. Head(primary) \in Primary
    BY <1>7, <2>2
  <2> QED
    BY <2>0, <2>2, <2>4, <2>5, <2>6 DEF Orderly
<1>14. CASE primary = <<>> /\ admissible # <<>> /\ Begin(1, now, expiring)
  <2>1. /\ asrActive' = Head(now[1]) /\ asrFuture' = expiring
        /\ asrQueue' = [now EXCEPT ![1] = Tail(@)]
    BY <1>14 DEF Begin
  <2>2. /\ Head(admissible) \in AsrCalls /\ fut[Head(admissible)] = "pending"
        /\ Drawn(Tail(admissible), secondary)
        /\ \E j \in DOMAIN secondary : Head(admissible) = secondary[j]
    <3> DEFINE gone == done \cup asrLate
    <3>1. admissible = Trimmed(secondary, gone) /\ \A c \in AsrCalls : fut[c] # "pending" => c \in gone
      BY <1>9 DEF admissible
    <3> HIDE DEF gone
    <3> QED
      BY <1>4, <1>8, <1>14, <3>1, HeadWaits
  <2>3. Drawn(Tail(admissible), asrQueue[1])
    BY <1>3, <2>2, DrawTwice
  <2>0. asrActive' = Head(admissible) /\ Lanes(asrQueue', primary, Tail(admissible))
    <3>1. primary \in Seq(AsrCalls) /\ admissible \in Seq(AsrCalls) /\ Tail(admissible) \in Seq(AsrCalls)
      BY <1>3, <1>5, <2>2 DEF Drawn
    <3>2. Lanes([now EXCEPT ![1] = Tail(@)], primary, Tail(admissible))
      BY <1>12, <3>1, LanesChange, Zenon
    <3>3. now[1] = admissible
      BY <1>12 DEF Lanes
    <3> QED
      BY <2>1, <3>2, <3>3, Zenon
  <2>4. asrFuture[Head(admissible)] = "pending"
    BY <2>2
  <2>5. Holder'
    <3>1. asrQueue'[0] = <<>>
      BY <1>14, <2>0 DEF Lanes
    <3>2. expiring[Head(admissible)] # "new"
      BY <1>6, <2>2, <2>4
    <3>3. DOMAIN asrQueue'[0] = {}
      BY <3>1
    <3> QED
      BY <2>0, <2>1, <2>2, <3>2, <3>3 DEF Holder
  <2>6. SlotInv'
    BY <1>3, <1>6, <2>0, <2>1, <2>3, <2>5, DrawingKeeps
  <2>7. ~asrClosed
    <3>1. asrQueue[1] # <<>>
      BY <1>3, <2>2 DEF Drawn
    <3> QED
      BY <1>7, <3>1
  <2> QED
    BY <1>11, <1>14, <2>0, <2>4, <2>6, <2>7 DEF Orderly
<1>15. CASE asrQueue' = now /\ asrFuture' = expiring /\ asrActive' = NoAsrCall
  <2>1. Holder' /\ Orderly
    BY <1>15 DEF Holder, Orderly
  <2> QED
    BY <1>3, <1>5, <1>6, <1>12, <1>15, <2>1, DrawingKeeps
<1>16. CASE /\ asrQueue' = [lane \in {0, 1} |-> <<>>]
            /\ asrFuture' = Settle(Settle(expiring, Range(admissible) \cap asrLate, "expired"),
                                   Range(admissible), "failed")
            /\ asrActive' = NoAsrCall
  <2>1. Holder' /\ Orderly
    BY <1>16 DEF Holder, Orderly
  <2>2. /\ asrFuture' \in [AsrCalls -> Futures]
        /\ \A c \in AsrCalls : asrFuture'[c] = "new" => asrFuture[c] = "new"
    <3> DEFINE g == Settle(expiring, Range(admissible) \cap asrLate, "expired")
    <3>1. /\ g \in [AsrCalls -> Futures]
          /\ \A c \in AsrCalls : g[c] = "new" => expiring[c] = "new"
      BY <1>6, SettleGives DEF Futures
    <3> HIDE DEF g
    <3>2. LET h == Settle(g, Range(admissible), "failed") IN
          /\ h \in [AsrCalls -> Futures]
          /\ \A c \in AsrCalls : h[c] = "new" => g[c] = "new"
      BY <3>1, SettleGives DEF Futures
    <3> QED
      BY <1>6, <1>16, <3>1, <3>2 DEF g
  <2>3. Lanes(asrQueue', <<>>, <<>>)
    BY <1>16, LanesEmptied, Zenon
  <2> QED
    BY <2>1, <2>2, <2>3, DrawNothing, DrawingKeeps
<1> QED
  BY <1>1, <1>13, <1>14, <1>15, <1>16

(* A new call joins the queue of its kind, or is refused. *)
LEMMA SubmitKeepsSlot ==
  ASSUME SlotInv, NEW c \in AsrCalls, Submit(c)
  PROVE  SlotInv' /\ Orderly
<1> DEFINE lane == Lane(c)
           keep == {i \in DOMAIN asrQueue[lane] : asrFuture[asrQueue[lane][i]] = "pending"}
           alive == KeepAt(asrQueue[lane], keep)
<1>1. /\ asrFuture[c] = "new" /\ ~asrClosed /\ UNCHANGED <<asrActive, asrClosed>>
      /\ \/ asrQueue' = [asrQueue EXCEPT ![lane] = alive] /\ UNCHANGED asrFuture
         \/ /\ asrQueue' = [asrQueue EXCEPT ![lane] = Append(alive, c)]
            /\ asrFuture' = [asrFuture EXCEPT ![c] = "pending"]
  BY DEF Submit, Filter
<1>2. lane \in {0, 1} /\ (lane = 0 => c \in Primary)
  BY DEF Lane
<1>3. /\ asrQueue \in [{0, 1} -> Seq(AsrCalls)] /\ asrFuture \in [AsrCalls -> Futures]
      /\ Queued(asrFuture, asrQueue[0]) /\ Queued(asrFuture, asrQueue[1]) /\ Holder
      /\ \A i \in DOMAIN asrQueue[0] : asrQueue[0][i] \in Primary
  BY DEF SlotInv
<1>4. Drawn(asrQueue[0], asrQueue[0]) /\ Drawn(asrQueue[1], asrQueue[1]) /\ Queued(asrFuture, asrQueue[lane])
  BY <1>2, <1>3, QueuesDrawn
<1>5. Drawn(alive, asrQueue[lane])
  BY <1>2, <1>4, FilterDraws
<1> HIDE DEF lane, keep, alive
<1>6. /\ alive \in Seq(AsrCalls)
      /\ \A i \in DOMAIN alive : \E j \in DOMAIN asrQueue[lane] : alive[i] = asrQueue[lane][j]
      /\ \A i, j \in DOMAIN alive : alive[i] = alive[j] => i = j
  BY <1>5 DEF Drawn
<1>7. \A i \in DOMAIN alive : asrFuture[alive[i]] # "new" /\ alive[i] \in AsrCalls /\ alive[i] # c
  <2>1. \A j \in DOMAIN asrQueue[lane] :
          asrFuture[asrQueue[lane][j]] # "new" /\ asrQueue[lane][j] \in AsrCalls
    BY <1>4, ElementOfSeq, LenProperties DEF Queued
  <2> QED
    BY <1>1, <1>6, <2>1
<1>8. lane = 0 => \A i \in DOMAIN alive :
        alive[i] \in Primary /\ (asrActive # NoAsrCall => alive[i] # asrActive)
  BY <1>3, <1>6 DEF Holder
<1>9. Orderly
  BY <1>1 DEF Orderly
<1>10. CASE asrQueue' = [asrQueue EXCEPT ![lane] = alive] /\ UNCHANGED asrFuture
  <2>1. /\ asrQueue' \in [{0, 1} -> Seq(AsrCalls)]
        /\ lane = 0 => asrQueue'[0] = alive /\ asrQueue'[1] = asrQueue[1]
        /\ lane = 1 => asrQueue'[0] = asrQueue[0] /\ asrQueue'[1] = alive
    BY <1>2, <1>3, <1>6, <1>10
  <2>2. Queued(asrFuture, alive)
    BY <1>6, <1>7 DEF Queued
  <2>3. Queued(asrFuture', asrQueue'[0]) /\ Queued(asrFuture', asrQueue'[1])
    <3>1. Queued(asrFuture, asrQueue'[0]) /\ Queued(asrFuture, asrQueue'[1])
      BY <1>2, <1>3, <2>1, <2>2
    <3> QED
      BY <1>10, <3>1 DEF Queued
  <2>4. \A i \in DOMAIN asrQueue'[0] :
          asrQueue'[0][i] \in Primary /\ (asrActive # NoAsrCall => asrQueue'[0][i] # asrActive)
    BY <1>2, <1>3, <1>8, <2>1 DEF Holder
  <2>5. Holder'
    BY <1>1, <1>3, <1>10, <2>4 DEF Holder
  <2> QED
    BY <1>1, <1>3, <1>9, <1>10, <2>1, <2>3, <2>4, <2>5 DEF SlotInv
<1>11. CASE /\ asrQueue' = [asrQueue EXCEPT ![lane] = Append(alive, c)]
            /\ asrFuture' = [asrFuture EXCEPT ![c] = "pending"]
  <2> DEFINE q == Append(alive, c)
             n == Len(alive)
  <2>1. /\ q \in Seq(AsrCalls) /\ n \in Nat /\ DOMAIN alive = 1 .. n /\ DOMAIN q = 1 .. n + 1
        /\ \A i \in 1 .. n : q[i] = alive[i]
        /\ q[n + 1] = c
    BY <1>6
  <2>2. \A i \in 1 .. n + 1 : i \in 1 .. n \/ i = n + 1
    BY <2>1
  <2> HIDE DEF q, n
  <2>3. ASSUME NEW i \in DOMAIN q
        PROVE  \/ i \in DOMAIN alive /\ q[i] = alive[i] /\ q[i] # c
               \/ i = n + 1 /\ q[i] = c
    BY <1>7, <2>1, <2>2
  <2>4. /\ asrFuture' \in [AsrCalls -> Futures] /\ asrFuture'[c] = "pending"
        /\ \A d \in AsrCalls : asrFuture[d] # "new" => asrFuture'[d] # "new"
    BY <1>1, <1>3, <1>11 DEF Futures
  <2>5. \A i \in DOMAIN q : asrFuture'[q[i]] # "new"
    BY <1>7, <2>3, <2>4
  <2>6. \A i, j \in DOMAIN q : q[i] = q[j] => i = j
    BY <1>6, <2>3
  <2>7. lane = 0 => \A i \in DOMAIN q : q[i] \in Primary /\ (asrActive # NoAsrCall => q[i] # asrActive)
    BY <1>1, <1>2, <1>3, <1>8, <2>3 DEF Holder
  <2>8. /\ asrQueue' \in [{0, 1} -> Seq(AsrCalls)]
        /\ lane = 0 => asrQueue'[0] = q /\ asrQueue'[1] = asrQueue[1]
        /\ lane = 1 => asrQueue'[0] = asrQueue[0] /\ asrQueue'[1] = q
    BY <1>2, <1>3, <1>11, <2>1 DEF q
  <2>9. Queued(asrFuture', q)
    BY <2>1, <2>5, <2>6 DEF Queued
  <2>10. \A l \in {0, 1} : Queued(asrFuture', asrQueue[l])
    <3>1. ASSUME NEW l \in {0, 1}, NEW i \in DOMAIN asrQueue[l]
          PROVE  asrQueue[l][i] \in AsrCalls /\ asrFuture[asrQueue[l][i]] # "new"
      BY <1>3, <3>1, ElementOfSeq, LenProperties DEF Queued
    <3>2. \A l \in {0, 1} : \A i \in DOMAIN asrQueue[l] : asrFuture'[asrQueue[l][i]] # "new"
      BY <2>4, <3>1
    <3> QED
      BY <1>3, <3>2 DEF Queued
  <2>11. Queued(asrFuture', asrQueue'[0]) /\ Queued(asrFuture', asrQueue'[1])
    BY <1>2, <2>8, <2>9, <2>10
  <2>12. \A i \in DOMAIN asrQueue'[0] :
          asrQueue'[0][i] \in Primary /\ (asrActive # NoAsrCall => asrQueue'[0][i] # asrActive)
    BY <1>2, <1>3, <2>7, <2>8 DEF Holder
  <2>13. Holder'
    BY <1>1, <1>3, <2>4, <2>12 DEF Holder
  <2> QED
    BY <1>1, <1>9, <2>4, <2>8, <2>11, <2>12, <2>13 DEF SlotInv
<1> QED
  BY <1>1, <1>10, <1>11

(* Futures that are not forgotten, beside queues that stay or are emptied. *)
LEMMA OutcomesKeepSlot ==
  ASSUME SlotInv, asrFuture' \in [AsrCalls -> Futures],
         \A c \in AsrCalls : asrFuture'[c] = "new" => asrFuture[c] = "new",
         UNCHANGED asrActive,
         \/ UNCHANGED <<asrQueue, asrClosed>>
         \/ asrQueue' = [lane \in {0, 1} |-> <<>>]
  PROVE  SlotInv' /\ Orderly
<1>1. Orderly
  BY DEF Orderly
<1>2. Holder /\ asrQueue \in [{0, 1} -> Seq(AsrCalls)]
  BY DEF SlotInv
<1>3. CASE UNCHANGED <<asrQueue, asrClosed>>
  <2>1. Lanes(asrQueue', asrQueue[0], asrQueue[1])
    BY <1>2, <1>3 DEF Lanes
  <2>2. Holder'
    BY <1>2, <1>3 DEF Holder
  <2> QED
    BY <1>1, <1>3, <2>1, <2>2, QueuesDrawn, DrawingKeeps
<1>4. CASE asrQueue' = [lane \in {0, 1} |-> <<>>]
  <2>1. Lanes(asrQueue', <<>>, <<>>)
    BY <1>4, LanesEmptied, Zenon
  <2>2. DOMAIN asrQueue'[0] = {}
    BY <1>4
  <2>3. Holder'
    BY <1>2, <2>2 DEF Holder
  <2> QED
    BY <1>1, <2>1, <2>3, DrawNothing, DrawingKeeps
<1> QED
  BY <1>3, <1>4

(* The recognizer returns; no call is NoAsrCall. *)
LEMMA RecognizerReturnsInOrder ==
  ASSUME SlotInv, NoAsrCall \notin AsrCalls, RecognizerReturns
  PROVE  SlotInv' /\ Orderly
<1> DEFINE fut == Settle(asrFuture, {asrActive}, "returned")
<1>1. Advance(fut) /\ UNCHANGED asrClosed
  <2>1. \E g \in {fut} : Advance(g)
    BY DEF RecognizerReturns
  <2> HIDE DEF fut
  <2>2. Advance(fut)
    BY <2>1, Zenon
  <2> QED
    BY <2>2 DEF RecognizerReturns
<1>2. asrFuture \in [AsrCalls -> Futures] /\ Holder /\ Queued(asrFuture, asrQueue[0])
  BY DEF SlotInv
<1>3. /\ fut \in [AsrCalls -> Futures]
      /\ \A c \in AsrCalls : fut[c] = "new" => asrFuture[c] = "new"
      /\ \A c \in AsrCalls : fut[c] = "pending" => asrFuture[c] = "pending"
      /\ \A c \in AsrCalls : c # asrActive => fut[c] = asrFuture[c]
  BY <1>2, SettleGives DEF Futures
<1> HIDE DEF fut
<1>4. \A i \in DOMAIN asrQueue[0] : asrQueue[0][i] \in AsrCalls /\ asrQueue[0][i] # asrActive
  <2>1. \A i \in DOMAIN asrQueue[0] : asrQueue[0][i] \in AsrCalls
    BY <1>2, ElementOfSeq, LenProperties DEF Queued
  <2> QED
    BY <1>2, <2>1 DEF Holder
<1>5. \A i \in DOMAIN asrQueue[0] : fut[asrQueue[0][i]] = asrFuture[asrQueue[0][i]]
  BY <1>3, <1>4
<1> QED
  BY <1>1, <1>3, <1>5, AdvanceInOrder

(* The worker wakes. *)
LEMMA PollInOrder ==
  ASSUME SlotInv, Poll
  PROVE  SlotInv' /\ Orderly
<1>1. Advance(asrFuture) /\ UNCHANGED asrClosed /\ asrFuture \in [AsrCalls -> Futures]
  BY DEF Poll, SlotInv
<1> QED
  BY <1>1, AdvanceInOrder

(* The other steps give no call the recognizer. *)
LEMMA RestKeepsSlot ==
  ASSUME SlotInv,
         \/ \E c \in AsrCalls : Cancel(c) \/ Age(c)
         \/ AdmissionChanges \/ CloseReturns \/ UNCHANGED asrVars
         \/ \E wait \in BOOLEAN : Close(wait)
  PROVE  SlotInv' /\ Orderly
<1>1. asrFuture \in [AsrCalls -> Futures]
  BY DEF SlotInv
<1>2. ASSUME NEW c \in AsrCalls, Cancel(c) PROVE SlotInv' /\ Orderly
  <2>1. asrFuture' = [asrFuture EXCEPT ![c] = "cancelled"] /\ UNCHANGED <<asrQueue, asrActive, asrClosed>>
    BY <1>2 DEF Cancel
  <2>2. /\ asrFuture' \in [AsrCalls -> Futures]
        /\ \A d \in AsrCalls : asrFuture'[d] = "new" => asrFuture[d] = "new"
    BY <1>1, <2>1 DEF Futures
  <2> QED
    BY <2>1, <2>2, OutcomesKeepSlot
<1>3. ASSUME NEW wait \in BOOLEAN, Close(wait) PROVE SlotInv' /\ Orderly
  <2>1. /\ asrFuture' = Settle(asrFuture, Range(asrQueue[0]) \cup Range(asrQueue[1]), "cancelled")
        /\ asrQueue' = [lane \in {0, 1} |-> <<>>] /\ UNCHANGED asrActive
    BY <1>3 DEF Close
  <2>2. /\ asrFuture' \in [AsrCalls -> Futures]
        /\ \A d \in AsrCalls : asrFuture'[d] = "new" => asrFuture[d] = "new"
    BY <1>1, <2>1, SettleGives DEF Futures
  <2> QED
    BY <2>1, <2>2, OutcomesKeepSlot
<1>4. ASSUME \/ \E c \in AsrCalls : Age(c)
             \/ AdmissionChanges \/ CloseReturns \/ UNCHANGED asrVars
      PROVE  SlotInv' /\ Orderly
  <2>1. UNCHANGED <<asrQueue, asrFuture, asrActive, asrClosed>>
    BY <1>4 DEF Age, AdmissionChanges, CloseReturns, asrVars
  <2> QED
    BY <1>1, <2>1, OutcomesKeepSlot
<1> QED
  BY <1>2, <1>3, <1>4

(* SlotDiscipline, the safety part of EveryCallSettles: the recognizer is  *)
(* given to a call that still waits, to a correction only when no primary  *)
(* call does, and to none once the scheduler is closed.                    *)
THEOREM RecognizerInOrder ==
  ASSUME NoAsrCall \notin AsrCalls
  PROVE  AsrSpec => SlotDiscipline
<1>1. AsrInit => SlotInv
  <2> SUFFICES ASSUME AsrInit PROVE SlotInv
    OBVIOUS
  <2>1. asrQueue = [lane \in {0, 1} |-> <<>>]
    BY DEF AsrInit
  <2>2. Lanes(asrQueue, <<>>, <<>>)
    BY <2>1, LanesEmptied, Zenon
  <2>3. Queued(asrFuture, <<>>) /\ DOMAIN <<>> = {}
    BY DEF Queued
  <2>4. asrFuture \in [AsrCalls -> Futures] /\ Holder
    BY DEF AsrInit, Holder, Futures
  <2> QED
    BY <2>2, <2>3, <2>4 DEF SlotInv, Lanes
<1>2. SlotInv /\ [AsrNext]_asrVars => SlotInv' /\ Orderly
  BY SubmitKeepsSlot, RecognizerReturnsInOrder, PollInOrder, RestKeepsSlot DEF AsrNext
<1>3. SlotInv /\ [AsrNext]_asrVars =>
        [asrActive' # asrActive /\ asrActive' # NoAsrCall
           => /\ asrFuture[asrActive'] = "pending" /\ ~asrClosed
              /\ asrActive' \in Primary
                   \/ \A i \in DOMAIN asrQueue[0] : asrFuture[asrQueue[0][i]] # "pending"]_asrVars
  BY <1>2 DEF Orderly
<1> QED
  BY <1>1, <1>2, <1>3, PTL DEF AsrSpec, SlotDiscipline
=============================================================================
