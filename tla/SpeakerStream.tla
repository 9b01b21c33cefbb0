---------------------------- MODULE SpeakerStream ----------------------------
(***************************************************************************)
(* speaker_stream.py: rolling windows over the session's audio are analysed *)
(* one at a time for who is speaking, while only the newest window waits.   *)
(* Windows overlap, and every sample must be credited to a speaker (or to   *)
(* "unknown") at most once: the analyzer keeps the end of what it has       *)
(* committed, and the short clean suffix of a window, which may go on in    *)
(* the next one, is deferred instead of credited.                           *)
(*                                                                          *)
(* Time is counted in units; unit u is the audio between u and u + 1.  What *)
(* the segmentation model says is chosen freely: how far a window is        *)
(* trusted and how long a clean suffix it ends with.                        *)
(***************************************************************************)
EXTENDS Integers, Sequences

CONSTANTS WindowLen,   \* config.window_s
          FirstLen,    \* config.first_window_s
          Hop,         \* config.hop_s
          Guard,       \* edge_guard_s: a window is trusted up to this much before its end
          MinClean,    \* the second of clean speech an observation needs
          NoticeSize,  \* maxlen of _notices
          MaxUnits,    \* bound: units of audio fed
          MaxBreaks    \* bound: gaps

VARIABLES spkNow,       \* end of the audio fed
          spkRun,       \* the run: id, start, start of the frames kept, scheduled end (0: none)
          spkPending,   \* _pending: <<>> or the newest window
          spkNotices,   \* _notices
          spkAwake,     \* _available
          spkWorker,    \* _loop: wait, busy, done
          spkWindow,    \* the window being analysed
          spkFinishing, spkClosed,
          spkCommitted, \* _committed_end
          spkTail,      \* _deferred_tail: <<>> or the tail
          spkCredit,    \* how often each unit has been credited
          spkTold       \* units of the windows reported skipped or failed

spkVars == <<spkNow, spkRun, spkPending, spkNotices, spkAwake, spkWorker, spkWindow, spkFinishing, spkClosed,
             spkCommitted, spkTail, spkCredit, spkTold>>
feeding == <<spkNow, spkRun>>
analyzer == <<spkCommitted, spkTail, spkCredit>>

NewRun(id, start) == [id |-> id, start |-> start, first |-> start, scheduled |-> 0]

SpkInit ==
    /\ spkNow = 0 /\ spkRun = NewRun(0, 0) /\ spkPending = <<>> /\ spkNotices = <<>> /\ spkAwake = FALSE
    /\ spkWorker = "wait" /\ spkWindow = <<>> /\ spkFinishing = FALSE /\ spkClosed = FALSE
    /\ spkCommitted = 0 /\ spkTail = <<>> /\ spkCredit = [u \in 0..(MaxUnits - 1) |-> 0] /\ spkTold = {}

Units(a, b) == {u \in 0..(MaxUnits - 1) : a <= u /\ u < b}
Longer(a, b) == IF a < b THEN b ELSE a

-----------------------------------------------------------------------------
(* _offer: the newest window replaces the waiting one, which is reported    *)
(* skipped unless it covers the same audio; the deque of notices silently   *)
(* loses its oldest.                                                        *)

Noticed(notices, w) ==
    LET n == Append(notices, w) IN IF Len(n) > NoticeSize THEN Tail(n) ELSE n

Offer(run, now, final) ==
    IF run.first = now \/ (~final /\ run.scheduled # 0 /\ now <= run.scheduled)
    THEN UNCHANGED <<spkPending, spkNotices, spkAwake>>
    ELSE LET w == [start |-> run.first, end |-> now, final |-> final, run |-> run.id, runStart |-> run.start]
             old == spkPending IN
         /\ spkPending' = <<w>>
         /\ spkAwake' = TRUE
         /\ spkNotices' = IF old # <<>> /\ <<old[1].start, old[1].end>> # <<w.start, w.end>>
                          THEN Noticed(spkNotices, old[1]) ELSE spkNotices

(* feed: the frames kept are those of the last window; a window is offered  *)
(* when the first is long enough and then every hop.                        *)
FeedAudio ==
    /\ ~spkFinishing /\ ~spkClosed /\ spkNow < MaxUnits
    /\ spkNow' = spkNow + 1
    /\ LET run == [spkRun EXCEPT !.first = Longer(@, spkNow + 1 - WindowLen)]
           due == IF run.scheduled = 0 THEN spkNow + 1 - run.first >= FirstLen
                  ELSE spkNow + 1 - run.scheduled >= Hop
       IN  IF due THEN /\ Offer(run, spkNow + 1, FALSE)
                       /\ spkRun' = [run EXCEPT !.scheduled = spkNow + 1]
           ELSE spkRun' = run /\ UNCHANGED <<spkPending, spkNotices, spkAwake>>
    /\ UNCHANGED <<spkWorker, spkWindow, spkFinishing, spkClosed, analyzer, spkTold>>

(* gap: the run ends with a final window, and the next frame begins another.*)
SpkGap ==
    /\ ~spkFinishing /\ ~spkClosed /\ spkRun.id < MaxBreaks
    /\ Offer(spkRun, spkNow, TRUE)
    /\ spkRun' = NewRun(spkRun.id + 1, spkNow)
    /\ UNCHANGED <<spkNow, spkWorker, spkWindow, spkFinishing, spkClosed, analyzer, spkTold>>

(* finish_input wakes the worker even when nothing is left to analyse.      *)
FinishInput ==
    /\ ~spkFinishing /\ ~spkClosed
    /\ LET last == spkRun.first # spkNow IN
       IF last THEN Offer(spkRun, spkNow, TRUE) ELSE spkAwake' = TRUE /\ UNCHANGED <<spkPending, spkNotices>>
    /\ spkFinishing' = TRUE
    /\ UNCHANGED <<feeding, spkWorker, spkWindow, spkClosed, analyzer, spkTold>>

-----------------------------------------------------------------------------
(* LocalSpeakerAnalyzer *)

Credited(units) == [u \in DOMAIN spkCredit |-> spkCredit[u] + (IF u \in units THEN 1 ELSE 0)]

(* A tail whose run is over, or whose start has left the window, will never *)
(* be seen again: it is credited as unknown and committed.                  *)
Retired(w) ==
    IF spkTail # <<>> /\ (spkTail[1].run # w.run \/ w.start > spkTail[1].start)
    THEN [units |-> Units(spkTail[1].start, spkTail[1].end), committed |-> Longer(spkCommitted, spkTail[1].end)]
    ELSE [units |-> {}, committed |-> spkCommitted]

(* analyze: from the committed end on, everything up to the trusted end is  *)
(* credited, what fell out of the window within this run included, except a *)
(* clean suffix of d units, which is deferred.                              *)
Analyze(w, limit, d) ==
    LET r == Retired(w)
        cursor == Longer(w.start, r.committed)
        unseen == Units(Longer(w.runStart, r.committed), w.start)
    IN  /\ limit \in Longer(w.start, w.end - Guard)..w.end /\ (w.final => limit = w.end)
        /\ d < MinClean /\ (d > 0 => ~w.final /\ cursor <= limit - d)
        /\ LET seen == Units(cursor, limit - d) IN
             spkCredit' = [u \in DOMAIN spkCredit |->
                 spkCredit[u] + (IF u \in r.units THEN 1 ELSE 0) + (IF u \in unseen THEN 1 ELSE 0)
                              + (IF u \in seen THEN 1 ELSE 0)]
        /\ spkCommitted' = Longer(spkCommitted, limit - d)
        /\ spkTail' = IF d > 0 THEN <<[run |-> w.run, start |-> limit - d, end |-> limit]>> ELSE <<>>

(* A variant of AnalysisFails: the tail is kept for a window that may never *)
(* come.                                                                    *)
AnalysisFailsKeeping(w) == UNCHANGED analyzer

(* A failed call leaves the analyzer as it was, but after a final window    *)
(* discard_pending_tail credits the tail as unknown.                        *)
AnalysisFails(w) ==
    IF w.final /\ spkTail # <<>>
    THEN /\ spkCredit' = Credited(Units(spkTail[1].start, spkTail[1].end))
         /\ spkCommitted' = Longer(spkCommitted, spkTail[1].end)
         /\ spkTail' = <<>>
    ELSE UNCHANGED analyzer

-----------------------------------------------------------------------------
(* _loop: notices are told before the waiting windows and after them; the   *)
(* session's sink does not suspend, so between two calls of the model the   *)
(* loop goes on without a pause.                                            *)

NoticedUnits == UNION {Units(spkNotices[i].start, spkNotices[i].end) : i \in DOMAIN spkNotices}

GoOn(told, notices) ==
    IF spkPending # <<>>
    THEN /\ spkWorker' = "busy" /\ spkWindow' = spkPending /\ spkPending' = <<>>
         /\ spkTold' = told /\ spkNotices' = notices
    ELSE /\ spkWorker' = IF spkFinishing THEN "done" ELSE "wait"
         /\ spkWindow' = <<>> /\ UNCHANGED spkPending
         /\ spkTold' = told \union NoticedUnits /\ spkNotices' = <<>>

LoopWakes ==
    /\ spkWorker = "wait" /\ spkAwake /\ ~spkClosed
    /\ spkAwake' = FALSE
    /\ GoOn(spkTold \union NoticedUnits, <<>>)
    /\ UNCHANGED <<feeding, spkFinishing, spkClosed, analyzer>>

AnalysisReturns ==
    /\ spkWorker = "busy" /\ ~spkClosed
    /\ \/ /\ \E limit \in 0..MaxUnits, d \in 0..(MinClean - 1) : Analyze(spkWindow[1], limit, d)
          /\ GoOn(spkTold, spkNotices)
       \/ /\ AnalysisFails(spkWindow[1])
          /\ GoOn(spkTold \union Units(spkWindow[1].start, spkWindow[1].end), spkNotices)
    /\ UNCHANGED <<feeding, spkAwake, spkFinishing, spkClosed>>

(* drain gives up after its timeout, says so and cancels the worker.        *)
CloseStream ==
    /\ ~spkClosed /\ spkWorker # "done"
    /\ spkClosed' = TRUE /\ spkWorker' = "done" /\ spkPending' = <<>> /\ spkWindow' = <<>>
    /\ UNCHANGED <<feeding, spkNotices, spkAwake, spkFinishing, analyzer, spkTold>>

SpkNext == FeedAudio \/ SpkGap \/ FinishInput \/ LoopWakes \/ AnalysisReturns \/ CloseStream

SpkSpec == SpkInit /\ [][SpkNext]_spkVars

-----------------------------------------------------------------------------
(* No audio is evidence twice: however the windows overlap, are replaced,   *)
(* fail or end a run, a unit is credited at most once, and a unit still     *)
(* deferred has not been credited at all.                                   *)
CreditedOnce ==
    /\ \A u \in DOMAIN spkCredit : spkCredit[u] <= 1
    /\ spkTail # <<>> => \A u \in Units(spkTail[1].start, spkTail[1].end) : spkCredit[u] = 0

(* All audio is accounted for once: no unit is credited twice, and when the *)
(* stream has drained every unit fed has been credited or lies in a window  *)
(* that was reported skipped or failed, and nothing is left deferred.       *)
(* (Excepted: more notices than the deque holds, which the bound excludes.) *)
AllAccounted ==
    /\ CreditedOnce
    /\ (spkWorker = "done" /\ ~spkClosed) =>
          /\ spkTail = <<>>
          /\ \A u \in 0..(spkNow - 1) : spkCredit[u] = 1 \/ u \in spkTold
=============================================================================
