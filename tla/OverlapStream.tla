---------------------------- MODULE OverlapStream ----------------------------
(***************************************************************************)
(* overlap_stream.py: where two people speak at once, a stretch of audio is *)
(* separated into two lanes and each lane transcribed again, in the         *)
(* background.  One request is worked on and only the newest waits; a gap   *)
(* in the audio retires the run, and with it every request of that run,     *)
(* while the native calls already started go on.  Each request is to be     *)
(* answered: completed, failed, or reported skipped through a queue of      *)
(* notices that the same worker tells.                                      *)
(***************************************************************************)
EXTENDS Integers, Sequences, SequencesExt

CONSTANTS MaxRequests,  \* bound: requests
          MaxRuns,      \* bound: gaps
          NoticeLimit   \* maxlen of _notices

ASSUME NoticeAssumption == NoticeLimit \in Nat

VARIABLES ovlRun,       \* _run_id
          ovlFrames,    \* whether the run has any frame
          ovlRuns,      \* the run of every request made, in order
          ovlPending,   \* _pending: <<>> or the newest request
          ovlNotices,   \* _notices: requests reported skipped
          ovlDropped,   \* requests whose notice the deque lost (overlap_notices_dropped)
          ovlAwake,     \* _available
          ovlStage,     \* the worker: wait, separate, lane1, lane2, done
          ovlWork,      \* the request it works on, 0 for none
          ovlFinishing, ovlClosed,
          ovlAnswers    \* answers told: [request, kind]

ovlVars == <<ovlRun, ovlFrames, ovlRuns, ovlPending, ovlNotices, ovlDropped, ovlAwake, ovlStage, ovlWork,
             ovlFinishing, ovlClosed, ovlAnswers>>

OvlInit ==
    /\ ovlRun = 0 /\ ovlFrames = FALSE /\ ovlRuns = <<>> /\ ovlPending = <<>>
    /\ ovlNotices = <<>> /\ ovlDropped = {} /\ ovlAwake = FALSE
    /\ ovlStage = "wait" /\ ovlWork = 0 /\ ovlFinishing = FALSE /\ ovlClosed = FALSE /\ ovlAnswers = <<>>

Open == ~ovlFinishing /\ ~ovlClosed
Told(kind, r) == [request |-> r, kind |-> kind]

(* A variant of Notice: the notice is left for whoever wakes the worker.    *)
NoticeQuietly(requests) ==
    /\ ovlNotices' = ovlNotices \o requests
    /\ UNCHANGED <<ovlDropped, ovlAwake>>

(* _notice: the deque loses its oldest, and the worker is woken.            *)
Notice(requests) ==
    LET all == ovlNotices \o requests
        lost == IF Len(all) > NoticeLimit THEN Len(all) - NoticeLimit ELSE 0
    IN  /\ ovlNotices' = SubSeq(all, lost + 1, Len(all))
        /\ ovlDropped' = ovlDropped \union ToSet(SubSeq(all, 1, lost))
        /\ ovlAwake' = (ovlAwake \/ requests # <<>>)

FeedFrame ==
    /\ Open /\ ~ovlFrames /\ ovlFrames' = TRUE
    /\ UNCHANGED <<ovlRun, ovlRuns, ovlPending, ovlNotices, ovlDropped, ovlAwake, ovlStage, ovlWork,
                   ovlFinishing, ovlClosed, ovlAnswers>>

(* gap: the run is retired, its waiting request reported.                   *)
RetireRun ==
    /\ Open /\ ovlRun < MaxRuns
    /\ ovlRun' = ovlRun + 1 /\ ovlFrames' = FALSE /\ ovlPending' = <<>>
    /\ Notice(ovlPending)
    /\ UNCHANGED <<ovlRuns, ovlStage, ovlWork, ovlFinishing, ovlClosed, ovlAnswers>>

(* request: refused with a notice when its run or its audio is not in the   *)
(* buffer; else it takes the place of the waiting one.                      *)
Request(run, buffered) ==
    /\ Open /\ Len(ovlRuns) < MaxRequests
    /\ ovlRuns' = Append(ovlRuns, run)
    /\ LET r == Len(ovlRuns) + 1 IN
       IF run = ovlRun /\ ovlFrames /\ buffered
       THEN /\ ovlPending' = <<r>>
            /\ IF ovlPending = <<>> THEN ovlAwake' = TRUE /\ UNCHANGED <<ovlNotices, ovlDropped>>
               ELSE Notice(ovlPending)
       ELSE Notice(<<r>>) /\ UNCHANGED ovlPending
    /\ UNCHANGED <<ovlRun, ovlFrames, ovlStage, ovlWork, ovlFinishing, ovlClosed, ovlAnswers>>

FinishOverlap ==
    /\ Open /\ ovlFinishing' = TRUE /\ ovlAwake' = TRUE
    /\ UNCHANGED <<ovlRun, ovlFrames, ovlRuns, ovlPending, ovlNotices, ovlDropped, ovlStage, ovlWork, ovlClosed, ovlAnswers>>

CloseOverlap ==
    /\ ~ovlClosed /\ ovlStage # "done"
    /\ ovlClosed' = TRUE /\ ovlPending' = <<>> /\ ovlStage' = "done" /\ ovlWork' = 0
    /\ UNCHANGED <<ovlRun, ovlFrames, ovlRuns, ovlNotices, ovlDropped, ovlAwake, ovlFinishing, ovlAnswers>>

-----------------------------------------------------------------------------

CurrentRun(r) == ~ovlClosed /\ ovlFrames /\ ovlRuns[r] = ovlRun

Skips(requests) == [i \in 1..Len(requests) |-> Told("skipped", requests[i])]

(* The loop between two native calls: with the notices at hand, it takes    *)
(* the waiting request, or tells the notices and waits or ends.             *)
NextWork(notices, answers) ==
    IF ovlPending # <<>>
    THEN /\ ovlStage' = "separate" /\ ovlWork' = ovlPending[1] /\ ovlPending' = <<>>
         /\ ovlNotices' = notices /\ ovlAnswers' = answers
    ELSE /\ ovlStage' = IF ovlFinishing THEN "done" ELSE "wait"
         /\ ovlWork' = 0 /\ UNCHANGED ovlPending
         /\ ovlNotices' = <<>> /\ ovlAnswers' = answers \o Skips(notices)

WorkerWakes ==
    /\ ovlStage = "wait" /\ ovlAwake
    /\ ovlAwake' = FALSE
    /\ NextWork(<<>>, ovlAnswers \o Skips(ovlNotices))
    /\ UNCHANGED <<ovlRun, ovlFrames, ovlRuns, ovlDropped, ovlFinishing, ovlClosed>>

(* The work is over without a result: run_changed, found by _process or by  *)
(* the native call itself, is a notice like any other (which sets the event *)
(* the loop will see later).                                                *)
Skip ==
    LET all == Append(ovlNotices, ovlWork)
        lost == IF Len(all) > NoticeLimit THEN 1 ELSE 0 IN
    /\ ovlDropped' = ovlDropped \union ToSet(SubSeq(all, 1, lost))
    /\ ovlAwake' = TRUE
    /\ NextWork(SubSeq(all, lost + 1, Len(all)), ovlAnswers)

Answer(kind) == NextWork(ovlNotices, Append(ovlAnswers, Told(kind, ovlWork))) /\ UNCHANGED <<ovlDropped, ovlAwake>>

(* The separation, or the transcription of a lane, returns or fails; a run  *)
(* retired meanwhile is noticed before the next stage.                      *)
NativeReturns ==
    /\ ovlStage \in {"separate", "lane1", "lane2"}
    /\ \/ Answer("failed")
       \/ ~CurrentRun(ovlWork) /\ Skip
       \/ /\ CurrentRun(ovlWork)
          /\ \/ ovlStage = "lane2" /\ Answer("completed")
             \/ /\ ovlStage # "lane2"
                /\ ovlStage' = IF ovlStage = "separate" THEN "lane1" ELSE "lane2"
                /\ UNCHANGED <<ovlPending, ovlNotices, ovlDropped, ovlAwake, ovlWork, ovlAnswers>>
    /\ UNCHANGED <<ovlRun, ovlFrames, ovlRuns, ovlFinishing, ovlClosed>>

OvlNext ==
    \/ FeedFrame \/ RetireRun \/ FinishOverlap \/ CloseOverlap \/ WorkerWakes \/ NativeReturns
    \/ \E run \in 0..ovlRun, buffered \in BOOLEAN : Request(run, buffered)

(* The event loop runs the worker, and native calls return.                 *)
OvlFairness == WF_ovlVars(WorkerWakes) /\ WF_ovlVars(NativeReturns)

OvlSpec == OvlInit /\ [][OvlNext]_ovlVars /\ OvlFairness

-----------------------------------------------------------------------------
(* A request is answered at most once, and completed only while the run     *)
(* whose audio it was asked about is still the current one: what the native *)
(* calls of a retired run return is never captioned.                        *)
AnswersAreCurrent ==
    [][\A i \in (DOMAIN ovlAnswers') \ (DOMAIN ovlAnswers) :
          LET a == ovlAnswers'[i] IN
          /\ a.kind = "completed" => ovlRuns[a.request] = ovlRun
          /\ \A j \in 1..(i - 1) : ovlAnswers'[j].request # a.request]_ovlVars

(* Every request made is answered at last and once, refused and replaced    *)
(* ones too, unless the stream is closed or its notice was counted as       *)
(* dropped.                                                                 *)
EveryRequestAnswered ==
    /\ AnswersAreCurrent
    /\ <>[](\A r \in DOMAIN ovlRuns : \/ \E i \in DOMAIN ovlAnswers : ovlAnswers[i].request = r
                                      \/ ovlClosed \/ r \in ovlDropped)
=============================================================================
