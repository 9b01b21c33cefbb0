--------------------------- MODULE MCTranslations ---------------------------
(***************************************************************************)
(* The parts that ask for translations, each checked by itself: the        *)
(* engine's runner over its admission, the gateway's session over the      *)
(* scheduler, and the client script over the session.  Init chooses a part *)
(* and only that part takes steps; the others stay in their initial        *)
(* states, where none of their fair actions is enabled.                    *)
(***************************************************************************)
EXTENDS TranslationRunner

CONSTANT u

VARIABLES
  part,
  sesAttached, sesClosed, sesGen, sesKnown, sesSrc, sesSegments, sesNext, sesActive, sesArmed,
  sesCommits, sesQueue, sesServing,
  clSnap, clNext, clReady, clError, clAttempts, clReader, clCall, clOutcome, clResets,
  wsUp, wsFrames, wsEvents, svAttached, svLast, svGen, svOpen, svDone, svStale, svTranslated,
  svResets

Session == INSTANCE TranslationSession WITH
  attached <- sesAttached, closed <- sesClosed, generation <- sesGen, known <- sesKnown,
  src <- sesSrc, segments <- sesSegments, nextSegment <- sesNext, active <- sesActive,
  armed <- sesArmed, commits <- sesCommits, queue <- sesQueue, serving <- sesServing,
  Utterances <- {u}, MaxSegments <- 3, MaxPendingPerSession <- 2, ContextSegments <- 1,
  MaxSegmentIds <- 2, MaxGeneration <- 1
Script == INSTANCE StreamingClient WITH
  Reconnects <- 1, MaxSequence <- 1, MaxWire <- 2, MaxResets <- 1

sessionVars == <<sesAttached, sesClosed, sesGen, sesKnown, sesSrc, sesSegments, sesNext,
  sesActive, sesArmed, sesCommits, sesQueue, sesServing>>
scriptVars == <<clSnap, clNext, clReady, clError, clAttempts, clReader, clCall, clOutcome,
  clResets, wsUp, wsFrames, wsEvents, svAttached, svLast, svGen, svOpen, svDone, svStale,
  svTranslated, svResets>>
allVars == <<part, rvars, sessionVars, scriptVars>>

PartInit ==
  /\ part \in {"runner", "session", "script"}
  /\ RunnerInit /\ Session!Init
  /\ Script!ClInit /\ (part # "script" => svLast = -1)

PartNext ==
  \/ part = "runner" /\ RunnerNext /\ UNCHANGED <<part, sessionVars, scriptVars>>
  \/ part = "session" /\ Session!Next /\ UNCHANGED <<part, rvars, scriptVars>>
  \/ part = "script" /\ Script!ClNext /\ UNCHANGED <<part, rvars, sessionVars>>

PartSpec ==
  /\ PartInit /\ [][PartNext]_allVars
  /\ RunnerFairness /\ Session!Fairness /\ Script!ClFairness

-----------------------------------------------------------------------------
(* TranslationSession: the session uses the scheduler as a client of       *)
(* TranslationService, and never has two jobs.                             *)
UsesService == Session!UsesService
(* TranslationSession: a connected session resolves every segment.         *)
SegmentsResolve == Session!SegmentsResolve
(* TranslationSession: no draft stays a draft while a client is connected. *)
DraftsSettle == Session!DraftsSettle
(* StreamingClient: what the client's calls say happened did happen, and   *)
(* none waits for a receiver that has failed.                              *)
CallsEndTruly == Script!CallsEndTruly
=============================================================================
