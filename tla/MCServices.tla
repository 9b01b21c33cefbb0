----------------------------- MODULE MCServices -----------------------------
(***************************************************************************)
(* The services that must come to an end, each checked by itself: Init     *)
(* chooses a part, and only that part takes steps.  The other parts stay   *)
(* in their initial states, where none of their fair actions is enabled.   *)
(* EngineGateway, NaturalBoundaries, OverlapStream, LiveClient and         *)
(* InferenceScheduler are extended, and their properties are checked under *)
(* their own names; the others are instances.                              *)
(***************************************************************************)
EXTENDS EngineGateway, NaturalBoundaries, OverlapStream, LiveClient,
        InferenceScheduler, Integers, FiniteSets

CONSTANTS NoSession, NoQueue, NoLane, c1, c2, s1, l1, l2

VARIABLES
  part,
  table, dropped, shut, outbox, pushed, conn, target, writer, item, shown,
  next, laneOf, age, returned, open, buf, sealed, routing, active, forced, tried, request,
  refused, lock, resetting, flushed, closing, closed, resets, interrupted,
  pipeT, pipeSaid, pipeB, pipePending, pipeAsr, pipeStates, pipeShown, pipeForgot, pipeOpen,
  pipeLost, pipePhase, pipeGaps

Sockets == INSTANCE GatewaySessions WITH
  closed <- shut, queue <- outbox, emitted <- pushed,
  Sessions <- {s1}, Conns <- {c1, c2}, MaxSessions <- 1, QueueSize <- 2, MaxEvents <- 5
Semantic == INSTANCE SemanticRouter WITH
  worker <- routing,
  Lanes <- {l1, l2}, MaxUnits <- 3, LaneUnits <- 2, TotalUnits <- 3, MaxLanes <- 1, MaxResets <- 1
Pipeline == INSTANCE SpeechPipeline WITH
  t <- pipeT, said <- pipeSaid, b <- pipeB, pending <- pipePending, asr <- pipeAsr,
  states <- pipeStates, shown <- pipeShown, forgot <- pipeForgot, open <- pipeOpen,
  lost <- pipeLost, phase <- pipePhase, gaps <- pipeGaps,
  Step <- 2, MinWindow <- 2, Endpoint <- 2, PreRoll <- 1, Pad <- 1, MaxWindow <- 4, Overlap <- 2,
  Texts <- {"x", "y."}, Stops <- {"y."}, Tolerance <- 1, Lookback <- 2, Target <- 3,
  MaxAsr <- 1, MaxTranslate <- 1, MaxTime <- 5, MaxWord <- 2, MaxGaps <- 1

socketVars == <<table, dropped, shut, outbox, pushed, conn, target, writer, item, shown>>
semanticVars == <<next, laneOf, age, returned, open, buf, sealed, routing, active, forced, tried,
  request, refused, lock, resetting, flushed, closing, closed, resets, interrupted>>
pipelineVars == <<pipeT, pipeSaid, pipeB, pipePending, pipeAsr, pipeStates, pipeShown, pipeForgot,
  pipeOpen, pipeLost, pipePhase, pipeGaps>>

allVars == <<part, vars, socketVars, asrVars, semanticVars, liveVars, ovlVars,
  nbVars, pipelineVars>>

Parts == {"engine", "sockets", "inference", "semantic", "client", "overlap", "natural",
          "pipeline"}

(* What a step of one part leaves alone. *)
Others(p) ==
  /\ UNCHANGED part
  /\ p # "engine" => UNCHANGED vars
  /\ p # "sockets" => UNCHANGED socketVars
  /\ p # "inference" => UNCHANGED asrVars
  /\ p # "semantic" => UNCHANGED semanticVars
  /\ p # "client" => UNCHANGED liveVars
  /\ p # "overlap" => UNCHANGED ovlVars
  /\ p # "natural" => UNCHANGED nbVars
  /\ p # "pipeline" => UNCHANGED pipelineVars

PartInit ==
  /\ part \in Parts
  /\ Init /\ Sockets!Init /\ AsrInit /\ Semantic!Init
  /\ LiveInit /\ OvlInit /\ Pipeline!Init
  /\ NbInit /\ (part # "natural" => nbSilence = FALSE)

PartNext ==
  \/ part = "engine" /\ Next /\ Others("engine")
  \/ part = "sockets" /\ Sockets!Next /\ Others("sockets")
  \/ part = "inference" /\ AsrNext /\ Others("inference")
  \/ part = "semantic" /\ Semantic!Next /\ Others("semantic")
  \/ part = "client" /\ LiveNext /\ Others("client")
  \/ part = "overlap" /\ OvlNext /\ Others("overlap")
  \/ part = "natural" /\ NbNext /\ Others("natural")
  \/ part = "pipeline" /\ Pipeline!Next /\ Others("pipeline")

PartSpec ==
  /\ PartInit /\ [][PartNext]_allVars
  /\ Fairness /\ Sockets!Fairness /\ AsrFairness /\ Semantic!Fairness
  /\ LiveFairness /\ OvlFairness /\ NbFairness /\ Pipeline!Fairness

-----------------------------------------------------------------------------
(* GatewaySessions: every event arrives or the client is disconnected.     *)
EventsArrive == Sockets!EventsArrive
(* SemanticRouter: every unit comes back, even if the provider hangs.      *)
EveryUnitReturns == Semantic!EveryUnitReturns
(* SpeechPipeline: each word is captioned once, or reported lost, but for  *)
(* what a gap makes the session forget.                                    *)
WordsShownOnce == Pipeline!WordsShownOnce
(* SpeechPipeline: finish() ends.                                          *)
FinishEnds == Pipeline!FinishEnds
=============================================================================
