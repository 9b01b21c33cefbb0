# Verification of MyVoteServer

This directory holds TLA+ models of the repository's concurrent and stateful
code, their TLC configurations, and proofs checked by TLAPS. Paths below are
relative to the repository root; `engine/` abbreviates
`MyVote-Speaker-Update/src/myvote_engine/`. `PROJECT.json` maps every
definition to the lines it models and lists the hazards with the properties
that cover them.

## 1. Inventory

The repository contains two servers, the client programs of each, and a
launcher that installs extensions over the second.

**Streaming translation gateway (`app/`).** A client sends recogniser
hypotheses over a websocket; a session cuts them into segments, has them
translated through a shared scheduler and sends snapshots back.

| Part | State | Operations | Interacts through |
| --- | --- | --- | --- |
| `app/translation/scheduler.py` | queue per session, ready queue, active table, workers | `submit`, `cancel_session`, `invalidate`, `close` | one `asyncio.Condition`; backend; session callback |
| `app/session/state.py` | utterances, segments, active segment, timers, generation, outgoing queue | `attach`, `detach`, `ingest`, `_evaluate`, `_dispatch_next`, `_result`, `_commit`, `reset`, `close` | session lock, scheduler, timers |
| `app/streaming/*`, `app/utils/text.py` | stability history, protected prefix | `observe`, `refresh`, `commit`, `plan_revision`, `segment_prefix` | called by the session under its lock |
| `app/session/manager.py`, `app/api/*` | session table; receive loop and writer per websocket | create, delete, clean-up, frames in, events out | session queue, poison value, `detach` |
| `scripts/client.py` | last snapshot, next sequence number, receiver task | `send_asr`, `wait_final`, `reset`, `disconnect_and_recover` | the websocket |

**Speech engine (`engine/`).** One live session at a time: audio arrives over
gRPC, becomes speech windows, words, captions, translations and speaker names,
and goes back as events to a client that captures the audio and keeps the
captions.

| Part | State | Hard because |
| --- | --- | --- |
| `gateway_server.py`, `ingress_timing.py` | reader, worker, handler, native fence, reblocking buffer | model calls run in threads and outlive the session that asked |
| `pipeline.py`, `audio.py`, `asr.py` | window builder, recogniser queue, agreed words, clauses | windows overlap; the recogniser lags behind gaps and overload |
| `inference_scheduler.py`, `priority_translation.py` | two lanes, slot, counters | corrections must yield and still be answered |
| `translation.py`, `orchestrated_translation.py` | latest-wins tasks, stream guards, gate and slots | requests ignore cancellation; answers arrive in arbitrary pieces |
| `semantic_translation.py`, `semantic_routing.py` | buffer, worker, request and lock per lane | state is read before an await and used after it |
| `captions.py`, `remote_captions.py`, `caption_archive.py`, `context_refinement.py`, `overlap_pipeline.py` | two caption stores, event stream, edits | four writers and a user change one caption |
| `speaker_stream.py`, `speakers.py`, `speaker_captions.py`, `overlap_stream.py` | rolling windows, candidates, histories | evidence arrives after the caption it names |
| `capture.py`, `dsp.py`, `client_latency.py`, `live.py`, `desktop_bridge.py` | capture epochs, queues, three tasks, output lines | helper, server and window may each stop |

**Extensions and launch (`scripts/`, `main.py`).** `semantic_boundary_*.py`,
`semantic_quality_*.py` and `semantic_transcript_idle.py` replace classes of
the engine; `main.py`, `start_update_with_compat.py` and
`gemma_update_gateway.py` carry the settings through three processes;
`mac_demo_setup.py` prepares environment and model.

`MyVote-Mac-Demo` is an older copy of the engine, kept for its environment.

## 2. Modules

| Module | Models |
| --- | --- |
| `TranslationService` | the promise of the scheduler: a queue and a server per session |
| `TranslationScheduler` | `scheduler.py` in full, refined to `TranslationService` |
| `UtteranceSource` | one utterance: tracker, revision, segment selection, on characters |
| `TranslationSession` | `state.py` with its timers, as a client of `TranslationService` |
| `GatewaySessions` | `manager.py`, `websocket.py`, `sessions.py`, the outgoing queue |
| `StreamingClient` | `scripts/client.py` with the session it talks to |
| `InferenceScheduler` | `inference_scheduler.py` |
| `TranslationAdmission` | `priority_translation.py` |
| `TranslationRunner` | `LatestTranslationRunner`, EXTENDS `TranslationAdmission` |
| `ProviderStream`, `OrchestratedProvider` | stream readers and guards; selector gate and slots |
| `SemanticRouter` | the coordinator and router of semantic translation |
| `NaturalBoundaries` | the subclasses over the coordinator: soft boundaries, silence, capacity |
| `BoundaryGenerations`, `BoundaryLanes` | generation stamps of windows; which lane a word joins |
| `SpeechWindows`, `SpeechPipeline` | window builder; `StreamingSession` with local agreement |
| `CaptionStore`, `CaptionExchange` | the store as a value; writers, event stream, client, archive |
| `EngineGateway`, `WireAudio` | the one-session handler and its fence; timeline and blocks |
| `CaptureTimeline`, `LiveClient`, `DesktopBridge` | capture to frames; `run_live`; the desktop's pipes |
| `SpeakerStream`, `SpeakerNames`, `OverlapStream` | credit of audio; names on captions; separation |
| `Launch`, `DemoSetup` | settings through the launch; set-up shared by launchers |
| `Deques` | `deque(x for x in q if ...)` without recursion |
| `MCTranslationScheduler`, `MCUtteranceSource` | instances for TLC |
| `MCTranslations`, `MCServices`, `MCStreams` | several components in one run (see section 3); components are extended where their assumptions on constants are to be checked or the property has a theorem under its own name, the others are instances (`MCStreams` extends all of its own) |
| `DequesProofs` | facts about `Filter` and `KeepAt` |
| `TranslationSchedulerProofs` | theorems about the scheduler, and that its steps are the service's |
| `TranslationSessionProofs` | theorems about the session, that its steps use the service, and about the script that streams to it |
| `SemanticRouterProofs` | theorems about the semantic router |
| `CaptionProofs` | theorems about the two caption stores, the desktop's window and `LiveClient` |
| `ProviderProofs` | theorems about admission, the translation runner, the stream readers and the two-model provider |
| `ExtensionProofs` | theorems about set-up, launch, generations, lanes, turns, and the source of an utterance |
| `EngineProofs` | theorems about `EngineGateway`, `SpeakerStream`, `WireAudio`, `CaptureTimeline`, `SpeakerNames`, `OverlapStream` and `InferenceScheduler` |

Everywhere a coroutine is cut where it may suspend, and nowhere else: a locked
method whose awaits never suspend is one step. Each module's header says what
its values stand for. The correspondences that need explaining:

**TranslationScheduler.** `pending`, `ready`, `readySet`, `active`, `started`
and `closing` are the attributes of the class; `pc[w]` is where worker `w` is.
The object `_Active` is named by the worker that made it, so `job[w]` and
`stale[w]` are its fields. `BackendReturn` ends a request at any time and in
any way: results, errors, obeyed and ignored cancellations. Rejected
submissions change no state and are no steps.

**UtteranceSource.** A hypothesis is a sequence of characters because the code
works on character offsets and the interesting cases are word boundaries.
Combining marks, CJK, apostrophes and decimal points of `tokenize` are left
out. Stability scores and completeness heuristics may decide anything between
what the tracker's agreement allows and nothing.

**TranslationSession.** An utterance is reduced to four flags: source is
`left`, it is `final`, it was reported `incomplete`, its `selected_end` is
inside a word (`torn`, finding 1). `Visit` is the loop of `_evaluate` over the
utterances. A rollback begins at any segment of the utterance, for finals
only. Left out: `source_revision` in `_result` (identifiers are never reused,
so the comparison cannot fail), size limits on text, `configure`,
`set_glossary`, metrics. `UsesService` and `ImplementsService` join this model
to the scheduler's.

**GatewaySessions.** An event is its number since `attach`, whose snapshot is
number 1. `Delete` is the HTTP request, the clean-up loop and shutdown;
`CloseSession` is the rest of it, after its await.

**TranslationRunner.** `pc[t]` is where the coroutine `_run` is, `late` that
its budget is used up, `cancelled` that `Task.cancel` was called; a provider
may ignore both. `UsesAdmission` shows that the tasks, with the corrections
beside them, obey the admission's own specification.

**SemanticRouter and NaturalBoundaries.** Units are numbered; `buf[l]` is
`_pending` of a lane and `active[l]` the snapshot a request was made from,
compared again after the wait as the code does. The wake-up events only
shorten a sleep that ends by itself and are left out. `NaturalBoundaries`
repeats the coordinator's loop for one lane with the installed subclasses,
callbacks being one step, since locks are `SemanticRouter`'s subject.

**SpeechPipeline.** What is said is a sequence of words, intervals of audio; the
recogniser hears every word that overlaps its window and writes any text for
it at each call. `shown` are the captions, `lost` the intervals reported as
skipped, failed or incomplete.

**CaptionExchange.** Both stores are values of `CaptionStore`; `wire` is the
ordered event stream. Caption `n` covers two cells of audio so that a
separation can replace one of them.

**EngineGateway.** `native` is the state of a model call in its thread,
`fence` what `NativeCallFence` knows, `retire` the clean-up of an old session.

**DesktopBridge.** A `Thing` is what the window shows and the user edits; its
content is the number of the change that last wrote it, so the window, the
projection and the folder can be compared. The message of an edit is made once,
before `send()`; `deskCmd.data` keeps it while `send()` tries again
(`engine/desktop_bridge.py:197-206`) and live events pass.

**StreamingClient.** `disconnect_and_recover` looks at no error: it clears
`ready`, closes the websocket and waits, also when the receiver has ended
before (`failed` in the call).

**OrchestratedProvider.** Requests have four kinds. A semantic
request goes from the gate to a slot, and when its two languages are the same
(`same`) from the gate to the gate, because `text_operation_for`
(`engine/translation.py:97-100`) makes the rest a correction. Between the two it
holds nothing, and it may end early anywhere.

**Launch.** Times are in half milliseconds, enough to tell truncation to whole
milliseconds. The code has floats: `int(1.005 * 1000)` is 1004. `Lossy` are the
whole milliseconds that lose one so, `Heavy` the pairs of times whose sum comes
out above the exact one; both are parameters, given the values of the machine's
arithmetic for the run. Addresses and model IDs are reduced to what tells the
validations apart: `net` is a single host, a group or unspecified address, or a
number of the wrong type; `safe` a model ID without blanks; `named` one that
names TranslateGemma. What a stage refuses because of them has a reason of its
own (`lncWhy`), and `Outside` is left to the machine: files, models, ports.

**DemoSetup.** A launcher may be killed between any two file operations and
started again while others run.

## 3. Runs

Three runs hold a portfolio of components. `Init` chooses a part, only that
part takes steps, and the others stay in their initial states, where none of
their fair actions is enabled; so every behaviour is a behaviour of one
component, and each property is the component's own. This shares one start-up
among components that do not interact.

| Run | Instance | Shows |
| --- | --- | --- |
| `scheduler` | 3 sessions of which one submits everything and the others one partial, 2 workers, 2 segments, 2 revisions, limits 2 and 2 | sessions serial, no lost wake-up, revisions in order, refinement of `TranslationService` with liveness, workers end after `close` |
| `utterance` | word shapes up to 5 characters, mixed texts up to 2, window 2 | segments spell the selected source through every revision; the tracker refuses no commit |
| `translations` | runner: 2 tasks and a correction, capacity 2, limit 1, 2 revisions, 1 switch; session: 1 utterance, 2 segments, queue of 2, 1 reconnection or reset; script: 1 reconnection, 1 reset | corrections stream alone; every current request is answered; segments and drafts settle; a client's calls end and say what happened |
| `captions` | 2 captions, one overlapped, 1 speaker, 2 patches, 1 edit, 1 gap, 2 events under way | both copies agree and can be archived and reopened; nothing lost or shown twice; the user and tombstones win over late events |
| `services` | eight components, below | they come to an end, and stay exclusive and in order on the way |
| `streams` | twelve components, below | what they put out is true to what they were given |
| `utterance_torn_word`, `utterance_final_skipped` | up to 4 characters | findings 1 and 2 |
| `client_reset` | 1 reconnection, 1 reset | finding 3 |
| `pipeline_gap` | the instance of `services` with 6 frames | finding 4 |
| `desktop_edits` | 2 things, 2 lines, 2 views, 4 changes | finding 5 |
| `bridged_hole` | 6 windows, 2 queued, 1 gap | finding 6 |

`services`:

| Part | Instance | Properties |
| --- | --- | --- |
| `EngineGateway` | 2 sessions, 2 inputs, queues of 1 | `EngineExclusive`: no model call of an old session beside a new one; `LeaseReturns`: the engines come free again |
| `GatewaySessions` | 1 session, 2 websockets, queue of 2, 5 events | `EventsArrive`: every event arrives or the client is cut off |
| `InferenceScheduler` | 1 primary and 3 secondary calls, limits 1 and 2 | `EveryCallSettles`: every client gets an answer |
| `SemanticRouter` | 2 lanes of which 1 may be open, 3 units, 1 reset | `EveryUnitReturns`: once, in order, even from a hanging provider |
| `LiveClient` | 3 packets, queue of 2 | `StopEndsTruly`: it ends, and what it calls complete was heard |
| `OverlapStream` | 3 requests, 1 gap, notice queue of 1 | `EveryRequestAnswered` |
| `NaturalBoundaries` | 4 units, 3 pending, 2 per request, with and without the idle flush | `TurnsStayApart`, `DrainsEnd` |
| `SpeechPipeline` | 5 frames, windows of 2 to 4 with overlap 2, queues of 1, 1 gap | `WordsShownOnce`, `FinishEnds` |

`streams`:

| Part | Instance | Property |
| --- | --- | --- |
| `ProviderStream` | 4 letters, pieces of 2, one marker of 3 | `ProvidersSound`: no reasoning markup shown, complete answers whole |
| `OrchestratedProvider` | 3 requests of any kind, 2 slots | `ProvidersSound`: no slot and no gate leaks |
| `WireAudio` | blocks of 2, 4 frames, time to 5, 2 receipts kept | `BlocksTellTheTruth` |
| `CaptureTimeline` | frames of 2, 3 packets, 2 ranges | `EpochsAreWhole` |
| `SpeakerStream` | windows of 2 to 3, hop and guard 1, 6 units, 1 gap, deque of 16 notices | `AllAccounted` |
| `SpeakerNames` | 2 voices, 2 units, 1 caption, 3 observations, 1 candidate, histories of 2 | `NamesAreCurrent` |
| `BoundaryGenerations` | 5 windows, 2 queued, 1 gap | `NeverBridgedUnlessRaced` |
| `BoundaryLanes` | 2 voices, 3 words, 2 segments | `LanesHoldOneVoice` |
| `DesktopBridge` | 2 things, 2 lines, 3 views, 3 changes | `UiCurrent` |
| `TranslationSession` | 1 utterance, 3 segments, queue of 2 | `ContextIsCurrent` |
| `Launch` | every combination of switches; all switches with several times, one lossy and one pair heavy; every address and model ID | `RunsAsConfigured` |
| `DemoSetup` | 2 launchers, 3 launches | `StartsWhole` |

Sizes: `translations` 120 thousand states, `utterance` 154 thousand,
`scheduler` 199 thousand, `services` 291 thousand, `streams` 968 thousand,
`captions` 1.93 million. Only `Streams.cfg` uses symmetry (the voices and
launchers `a`, `b`), and it checks invariants only. `CHECK_DEADLOCK FALSE` is given where
the system really stops: sessions, clients and sources that have ended and
whose identifiers are not drawn twice. `Scheduler.cfg` and the utterance runs
check deadlock.

### Bounds

Two workers race for one session, three sessions make one wait behind two
workers, two revisions distinguish older, equal and newer. Every queue limit in
the code is a constant small enough to be reached. `MaxLen` 5 has three words
and so a segment before, at and after a revision; `MaxMixed` 2 has replaced
letters. `StabilityHistory` 2 is the smallest the code accepts. One gap or reset
separates before from after; the second session of `EngineGateway` meets the
calls of the first; an event, an edit and an event about one caption need three
changes; five frames hold a forced cut and its continuation or an
endpoint, and six, in the run of the finding, all of them; four letters split a marker of three in every way and leave one; two
launchers and three launches let one find what a killed one left. Constants
named `Max...` without a counterpart in the code bound counters that grow for
ever (`MaxSegmentIds`, `MaxGeneration`, `MaxUnits`, `MaxAudio`, `MaxTime`,
`MaxPackets`, `MaxChanges`); each is commented as a bound where it is declared.

### Fairness

- `TranslationScheduler`: the event loop resumes every runnable worker;
  requests end (the HTTP client has a timeout) and callbacks return.
- `TranslationSession`: a timer that stays set fires, callbacks get the lock,
  the scheduler serves as `TranslationService` says, and a submission tried
  again and again is not refused for ever (strong fairness: the other
  sessions' jobs end). Hypotheses rearm timers, so this assumes that they pause
  for longer than `translation_debounce_ms`.
- `GatewaySessions`: tasks run; a send ends within its 10 seconds, well or
  badly. Clients need never leave.
- `StreamingClient`: both tasks run. Timeouts are possible but not fair, so no
  call is saved by its timeout alone, except the recovery below.
- `InferenceScheduler`: the worker runs, native calls return, time passes. With
  endlessly many primary calls a correction could wait past its budget, which
  is looked at only when no primary call waits; the run has finitely many.
- `TranslationAdmission`, `TranslationRunner`: a request in line looks again
  every 50 ms; budgets run out; a stream ends once its budget is gone; a drain
  ends within its timeout.
- `SemanticRouter`: time passes, tasks run, callbacks return, requests end or
  time out. A request that ignores its cancellation need not end.
- `NaturalBoundaries`: the worker runs and a request ends by its deadline.
  Nothing makes a lane quiet or lets its units grow old.
- `EngineGateway`: tasks and queued calls run, model calls return, and the
  reader's timeouts end a silent session.
- `LiveClient`: tasks and timers run; a server told to finish answers, or the
  RPC deadline ends the stream. Nothing is assumed of the capture helper.
- `OverlapStream`, `SpeechPipeline`: the worker runs and native calls return.

### What the properties except

Where the code leaves a case open, the property names it instead of the model
hiding it:

- `EveryUnitReturns`: `interrupted`, a worker that has consumed its units and
  waits for the lock behind the callback of a refused append, when `reset` or
  `close` cancels it (`engine/semantic_translation.py:403`).
- `LeaseReturns`: `excuse = "lost"`, a handler cancelled inside its own
  clean-up, which blocks the gateway deliberately.
- `WordsShownOnce` uses `SaidOnceUnlessForgotten`: words a gap makes the
  session forget (finding 4).
- `NeverBridgedUnlessRaced`: a window taken while an overload waits for the
  idle task (finding 6).
- `UiCurrent`: the failures the bridge reports, in the views they happened in: a
  failed observer (`deskBroken`), an edit's message that timed out (`deskUntold`).
  And one it does not report: captions that a live event changed while the message
  of an edit of them waited for room (`deskOvertaken`). The event's message may go
  out first and the edit's, which is older, after it
  (`engine/desktop_bridge.py:197-206`, called at 610, 620, 635 and 647); the window
  then shows the older caption until the next event about it. The projection and
  the archive are right.
- `CallsEndTruly`: a recovery begun after the receiver has failed. Nobody sets
  the `ready` it has cleared, and it waits its timeout out
  (`scripts/client.py:284-290`).
- `AllAccounted`: more notices than the deque holds, excluded by the bound,
  and a guard for which hop and guard are longer than a window. The settings
  allow a hop of a whole window; then a failing analysis loses the guarded end
  of the window before it, which no notice reports.
- `EveryRequestAnswered`: notices counted as dropped.
- `RunsAsConfigured`: accepted settings may be refused later in four cases. The
  total budget, truncated to milliseconds, no longer covers the two requests or
  the inactivity (`scripts/semantic_quality_gateway.py:70`); the address is
  unspecified, a group's, or a number of a type that `bind` refuses; in the generic
  profile the model ID has blanks; or, of the update, it names TranslateGemma.
  `read_config` looks at none of the last three.
- `SegmentsResolve`: utterances torn by finding 1, and segments that fail while
  finals submit them again.

### Hazards without a property of their own

- `app/session/manager.py:57`: shutdown cancels the clean-up task, perhaps
  inside `delete`. `delete` suspends only if a lock is contended, and no lock is
  held over a suspension, so the model runs `close` after every removal.
- `engine/live.py:401`: a failing observer may raise again in the handler of a
  failure. Modelled; the session still ends and is saved, under another name of
  its failure.
- `engine/desktop_bridge.py:515`: an edit is applied and its message times out.
  Modelled (`deskUntold`); the bridge reports it and ends.

## 4. Findings

1. `app/streaming/revision.py:40`. A final that lengthens a word is recognised
   as a correction of that word's segment only if the old text ended there.
   With `"a "` selected as the segment `"a"`, the final `"aa"` keeps the
   segment; the next visit raises in `segment_prefix`, and the visit of later
   utterances and the dispatch of ready segments stop too. The docstring says
   "Appending to an existing word touches its segment too".
2. `app/session/state.py:274`. After a partial was reported as incomplete, a
   final with the same text does not clear the report, so source that was
   waiting for "a lexical delimiter or explicit final"
   (`app/streaming/stability.py:119`) is never judged.
3. `scripts/client.py:297`. `reset()` takes any change of `generation_id` as
   its success, but `detach` increments it too: a reset lost with the
   connection is reported as done after the reconnection. The script tells its
   user that ":reset clears context" (line 327).
4. `engine/pipeline.py:411`. `audio_gap` forgets the recent words while windows
   from before the gap still wait for the recogniser; the word at a forced
   boundary is then captioned twice, against "Emit each stable word once"
   (line 84).
5. `engine/desktop_bridge.py:520`. An edit between the live task's last
   snapshot and the task's end is in no archive, against "never permission to
   discard final captions or manual edits silently" (line 5).
6. `scripts/semantic_transcript_idle.py:82`. With the idle flush installed, an
   overload first waits for the idle task; the recogniser may meanwhile take a
   window with the old generation, which a lane then joins across the skipped
   one. `scripts/semantic_boundary_pipeline.py:5` says a slow completion
   "cannot accidentally bridge a newer capture discontinuity".

## 5. Proofs

The theorems hold for every value of the constants, under the assumptions the
modules state on them and the hypotheses named below. Each rests on an
inductive invariant, with one lemma per action; TLC found each property to hold
on the instances of section 3 before it was proved. `PROJECT.json` lists the
theorems.

**Scheduler** (`TranslationSchedulerProofs`): `TypeOK`, `ReadyExact`,
`NoLostWakeup`, `OneJobPerSession`. None of the four is inductive alone. `IInv`
adds: every queued job belongs to the session of its queue (`QueueOwner`, so
that `_take` gives a worker a job of the session whose slot it takes); the
active table names exactly the workers that hold a job, under that job's
session (`ActiveTable`, which makes a session serial whatever was cancelled
meanwhile); workers work only after `start` and nothing is queued after `close`
began (`Lifecycle`). `ReadyExact` needs `ActiveTable` when a worker releases
its slot, and `NoLostWakeup` needs `ReadyExact` for `Sleep`: a worker sleeps
only if nothing can be taken. The lemmas on `Filter` and `KeepAt` in
`DequesProofs` (what is kept, in which order, and that counting ranks are the
positions of the result) replace the recursion of `SelectSeq`;
`MCTranslationScheduler` compares the two on small sequences.

**Service** (`TranslationSchedulerProofs`): `SegmentOrder`, from `SInv`, which
adds to `IInv` the order of every queue and that nothing in work survives
`close`; and `StepsOfTheService`, the safety part of `ImplementsService`: every
step of the scheduler is a step of `TranslationService` under the mapping, or a
stutter.

**Session** (`TranslationSessionProofs`, for natural `MaxSegments`,
`MaxPendingPerSession`, `MaxSegmentIds` and `MaxGeneration`): `SessionInv` says
that segment identifiers increase, at most the active segment runs, at most one
job waits, and every job whose result can still be applied was made from
segments that are retained and complete. `ContextIsCurrent` follows, and
`SessionUsesService`, the safety part of `UsesService`. The two refinements meet
in `TranslationService`: what the session asks is what the scheduler promises.

**Script** (`TranslationSessionProofs`, no hypothesis): `ClientTellsTheTruth`,
the two safety conjuncts of `CallsEndTruly`. `ClientInv` says that the sequence
numbers of the frames on the wire grow, after the session's last and up to the
client's next (`FramesAhead`), which no loss or recovery lowers, and that the
answers under way and the client's snapshot name as done only what the session
translated (`DoneTruly`). So a number used before the connection broke is not
sent again to a session that took it, and an answer from before proves no final
that was not translated.

**Gateway** (`EngineProofs`, `MaxSessions` natural): `EngineExclusive`,
from `LeaseInv`. It needs the order in which a lease ends: the fence closes,
the retirement waits for the running call, then the next session may begin.

**Source** (`ExtensionProofs`, under `SourceAssumption`: hypotheses are
sequences, the history holds at least two): `SegmentsSpellSource` and
`CommitNeverRefused`, from `SourceInv`. Segments tile the selected source and
each spells its piece of it (`Tiled`); the tracker heard the text last or waits
for a final (`HeardLast`). A rollback keeps what ends before the first
difference, and the texts are equal up to there (`DifferenceWithin`, which needs
that as many tokens begin as end, `TokensMatch`); cuts come in order
(`NthIncreases`). What is stable keeps what is protected, because a protected
prefix without conflict ends where a token does (`StableEndsSound`). What
`FlattenSeq` computes of a tiling is proved by the least segment where it would
differ (`FlattenTiled`), with no induction theorem.

**Semantic router** (`SemanticRouterProofs`, no hypothesis): `ReturnedOnce` and
`LaneOrder`, the safety part of `EveryUnitReturns`. `RouterInv` says where a
unit is until a callback gets it, and that it is nowhere else: in the buffer of
its lane, in the hands of the worker that waits for the lane's lock
(`Held`), or with the append that was refused (`Refusing`). A request out at
the model is a beginning of the buffer with no seal inside (`Asked`), which
appends, seals and resets that come meanwhile must keep true; what a worker
holds is older than all the buffer. A commit therefore takes the oldest units,
and only units in a buffer are sealed (`SealsWait`).

**Captions** (`CaptionProofs`): `NoHole`, `UserWins` and `ForwardOnly`, with no
hypothesis beyond the assumption on the settings of the review.
`ExchangeInv` says of both stores that held alternatives are apart from the
captions and from one another, and that only captions of the live path are
replaced, by children only (`StoreInv`); of the wire that its groups are made
as the engine makes them; and of the corrector that it separates a caption.
`NoHole` is not inductive alone, because a held alternative is accepted long
after it was checked, and a reused name would hide a caption behind itself.
The two action properties are what `Steps` says of each action.

**Copies** (`CaptionProofs`): `CopiesAgree`, under the same assumption.
`CopyInv` keeps a log for as long as the user has assigned no caption: captions
of the client's at the one end, of the gateway's at the other, and between two
neighbours the event that tells how the one became the other (`Replays`).
Writing the gateway's store lengthens the log, receiving shortens it; that there
is some such log is all the invariant says, so no induction over the events is
needed. An event is then received as it was sent (`Received`), because what
could refuse it cannot have happened: no alternative waits in the client's store
unless the user assigned one of its parents (`Waiting`), a translation ends once,
in the stream or before it (`EndsOnce`), and a group on its way has a name and
children that the client does not know (`GroupsNamed`, `Named`). An assigned
caption stays assigned, whatever arrives or is accepted, so a client that leaves the claim does
not come back into it. That every state can be archived needs the links
between children and parents (`Linked`), which a group brings complete and no
later event of the two stores touches.

**Desktop window** (`CaptionProofs`): `UiCurrent`, with no hypothesis. `DeskInv`
says that the queue is in the order of the views, that a view begins once and
before anything else of it (`ViewsOK`); that while pages may be asked for, the
projection is what the view was opened with (`TokenOK`) and every page on its
way is of that state (`PagesOK`); and that the last queued message about a
thing has the projection's content of it, or, if none is queued, the window
shows it already or will (`CurrentOK`), a waiting edit's message counting as the
last (`OwedOK`): it still has the projection's content unless a live event about
that thing came in between, and then the thing is excepted. Emptying the queue leaves `UiCurrent`.
What a replaced preview may do to the queue is `Sent`: it loses only previews of
the thing that the new message shows. The proof needs the exception for
timed-out edits per view: the window may still show an earlier view that missed
one.

**Admission and providers** (`ProviderProofs`):

- `Exclusive` and `LiveFirst` for any finite set of requests and any capacity
  from 1 to 4. `acquire` decides on `_busy`, `_secondary_busy` and
  `_primary_waiters`, so `CountsAgree` must tie them to the requests, and that
  needs `Exclusive` when a correction leaves, because one Boolean stands for
  all corrections: the theorem proves the conjunction.
- `RunnerRefinesAdmission`: every behaviour of the runner is one of the
  admission, which is `UsesAdmission` without its fairness. `Exclusive` and
  `LiveFirst` therefore hold of the runner's tasks and the corrections beside
  them, however the tasks are cancelled, run out of time or fail.
- `NeverBack`, the safety part of `Answered`: the sink is never told anything
  older than it knows. `RunnerInv` says that a revision of a segment belongs to
  one task of a generation, that what was told is at most the latest revision,
  and that a task that told the end knows it (`EndsKnown`); while a switch is
  under way nothing belongs to the new generation, so its tables may be emptied.
- `ProvidersSound` (markers are non-empty texts and there is one; finite
  `Requests`, `Concurrency` natural), a reader beside the slots. For what is
  shown, `StreamInv` says that shown and held back make up what was said, and
  `HeldBack` that whatever beginning of a marker the text so far ends with is
  held back. The prover must see that this survives the next delta: a marker
  that begins in the shown text would have to begin before what is held back,
  so its beginning would have been a longer one to hold (`MoreText`); and that
  `Retained` is defined, because no letters are always a possible answer. For
  the slots, `OrchInv` counts who is where; a request that selects twice is counted
  once at a time.

**Start** (`ExtensionProofs`):

- `StartsWhole`, for any launchers: `SetupInv` says that the model folder is
  filled, in order, by the one launcher that made it, and by nobody after.
- `RunsAsConfigured`, for any settings whose switches are Booleans and whose
  times are integers, any `Heavy`, and any `Lossy` of whole milliseconds above the
  first (`LaunchAssumption`): `LaunchInv` says what every stage leaves in the
  environment, whatever it found there, and what the stages before have already
  refused. Truncation to whole milliseconds, one lost or not, keeps the order of
  times except where the property says so (`RoundedAway`).

**Boundaries** (`ExtensionProofs`): `NeverBridgedUnlessRaced` (`MaxPending` at
least 1), where `GenerationInv` says that generations follow the order of
windows, also through `Retag`, and that no hole comes after a window of the
current one; `LanesHoldOneVoice` (`MaxWords` natural, finite `Voices`, the
answers `Nobody` and `Adverse` no voices), where `LaneInv` says what the
carried words and the evidence remembered for them still know when a later
word asks; `TurnsStayApart`, with no hypothesis, where `TurnInv` keeps the
pending units in order of arrival and says that a request out at the model was
made of the first ones, with no boundary but on the last. Marks set meanwhile
fall on the last pending unit only, which is never inside the request.

**Audio** (`EngineProofs`):

- `CreditedOnce` (guard within a hop) and `AllAccounted` (hop at least 1, first
  window within a window, hop and guard within a window, as many notices as the
  deque holds). `CreditInv` orders the analysed window, the waiting one, the
  deferred tail and the run in time; `AccountInv` says where a unit without
  outcome still is: in a window, in the tail, or kept for the next window.
- `BlocksTellTheTruth` (`Block` and `MaxReceipts` at least 1): `WireInv` says
  that blocks and buffer are runs that follow each other, that what they hold
  is what the accepted frames cover, and that the receipts are the newest
  frames, with equal run numbers only where frames follow each other.
- `EpochsAreWhole` (`FrameSize` at least 2, `MaxStep` anything): `CaptureInv`
  says what the normalizer still knows of what it handed on. If the last item
  is a frame, the run has its epoch and goes on at its sequence, its end and its
  last sample (`Reaches`); the pending samples are continuous and end with the
  run's last packet (`RunOK`); no later frame may begin before the last end; and
  every range of the latency tracker is held, moment by moment, by frames of
  its epoch (`LineOK`). The theorem then follows through a push that may end a
  run, announce a gap and begin the next one in a single step.

**Names** (`EngineProofs`, the constants naturals): `NamesAreCurrent`. The
reducer rechecks a caption only when a new assignment bears on it, and forgets
assignments without rechecking, so `NamesInv` adds that a tracked caption
begins at or after the retention floor and that an assignment ends after the
audio it is about. Then a decision depends on the evidence about the caption's
own audio alone (`DecisionAgrees`); what `_prune` drops ends before the floor,
hence before every tracked caption (`PruningKeeps`); and a caption that
`Affected` does not touch has the same evidence, saying the same, as before,
although a confirmation changes what older provisional assignments say
(`UnaffectedSame`). The tracker's part is only that an assignment is about the
audio observed (`ObservedIsAbout`); whom it names is anything.

**Separation** (`EngineProofs`, `NoticeLimit` natural): `AnswersOnceAndCurrent`,
the action property `AnswersAreCurrent` that `EveryRequestAnswered` begins with.
`Books` says that a request is in one place at a time: it waits, is worked on,
is among the notices, or has been answered, once (`Apart`). The bound of the
deque of notices may drop requests, and no operation puts one in a second place.

**Recognizer** (`EngineProofs`, `NoAsrCall` no call): `RecognizerInOrder`, the
action property `SlotDiscipline` that `EveryCallSettles` begins with. The worker
chooses by the futures after the last call's result was given, the property
speaks of those before, so `SlotInv` says that the call holding the recognizer
is in no primary queue: its result empties none. For that, a queue holds each
call once, and only calls that were made; and what was made is not made again.

**Live client** (`CaptionProofs`, `MaxPackets` and `QueueFrames` naturals):
`CompletedWasHeard`, the safety conjunct of `StopEndsTruly`. As long as nothing
failed, what was sent and what is queued are together the packets from one on to
the last one taken, or contain a gap, with which a session is not called
completed (`StreamTrue`); what is still to be taken is ahead in the helper's
pipe, in order, or dropped (`OpenSource`); and a source that ended without a
failure left nothing behind (`EndedSource`). A session is completed only when
the source, the sender and the receiver are done, so nothing but what the helper
dropped is missing at either end.

Only model-checked:

- what needs fairness, out of the prover's reach: `WorkersExit`, `Answered`,
  `SegmentsResolve`, `DraftsSettle`, `LeaseReturns`, `EventsArrive`,
  `DrainsEnd`, `FinishEnds`, the last conjuncts of `CallsEndTruly`,
  `EveryCallSettles`, `EveryUnitReturns`, `EveryRequestAnswered` and
  `StopEndsTruly`, and the fairness parts of `ImplementsService`,
  `UsesService` and `UsesAdmission`;
- `WordsShownOnce`: it rests on how the lengths of words, the overlap of windows
  and the tolerance of the comparison relate. With words as long as a window,
  `SaidOnceUnlessForgotten` fails, so there is no theorem for every value of the
  constants; the run shows it for words no longer than the overlap.

## 6. Mutants

Every property of a passing run is broken by a variant of one definition, kept
next to it and introduced as a variant of the code. No specification uses one.

## 7. What is not modelled

Not modelled:

- `MyVote-Mac-Demo`: an older copy of the engine; the update's copy is modelled.
- Generated RPC code.
- Numerical code: resampling, voice activity, recognition, embeddings,
  segmentation, separation. What they answer is chosen freely.
- Prompts and the text of model output, glossaries, HTTP details of the
  backend. A request may end in any way.
- TLS, configuration files, schemas, metrics, traces and reports: declarations
  and counters without protocol state.
- `semantic_quality_output.py`, `semantic_latency_metrics.py`, diagnostics and
  command-line tools: sequential code that measures or prints.
- Parts of modelled components: `configure` and `set_glossary` of a session, its
  size limits on text, undo lists and rendering of captions, the catalogue of
  archives, Windows pipes. `PROJECT.json` says so at each component.
