------------------------- MODULE BoundaryGenerations -------------------------
(***************************************************************************)
(* scripts/semantic_boundary_pipeline.py (BoundaryStreamingSession) and    *)
(* semantic_transcript_idle.py over the engine's recogniser queue: every   *)
(* speech window is stamped with a generation, and a caption lane never    *)
(* joins windows of two generations.  A capture gap, a window skipped by   *)
(* overload and a final window that failed are holes; each starts a new    *)
(* generation for what follows it, the windows already queued included.    *)
(*                                                                         *)
(* One task feeds windows, one recognises them; awaits of the sink and of  *)
(* the idle task's end are where they interleave.  Windows are numbered;   *)
(* a hole is at an even number 2n (window n) or an odd one (a gap after    *)
(* window n), so that holes and windows have one order.                    *)
(***************************************************************************)
EXTENDS Integers, Sequences, FiniteSets

CONSTANTS MaxWindows, MaxPending, MaxGaps \* MaxPending: max_asr_pending

VARIABLES
  gnIdle,     \* the inactivity adapter is installed
  gnSeg,      \* the builder's segment
  gnOpen,     \* it holds speech of that segment
  gnNext,     \* the next window
  gnGaps,
  gnPending,  \* _pending, oldest first
  gnActive,   \* the window being recognised
  gnAt,       \* none, calling, accepting: _boundary_processing
  gnCapture,  \* _boundary_capture_generation
  gnSem,      \* _boundary_generation of the caption pipeline, -1: None
  gnFeed,     \* none, stop (idle task being stopped), told (sink), gap
  gnHeld,     \* the window an overload notice holds up
  gnGapAfter, \* that window is the last before a capture gap
  gnInput, gnText, \* the idle adapter's clocks are set
  gnTask,     \* its task was started and not stopped since
  gnAccepted, \* history: generation and number of accepted windows
  gnHoles,    \* history
  gnRaced     \* history: a window was taken between a skip and its cut

gnVars == <<gnIdle, gnSeg, gnOpen, gnNext, gnGaps, gnPending, gnActive, gnAt, gnCapture, gnSem,
            gnFeed, gnHeld, gnGapAfter, gnInput, gnText, gnTask, gnAccepted, gnHoles, gnRaced>>

Builder == <<gnIdle, gnSeg, gnOpen, gnNext, gnGaps>>

(* _wake_transcript_idle: both clocks are set. *)
Wakes == gnTask' = (gnTask \/ (gnIdle /\ gnInput' /\ gnText'))

GnInit ==
  /\ gnIdle \in BOOLEAN
  /\ gnSeg = 1 /\ gnOpen = FALSE /\ gnNext = 1 /\ gnGaps = 0
  /\ gnPending = <<>> /\ gnActive = <<>> /\ gnAt = "none"
  /\ gnCapture = 0 /\ gnSem = -1
  /\ gnFeed = "none" /\ gnHeld = <<>> /\ gnGapAfter = FALSE
  /\ gnInput = FALSE /\ gnText = FALSE /\ gnTask = FALSE
  /\ gnAccepted = {} /\ gnHoles = {} /\ gnRaced = FALSE

Gens(ws) == {ws[i].gen : i \in 1 .. Len(ws)}

(* Variant bug: every window behind the hole joins one generation. *)
RetagMerging(ws, gen) == gnCapture + 1

(* _boundary_cut(retag_pending=True): the queued windows' generations, in  *)
(* queue order, move behind the current one.                               *)
Retag(ws, gen) == gnCapture + 1 + Cardinality({g \in Gens(ws) : g < gen})
Retagged(ws) == [i \in 1 .. Len(ws) |-> [ws[i] EXCEPT !.gen = Retag(ws, ws[i].gen)]]
NewCapture(ws) ==
  IF gnCapture \in Gens(ws) THEN Retag(ws, gnCapture) ELSE Retag(ws, gnCapture + 1)

(* _boundary_cut_if_drained *)
SemAfter(processing, pending, capture, sem) ==
  IF ~processing /\ pending = <<>> THEN capture ELSE sem

(* A cut of the queue `ws`, which becomes the pending windows. *)
CutRetagging(ws, processing) ==
  /\ gnPending' = Retagged(ws)
  /\ gnCapture' = NewCapture(ws)
  /\ gnSem' = SemAfter(processing, ws, NewCapture(ws), gnSem)

Window(final) == [seg |-> gnSeg, n |-> gnNext, final |-> final, gen |-> gnCapture]

(* _enqueue() of the newest window: it replaces its segment's, or joins    *)
(* the queue, or the oldest window is skipped and the notice goes first.   *)
Enqueue(w, last) ==
  LET same == {i \in 1 .. Len(gnPending) : gnPending[i].seg = w.seg}
      rest == Tail(gnPending)
  IN  IF same = {} /\ Len(gnPending) >= MaxPending
      THEN /\ gnHoles' = gnHoles \cup {2 * gnPending[1].n}
           /\ gnHeld' = <<w>> /\ gnGapAfter' = last
           /\ gnInput' = FALSE /\ gnText' = FALSE /\ gnTask' = FALSE
           /\ IF gnTask
              THEN /\ gnFeed' = "stop" /\ gnPending' = rest
                   /\ UNCHANGED <<gnCapture, gnSem>>
              ELSE /\ gnFeed' = "told" /\ CutRetagging(rest, gnAt # "none")
      ELSE /\ gnPending' = IF same = {} THEN Append(gnPending, w)
                           ELSE [i \in 1 .. Len(gnPending) |-> IF i \in same THEN w ELSE gnPending[i]]
           /\ gnFeed' = IF last THEN "gap" ELSE "none"
           /\ gnInput' = (gnInput \/ ~last) /\ UNCHANGED gnText /\ Wakes
           /\ UNCHANGED <<gnHoles, gnHeld, gnGapAfter, gnCapture, gnSem>>

(* feed(): the builder cuts a window, the last of its segment or not. *)
Feed(final) ==
  /\ gnFeed = "none" /\ gnNext <= MaxWindows
  /\ gnNext' = gnNext + 1
  /\ gnSeg' = IF final THEN gnSeg + 1 ELSE gnSeg
  /\ gnOpen' = ~final
  /\ Enqueue(Window(final), FALSE)
  /\ UNCHANGED <<gnIdle, gnGaps, gnActive, gnAt, gnAccepted, gnRaced>>

(* audio_gap(), or feed() of a frame that does not continue the last: what *)
(* the builder retains is flushed first.                                   *)
AudioGap ==
  /\ gnFeed = "none" /\ gnGaps < MaxGaps /\ (gnOpen => gnNext <= MaxWindows)
  /\ gnGaps' = gnGaps + 1
  /\ gnOpen' = FALSE
  /\ IF gnOpen
     THEN /\ gnNext' = gnNext + 1 /\ gnSeg' = gnSeg + 1
          /\ Enqueue(Window(TRUE), TRUE)
     ELSE /\ gnFeed' = "gap"
          /\ UNCHANGED <<gnNext, gnSeg, gnPending, gnHoles, gnHeld, gnGapAfter, gnInput, gnText, gnTask, gnCapture, gnSem>>
  /\ UNCHANGED <<gnIdle, gnActive, gnAt, gnAccepted, gnRaced>>

(* The idle task has ended; only now the overload is told and cut. *)
OverloadCut ==
  /\ gnFeed = "stop" /\ gnFeed' = "told"
  /\ CutRetagging(gnPending, gnAt # "none")
  /\ UNCHANGED <<Builder, gnActive, gnAt, gnHeld, gnGapAfter, gnInput, gnText, gnTask, gnAccepted, gnHoles, gnRaced>>

(* The rest of _enqueue(): the held window is stamped after the cut. *)
OverloadTold ==
  /\ gnFeed = "told"
  /\ gnPending' = Append(gnPending, [gnHeld[1] EXCEPT !.gen = gnCapture])
  /\ gnHeld' = <<>> /\ gnGapAfter' = FALSE
  /\ gnFeed' = IF gnGapAfter THEN "gap" ELSE "none"
  /\ gnInput' = (gnInput \/ ~gnGapAfter) /\ UNCHANGED gnText /\ Wakes
  /\ UNCHANGED <<Builder, gnActive, gnAt, gnCapture, gnSem, gnAccepted, gnHoles, gnRaced>>

(* _emit("audio.gap") *)
GapCut ==
  /\ gnFeed = "gap" /\ gnFeed' = "none"
  /\ gnHoles' = gnHoles \cup {2 * gnNext - 1}
  /\ gnCapture' = gnCapture + 1
  /\ gnSem' = SemAfter(gnAt # "none", gnPending, gnCapture + 1, gnSem)
  /\ gnInput' = FALSE /\ gnText' = FALSE /\ gnTask' = FALSE
  /\ UNCHANGED <<Builder, gnPending, gnActive, gnAt, gnHeld, gnGapAfter, gnAccepted, gnRaced>>

(* _asr_loop() *)
Take ==
  /\ gnAt = "none" /\ gnPending # <<>>
  /\ gnActive' = <<Head(gnPending)>> /\ gnPending' = Tail(gnPending)
  /\ gnAt' = "calling"
  /\ gnRaced' = (gnRaced \/ gnFeed = "stop")
  /\ UNCHANGED <<Builder, gnCapture, gnSem, gnFeed, gnHeld, gnGapAfter, gnInput, gnText,
                 gnTask, gnAccepted, gnHoles>>

(* The caption pipeline's accept(): another generation breaks its lanes. *)
AcceptWindow ==
  /\ gnAt = "calling" /\ gnAt' = "accepting"
  /\ gnSem' = gnActive[1].gen
  /\ gnAccepted' = gnAccepted \cup {[gen |-> gnActive[1].gen, n |-> gnActive[1].n]}
  /\ gnText' = gnIdle /\ UNCHANGED gnInput /\ Wakes
  /\ UNCHANGED <<Builder, gnPending, gnActive, gnCapture, gnFeed, gnHeld, gnGapAfter,
                 gnHoles, gnRaced>>

(* _process_window() ends well. *)
Processed ==
  /\ gnAt = "accepting" /\ gnAt' = "none" /\ gnActive' = <<>>
  /\ gnSem' = SemAfter(FALSE, gnPending, gnCapture, gnSem)
  /\ UNCHANGED <<Builder, gnPending, gnCapture, gnFeed, gnHeld, gnGapAfter, gnInput, gnText,
                 gnTask, gnAccepted, gnHoles, gnRaced>>

(* The recogniser or the captions fail; only a final window is lost. *)
ProcessFails ==
  /\ gnAt # "none" /\ gnAt' = "none" /\ gnActive' = <<>>
  /\ IF gnActive[1].final
     THEN /\ gnHoles' = gnHoles \cup {2 * gnActive[1].n}
          /\ CutRetagging(gnPending, FALSE)
     ELSE /\ gnSem' = SemAfter(FALSE, gnPending, gnCapture, gnSem)
          /\ UNCHANGED <<gnPending, gnCapture, gnHoles>>
  /\ UNCHANGED <<Builder, gnFeed, gnHeld, gnGapAfter, gnInput, gnText, gnTask, gnAccepted, gnRaced>>

(* _transcript_idle_loop(): no sound and no new text for a while. *)
IdleCheckpoint ==
  /\ gnTask /\ gnInput /\ gnText /\ gnOpen /\ gnFeed = "none"
  /\ gnAt = "none" /\ gnPending = <<>> /\ gnNext <= MaxWindows
  /\ gnNext' = gnNext + 1 /\ gnSeg' = gnSeg + 1 /\ gnOpen' = FALSE
  /\ gnPending' = <<Window(TRUE)>>
  /\ gnText' = FALSE
  /\ UNCHANGED <<gnIdle, gnGaps, gnActive, gnAt, gnCapture, gnSem, gnFeed, gnHeld, gnGapAfter, gnInput,
                 gnTask, gnAccepted, gnHoles, gnRaced>>

GnNext ==
  \/ \E final \in BOOLEAN : Feed(final)
  \/ AudioGap \/ OverloadCut \/ OverloadTold \/ GapCut
  \/ Take \/ AcceptWindow \/ Processed \/ ProcessFails \/ IdleCheckpoint

GnSpec == GnInit /\ [][GnNext]_gnVars

Bridged(a, b) == a.gen = b.gen /\ \E h \in gnHoles : 2 * a.n < h /\ h < 2 * b.n

(* No two accepted windows of one generation have a hole between them, so  *)
(* that no caption joins words across it, however slow the recogniser is   *)
(* (semantic_boundary_pipeline.py:6); except when the recogniser takes a   *)
(* window while an overload waits for the idle task (see NeverBridged).    *)
NeverBridgedUnlessRaced == gnRaced \/ \A a, b \in gnAccepted : ~Bridged(a, b)

(* The same as semantic_boundary_pipeline.py:6 promises it. *)
NeverBridged == \A a, b \in gnAccepted : ~Bridged(a, b)

=============================================================================
