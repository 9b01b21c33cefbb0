--------------------------- MODULE SpeechWindows ---------------------------
(***************************************************************************)
(* SpeechWindowBuilder (myvote_engine/audio.py): the frames of one track   *)
(* become the windows of audio the recogniser is given.  Time is counted   *)
(* in frames on the capture clock; a window is the interval [from, to] of  *)
(* the audio it holds, and emit is the instant its words are new from.     *)
(* Samples themselves are left out: a window's samples are its interval.   *)
(***************************************************************************)
EXTENDS Integers, FiniteSetsExt, Sequences

CONSTANTS Step,       \* audio between two incremental windows (step_s)
          MinWindow,  \* shortest incremental window (min_window_s)
          Endpoint,   \* silence that ends a segment (endpoint_s)
          PreRoll,    \* audio kept from before the onset (pre_roll_s)
          Pad,        \* silence kept behind the last speech (pad_s)
          MaxWindow,  \* longest window (max_window_s)
          Overlap     \* context a forced continuation repeats (overlap_s)

\* What __init__ accepts.
ValidWindows ==
    /\ {Step, MinWindow, Endpoint, MaxWindow} \subseteq Nat \ {0}
    /\ {PreRoll, Pad, Overlap} \subseteq Nat
    /\ Step <= MaxWindow /\ MinWindow <= MaxWindow /\ Pad <= Endpoint
    /\ PreRoll < MaxWindow /\ Overlap < MaxWindow

Later(a, b) == IF a > b THEN a ELSE b
Sooner(a, b) == IF a < b THEN a ELSE b

\* A builder that has seen no frame; the segment counter survives a reset.
NewBuilder(counter) ==
    [seg |-> 0, counter |-> counter, start |-> 0, emit |-> 0, spoken |-> 0,
     out |-> 0, fin |-> 0, recent |-> 0, pos |-> 0]

NewSegment(b, start, emit) ==
    [b EXCEPT !.counter = @ + 1, !.seg = b.counter + 1,
              !.start = start, !.emit = emit, !.out = emit]

Window(b, end, final) ==
    [seg |-> b.seg, from |-> b.start, to |-> end, emit |-> b.emit, final |-> final]

Emitted(b, end, final) ==
    [b EXCEPT !.out = Later(@, end), !.fin = IF final THEN Later(@, end) ELSE @]

\* The windows a heard frame makes due: a split of a segment that reached the
\* maximum (its continuation repeats Overlap), then the endpoint or the next
\* incremental window.  A frame is one unit long, so one split is enough.
Cut(b, end, speech) ==
    LET visible  == IF speech THEN end ELSE Sooner(end, b.spoken + Pad)
        boundary == b.start + MaxWindow
        full     == visible >= boundary
        c == IF full THEN NewSegment(Emitted(b, boundary, TRUE), boundary - Overlap, boundary)
             ELSE b
        split == IF full THEN <<Window(b, boundary, TRUE)>> ELSE <<>>
        ended == ~speech /\ end - b.spoken >= Endpoint
        due   == /\ visible > c.emit
                 /\ ended \/ (visible - c.start >= MinWindow /\ visible - c.out >= Step)
        d == IF due THEN Emitted(c, visible, ended) ELSE c
    IN  [builder |-> IF ended THEN [d EXCEPT !.seg = 0] ELSE d,
         windows |-> split \o (IF due THEN <<Window(c, visible, ended)>> ELSE <<>>)]

\* push: the frame [t, t + 1], with or without speech.
Push(b, t, speech) ==
    LET start == t - b.recent
        opened == IF speech /\ b.seg = 0 THEN NewSegment(b, start, Later(start, b.fin)) ELSE b
        heard  == [opened EXCEPT !.spoken = IF speech THEN t + 1 ELSE @,
                                 !.recent = Sooner(PreRoll, @ + 1), !.pos = t + 1]
    IN  IF heard.seg = 0 THEN [builder |-> heard, windows |-> <<>>]
        ELSE Cut(heard, t + 1, speech)

\* flush: the last window of an open segment.
Flush(b) ==
    LET end == Sooner(b.pos, b.spoken + Pad)
    IN  IF b.seg # 0 /\ end > b.emit THEN <<Window(b, end, TRUE)>> ELSE <<>>
=============================================================================
