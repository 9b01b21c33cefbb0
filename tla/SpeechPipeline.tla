--------------------------- MODULE SpeechPipeline ---------------------------
(***************************************************************************)
(* StreamingSession (myvote_engine/pipeline.py) with the                   *)
(* LocalAgreementStabilizer of asr.py: frames arrive while one worker asks *)
(* the recogniser about one window at a time, words that two passes agree  *)
(* on become captions, and captions are translated.                        *)
(*                                                                         *)
(* What is said is a sequence of words, each an interval of the audio.     *)
(* The recogniser hears every word that overlaps its window, clipped to    *)
(* it, with a text it may get right or wrong anew at each call.            *)
(***************************************************************************)
EXTENDS SpeechWindows, SequencesExt

CONSTANTS Texts,        \* what the recogniser may write for a word
          Stops,        \* the texts that end with sentence punctuation
          Tolerance,    \* timestamp_tolerance_ns, 250 ms in _is_boundary_duplicate
          Lookback,     \* 500 ms in _is_boundary_duplicate
          Target,       \* clause_target_s
          MaxAsr,       \* max_asr_pending
          MaxTranslate, \* max_translation_pending
          MaxTime,      \* bound: frames of the run
          MaxWord,      \* bound: frames of a word
          MaxGaps       \* bound: gaps of the run

VARIABLES t, said, b, pending, asr, states, shown, forgot, open, lost, phase, gaps

vars == <<t, said, b, pending, asr, states, shown, forgot, open, lost, phase, gaps>>

NoCall == [win |-> <<>>, st |-> <<>>]

\* _SegmentState: what the stabilizer and the assembler of a segment hold.
\* edge is the end of the last stable word, clause the stable words that wait
\* for their clause, end the end of the last window heard.
NewState == [edge |-> -1, pend |-> <<>>, hist |-> <<>>, voted |-> FALSE,
             clause |-> <<>>, end |-> -1]

Init ==
    /\ ValidWindows
    /\ t = 0 /\ gaps = 0
    /\ said = <<>>          \* what was said: the intervals of the words
    /\ b = NewBuilder(0)
    /\ pending = <<>>       \* windows waiting for the recogniser
    /\ asr = NoCall         \* the window the worker holds
    /\ states = <<>>
    /\ shown = <<>>         \* the words of the captions
    /\ forgot = 0           \* how many of them _recent_words forgot
    /\ open = 0             \* captions whose translation runs
    /\ lost = {}            \* intervals reported as lost for good
    /\ phase = "live"

-----------------------------------------------------------------------------
(* Waiting windows *)

\* _enqueue: the newest snapshot of a segment takes the place of the older
\* one; a full queue drops its oldest window and, if that was the segment's
\* last one, the segment's state.
Enqueue(q, w) ==
    LET same == {i \in DOMAIN q.wait : q.wait[i].seg = w.seg}
        old  == Head(q.wait)
        full == Len(q.wait) >= MaxAsr
    IN  IF same # {} THEN [q EXCEPT !.wait = [i \in DOMAIN @ |-> IF i \in same THEN w ELSE @[i]]]
        ELSE [wait |-> Append(IF full THEN Tail(q.wait) ELSE q.wait, w),
              sts  |-> IF full /\ old.final
                       THEN [s \in DOMAIN q.sts \ {old.seg} |-> q.sts[s]] ELSE q.sts,
              gone |-> IF full /\ old.final THEN q.gone \cup {<<old.emit, old.to>>} ELSE q.gone]

EnqueueAll(ws) ==
    \E q \in {FoldLeft(Enqueue, [wait |-> pending, sts |-> states, gone |-> lost], ws)} :
        pending' = q.wait /\ states' = q.sts /\ lost' = q.gone

\* What the next frame holds: silence, the onset of a word, or more of one.
Sounds(at) == {"silence", "word"} \cup
    (IF said # <<>> /\ Last(said)[2] = at /\ at - Last(said)[1] < MaxWord THEN {"more"} ELSE {})

Say(at, sound) ==
    said' = CASE sound = "silence" -> said
              [] sound = "word"    -> Append(said, <<at, at + 1>>)
              [] sound = "more"    -> [said EXCEPT ![Len(said)] = <<@[1], at + 1>>]

\* feed, of a frame that continues the last one.
Feed ==
    /\ phase = "live" /\ t < MaxTime
    /\ \E sound \in Sounds(t) :
         LET p == Push(b, t, sound # "silence")
         IN  Say(t, sound) /\ b' = p.builder /\ EnqueueAll(p.windows)
    /\ t' = t + 1
    /\ UNCHANGED <<asr, shown, forgot, open, phase, gaps>>

\* feed, of a frame behind a hole: the builder raises AudioDiscontinuity, is
\* flushed and reset, and takes the frame as its first.
FeedBehindGap ==
    /\ phase = "live" /\ t + 1 < MaxTime /\ gaps < MaxGaps
    /\ \E sound \in Sounds(t + 1) :
         LET p == Push(NewBuilder(b.counter), t + 1, sound # "silence")
         IN  Say(t + 1, sound) /\ b' = p.builder /\ EnqueueAll(Flush(b) \o p.windows)
    /\ t' = t + 2 /\ gaps' = gaps + 1
    /\ UNCHANGED <<asr, shown, forgot, open, phase>>

\* audio_gap: an explicit gap also forgets the words of the boundary.
AudioGap ==
    /\ phase = "live" /\ t < MaxTime /\ gaps < MaxGaps
    /\ b' = NewBuilder(b.counter) /\ EnqueueAll(Flush(b))
    /\ forgot' = Len(shown)
    /\ t' = t + 1 /\ gaps' = gaps + 1
    /\ UNCHANGED <<said, asr, shown, open, phase>>

-----------------------------------------------------------------------------
(* LocalAgreementStabilizer *)

\* _after_stable: the words that the stable prefix does not own already.
AfterStable(edge, ws) ==
    SelectSeq(ws, LAMBDA w : /\ w.e > edge
                             /\ ~ /\ 2 * Later(0, edge - w.s) >= w.e - w.s
                                  /\ w.e <= edge + Tolerance)

Near(i, j) == i - j <= Tolerance /\ j - i <= Tolerance

Agrees(v, w) == v.txt = w.txt /\ Near(v.s, w.s) /\ Near(v.e, w.e)

\* accept, of the words of a window that ends at end: the longest prefix that
\* the pass before agrees with becomes stable.
Accept(st, end, ws) ==
    LET current == AfterStable(st.edge, ws)
        before  == AfterStable(st.edge, st.hist)
        common  == Max({n \in 0..Len(current) :
                          n = 0 \/ (/\ st.voted /\ n <= Len(before)
                                    /\ \A i \in 1..n : Agrees(current[i], before[i]))})
        rest    == SubSeq(current, common + 1, Len(current))
    IN  [st EXCEPT !.edge = IF common = 0 THEN @ ELSE current[common].e,
                   !.clause = @ \o SubSeq(current, 1, common),
                   !.pend = rest, !.hist = current, !.voted = TRUE, !.end = end]

-----------------------------------------------------------------------------
(* One window *)

\* Variant: only a word whose end was captioned before is a duplicate.
IsBoundaryDuplicateByEnd(w, boundary) ==
    \E i \in (forgot + 1)..Len(shown) :
        shown[i].txt = w.txt /\ shown[i].e = w.e /\ w.s < boundary

\* _is_boundary_duplicate: the word was captioned from the window before.
IsBoundaryDuplicate(w, boundary) ==
    /\ w.s < boundary
    /\ \E i \in (forgot + 1)..Len(shown) :
         LET v == shown[i]
             shorter == Sooner(w.e - w.s, v.e - v.s)
         IN  /\ v.e >= boundary - Lookback
             /\ v.txt = w.txt /\ shorter > 0 /\ Near(w.s, v.s)
             /\ 10 * (Sooner(w.e, v.e) - Later(w.s, v.s)) >= 6 * shorter

\* transcribe_pcm as the pipeline uses it: the words of the window, in order,
\* each with any of the texts.
\* [external]
Heard(win) ==
    LET ids == {i \in DOMAIN said : said[i][1] < win.to /\ said[i][2] > win.from}
        lo  == IF ids = {} THEN 0 ELSE Min(ids) - 1
    IN  {[k \in 1..Cardinality(ids) |->
            [id |-> lo + k, s |-> Later(said[lo + k][1], win.from),
             e |-> Sooner(said[lo + k][2], win.to), txt |-> txt[k]]]
         : txt \in [1..Cardinality(ids) -> Texts]}

\* The words of the window that are new to it.
Kept(win, ws) ==
    SelectSeq(ws, LAMBDA w : /\ w.e > win.emit \/ (w.e = win.emit /\ w.s >= win.emit)
                             /\ ~ IsBoundaryDuplicate(w, win.emit))

\* Variant: the last window does not release the words that wait.
\* ClauseAssembler.accept: a clause ends with a sentence, when it is long
\* enough, and when the window is the last or plays far enough ahead.  The
\* result is how many clauses end and how many words they hold together.
Clauses(ws, playhead, final) ==
    LET cut[i \in 0..Len(ws)] ==
            IF i = 0 THEN [n |-> 0, len |-> 0]
            ELSE LET c == cut[i - 1]
                 IN  IF ws[i].txt \in Stops \/ ws[i].e - ws[c.len + 1].s >= Target
                     THEN [n |-> c.n + 1, len |-> i] ELSE c
        all == cut[Len(ws)]
    IN  IF all.len < Len(ws) /\ (final \/ playhead - ws[all.len + 1].s >= Target)
        THEN [n |-> all.n + 1, len |-> Len(ws)] ELSE all

\* _emit_clauses: each clause becomes a caption and asks for its translation,
\* which fails at once when its deadline has passed or the queue is full.
EmitClauses(win, n, words, late) ==
    /\ shown' = shown \o [i \in DOMAIN words |-> words[i] @@ [seg |-> win.seg, base |-> forgot]]
    /\ open' = IF late THEN open ELSE Sooner(MaxTranslate, open + n)

From(ws, n) == SubSeq(ws, n + 1, Len(ws))

\* What is left of a segment: its last window ends it, and a state that an
\* overload dropped during the call does not come back.
Store(win, st) ==
    states' = IF win.seg \notin DOMAIN states THEN states
              ELSE IF win.final THEN [s \in DOMAIN states \ {win.seg} |-> states[s]]
              ELSE [states EXCEPT ![win.seg] = st]

\* The rest of _process_window, with the words of the hypothesis.  At the last
\* window the suffix of the last pass becomes stable without a second vote.
Settle(win, st, ws, late) ==
    \E heard \in {IF win.to = st.end THEN st ELSE Accept(st, win.to, ws)} :
    \E words \in {heard.clause \o (IF win.final THEN heard.pend ELSE <<>>)} :
    \E cut \in {Clauses(heard.clause, win.to, FALSE)} :
    \E last \in {IF win.final THEN Clauses(From(words, cut.len), win.to, TRUE)
                 ELSE [n |-> 0, len |-> 0]} :
        /\ EmitClauses(win, cut.n + last.n, SubSeq(words, 1, cut.len + last.len), late)
        /\ Store(win, [heard EXCEPT !.clause = From(@, cut.len)])

\* Variant: the worker leaves its loop as soon as the session is finishing.
TakeWindowLive ==
    /\ phase = "live" /\ asr = NoCall /\ pending # <<>>
    /\ pending' = Tail(pending) /\ asr' = [win |-> Head(pending), st |-> NewState]
    /\ UNCHANGED <<t, said, b, states, shown, forgot, open, lost, phase, gaps>>

\* _asr_loop takes the oldest window.  The last window of a segment that was
\* heard already needs no call: its words are settled at once.
TakeWindow ==
    /\ asr = NoCall /\ pending # <<>> /\ phase \in {"live", "finishing"}
    /\ LET win == Head(pending)
           st  == IF win.seg \in DOMAIN states THEN states[win.seg] ELSE NewState
       IN  /\ pending' = Tail(pending)
           /\ IF win.final /\ win.to = st.end
              THEN \E late \in BOOLEAN : Settle(win, st, <<>>, late) /\ UNCHANGED asr
              ELSE /\ asr' = [win |-> win, st |-> st]
                   /\ states' = [s \in DOMAIN states \cup {win.seg} |->
                                   IF s = win.seg THEN st ELSE states[s]]
                   /\ UNCHANGED <<shown, open>>
    /\ UNCHANGED <<t, said, b, forgot, lost, phase, gaps>>

\* The recogniser answers.
AsrAnswers ==
    /\ asr # NoCall
    /\ \E ws \in {Kept(asr.win, h) : h \in Heard(asr.win)}, late \in BOOLEAN :
         Settle(asr.win, asr.st, ws, late)
    /\ asr' = NoCall
    /\ UNCHANGED <<t, said, b, pending, forgot, lost, phase, gaps>>

\* The recogniser fails.  The words that were agreed on before are kept, the
\* rest of a last window is reported as lost.
AsrFails ==
    /\ asr # NoCall
    /\ LET win == asr.win
           st  == asr.st
       IN  IF win.final
           THEN /\ \E late \in BOOLEAN :
                     EmitClauses(win, Clauses(st.clause, win.to, TRUE).n, st.clause, late)
                /\ lost' = lost \cup {<<Later(win.emit, st.edge), win.to>>}
                /\ Store(win, st)
           ELSE UNCHANGED <<shown, open, lost, states>>
    /\ asr' = NoCall
    /\ UNCHANGED <<t, said, b, pending, forgot, phase, gaps>>

-----------------------------------------------------------------------------
(* Translations, finish and close *)

\* _on_translation: a caption's translation ends, whatever its outcome.
Translated ==
    /\ open > 0 /\ open' = open - 1
    /\ UNCHANGED <<t, said, b, pending, asr, states, shown, forgot, lost, phase, gaps>>

\* finish: the open segment is flushed and no more audio is taken.
Finish ==
    /\ phase = "live"
    /\ EnqueueAll(Flush(b))
    /\ b' = [b EXCEPT !.seg = 0]
    /\ phase' = "finishing"
    /\ UNCHANGED <<t, said, asr, shown, forgot, open, gaps>>

\* finish found the worker done and every translation ended.
Drained ==
    /\ phase = "finishing" /\ asr = NoCall /\ pending = <<>> /\ open = 0
    /\ phase' = "drained" /\ states' = <<>>
    /\ UNCHANGED <<t, said, b, pending, asr, shown, forgot, open, lost, gaps>>

\* close, by the caller or because finish ran out of time: work is dropped.
Close ==
    /\ phase \in {"live", "finishing"}
    /\ phase' = "closed"
    /\ asr' = NoCall /\ pending' = <<>> /\ states' = <<>> /\ open' = 0
    /\ UNCHANGED <<t, said, b, shown, forgot, lost, gaps>>

Next == \/ Feed \/ FeedBehindGap \/ AudioGap
        \/ TakeWindow \/ AsrAnswers \/ AsrFails
        \/ Translated \/ Finish \/ Drained \/ Close

\* The worker's task is scheduled, and a call or a translation ends: finish
\* bounds its waits by its own timeout.  A call can always fail.
CallEnds == asr # NoCall /\ asr' = NoCall
Fairness == /\ WF_vars(TakeWindow) /\ WF_asr(CallEnds)
            /\ WF_vars(Translated) /\ WF_vars(Drained)

Spec == Init /\ [][Next]_vars /\ Fairness

-----------------------------------------------------------------------------
(* Properties *)

InOrder(i, j) ==
    \/ shown[i].id < shown[j].id
    \/ /\ shown[i].id = shown[j].id
       /\ shown[i].seg # shown[j].seg /\ shown[i].txt # shown[j].txt

\* Captions follow what was said, and a word is captioned once, although the
\* windows of a segment repeat it and the windows of the next segment repeat
\* the boundary (_after_stable, _is_boundary_duplicate): only a word cut by a
\* boundary whose halves were heard as different texts is shown in both.
SaidOnce == \A i, j \in DOMAIN shown : i < j => InOrder(i, j)

\* The same, but for the words that an explicit gap made the session forget
\* while windows from before the gap were still waiting for the recogniser.
SaidOnceUnlessForgotten ==
    \A i, j \in DOMAIN shown : i < j =>
        InOrder(i, j) \/ (i <= shown[j].base /\ shown[i].id = shown[j].id)

\* When finish has drained the session, every word that was said is in a
\* caption or in an interval that was reported as lost (asr.skipped_overload,
\* asr.failed, asr.incomplete): windows, pre-roll, overlap, agreement, clause
\* assembly and duplicate suppression together lose nothing silently.
NothingUntold ==
    phase = "drained" =>
        \A i \in DOMAIN said :
            \/ \E k \in DOMAIN shown : shown[k].id = i
            \/ \E l \in lost : said[i][1] < l[2] /\ said[i][2] > l[1]

\* The two together: each word that was said is captioned once.
WordsShownOnce == SaidOnceUnlessForgotten /\ NothingUntold

\* finish ends: the recogniser's queue and the translations always drain.
FinishEnds == []<>(phase # "finishing")
=============================================================================
