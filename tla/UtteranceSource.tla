--------------------------- MODULE UtteranceSource ---------------------------
(***************************************************************************)
(* The source side of one utterance of the streaming gateway: how ASR      *)
(* hypotheses become a stable source prefix (streaming/stability.py), how  *)
(* a new hypothesis invalidates source segments (streaming/revision.py),   *)
(* and how TranslationSession (session/state.py) cuts the stable source    *)
(* into segments.  Offsets are character offsets into the hypothesis, so   *)
(* a hypothesis is a sequence of characters; of the classes tokenize tells *)
(* apart, letters, blanks and single-character tokens are kept.            *)
(*                                                                         *)
(* Scores (age, confidence, pause) and the completeness heuristics decide  *)
(* how much of the available source is stable and where it is cut; here    *)
(* they may decide anything the surrounding code allows.  The utterance's  *)
(* session is attached and its decision timer is the flag armed.           *)
(***************************************************************************)
EXTENDS Integers, Sequences, FiniteSets, FiniteSetsExt, SequencesExt, Deques

CONSTANTS
  Letters,         \* alphanumeric characters
  Blank,           \* the whitespace character
  Hypotheses,      \* the texts the recognizer may send
  StabilityHistory,          \* stability_history
  HoldPartialTail  \* hold_partial_tail

ASSUME SourceAssumption ==
  /\ Blank \notin Letters
  /\ StabilityHistory \in Nat \ {0, 1}
  /\ HoldPartialTail \in BOOLEAN
  /\ \A t \in Hypotheses : t \in Seq(Range(t))

VARIABLES
  text, final, stable, selected, incomplete,   \* the fields of Utterance
  heard, history, committed,                   \* _text, _history, _committed_text
  segments,                                    \* the utterance's Segment spans
  armed,                                       \* its decision timer is pending
  judged,                                      \* the latest input reached a decision
  refused                                      \* tracker.commit or segmenter raised

vars == <<text, final, stable, selected, incomplete, heard, history, committed,
          segments, armed, judged, refused>>

-----------------------------------------------------------------------------
(* tokenize: a token is a run of letters or one other character.           *)
Ends(t) == {i \in 1 .. Len(t) : t[i] # Blank /\
              ~(t[i] \in Letters /\ i < Len(t) /\ t[i + 1] \in Letters)}
Starts(t) == {i \in 0 .. Len(t) - 1 : t[i + 1] # Blank /\
                ~(t[i + 1] \in Letters /\ i > 0 /\ t[i] \in Letters)}
TokenCount(t) == Cardinality(Ends(t))
Token(t, k) == SubSeq(t, Nth(Starts(t), k) + 1, Nth(Ends(t), k))

(* token_char_end(tokens, count). *)
TokenCharEnd(t, count) == IF count = 0 THEN 0 ELSE Nth(Ends(t), count)

(* text[a:b] and the test text[a:].strip(). *)
Slice(t, a, b) == SubSeq(t, a + 1, b)
Remains(t, a) == \E i \in a + 1 .. Len(t) : t[i] # Blank

(* common_prefix_length of the token lists of several hypotheses. *)
CommonTokens(texts) ==
  Max({n \in 0 .. Min({TokenCount(t) : t \in texts}) :
         \A k \in 1 .. n : \A t, u \in texts : Token(t, k) = Token(u, k)})

(* Length of the common prefix of two texts. *)
CommonChars(t, u) ==
  Max({n \in 0 .. Min({Len(t), Len(u)}) : SubSeq(t, 1, n) = SubSeq(u, 1, n)})

-----------------------------------------------------------------------------
(* StabilityTracker.                                                       *)

(* _evaluate: the protected prefix changed, or became part of a word. *)
Conflict(t, protected) ==
  \/ ~IsPrefix(protected, t)
  \/ protected # <<>> /\ Len(protected) \notin Ends(t)

(* _evaluate: how many tokens may count as stable at most. *)
Available(t, hist, isFinal) ==
  LET agreement == IF Len(hist) = StabilityHistory THEN CommonTokens(Range(hist)) ELSE 0
      held == /\ HoldPartialTail /\ agreement = TokenCount(t) /\ agreement > 0
              /\ Len(t) \in Ends(t) /\ t[Len(t)] \in Letters
  IN  IF isFinal THEN TokenCount(t)
      ELSE IF held THEN agreement - 1 ELSE agreement

(* Variant bug: protected tokens may become unstable again. *)
StableEndsFromScores(t, hist, protected, isFinal) ==
  LET n == Available(t, hist, isFinal)
      passed == IF isFinal THEN {n} ELSE 0 .. n
  IN  IF ~Conflict(t, protected) THEN {TokenCharEnd(t, s) : s \in passed}
      ELSE IF isFinal THEN {TokenCharEnd(t, n)} ELSE {0}

(* _evaluate: the possible values of stable_char_end.  Only a final scores *)
(* every token 1; any other score may pass the threshold or not.           *)
StableEnds(t, hist, protected, isFinal) ==
  LET n == Available(t, hist, isFinal)
      passed == IF isFinal THEN {n} ELSE 0 .. n
      kept == Cardinality({e \in Ends(t) : e <= Len(protected)})
  IN  IF ~Conflict(t, protected)
      THEN {TokenCharEnd(t, IF s > kept THEN s ELSE kept) : s \in passed}
      ELSE IF isFinal THEN {TokenCharEnd(t, n)} ELSE {0}

(* commit: the calls that do not raise. *)
CommitAllowed(t, end, protected, isFinal) ==
  /\ end \in {0} \cup Ends(t)
  /\ Conflict(t, protected) \/ end < Len(protected) => isFinal

(* _history, a deque of at most StabilityHistory hypotheses. *)
Remember(hist, t) ==
  LET longer == Append(hist, t)
  IN  IF Len(longer) > StabilityHistory THEN Tail(longer) ELSE longer

-----------------------------------------------------------------------------
(* plan_revision: where the new text first differs; an extension of the    *)
(* last word of the whole old text differs from that word's start on.      *)
Difference(old, new) ==
  LET common == CommonChars(old, new)
      split == {k \in 1 .. TokenCount(new) :
                  Nth(Starts(new), k) < common /\ common < Nth(Ends(new), k)}
  IN  IF common = Len(old) /\ Len(new) > Len(old) /\ split # {}
      THEN Nth(Starts(new), Min(split)) ELSE common

(* Variant bug: off by one in the segment that a revision touches first. *)
RollbackIndexLate(old, new, spans) ==
  LET touched == {k \in DOMAIN spans : Difference(old, new) + 1 < spans[k].end}
  IN  IF old # new /\ touched # {} THEN Min(touched) ELSE Len(spans) + 1

(* plan_revision: rollback_segment_index, the first segment touched. *)
RollbackIndex(old, new, spans) ==
  LET touched == {k \in DOMAIN spans : Difference(old, new) < spans[k].end}
  IN  IF old # new /\ touched # {} THEN Min(touched) ELSE Len(spans) + 1

-----------------------------------------------------------------------------
Init ==
  /\ text = <<>> /\ final = FALSE /\ stable = 0 /\ selected = 0 /\ incomplete = FALSE
  /\ heard = <<>> /\ history = <<>> /\ committed = <<>>
  /\ segments = <<>>
  /\ armed = FALSE /\ judged = TRUE /\ refused = {}

(* ingest of a partial that contradicts the protected prefix: the tracker  *)
(* remembers it, the utterance waits for the final.                        *)
IngestConflict(t) ==
  /\ ~final
  /\ Conflict(t, committed)
  /\ heard' = t
  /\ history' = Remember(history, t)
  /\ UNCHANGED <<text, final, stable, selected, incomplete, committed, segments,
                 armed, judged, refused>>

(* _rollback to the segment at index: selected_end. *)
RolledBack(index) ==
  IF index <= Len(segments) THEN Min({selected, segments[index].start}) ELSE selected

(* ingest of any other hypothesis, with the rollback it plans. *)
Ingest(t, isFinal) ==
  LET hist == Remember(history, t)
      index == RollbackIndex(text, t, segments)
      rollback == index <= Len(segments)
  IN  /\ final => isFinal
      /\ isFinal \/ ~Conflict(t, committed)
      /\ \E end \in StableEnds(t, hist, committed, isFinal) :
           /\ stable' = end
           /\ IF CommitAllowed(t, end, committed, isFinal)
              THEN committed' = Slice(t, 0, end) /\ UNCHANGED refused
              ELSE UNCHANGED committed /\ refused' = refused \cup {"commit"}
      /\ segments' = SubSeq(segments, 1, index - 1)
      /\ selected' = RolledBack(index)
      /\ incomplete' = (incomplete /\ ~rollback /\ t = text)
      /\ text' = t /\ final' = isFinal
      /\ heard' = t /\ history' = hist
      /\ armed' = TRUE /\ judged' = FALSE

(* _evaluate passes the utterance by: nothing is left to select, or what   *)
(* is left was reported as incomplete.                                     *)
EvaluateSkips ==
  /\ armed
  /\ incomplete \/ ~Remains(text, selected)
  /\ armed' = FALSE
  /\ UNCHANGED <<text, final, stable, selected, incomplete, heard, history, committed,
                 segments, judged, refused>>

(* _select_utterance: refresh, at the same text, may only find more stable *)
(* source, unless the tracker waits for a final.                           *)
Refreshed(end) ==
  IF Conflict(heard, committed) THEN end = stable
  ELSE end \in StableEnds(heard, history, committed, final)

Protect(end) ==
  committed' = IF Conflict(heard, committed) THEN committed ELSE Slice(heard, 0, end)

(* segment_prefix refuses limits that are not token boundaries. *)
SelectRefuses(end) ==
  \/ selected > end
  \/ {selected, end} \cap ({0, Len(text)} \cup Ends(text)) # {selected, end}

(* _complete: the heuristics of a language may judge a piece of source     *)
(* either way, but never find an empty one complete.                       *)
Completeness(piece) == IF Remains(piece, 0) THEN BOOLEAN ELSE {FALSE}

(* segment_prefix: where a segment that begins at start may end.           *)
SegmentPrefix(start, end) ==
  {e \in Ends(text) : start < e /\ e <= end /\ TRUE \in Completeness(Slice(text, start, e))}

(* The loop of _select_utterance appends a segment for every cut. *)
Cut(cuts) ==
  [k \in 1 .. Cardinality(cuts) |->
     LET start == IF k = 1 THEN selected ELSE Nth(cuts, k - 1)
     IN  [start |-> start, end |-> Nth(cuts, k),
          source |-> Slice(text, start, Nth(cuts, k))]]

(* _select_utterance, called by the timer's _evaluate. *)
Evaluate ==
  /\ armed /\ ~incomplete /\ Remains(text, selected)
  /\ \E end \in 0 .. Len(text) :
       /\ Refreshed(end)
       /\ ~SelectRefuses(end)
       /\ stable' = end
       /\ Protect(end)
       /\ \E cuts \in SUBSET SegmentPrefix(selected, end) :
            /\ Conflict(heard, committed) => cuts = {}
            /\ segments' = segments \o Cut(cuts)
            /\ selected' = Max({selected} \cup cuts)
            /\ \E tooOld \in BOOLEAN :
                 LET left == Remains(text, selected')
                 IN  /\ incomplete' = (left /\ (final \/ tooOld))
                     /\ armed' = (left /\ ~final /\ ~tooOld)
  /\ judged' = TRUE
  /\ UNCHANGED <<text, final, heard, history, refused>>

(* _select_utterance raises; the timer reports PIPELINE_ERROR and ends. *)
EvaluateFails ==
  /\ armed /\ ~incomplete /\ Remains(text, selected)
  /\ \E end \in 0 .. Len(text) :
       /\ Refreshed(end)
       /\ SelectRefuses(end)
       /\ stable' = end
       /\ Protect(end)
  /\ refused' = refused \cup {"boundary"}
  /\ armed' = FALSE /\ judged' = TRUE
  /\ UNCHANGED <<text, final, selected, incomplete, heard, history, segments>>

Next ==
  \/ \E t \in Hypotheses : IngestConflict(t)
  \/ \E t \in Hypotheses, isFinal \in BOOLEAN : Ingest(t, isFinal)
  \/ EvaluateSkips \/ Evaluate \/ EvaluateFails

Spec == Init /\ [][Next]_vars

-----------------------------------------------------------------------------

(* Put together, the segments spell the source selected so far: through    *)
(* every revision, rollback and reselection no word is translated twice,   *)
(* none is skipped, and no translation belongs to words a revision has     *)
(* replaced.                                                               *)
SegmentsSpellSource ==
  /\ selected <= Len(text)
  /\ FlattenSeq([k \in DOMAIN segments |-> segments[k].source]) = Slice(text, 0, selected)

(* The tracker accepts every commit the session makes; it never raises out *)
(* of ingest after the utterance was already half updated.                 *)
CommitNeverRefused == "commit" \notin refused

(* plan_revision: "Appending to an existing word touches its segment too": *)
(* no retained segment ends inside a word of the current source.           *)
SegmentsEndOnWords == \A k \in DOMAIN segments : segments[k].end \in Ends(text)

(* "Wait for a lexical delimiter or explicit final": a final lets the      *)
(* source it confirms be judged, it is not passed by.                      *)
FinalIsJudged == final /\ Remains(text, selected) /\ ~armed => judged
=============================================================================
