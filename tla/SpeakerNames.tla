---------------------------- MODULE SpeakerNames -----------------------------
(***************************************************************************)
(* speakers.py and speaker_captions.py: from observed voices to the names   *)
(* on captions.  The tracker confirms a new speaker after several           *)
(* independent observations of an unknown voice (a candidate); the reducer  *)
(* keeps a bounded history of assignments and names a caption when one      *)
(* confirmed speaker covers it and nothing contradicts - looking again at   *)
(* earlier captions when a candidate they rest on is confirmed.             *)
(*                                                                          *)
(* Audio is a set of time units.  Voices stand for embeddings: an           *)
(* observation is like its own voice and unlike every other.                *)
(***************************************************************************)
EXTENDS SequencesExt, Deques

CONSTANTS HeardVoices,
          Captions,
          MaxAudio,        \* bound: the timeline
          MaxObserved,     \* bound: observations
          Confirmations,   \* min_confirmations
          MaxSpeakers, MaxCandidates, CandidateIdle,
          SupportHistory,  \* SUPPORT_HISTORY_NS
          MaxIntervals,    \* MAX_SUPPORT_INTERVALS
          History, MaxHistory  \* history_ns, max_history of the reducer

ASSUME NamesAssumption == MaxAudio \in Nat /\ History \in Nat /\ MaxHistory \in Nat

VARIABLES nmClock,      \* the tracker's watermark
          nmSpeakers,   \* confirmed speakers, by number: voice, supports, last
          nmCandidates, \* candidates: id, voice, supports, last
          nmNext,       \* the next candidate's id
          nmCredited, nmFloor, \* audio credited, and where that record begins
          nmSparse,     \* _sparse_seen: exact credit is on
          nmHistory,    \* the reducer's assignments, oldest first
          nmConfirmed,  \* _confirmed_candidates
          nmMark, nmRetention, \* the reducer's watermark and floor
          nmRefs,       \* captions the reducer tracks
          nmCaps,       \* the store: interval, speaker, manual, superseded
          nmCount

trackerVars == <<nmClock, nmSpeakers, nmCandidates, nmNext, nmCredited, nmFloor, nmSparse>>
reducerVars == <<nmHistory, nmConfirmed, nmMark, nmRetention, nmRefs>>
nmVars == <<trackerVars, reducerVars, nmCaps, nmCount>>

Absent == [start |-> 0, end |-> 0, speaker |-> 0, manual |-> FALSE, superseded |-> FALSE]

NmInit ==
    /\ nmClock = 0 /\ nmSpeakers = <<>> /\ nmCandidates = {} /\ nmNext = 1
    /\ nmCredited = {} /\ nmFloor = 0 /\ nmSparse = FALSE
    /\ nmHistory = <<>> /\ nmConfirmed = {} /\ nmMark = 0 /\ nmRetention = 0 /\ nmRefs = {}
    /\ nmCaps = [c \in Captions |-> Absent] /\ nmCount = 0

Span(a, b) == {u \in 0..(MaxAudio - 1) : a <= u /\ u < b}
Later(a, b) == IF a < b THEN b ELSE a

-----------------------------------------------------------------------------
(* OnlineSpeakerTracker.  o is an observation: voice, start, end, sparse    *)
(* (delayed evidence with exact supports) and ready, when it was known.     *)

(* The number of stretches a set of units consists of.                      *)
Stretches(units) == Cardinality({u \in units : u - 1 \notin units})

(* expire: idle candidates go, and so does the oldest credit.               *)
Floor(now) == Later(Later(0, now - SupportHistory), nmFloor)
Alive(now) == {c \in nmCandidates : now - c.last <= CandidateIdle}
CreditedSince(now) == {u \in nmCredited : u >= Floor(now)}

(* _independent_support *)
Independent(o) == o.start >= Floor(o.ready) /\ Span(o.start, o.end) \cap CreditedSince(o.ready) = {}

Assignment(o, status, speaker, candidate, reason) ==
    [units |-> Span(o.start, o.end), end |-> o.end, status |-> status, speaker |-> speaker,
     candidate |-> candidate, reason |-> reason]

(* The tracker's new state with the assignment it returns.                  *)
ObservedAs(o, state, status, speaker, candidate, reason) ==
    [state |-> state, assignment |-> Assignment(o, status, speaker, candidate, reason)]

(* A candidate has more evidence: it waits, is refused, or is confirmed.   *)
Confirm(o, c, others, state) ==
    IF Len(c.supports) < Confirmations
    THEN ObservedAs(o, [state EXCEPT !.candidates = others \union {c}], "provisional", 0, c.id, "collecting")
    ELSE IF Len(nmSpeakers) >= MaxSpeakers
    THEN ObservedAs(o, [state EXCEPT !.candidates = others], "unknown", 0, 0, "capacity")
    ELSE ObservedAs(o, [state EXCEPT !.candidates = others,
                        !.speakers = Append(@, [voice |-> c.voice, supports |-> c.supports, last |-> c.last])],
                "new", Len(nmSpeakers) + 1, c.id, "confirmed")

(* observe, as the new tracker state and the assignment it returns.         *)
Observed(o) ==
    LET exact == nmSparse \/ o.sparse
        alive == Alive(o.ready)
        credited == CreditedSince(o.ready)
        floor == Floor(o.ready)
        plan == credited \union Span(o.start, o.end)
        independent == ~exact \/ Independent(o)
        fits == Stretches(plan) <= MaxIntervals
        can == independent /\ (fits \/ ~exact)
        base == [speakers |-> nmSpeakers, candidates |-> alive, next |-> nmNext, credited |-> credited,
                 floor |-> floor, sparse |-> exact]
        \* _record_support: without room in the ledger its range is closed instead
        recorded == IF fits THEN [base EXCEPT !.credited = plan]
                    ELSE [base EXCEPT !.floor = Later(floor, o.end)]
        known == {i \in DOMAIN nmSpeakers : nmSpeakers[i].voice = o.voice}
        own == {c \in alive : c.voice = o.voice}
    IN  IF known # {}
        THEN LET i == CHOOSE i \in known : TRUE
                 learns == can /\ (exact \/ o.start >= nmSpeakers[i].last)
             IN  ObservedAs(o, IF learns
                           THEN [recorded EXCEPT !.speakers[i].supports = Append(@, Span(o.start, o.end)),
                                                 !.speakers[i].last = Later(@, o.end)]
                           ELSE base, "existing", i, 0, "matched")
        ELSE IF o.ready - o.end > CandidateIdle THEN ObservedAs(o, base, "unknown", 0, 0, "expired")
        ELSE IF own # {}
        THEN LET c == CHOOSE c \in own : TRUE IN
             IF ~can \/ (~exact /\ o.start < c.last)
             THEN ObservedAs(o, base, "provisional", 0, c.id, "overlapping")
             ELSE Confirm(o, [c EXCEPT !.supports = Append(@, Span(o.start, o.end)), !.last = Later(@, o.end)],
                          alive \ own, recorded)
        ELSE IF ~can THEN ObservedAs(o, base, "unknown", 0, 0, "overlapping")
        ELSE LET oldest == CHOOSE c \in alive : \A d \in alive : c.last <= d.last
                 room == IF Cardinality(alive) >= MaxCandidates THEN alive \ {oldest} ELSE alive
                 c == [id |-> nmNext, voice |-> o.voice, supports |-> <<Span(o.start, o.end)>>, last |-> o.end]
             IN  Confirm(o, c, room, [recorded EXCEPT !.next = @ + 1])

-----------------------------------------------------------------------------
(* SpeakerCaptionReducer *)

(* _prune: old assignments go; what is evicted raises the floor, and        *)
(* captions that begin before the floor are no longer tracked.              *)
Expiry(mark) == Later(Later(nmRetention, mark - History), 0)
Unexpired(history, mark) == Filter(history, LAMBDA a : a.end > Expiry(mark))
Oldest(history) ==
    CHOOSE i \in DOMAIN history : /\ \A j \in DOMAIN history : history[i].end <= history[j].end
                                  /\ \A j \in 1..(i - 1) : history[i].end < history[j].end

Pruned(history, confirmed, mark, refs, caps) ==
    LET kept == Unexpired(history, mark)
        over == Len(kept) > MaxHistory
        rest == IF over THEN RemoveAt(kept, Oldest(kept)) ELSE kept
        floor == IF over THEN Later(Expiry(mark), kept[Oldest(kept)].end) ELSE Expiry(mark)
    IN  [history |-> rest, floor |-> floor,
         refs |-> {c \in refs : caps[c].start >= floor},
         confirmed |-> {p \in confirmed : \E a \in Range(rest) : a.candidate = p.candidate}]

(* _label: a provisional assignment speaks for the speaker its candidate    *)
(* became.                                                                  *)
Label(a, confirmed) ==
    IF a.status \in {"new", "existing"} THEN {a.speaker}
    ELSE IF a.status = "provisional" THEN {p.speaker : p \in {q \in confirmed : q.candidate = a.candidate}}
    ELSE {}

(* The evidence about a unit of audio, and the speakers it names.           *)
EvidenceAt(u, history) == {a \in Range(history) : u \in a.units}
Named(u, history, confirmed) == UNION {Label(a, confirmed) : a \in EvidenceAt(u, history)}
Unlabelled(u, history, confirmed) == {a \in EvidenceAt(u, history) : Label(a, confirmed) = {}}
Unknown(u, history, confirmed) == \E a \in Unlabelled(u, history, confirmed) : a.reason # "nonspeech"
Conflict(u, history, confirmed) ==
    \/ Cardinality(Named(u, history, confirmed)) > 1
    \/ /\ Named(u, history, confirmed) # {}
       /\ \E a \in Unlabelled(u, history, confirmed) : a.reason = "nonspeech"

(* _decision: 0 for no speaker.                                             *)
Decision(cap, history, confirmed) ==
    LET units == Span(cap.start, cap.end)
        about == UNION {Named(u, history, confirmed) : u \in units}
        blocked == {u \in units : Unknown(u, history, confirmed) \/ Conflict(u, history, confirmed)}
        support == {u \in units : Named(u, history, confirmed) # {}}
    IN  IF /\ Cardinality(about) = 1 /\ blocked = {}
           /\ 10 * Cardinality(support) >= 8 * Cardinality(units)
        THEN CHOOSE s \in about : TRUE
        ELSE 0

(* _patch: the captions rechecked get the decision, unless superseded or    *)
(* named by hand.                                                           *)
Patched(caps, refs, history, confirmed) ==
    [c \in Captions |->
        IF c \in refs /\ ~caps[c].superseded /\ ~caps[c].manual
        THEN [caps[c] EXCEPT !.speaker = Decision(caps[c], history, confirmed)] ELSE caps[c]]

(* A variant of Affected: only the new assignment's own audio is looked at. *)
AffectedNow(a, history) == a.units

(* The audio a new assignment bears on: its own, and that of the            *)
(* provisional assignments whose candidate it confirms.                     *)
Affected(a, history) ==
    a.units \union (IF a.status = "new"
                    THEN UNION {b.units : b \in {e \in Range(history) :
                                              e.status = "provisional" /\ e.candidate = a.candidate}}
                    ELSE {})

(* SpeakerCaptionReducer.observe *)
Reduce(a) ==
    IF a.end <= nmRetention THEN UNCHANGED <<reducerVars, nmCaps>>
    ELSE LET confirmed == IF a.status = "new" THEN nmConfirmed \union {[candidate |-> a.candidate, speaker |-> a.speaker]}
                          ELSE nmConfirmed
             mark == Later(nmMark, a.end)
             p == Pruned(Append(nmHistory, a), confirmed, mark, nmRefs, nmCaps)
             hit == {c \in p.refs : Span(nmCaps[c].start, nmCaps[c].end) \cap Affected(a, p.history) # {}}
         IN  /\ nmHistory' = p.history /\ nmConfirmed' = p.confirmed /\ nmMark' = mark /\ nmRetention' = p.floor
             /\ nmCaps' = Patched(nmCaps, hit, p.history, p.confirmed)
             /\ nmRefs' = p.refs \ {c \in hit : nmCaps[c].superseded}

-----------------------------------------------------------------------------
Intervals == {i \in (0..(MaxAudio - 1)) \X (1..MaxAudio) : i[1] < i[2] /\ i[2] <= i[1] + 2}

(* A clean stretch with a voice: the tracker, then the reducer.             *)
ObserveVoice(voice, interval, ready, sparse) ==
    LET o == [voice |-> voice, start |-> interval[1], end |-> interval[2], ready |-> ready, sparse |-> sparse] IN
    /\ nmCount < MaxObserved /\ nmCount' = nmCount + 1
    /\ ready >= o.end /\ (~sparse => ready = o.end)
    /\ IF ready < nmClock  \* out_of_order: the reducer ignores it
       THEN UNCHANGED <<trackerVars, reducerVars, nmCaps>>
       ELSE \E r \in {Observed(o)} :
            /\ nmClock' = ready
            /\ nmSpeakers' = r.state.speakers /\ nmCandidates' = r.state.candidates /\ nmNext' = r.state.next
            /\ nmCredited' = r.state.credited /\ nmFloor' = r.state.floor /\ nmSparse' = r.state.sparse
            /\ Reduce(r.assignment)

(* Audio the analyzer credits to nobody: silence, or overlapping, ambiguous *)
(* or unusable speech.                                                      *)
ObserveNobody(interval, reason) ==
    /\ nmCount < MaxObserved /\ nmCount' = nmCount + 1
    /\ Reduce(Assignment([start |-> interval[1], end |-> interval[2]], "unknown", 0, 0, reason))
    /\ UNCHANGED trackerVars

(* clear_candidates, at a gap of the input.                                 *)
GapClears ==
    /\ nmCandidates # {} /\ nmCandidates' = {}
    /\ UNCHANGED <<nmClock, nmSpeakers, nmNext, nmCredited, nmFloor, nmSparse, reducerVars, nmCaps, nmCount>>

(* register_caption, right after its source entered the store.              *)
RegisterCaption(c, interval) ==
    /\ nmCaps[c] = Absent
    /\ LET caps == [nmCaps EXCEPT ![c].start = interval[1], ![c].end = interval[2]]
           mark == Later(nmMark, interval[2])
           p == Pruned(nmHistory, nmConfirmed, mark, nmRefs, caps)
       IN  /\ nmHistory' = p.history /\ nmConfirmed' = p.confirmed /\ nmMark' = mark /\ nmRetention' = p.floor
           /\ IF interval[1] < p.floor THEN nmCaps' = caps /\ nmRefs' = p.refs
              ELSE /\ nmRefs' = p.refs \union {c}
                   /\ nmCaps' = Patched(caps, {c}, p.history, p.confirmed)
    /\ UNCHANGED <<trackerVars, nmCount>>

(* The user names the speaker, or a caption group takes the caption's place.*)
NameByHand(c) ==
    /\ nmCaps[c] # Absent /\ ~nmCaps[c].superseded /\ ~nmCaps[c].manual
    /\ nmCaps' = [nmCaps EXCEPT ![c].manual = TRUE, ![c].speaker = MaxSpeakers + 1]
    /\ UNCHANGED <<trackerVars, reducerVars, nmCount>>

Supersede(c) ==
    /\ nmCaps[c] # Absent /\ ~nmCaps[c].superseded
    /\ nmCaps' = [nmCaps EXCEPT ![c].superseded = TRUE]
    /\ UNCHANGED <<trackerVars, reducerVars, nmCount>>

NmNext ==
    \/ \E v \in HeardVoices, i \in Intervals, ready \in 1..MaxAudio, sparse \in BOOLEAN : ObserveVoice(v, i, ready, sparse)
    \/ \E i \in Intervals, reason \in {"nonspeech", "overlap"} : ObserveNobody(i, reason)
    \/ GapClears
    \/ \E c \in Captions, i \in Intervals : RegisterCaption(c, i)
    \/ \E c \in Captions : NameByHand(c) \/ Supersede(c)

NmSpec == NmInit /\ [][NmNext]_nmVars

-----------------------------------------------------------------------------
(* The names on screen are what the evidence says: every caption still      *)
(* tracked, not named by hand and not replaced, carries exactly the speaker *)
(* that _decision finds from the retained history - evidence that arrived   *)
(* before the caption, after it, or as the late confirmation of a candidate *)
(* included.                                                                *)
NamesAreCurrent ==
    \A c \in nmRefs : ~nmCaps[c].manual /\ ~nmCaps[c].superseded =>
        nmCaps[c].speaker = Decision(nmCaps[c], nmHistory, nmConfirmed)

=============================================================================
