-------------------------- MODULE NaturalBoundaries --------------------------
(***************************************************************************)
(* scripts/semantic_boundary_routing.py, semantic_quality_policy.py,       *)
(* semantic_quality_capacity.py and semantic_quality_provider.py: the      *)
(* subclasses that the gateway installs over a lane's coordinator.  A turn *)
(* of the conversation leaves a soft boundary, which a request may not     *)
(* cross but which does not force the model; a drain, the end of the       *)
(* session or a full buffer leaves a hard one.  With nbSilence (the option *)
(* inactivity_flush_s) a lane without new words is translated as it is.    *)
(*                                                                         *)
(* Locks and callbacks are SemanticRouter's subject: here a callback is    *)
(* one step.  nbAge is 1 after max_hold_s and 2 after max_total_age_s of   *)
(* the oldest unit.  Pacing only delays a request and is left out.         *)
(***************************************************************************)
EXTENDS Integers, Sequences

CONSTANTS
  MaxUnits,     \* units ever appended
  PendingUnits, \* max_pending_units
  RequestUnits  \* REQUEST_UNIT_LIMIT: ids a request may expose

VARIABLES
  nbSilence,  \* inactivity_flush_s is set
  nbNext,     \* the next unit
  nbPending,  \* _pending
  nbSoft,     \* _soft_boundaries
  nbHard,     \* _boundaries
  nbQuiet,    \* _inactivity_due
  nbAge,
  nbTried,    \* _last_attempt
  nbRechecked,\* the head an age-based recheck was spent on
  nbRequest,  \* none, open, retried; lingering: cancelled but not yet ended
  nbUnits, nbForced, nbTerminal, \* of the request in hand
  nbGiven,    \* history: the last result handed over by a request
  nbFlushed,  \* history: pending units that a request_flush found
  nbState     \* open, closing, closed

nbVars == <<nbSilence, nbNext, nbPending, nbSoft, nbHard, nbQuiet, nbAge, nbTried, nbRechecked,
            nbRequest, nbUnits, nbForced, nbTerminal, nbGiven, nbFlushed, nbState>>

Elems(s) == {s[i] : i \in 1 .. Len(s)}
Last_(s) == s[Len(s)]
Querying == nbRequest \in {"open", "retried"}

NbInit ==
  /\ nbSilence \in BOOLEAN
  /\ nbNext = 1 /\ nbPending = <<>> /\ nbSoft = {} /\ nbHard = {}
  /\ nbQuiet = FALSE /\ nbAge = 0 /\ nbTried = <<>> /\ nbRechecked = <<>>
  /\ nbRequest = "none" /\ nbUnits = <<>> /\ nbForced = FALSE /\ nbTerminal = FALSE
  /\ nbGiven = <<>> /\ nbFlushed = {} /\ nbState = "open"

Call == <<nbRequest, nbUnits, nbForced, nbTerminal, nbTried, nbRechecked>>

(* append(): a full buffer refuses the newest unit (it is returned as a   *)
(* failure) and seals the rest.                                           *)
AppendUnit ==
  /\ nbNext <= MaxUnits /\ nbState = "open"
  /\ nbNext' = nbNext + 1
  /\ IF Len(nbPending) >= PendingUnits
     THEN /\ nbHard' = nbHard \cup {Last_(nbPending)}
          /\ UNCHANGED <<nbPending, nbQuiet>>
     ELSE /\ nbPending' = Append(nbPending, nbNext)
          /\ nbQuiet' = FALSE
          /\ UNCHANGED nbHard
  /\ UNCHANGED <<nbSilence, nbSoft, nbAge, nbGiven, nbFlushed, nbState, Call>>

(* note_transcription(): provisional words of the same speaker. *)
NoteTranscription ==
  /\ nbState # "closed" /\ nbPending # <<>> /\ nbSilence
  /\ nbQuiet /\ nbQuiet' = FALSE
  /\ UNCHANGED <<nbSilence, nbNext, nbPending, nbSoft, nbHard, nbAge, nbGiven, nbFlushed, nbState, Call>>

(* inactivity_flush_s pass without a new word. *)
FallsQuiet ==
  /\ nbSilence /\ nbPending # <<>> /\ ~nbQuiet
  /\ nbQuiet' = TRUE
  /\ UNCHANGED <<nbSilence, nbNext, nbPending, nbSoft, nbHard, nbAge, nbGiven, nbFlushed, nbState, Call>>

Ages ==
  /\ nbPending # <<>> /\ nbAge < 2
  /\ nbAge' = nbAge + 1
  /\ UNCHANGED <<nbSilence, nbNext, nbPending, nbSoft, nbHard, nbQuiet, nbGiven, nbFlushed, nbState, Call>>

(* request_boundary(): the turn ends at the last pending unit. *)
RequestBoundary ==
  /\ nbState # "closed" /\ nbPending # <<>>
  /\ Last_(nbPending) \notin nbSoft
  /\ nbSoft' = nbSoft \cup {Last_(nbPending)}
  /\ UNCHANGED <<nbSilence, nbNext, nbPending, nbHard, nbQuiet, nbAge, nbGiven, nbFlushed, nbState, Call>>

(* resume_boundary(): the speech turned out to go on. *)
ResumeBoundary ==
  /\ nbState = "open" /\ nbPending # <<>>
  /\ Last_(nbPending) \in nbSoft \ nbHard
  /\ nbAge < 2
  /\ nbSoft' = nbSoft \ {Last_(nbPending)}
  /\ UNCHANGED <<nbSilence, nbNext, nbPending, nbHard, nbQuiet, nbAge, nbGiven, nbFlushed, nbState, Call>>

(* Variant bug: only the end of the buffer is hardened. *)
FlushLastOnly ==
  /\ nbHard' = nbHard \cup {Last_(nbPending)}
  /\ nbFlushed' = nbFlushed \cup Elems(nbPending)

(* request_flush(): soft boundaries become hard ones. *)
FlushAll ==
  /\ nbHard' = nbHard \cup nbSoft \cup {Last_(nbPending)}
  /\ nbFlushed' = nbFlushed \cup Elems(nbPending)

RequestFlush ==
  /\ nbState = "open" /\ nbPending # <<>>
  /\ FlushAll
  /\ UNCHANGED <<nbSilence, nbNext, nbPending, nbSoft, nbQuiet, nbAge, nbGiven, nbState, Call>>

(* Variant bug: natural boundaries are not looked at. *)
HeadLenHard ==
  LET marks == {i \in 1 .. Len(nbPending) : nbPending[i] \in nbHard}
  IN  IF marks = {} THEN Len(nbPending) ELSE CHOOSE i \in marks : \A j \in marks : i <= j

(* _head(): up to the first boundary of either kind. *)
HeadLen ==
  LET marks == {i \in 1 .. Len(nbPending) : nbPending[i] \in nbSoft \cup nbHard}
  IN  IF marks = {} THEN Len(nbPending) ELSE CHOOSE i \in marks : \A j \in marks : i <= j
Units_ == SubSeq(nbPending, 1, HeadLen)
ExplicitForce == nbPending[HeadLen] \in nbHard

(* _remove_prefix of both classes. *)
RemovePrefix(n) ==
  LET gone == Elems(SubSeq(nbPending, 1, n))
  IN  /\ nbPending' = SubSeq(nbPending, n + 1, Len(nbPending))
      /\ nbSoft' = nbSoft \ gone /\ nbHard' = nbHard \ gone
      /\ nbFlushed' = nbFlushed \ gone
      /\ nbAge' = 0

(* _loop(): the oldest unit is too old. *)
SourceDeadline ==
  /\ ~Querying /\ nbPending # <<>> /\ nbAge = 2 /\ nbState # "closed"
  /\ RemovePrefix(HeadLen)
  /\ UNCHANGED <<nbSilence, nbNext, nbQuiet, nbGiven, nbState, Call>>

Recheck == ~nbSilence /\ nbAge >= 1 /\ nbRechecked # Units_
Terminal == nbState = "closing" \/ Elems(Units_) \cap nbHard # {}

(* _loop() and _query_active() up to the wait. *)
Query ==
  /\ nbRequest = "none" /\ nbPending # <<>> /\ nbAge < 2 /\ nbState # "closed"
  /\ Units_ # nbTried \/ ExplicitForce \/ nbState = "closing" \/ nbQuiet \/ Recheck
  /\ nbRequest' = "open" /\ nbUnits' = Units_
  /\ nbForced' = (nbSilence /\ (Terminal \/ nbQuiet))
  /\ nbTerminal' = Terminal
  /\ nbTried' = Units_
  /\ nbRechecked' = IF ~nbSilence /\ nbAge >= 1 THEN Units_ ELSE nbRechecked
  /\ UNCHANGED <<nbSilence, nbNext, nbPending, nbSoft, nbHard, nbQuiet, nbAge, nbGiven, nbFlushed, nbState>>

(* _collect() of the policy: one more try after a timeout of a stage. *)
Retry ==
  /\ nbRequest = "open" /\ nbState # "closed"
  /\ nbRequest' = "retried"
  /\ UNCHANGED <<nbSilence, nbNext, nbPending, nbSoft, nbHard, nbQuiet, nbAge, nbGiven, nbFlushed, nbState,
                 nbUnits, nbForced, nbTerminal, nbTried, nbRechecked>>

Current == SubSeq(nbPending, 1, Len(nbUnits)) = nbUnits
Returns(rest) ==
  /\ nbRequest' = rest
  /\ nbUnits' = <<>> /\ nbForced' = FALSE /\ nbTerminal' = FALSE
  /\ UNCHANGED <<nbSilence, nbNext, nbQuiet, nbState, nbTried, nbRechecked>>

(* project_request_units(): of a long snapshot only the ends of its blocks *)
(* are ids the model may choose.                                           *)
Exposed(n) ==
  LET size == (n + RequestUnits - 1) \div RequestUnits
  IN  IF n <= RequestUnits THEN 1 .. n
      ELSE {i \in 1 .. n : i % size = 0} \cup {n}

(* semantic_stream(): a forced request is translated whole; otherwise the  *)
(* selector is asked up to three times, the last time about all of it.     *)
Selects(n) == IF nbForced THEN {n} ELSE Exposed(n)

ProviderCommits ==
  /\ Querying /\ nbState # "closed" /\ Current
  /\ \E n \in Selects(Len(nbUnits)) :
       /\ RemovePrefix(n)
       /\ nbGiven' = SubSeq(nbUnits, 1, n)
  /\ Returns("none")

(* A WAIT; without nbSilence a drain then gives the source up. *)
ProviderWaits ==
  /\ Querying /\ nbState # "closed" /\ Current /\ ~nbForced
  /\ IF ~nbSilence /\ nbTerminal
     THEN RemovePrefix(Len(nbUnits)) /\ nbGiven' = nbUnits
     ELSE UNCHANGED <<nbPending, nbSoft, nbHard, nbAge, nbFlushed, nbGiven>>
  /\ Returns("none")

(* An error, an invalid answer, or the deadline: then the physical request *)
(* may go on for a while.                                                  *)
ProviderFails ==
  /\ Querying /\ nbState # "closed" /\ Current
  /\ RemovePrefix(Len(nbUnits))
  /\ nbGiven' = nbUnits
  /\ \E rest \in {"none", "lingering"} : Returns(rest)

RequestEnds ==
  /\ nbRequest = "lingering" /\ nbRequest' = "none"
  /\ UNCHANGED <<nbSilence, nbNext, nbPending, nbSoft, nbHard, nbQuiet, nbAge, nbGiven, nbFlushed, nbState,
                 nbUnits, nbForced, nbTerminal, nbTried, nbRechecked>>

(* close(): flush, wait for the sealed units, then close and reset. *)
CloseStarts ==
  /\ nbState = "open"
  /\ nbState' = "closing"
  /\ IF nbPending = <<>> THEN UNCHANGED <<nbHard, nbFlushed>> ELSE FlushAll
  /\ UNCHANGED <<nbSilence, nbNext, nbPending, nbSoft, nbQuiet, nbAge, nbGiven, Call>>

CloseEnds ==
  /\ nbState = "closing" /\ nbPending = <<>> /\ ~Querying
  /\ nbState' = "closed"
  /\ UNCHANGED <<nbSilence, nbNext, nbPending, nbSoft, nbHard, nbQuiet, nbAge, nbGiven, nbFlushed, Call>>

(* reset(): the worker and the request are cancelled; it is atomic here    *)
(* because the router admits no unit until it ends.                        *)
Reset ==
  /\ nbState = "open" /\ nbPending # <<>>
  /\ nbPending' = <<>> /\ nbSoft' = {} /\ nbHard' = {} /\ nbAge' = 0 /\ nbQuiet' = FALSE
  /\ nbTried' = <<>> /\ nbRechecked' = <<>>
  /\ nbRequest' = IF Querying THEN "lingering" ELSE nbRequest
  /\ nbUnits' = <<>> /\ nbForced' = FALSE /\ nbTerminal' = FALSE
  /\ nbFlushed' = {}
  /\ UNCHANGED <<nbSilence, nbNext, nbGiven, nbState>>

NbNext ==
  \/ AppendUnit \/ NoteTranscription \/ FallsQuiet \/ Ages
  \/ RequestBoundary \/ ResumeBoundary \/ RequestFlush
  \/ SourceDeadline \/ Query \/ Retry
  \/ ProviderCommits \/ ProviderWaits \/ ProviderFails \/ RequestEnds
  \/ CloseStarts \/ CloseEnds \/ Reset

(* The event loop runs the worker, and a request ends by its deadline at   *)
(* the latest.  Nothing makes a lane quiet or lets its units grow old.     *)
NbFairness ==
  /\ WF_nbVars(SourceDeadline) /\ WF_nbVars(Query) /\ WF_nbVars(RequestEnds)
  /\ WF_nbVars(ProviderCommits \/ ProviderWaits \/ ProviderFails)

NbSpec == NbInit /\ [][NbNext]_nbVars /\ NbFairness

(* A result never joins two turns: when a request's units are handed over, *)
(* no boundary that is marked then, soft or hard, lies inside them; it may *)
(* only be their end (semantic_boundary_routing.py _head).                 *)
TurnsStayApart ==
  [][nbGiven' # nbGiven =>
       \A j \in 1 .. Len(nbGiven') - 1 : nbGiven'[j] \notin nbSoft \cup nbHard]_nbVars

(* What a drain found pending leaves the buffer by the provider's answers  *)
(* alone, without waiting for silence or for the units to grow too old,    *)
(* although a soft head may have stood before the end it sealed (the       *)
(* comment in request_flush).                                              *)
DrainsEnd ==
  []<>(nbFlushed \cap Elems(nbPending) = {})
=============================================================================
