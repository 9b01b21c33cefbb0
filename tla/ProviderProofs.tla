--------------------------- MODULE ProviderProofs ---------------------------
(***************************************************************************)
(* Proofs about what streams translations, a section for each:             *)
(* TranslationAdmission, TranslationRunner, ProviderStream and             *)
(* OrchestratedProvider.                                                   *)
(***************************************************************************)
EXTENDS TranslationRunner, OrchestratedProvider, DequesProofs, FiniteSetTheorems, SequenceTheorems, TLAPS

-----------------------------------------------------------------------------
(* TranslationAdmission.  The counters agree with the requests, hence a    *)
(* correction is alone and the provider's capacity is respected.  This     *)
(* follows from the counters only together with the history of admissions, *)
(* so all three are proved at once.                                        *)
IInv == TypeOK /\ CountsAgree /\ Exclusive

(* Both sets that the counters count are finite, and adding or removing    *)
(* one caller changes their cardinality by one.                            *)
LEMMA CallerSets ==
  ASSUME NEW S \in SUBSET Callers
  PROVE  /\ IsFiniteSet(S)
         /\ Cardinality(S) \in Nat
         /\ \A c \in Callers \ S : Cardinality(S \cup {c}) = Cardinality(S) + 1
         /\ \A c \in S : Cardinality(S \ {c}) = Cardinality(S) - 1
         /\ Cardinality(S) = 0 <=> S = {}
<1>1. IsFiniteSet(S)
  BY AdmissionAssumption, FS_Subset
<1> QED
  BY <1>1, FS_CardinalityType, FS_AddElement, FS_RemoveElement, FS_EmptySet

(* Admitting c, once c counts as present, keeps the counters right and the *)
(* correction alone: Blocked saw the counters that agree with the sets.    *)
LEMMA AdmitKeepsIInv ==
  ASSUME IInv, NEW c \in Callers, NEW correction \in BOOLEAN, NEW waiters \in Nat,
         at[c] # "holding",
         waiters = Cardinality(Live'),
         secondary'[c] = correction,
         \A d \in Callers \ {c} : secondary'[d] = secondary[d],
         ~Blocked(correction, waiters),
         Admit(c, correction)
  PROVE  /\ busy' = Cardinality(Holders') /\ busy' \in Nat
         /\ secondaryBusy' = (Corrections' # {})
         /\ Exclusive'
<1>1. TypeOK /\ CountsAgree
  BY DEF IInv
<1>2. Holders' = Holders \cup {c} /\ c \in Callers \ Holders /\ Holders \in SUBSET Callers
  BY <1>1 DEF Holders, Admit, TypeOK
<1>3. busy' = Cardinality(Holders') /\ busy' \in Nat
  BY <1>1, <1>2, CallerSets DEF Admit, CountsAgree
<1>4. Corrections = {}
  BY <1>1 DEF CountsAgree, Blocked
<1>5. Corrections' = IF correction THEN {c} ELSE {}
  BY <1>2, <1>4 DEF Corrections
<1>6. correction => Holders = {}
  BY <1>1, <1>2, CallerSets DEF Blocked, CountsAgree, TypeOK
<1>7. Cardinality(Holders') <= MaxPrimary
  BY <1>1, <1>3, AdmissionAssumption DEF Blocked, Admit, TypeOK
<1> QED
  BY <1>2, <1>3, <1>5, <1>6, <1>7 DEF Exclusive, Admit

(* A request that gets in line or passes keeps the invariant. *)
LEMMA EnterKeepsIInv ==
  ASSUME IInv, NEW c \in Callers, NEW correction \in BOOLEAN, Enter(c, correction)
  PROVE  IInv'
<1> DEFINE waiters == IF correction THEN primaryWaiters ELSE primaryWaiters + 1
<1>1. TypeOK /\ CountsAgree /\ Exclusive
  BY DEF IInv
<1>2. /\ Live \in SUBSET Callers /\ c \in Callers \ Live
      /\ Live' = IF correction THEN Live ELSE Live \cup {c}
  BY <1>1 DEF Live, Enter, Admit, TypeOK
<1>3. waiters \in Nat /\ primaryWaiters' = waiters /\ waiters = Cardinality(Live')
  BY <1>1, <1>2, CallerSets DEF Enter, CountsAgree, TypeOK
<1>4. /\ secondary'[c] = correction /\ secondary' \in [Callers -> BOOLEAN]
      /\ \A d \in Callers \ {c} : secondary'[d] = secondary[d]
  BY <1>1 DEF Enter, TypeOK
<1>5. CASE ~Blocked(correction, waiters) /\ Admit(c, correction)
  <2>1. /\ busy' = Cardinality(Holders') /\ busy' \in Nat
        /\ secondaryBusy' = (Corrections' # {}) /\ Exclusive'
    BY <1>3, <1>4, <1>5, AdmitKeepsIInv DEF Enter
  <2>2. TypeOK'
    BY <1>1, <1>3, <1>4, <1>5, <2>1 DEF Enter, Admit, TypeOK
  <2> QED
    BY <1>3, <2>1, <2>2 DEF IInv, CountsAgree
<1>6. CASE at' = [at EXCEPT ![c] = "waiting"] /\ UNCHANGED <<busy, secondaryBusy>>
  <2>1. Holders' = Holders /\ Corrections' = Corrections
    BY <1>1, <1>4, <1>6 DEF Holders, Corrections, Enter, TypeOK
  <2>2. TypeOK'
    BY <1>1, <1>3, <1>4, <1>6 DEF Enter, TypeOK
  <2> QED
    BY <1>1, <1>3, <1>6, <2>1, <2>2 DEF IInv, CountsAgree, Exclusive
<1> QED
  BY <1>5, <1>6 DEF Enter

(* So does one that looks again. *)
LEMMA RecheckKeepsIInv ==
  ASSUME IInv, NEW c \in Callers, Recheck(c)
  PROVE  IInv'
<1>1. TypeOK /\ CountsAgree
  BY DEF IInv
<1>2. Live' = Live
  BY <1>1 DEF Live, Recheck, Admit, TypeOK
<1>3. secondary[c] \in BOOLEAN /\ primaryWaiters \in Nat /\ primaryWaiters = Cardinality(Live')
  BY <1>1, <1>2 DEF TypeOK, CountsAgree
<1>4. /\ busy' = Cardinality(Holders') /\ busy' \in Nat
      /\ secondaryBusy' = (Corrections' # {}) /\ Exclusive'
  BY <1>3, AdmitKeepsIInv DEF Recheck
<1>5. TypeOK'
  BY <1>1, <1>4 DEF Recheck, Admit, TypeOK
<1> QED
  BY <1>3, <1>4, <1>5 DEF IInv, CountsAgree, Recheck

(* So does one that leaves. *)
LEMMA LeaveKeepsIInv ==
  ASSUME IInv, NEW c \in Callers, Leave(c)
  PROVE  IInv'
<1>1. TypeOK /\ CountsAgree /\ Exclusive
  BY DEF IInv
<1>2. Live \in SUBSET Callers /\ Holders \in SUBSET Callers
  BY DEF Live, Holders
<1>3. /\ c \in Live <=> ~secondary[c]
      /\ Live' = Live \ {c} /\ Holders' = Holders \ {c} /\ Corrections' = Corrections \ {c}
  BY <1>1 DEF Live, Holders, Corrections, Leave, TypeOK
<1>4. primaryWaiters' = Cardinality(Live') /\ primaryWaiters' \in Nat
  <2>1. CASE secondary[c]
    BY <1>1, <1>2, <1>3, <2>1, CallerSets DEF Leave, OutOfLine, MarkWithout, CountsAgree
  <2>2. CASE ~secondary[c]
    BY <1>1, <1>2, <1>3, <2>2, CallerSets DEF Leave, OutOfLine, MarkWithout, CountsAgree
  <2> QED
    BY <2>1, <2>2
<1>5. busy' = Cardinality(Holders') /\ busy' \in Nat /\ busy' <= busy
  <2>1. CASE at[c] = "holding"
    <3>1. c \in Holders /\ busy' = busy - 1 /\ busy = Cardinality(Holders)
      BY <1>1, <2>1 DEF Leave, OutOfLine, MarkWithout, CountsAgree, Holders
    <3>2. Cardinality(Holders \ {c}) = busy - 1 /\ Holders \ {c} \in SUBSET Callers
      BY <1>2, <3>1, CallerSets
    <3>3. busy \in Nat /\ Cardinality(Holders \ {c}) \in Nat
      BY <1>1, <3>2, CallerSets DEF TypeOK
    <3> QED
      BY <1>3, <3>1, <3>2, <3>3
  <2>2. CASE at[c] # "holding"
    <3>1. busy' = busy /\ Holders' = Holders
      BY <1>3, <2>2 DEF Leave, OutOfLine, MarkWithout, Holders
    <3> QED
      BY <1>1, <3>1 DEF CountsAgree, TypeOK
  <2> QED
    BY <2>1, <2>2
<1>6. secondaryBusy' = (Corrections' # {})
  <2>1. CASE c \in Corrections
    <3>1. Corrections = {c}
      BY <1>1, <2>1 DEF Exclusive, Corrections
    <3> QED
      BY <1>3, <2>1, <3>1 DEF Leave, OutOfLine, MarkWithout, Corrections, Holders
  <2>2. CASE c \notin Corrections
    BY <1>1, <1>3, <2>2 DEF Leave, OutOfLine, MarkWithout, Corrections, Holders, CountsAgree, TypeOK
  <2> QED
    BY <2>1, <2>2
<1>7. Exclusive'
  BY <1>1, <1>3, <1>5, AdmissionAssumption DEF Exclusive, Corrections, CountsAgree, TypeOK
<1>8. TypeOK'
  BY <1>1, <1>4, <1>5 DEF Leave, OutOfLine, MarkWithout, TypeOK
<1> QED
  BY <1>4, <1>5, <1>6, <1>7, <1>8 DEF IInv, CountsAgree

(* TranslationAdmission.acquire: however requests enter, wait, fail and    *)
(* leave, a correction streams alone, live requests stay within            *)
(* max_primary, and the counters never drift from the requests.            *)
THEOREM AdmissionSafe == Spec => [](TypeOK /\ CountsAgree /\ Exclusive)
<1>1. Init => IInv
  <2> SUFFICES ASSUME Init PROVE IInv
    OBVIOUS
  <2>1. TypeOK /\ Holders = {} /\ Corrections = {} /\ Live = {}
    BY DEF Init, TypeOK, Holders, Corrections, Live
  <2>2. Cardinality(Holders) = 0 /\ Cardinality(Live) = 0
    BY <2>1, FS_EmptySet
  <2>3. CountsAgree
    BY <2>1, <2>2 DEF Init, CountsAgree
  <2>4. Exclusive
    BY <2>1, <2>2, AdmissionAssumption DEF Exclusive
  <2> QED
    BY <2>1, <2>3, <2>4 DEF IInv
<1>2. IInv /\ [Next]_vars => IInv'
  <2> SUFFICES ASSUME IInv, [Next]_vars PROVE IInv'
    OBVIOUS
  <2>1. ASSUME NEW c \in Callers, NEW correction \in BOOLEAN, Enter(c, correction)
        PROVE  IInv'
    BY <2>1, EnterKeepsIInv
  <2>2. ASSUME NEW c \in Callers, Recheck(c) PROVE IInv'
    BY <2>2, RecheckKeepsIInv
  <2>3. ASSUME NEW c \in Callers, Leave(c) PROVE IInv'
    BY <2>3, LeaveKeepsIInv
  <2>4. CASE PendingChanges
    BY <2>4 DEF PendingChanges, IInv, TypeOK, CountsAgree, Exclusive, Holders, Corrections, Live
  <2>5. CASE UNCHANGED vars
    BY <2>5 DEF vars, IInv, TypeOK, CountsAgree, Exclusive, Holders, Corrections, Live
  <2> QED
    BY <2>1, <2>2, <2>3, <2>4, <2>5 DEF Next
<1> QED
  BY <1>1, <1>2, PTL DEF Spec, IInv

(* A correction begins only when no live request is in line or streaming:  *)
(* the counters that acquire() reads make it see every one of them.        *)
THEOREM CorrectionsYield == Spec => LiveFirst
<1> DEFINE A == Corrections' \subseteq Corrections \/ (Live = {} /\ ~pending)
<1>1. TypeOK /\ CountsAgree /\ [Next]_vars => [A]_vars
  <2> SUFFICES ASSUME TypeOK, CountsAgree, Next PROVE A
    OBVIOUS
  <2>1. Live \in SUBSET Callers
    BY DEF Live
  <2>2. ASSUME NEW waiters \in {primaryWaiters}, ~Blocked(TRUE, waiters)
        PROVE  Live = {} /\ ~pending
    BY <2>1, <2>2, CallerSets DEF Blocked, TypeOK, CountsAgree
  <2>3. ASSUME NEW c \in Callers, NEW correction \in BOOLEAN, Enter(c, correction)
        PROVE  A
    BY <2>2, <2>3 DEF Enter, Admit, TypeOK, Corrections, Holders
  <2>4. ASSUME NEW c \in Callers, Recheck(c) PROVE A
    BY <2>2, <2>4 DEF Recheck, Admit, TypeOK, Corrections, Holders
  <2>5. ASSUME NEW c \in Callers, Leave(c) PROVE A
    BY <2>5 DEF Leave, MarkWithout, TypeOK, Corrections, Holders
  <2>6. CASE PendingChanges
    BY <2>6 DEF PendingChanges, Corrections, Holders
  <2> QED
    BY <2>3, <2>4, <2>5, <2>6 DEF Next
<1> QED
  BY <1>1, AdmissionSafe, PTL DEF Spec, LiveFirst

-----------------------------------------------------------------------------
(* TranslationRunner.  What the sink is told never goes back because a     *)
(* revision of a segment belongs to one task, which publishes one terminal *)
(* event; a switch of the provider starts a new count in a new generation. *)
Places == {"idle", "new", "queued", "stream", "closing", "done"}
Kinds == {"none", "preview", "completed", "failed", "cancelled"}
Alive(t) == pc[t] # "idle"

RunnerTypes ==
  /\ pending \in BOOLEAN /\ generation \in Nat /\ switching \in BOOLEAN
  /\ pc \in [Tasks -> Places] /\ born \in [Tasks -> Nat] /\ revision \in [Tasks -> Nat]
  /\ segment \in [Tasks -> Segments \cup {Unassigned}] /\ terminal \in [Tasks -> BOOLEAN]
  /\ latest \in [Segments -> Nat]
  /\ shown \in [Segments -> [born: Nat, revision: Nat, kind: Kinds]]

(* A task is of this generation or an earlier one, and its revision was the *)
(* latest. *)
Submitted ==
  \A t \in Tasks : Alive(t) =>
    /\ segment[t] \in Segments /\ revision[t] >= 1 /\ born[t] <= generation
    /\ born[t] = generation => ~switching /\ revision[t] <= latest[segment[t]]

(* Tasks of this generation have different revisions of a segment. *)
OfDifferentRevisions ==
  \A t, u \in Tasks :
    Alive(t) /\ Alive(u) /\ t # u /\ born[t] = generation /\ born[u] = generation
      /\ segment[t] = segment[u] => revision[t] # revision[u]

(* So is what the sink was told. *)
ToldInTurn ==
  \A s \in Segments :
    /\ shown[s].born <= generation
    /\ shown[s].born = generation => ~switching /\ shown[s].revision <= latest[s]

(* A task of this generation that told the end knows. *)
EndsKnown ==
  \A t \in Tasks :
    Alive(t) /\ born[t] = generation
      /\ shown[segment[t]].born = generation /\ shown[segment[t]].revision = revision[t]
      /\ shown[segment[t]].kind # "preview" => terminal[t]

RunnerInv == RunnerTypes /\ Submitted /\ OfDifferentRevisions /\ ToldInTurn /\ EndsKnown

(* A step that starts no task and no generation. *)
Unmoved ==
  /\ pending' \in BOOLEAN /\ UNCHANGED <<latest, generation, switching>>
  /\ pc' \in [Tasks -> Places] /\ born' \in [Tasks -> Nat] /\ revision' \in [Tasks -> Nat]
  /\ segment' \in [Tasks -> Segments \cup {Unassigned}] /\ terminal' \in [Tasks -> BOOLEAN]
  /\ \A t \in Tasks : pc'[t] # "idle" =>
       /\ Alive(t) /\ segment'[t] = segment[t]
       /\ revision'[t] = revision[t] /\ born'[t] = born[t]

(* What a step leaves of what the sink was told, and of who knows. *)
Untold ==
  /\ shown' = shown
  /\ \A t \in Tasks : pc'[t] # "idle" => terminal'[t] = terminal[t]

(* NeverBack, of one step. *)
Forward ==
  \A s \in Segments :
    LET old == shown[s] new == shown'[s]
    IN  new # old =>
          \/ new.born > old.born
          \/ new.born = old.born /\ new.revision > old.revision
          \/ new.born = old.born /\ new.revision = old.revision /\ old.kind = "preview"

(* A step that tells the sink nothing keeps the invariant. *)
LEMMA UntoldKeeps ==
  ASSUME RunnerInv, Unmoved, Untold
  PROVE  RunnerInv' /\ Forward
<1>1. RunnerTypes'
  BY DEF RunnerInv, RunnerTypes, Unmoved, Untold
<1>2. Submitted'
  BY DEF RunnerInv, Submitted, Unmoved, Alive
<1>3. OfDifferentRevisions'
  BY DEF RunnerInv, OfDifferentRevisions, Unmoved, Alive
<1>4. ToldInTurn'
  BY DEF RunnerInv, ToldInTurn, Unmoved, Untold
<1>5. EndsKnown'
  BY DEF RunnerInv, EndsKnown, Unmoved, Untold, Alive
<1> QED
  BY <1>1, <1>2, <1>3, <1>4, <1>5 DEF RunnerInv, Forward, Untold

(* emit() keeps it: only the current task of a segment speaks, and only    *)
(* until it told the end.                                                  *)
LEMMA EmitKeeps ==
  ASSUME RunnerInv, NEW t \in Tasks, Alive(t), NEW what \in Kinds, Emit(t, what), Unmoved
  PROVE  RunnerInv' /\ Forward
<1>1. CASE UNCHANGED <<shown, terminal>>
  BY <1>1, UntoldKeeps DEF Untold
<1>2. CASE ~terminal[t] /\ Current(t)
  <2>1. /\ shown' = [shown EXCEPT ![segment[t]] = Event(t, what)]
        /\ terminal' = [terminal EXCEPT ![t] = what # "preview"]
        /\ ~terminal[t] /\ born[t] = generation /\ latest[segment[t]] = revision[t]
    BY <1>2 DEF Emit, Current
  <2>2. /\ RunnerTypes /\ segment[t] \in Segments /\ ~switching
        /\ born[t] \in Nat /\ revision[t] \in Nat /\ generation \in Nat
    BY <2>1 DEF RunnerInv, RunnerTypes, Submitted
  <2>3. Event(t, what) \in [born: Nat, revision: Nat, kind: Kinds]
    BY <2>2 DEF Event
  <2>4. /\ shown'[segment[t]] = Event(t, what)
        /\ \A s \in Segments \ {segment[t]} : shown'[s] = shown[s]
        /\ shown' \in [Segments -> [born: Nat, revision: Nat, kind: Kinds]]
    BY <2>1, <2>2, <2>3 DEF RunnerTypes
  <2>5. /\ terminal'[t] <=> what # "preview"
        /\ \A u \in Tasks \ {t} : terminal'[u] = terminal[u]
    BY <2>1, <2>2 DEF RunnerTypes
  <2>6. Event(t, what).born = generation /\ Event(t, what).revision = revision[t]
        /\ Event(t, what).kind = what
    BY <2>1 DEF Event
  <2>7. RunnerTypes'
    BY <2>2, <2>4 DEF RunnerTypes, Unmoved
  <2>8. Submitted'
    BY DEF RunnerInv, Submitted, Unmoved, Alive
  <2>9. OfDifferentRevisions'
    BY DEF RunnerInv, OfDifferentRevisions, Unmoved, Alive
  <2>10. ToldInTurn'
    BY <2>1, <2>2, <2>4, <2>6 DEF RunnerInv, ToldInTurn, Unmoved
  <2>11. EndsKnown'
    <3> SUFFICES ASSUME NEW u \in Tasks, Alive(u)', born'[u] = generation',
                        shown'[segment'[u]].born = generation',
                        shown'[segment'[u]].revision = revision'[u],
                        shown'[segment'[u]].kind # "preview"
                 PROVE  terminal'[u]
      BY DEF EndsKnown
    <3>1. /\ Alive(u) /\ born[u] = generation /\ segment'[u] = segment[u]
          /\ revision'[u] = revision[u] /\ generation' = generation
      BY DEF Unmoved, Alive
    <3>2. segment[u] \in Segments
      BY <3>1 DEF RunnerInv, Submitted
    <3>3. CASE u = t
      BY <3>1, <3>3, <2>4, <2>5, <2>6
    <3>4. CASE u # t /\ segment[u] = segment[t]
      BY <3>1, <3>4, <2>1, <2>4, <2>6 DEF RunnerInv, OfDifferentRevisions
    <3>5. CASE u # t /\ segment[u] # segment[t]
      BY <3>1, <3>2, <3>5, <2>4, <2>5 DEF RunnerInv, EndsKnown
    <3> QED
      BY <3>3, <3>4, <3>5
  <2>12. Forward
    <3>1. /\ shown[segment[t]].born <= generation
          /\ shown[segment[t]].born = generation => shown[segment[t]].revision <= revision[t]
          /\ shown[segment[t]].born \in Nat /\ shown[segment[t]].revision \in Nat
      BY <2>1, <2>2 DEF RunnerInv, ToldInTurn, RunnerTypes
    <3>2. shown[segment[t]].born = generation /\ shown[segment[t]].revision = revision[t]
            => shown[segment[t]].kind = "preview"
      BY <2>1 DEF RunnerInv, EndsKnown
    <3> QED
      BY <2>2, <2>4, <2>6, <3>1, <3>2 DEF Forward
  <2> QED
    BY <2>7, <2>8, <2>9, <2>10, <2>11, <2>12 DEF RunnerInv
<1> QED
  BY <1>1, <1>2 DEF Emit

(* A task goes on, without an end of its own. *)
LEMMA GotoUnmoved ==
  ASSUME RunnerInv, NEW t \in Tasks, Alive(t), NEW place \in Places, Goto(t, place), Rest,
         terminal' \in [Tasks -> BOOLEAN]
  PROVE  Unmoved
BY DEF RunnerInv, RunnerTypes, Goto, Rest, Unmoved, Alive

(* emit() leaves types alone. *)
LEMMA EmitTypes ==
  ASSUME RunnerTypes, NEW t \in Tasks, NEW what \in Kinds, Emit(t, what)
  PROVE  terminal' \in [Tasks -> BOOLEAN]
<1>1. PICK ends \in BOOLEAN : ends = (what # "preview")
  OBVIOUS
<1> QED
  BY <1>1 DEF Emit, RunnerTypes

(* A task that goes on and may tell the sink keeps the invariant. *)
LEMMA GoOnKeeps ==
  ASSUME RunnerInv, NEW t \in Tasks, Alive(t), NEW place \in Places, Goto(t, place), Rest,
         UNCHANGED <<shown, terminal>> \/ \E what \in Kinds : Emit(t, what)
  PROVE  RunnerInv' /\ Forward
<1>1. RunnerTypes
  BY DEF RunnerInv
<1>2. CASE UNCHANGED <<shown, terminal>>
  BY <1>1, <1>2, GotoUnmoved, UntoldKeeps DEF RunnerTypes, Untold
<1>3. ASSUME NEW what \in Kinds, Emit(t, what) PROVE RunnerInv' /\ Forward
  BY <1>1, <1>3, EmitTypes, GotoUnmoved, EmitKeeps
<1> QED
  BY <1>2, <1>3

(* Each step of a task, up to its done callback, is such a step. *)
LEMMA TaskKeeps ==
  ASSUME RunnerInv, NEW t \in Tasks, TaskStep(t), ~Remove(t)
  PROVE  RunnerInv' /\ Forward
<1> DEFINE Speaks == UNCHANGED <<shown, terminal>> \/ \E what \in Kinds : Emit(t, what)
<1>1. RunnerTypes /\ pc[t] \in Places
  BY DEF RunnerInv, RunnerTypes
<1>2. ASSUME NEW end, Tell(t, end) PROVE Speaks
  BY <1>2 DEF Tell, Kinds
<1>3. CASE Begin(t)
  <2>1. \E place \in Places : Goto(t, place)
    BY <1>3 DEF Begin, Places
  <2> QED
    BY <1>3, <2>1, GoOnKeeps DEF Begin, Alive
<1>4. CASE Slot(t)
  <2>1. \E place \in Places : Goto(t, place)
    BY <1>4 DEF Slot, Places
  <2>2. Speaks
    BY <1>4 DEF Slot, Kinds
  <2> QED
    BY <1>4, <2>1, <2>2, GoOnKeeps DEF Slot, Alive
<1>5. CASE GiveUp(t)
  <2>1. Goto(t, "done") /\ "done" \in Places /\ Alive(t) /\ Rest
    BY <1>5 DEF GiveUp, Places, Alive
  <2>2. Speaks
    BY <1>5, <1>2 DEF GiveUp
  <2> QED
    BY <2>1, <2>2, GoOnKeeps
<1>6. CASE Admitted(t)
  <2>1. pending' = pending /\ UNCHANGED runner
    BY <1>6 DEF Admitted, Recheck
  <2>2. Unmoved /\ Untold
    BY <1>1, <2>1 DEF runner, RunnerTypes, Unmoved, Untold, Alive
  <2> QED
    BY <2>2, UntoldKeeps
<1>7. ASSUME NEW end, EndBody(t, end) PROVE Goto(t, "closing") /\ "closing" \in Places
  BY <1>7 DEF EndBody, Places
<1>8. ASSUME Refused(t) PROVE Goto(t, "closing") /\ "closing" \in Places /\ Speaks
  BY <1>8, <1>7 DEF Refused
<1>9. CASE Chunk(t)
  <2>1. CASE Refused(t)
    BY <1>9, <2>1, <1>8, GoOnKeeps DEF Chunk, Streaming, Alive
  <2>2. CASE Emit(t, "preview") /\ UNCHANGED pc
    <3>1. Goto(t, pc[t]) /\ "preview" \in Kinds
      BY <1>1, <2>2 DEF Goto, RunnerTypes, Kinds
    <3> QED
      BY <1>1, <1>9, <2>2, <3>1, GoOnKeeps DEF Chunk, Streaming, Alive
  <2> QED
    BY <1>9, <2>1, <2>2 DEF Chunk
<1>10. CASE Complete(t)
  <2>1. CASE Refused(t)
    BY <1>10, <2>1, <1>8, GoOnKeeps DEF Complete, Streaming, Alive
  <2>2. CASE Emit(t, "completed") /\ EndBody(t, "none")
    <3>1. "completed" \in Kinds
      BY DEF Kinds
    <3> QED
      BY <1>10, <2>2, <3>1, <1>7, GoOnKeeps DEF Complete, Streaming, Alive
  <2> QED
    BY <1>10, <2>1, <2>2 DEF Complete
<1>11. CASE Break(t)
  <2>1. Goto(t, "closing") /\ "closing" \in Places
    BY <1>11, <1>7 DEF Break
  <2> QED
    BY <1>11, <2>1, GoOnKeeps DEF Break, Streaming, Alive
<1>12. CASE Closed(t)
  <2>1. Goto(t, "done") /\ "done" \in Places /\ Alive(t) /\ Rest
    BY <1>12 DEF Closed, Places, Alive
  <2>2. Speaks
    BY <1>12, <1>2 DEF Closed
  <2> QED
    BY <2>1, <2>2, GoOnKeeps
<1> QED
  BY <1>3, <1>4, <1>5, <1>6, <1>9, <1>10, <1>11, <1>12 DEF TaskStep

(* The done callback: the task is gone. *)
LEMMA RemoveKeeps ==
  ASSUME RunnerInv, NEW t \in Tasks, Remove(t)
  PROVE  RunnerInv' /\ Forward
<1>1. RunnerTypes
  BY DEF RunnerInv
<1>2. Unmoved
  <2>1. pending' \in BOOLEAN
    BY DEF Remove, Pending
  <2>2. "idle" \in Places /\ 0 \in Nat
    BY DEF Places
  <2>3. terminal' \in [Tasks -> BOOLEAN]
    BY <1>1 DEF Remove, RunnerTypes
  <2> QED
    BY <1>1, <2>1, <2>2, <2>3 DEF Remove, Goto, RunnerTypes, Unmoved, Alive
<1>3. Untold
  <2>1. \A u \in Tasks \ {t} : terminal'[u] = terminal[u]
    BY <1>1 DEF Remove, RunnerTypes
  <2>2. pc'[t] = "idle" /\ shown' = shown
    BY <1>1 DEF Remove, Goto, RunnerTypes
  <2> QED
    BY <2>1, <2>2 DEF Untold
<1> QED
  BY <1>2, <1>3, UntoldKeeps

(* submit(): a newer revision than any before. *)
LEMMA SubmitKeeps ==
  ASSUME RunnerInv, NEW t \in Tasks, NEW s \in Segments, NEW r \in Nat, Submit(t, s, r)
  PROVE  RunnerInv' /\ Forward
<1>1. /\ RunnerTypes /\ ~Alive(t) /\ ~switching /\ r > latest[s] /\ latest[s] \in Nat
      /\ generation' = generation /\ generation \in Nat
      /\ UNCHANGED <<terminal, switching, shown>> /\ pending' \in BOOLEAN
  BY DEF RunnerInv, RunnerTypes, Submit, Alive, Pending
<1>2. /\ pc'[t] = "new" /\ segment'[t] = s /\ revision'[t] = r /\ born'[t] = generation
      /\ \A u \in Tasks \ {t} : pc'[u] = pc[u] /\ segment'[u] = segment[u]
           /\ revision'[u] = revision[u] /\ born'[u] = born[u]
      /\ latest'[s] = r /\ \A q \in Segments \ {s} : latest'[q] = latest[q]
  BY <1>1 DEF Submit, RunnerTypes
<1>3. RunnerTypes'
  <2>1. "new" \in Places
    BY DEF Places
  <2> QED
    BY <1>1, <2>1 DEF Submit, RunnerTypes
<1>4. \A u \in Tasks \ {t} : Alive(u)' => Alive(u)
  BY <1>2 DEF Alive
<1>5. Submitted'
  <2> SUFFICES ASSUME NEW u \in Tasks, Alive(u)'
               PROVE  /\ segment'[u] \in Segments /\ revision'[u] >= 1 /\ born'[u] <= generation'
                      /\ born'[u] = generation' =>
                           ~switching' /\ revision'[u] <= latest'[segment'[u]]
    BY DEF Submitted
  <2>1. CASE u = t
    BY <1>1, <1>2, <2>1
  <2>2. CASE u # t
    <3>1. /\ segment[u] \in Segments /\ revision[u] >= 1 /\ born[u] <= generation
          /\ born[u] = generation => revision[u] <= latest[segment[u]]
      BY <1>4, <2>2 DEF RunnerInv, Submitted
    <3>2. latest[segment[u]] <= latest'[segment[u]]
      BY <1>1, <1>2, <3>1 DEF RunnerTypes
    <3> QED
      BY <1>1, <1>2, <1>3, <2>2, <3>1, <3>2 DEF RunnerTypes
  <2> QED
    BY <2>1, <2>2
<1>6. \A u \in Tasks \ {t} : Alive(u) /\ born[u] = generation /\ segment[u] = s => revision[u] < r
  BY <1>1 DEF RunnerInv, Submitted, RunnerTypes
<1>7. OfDifferentRevisions'
  BY <1>1, <1>2, <1>4, <1>6 DEF RunnerInv, OfDifferentRevisions, RunnerTypes
<1>8. ToldInTurn'
  <2> SUFFICES ASSUME NEW q \in Segments
               PROVE  /\ shown[q].born <= generation
                      /\ shown[q].born = generation => ~switching /\ shown[q].revision <= latest'[q]
    BY <1>1 DEF ToldInTurn
  <2>1. latest[q] <= latest'[q] /\ latest[q] \in Nat /\ latest'[q] \in Nat /\ shown[q].revision \in Nat
    BY <1>1, <1>2 DEF RunnerTypes
  <2> QED
    BY <2>1 DEF RunnerInv, ToldInTurn
<1>9. EndsKnown'
  <2> SUFFICES ASSUME NEW u \in Tasks, Alive(u)', born'[u] = generation,
                      shown[segment'[u]].born = generation,
                      shown[segment'[u]].revision = revision'[u],
                      shown[segment'[u]].kind # "preview"
               PROVE  terminal[u]
    BY <1>1 DEF EndsKnown
  <2>1. CASE u = t
    <3>1. shown[s].revision <= latest[s] /\ shown[s].revision \in Nat
      BY <1>2, <2>1 DEF RunnerInv, ToldInTurn, RunnerTypes
    <3> QED
      BY <1>1, <1>2, <2>1, <3>1
  <2>2. CASE u # t
    BY <1>2, <1>4, <2>2 DEF RunnerInv, EndsKnown
  <2> QED
    BY <2>1, <2>2
<1> QED
  BY <1>1, <1>3, <1>5, <1>7, <1>8, <1>9 DEF RunnerInv, Forward

(* What changes neither tasks nor tables, and the two halves of a switch:  *)
(* the generation a switch opens has no task, and its tables are emptied   *)
(* only once no task is left.                                              *)
LEMMA SwitchKeeps ==
  ASSUME RunnerInv, SwitchBegin \/ SwitchEnd
  PROVE  RunnerInv' /\ Forward
<1>1. RunnerTypes /\ shown' = shown /\ UNCHANGED <<pc, segment, revision, born, terminal, pending>>
  BY DEF RunnerInv, SwitchBegin, SwitchEnd, vars
<1>2. Forward
  BY <1>1 DEF Forward
<1>3. CASE SwitchBegin
  <2>1. /\ generation' = generation + 1 /\ switching' = TRUE /\ latest' = latest
        /\ generation \in Nat
    BY <1>1, <1>3 DEF SwitchBegin, RunnerTypes
  <2>2. \A t \in Tasks : Alive(t) => born[t] < generation' /\ born[t] <= generation'
    BY <1>1, <2>1 DEF RunnerInv, Submitted, RunnerTypes
  <2>3. \A s \in Segments : shown[s].born < generation'
    BY <1>1, <2>1 DEF RunnerInv, ToldInTurn, RunnerTypes
  <2>4. RunnerTypes'
    BY <1>1, <2>1 DEF RunnerTypes
  <2>5. \A t \in Tasks : born[t] < generation' => born[t] # generation'
    BY <1>1, <2>1 DEF RunnerTypes
  <2>6. \A s \in Segments : shown[s].born <= generation' /\ shown[s].born # generation'
    BY <1>1, <2>1, <2>3 DEF RunnerTypes
  <2>7. Submitted'
    BY <1>1, <2>2, <2>5 DEF RunnerInv, Submitted, Alive
  <2>8. OfDifferentRevisions' /\ EndsKnown'
    BY <1>1, <2>2, <2>5 DEF OfDifferentRevisions, EndsKnown, Alive
  <2>9. ToldInTurn'
    BY <1>1, <2>6 DEF ToldInTurn
  <2> QED
    BY <1>2, <2>4, <2>7, <2>8, <2>9 DEF RunnerInv
<1>4. CASE SwitchEnd
  <2>1. switching /\ generation' = generation /\ generation \in Nat /\ switching' = FALSE
    BY <1>1, <1>4 DEF SwitchEnd, RunnerTypes
  <2>2. RunnerTypes'
    <3>1. latest' \in [Segments -> Nat]
      BY <1>1, <1>4 DEF SwitchEnd, RunnerTypes
    <3> QED
      BY <1>1, <2>1, <3>1 DEF RunnerTypes
  <2>3. \A t \in Tasks : Alive(t) => born[t] # generation
    BY <2>1 DEF RunnerInv, Submitted
  <2>4. \A s \in Segments : shown[s].born # generation /\ shown[s].born <= generation
    BY <2>1 DEF RunnerInv, ToldInTurn
  <2>5. Submitted'
    BY <1>1, <2>1, <2>3 DEF RunnerInv, Submitted, Alive
  <2>6. OfDifferentRevisions' /\ EndsKnown'
    BY <1>1, <2>1, <2>3 DEF OfDifferentRevisions, EndsKnown, Alive
  <2>7. ToldInTurn'
    BY <1>1, <2>1, <2>4 DEF ToldInTurn
  <2> QED
    BY <1>2, <2>2, <2>5, <2>6, <2>7 DEF RunnerInv
<1> QED
  BY <1>3, <1>4

(* Every step of the runner keeps the invariant and goes forward. *)
LEMMA RunnerKeeps ==
  ASSUME RunnerInv, [RunnerNext]_rvars
  PROVE  RunnerInv' /\ Forward
<1>1. RunnerTypes
  BY DEF RunnerInv
<1>2. ASSUME pending' = pending,
             UNCHANGED <<pc, segment, revision, born, terminal, latest, generation, switching, shown>>
      PROVE  RunnerInv' /\ Forward
  <2>1. Unmoved /\ Untold
    BY <1>1, <1>2 DEF RunnerTypes, Unmoved, Untold, Alive
  <2> QED
    BY <2>1, UntoldKeeps
<1>3. ASSUME NEW t \in Tasks, TaskStep(t) PROVE RunnerInv' /\ Forward
  BY <1>3, TaskKeeps, RemoveKeeps
<1>4. ASSUME NEW t \in Tasks, Expire(t) PROVE RunnerInv' /\ Forward
  BY <1>4, <1>2 DEF Expire, vars
<1>5. ASSUME NEW t \in Tasks, NEW s \in Segments, NEW r \in 1 .. MaxRevision, Submit(t, s, r)
      PROVE  RunnerInv' /\ Forward
  BY <1>5, SubmitKeeps, RunnerAssumption
<1>6. ASSUME NEW c \in Callers \ Tasks, Correction(c) PROVE RunnerInv' /\ Forward
  <2>1. pending' = pending /\ UNCHANGED runner
    BY <1>6 DEF Correction, Enter, Recheck, Leave
  <2> QED
    BY <2>1, <1>2 DEF runner
<1>7. CASE Close \/ UNCHANGED rvars
  BY <1>7, <1>2 DEF Close, rvars, runner, vars
<1> QED
  BY <1>3, <1>4, <1>5, <1>6, <1>7, SwitchKeeps DEF RunnerNext

(* The runner starts with nobody told anything. *)
LEMMA InitRunner == RunnerInit => RunnerInv
<1> SUFFICES ASSUME RunnerInit PROVE RunnerInv
  OBVIOUS
<1>1. NoEvent \in [born: Nat, revision: Nat, kind: Kinds]
  BY DEF NoEvent, Kinds
<1>2. RunnerTypes
  BY <1>1 DEF RunnerInit, Init, RunnerTypes, Places
<1>3. \A t \in Tasks : ~Alive(t)
  BY DEF RunnerInit, Alive
<1>4. \A s \in Segments : shown[s].born = 0 /\ shown[s].revision = 0
  BY DEF RunnerInit, NoEvent
<1>5. ToldInTurn
  BY <1>4 DEF RunnerInit, ToldInTurn
<1> QED
  BY <1>2, <1>3, <1>5 DEF RunnerInv, Submitted, OfDifferentRevisions, EndsKnown

(* What the sink is told of a segment never goes back: a stream that       *)
(* ignored its cancellation cannot overwrite the caption of its successor, *)
(* and nothing follows a final result but a newer revision or generation.  *)
(* This is what Answered says of the order of events; that a request is    *)
(* answered at all is model-checked.                                       *)
THEOREM CaptionsOnlyGoForward == RunnerSpec => NeverBack
<1>1. RunnerInv /\ [RunnerNext]_rvars => RunnerInv'
  BY RunnerKeeps
<1>2. RunnerInv /\ [RunnerNext]_rvars => [Forward]_rvars
  BY RunnerKeeps
<1> QED
  BY <1>1, <1>2, InitRunner, PTL DEF RunnerSpec, NeverBack, Forward

(* One step of the runner is a step of the admission, or none. *)
LEMMA RunnerStepsAdmission ==
  ASSUME pending \in BOOLEAN, [RunnerNext]_rvars
  PROVE  [Next]_vars
<1>1. ASSUME Admission' = Admission, pending' \in BOOLEAN PROVE [Next]_vars
  <2>1. pending' = pending \/ pending' = ~pending
    BY <1>1
  <2> QED
    BY <1>1, <2>1 DEF Admission, vars, Next, PendingChanges
<1>2. ASSUME NEW c \in Callers, Recheck(c) \/ Leave(c) PROVE [Next]_vars
  BY <1>2 DEF Next
<1>3. ASSUME NEW t \in Tasks, TaskStep(t) PROVE [Next]_vars
  <2>1. t \in Callers
    BY RunnerAssumption
  <2>2. ASSUME Rest, Admission' = Admission PROVE [Next]_vars
    BY <2>2, <1>1 DEF Rest
  <2>3. CASE Begin(t)
    BY <2>3, <2>2 DEF Begin
  <2>4. CASE Slot(t)
    BY <2>1, <2>2, <2>4 DEF Slot, Next
  <2>5. CASE GiveUp(t)
    BY <2>1, <2>2, <2>5, <1>2 DEF GiveUp
  <2>6. CASE Admitted(t)
    BY <2>1, <2>6, <1>2 DEF Admitted
  <2>7. CASE Chunk(t) \/ Complete(t) \/ Break(t)
    BY <2>2, <2>7 DEF Chunk, Complete, Break
  <2>8. CASE Closed(t)
    BY <2>1, <2>8, <1>2 DEF Closed
  <2>9. CASE Remove(t)
    BY <2>9, <1>1 DEF Remove, Pending
  <2> QED
    BY <1>3, <2>3, <2>4, <2>5, <2>6, <2>7, <2>8, <2>9 DEF TaskStep
<1>4. ASSUME UNCHANGED vars PROVE [Next]_vars
  BY <1>4
<1>5. ASSUME NEW t \in Tasks, Expire(t) PROVE [Next]_vars
  BY <1>4, <1>5 DEF Expire
<1>6. ASSUME NEW t \in Tasks, NEW s \in Segments, NEW r \in 1 .. MaxRevision, Submit(t, s, r)
      PROVE  [Next]_vars
  BY <1>1, <1>6 DEF Submit, Pending
<1>7. ASSUME NEW c \in Callers \ Tasks, Correction(c) PROVE [Next]_vars
  BY <1>7, <1>2 DEF Correction, Next
<1>8. CASE SwitchBegin \/ SwitchEnd \/ Close \/ UNCHANGED rvars
  BY <1>4, <1>8 DEF SwitchBegin, SwitchEnd, Close, rvars
<1> QED
  BY <1>3, <1>5, <1>6, <1>7, <1>8 DEF RunnerNext

(* The runner's tasks and the corrections use the admission as it expects  *)
(* to be used: whatever they do, in whatever order they are cancelled, run *)
(* out of time, fail and are closed, is a behaviour of the admission.      *)
(* This is UsesAdmission without its fairness.                             *)
THEOREM RunnerRefinesAdmission == RunnerSpec => Init /\ [][Next]_vars
<1>1. RunnerInv /\ [RunnerNext]_rvars => RunnerInv'
  BY RunnerKeeps
<1>2. RunnerInv /\ [RunnerNext]_rvars => [Next]_vars
  BY RunnerStepsAdmission DEF RunnerInv, RunnerTypes
<1>3. RunnerInit => Init
  BY DEF RunnerInit
<1> QED
  BY <1>1, <1>2, <1>3, InitRunner, PTL DEF RunnerSpec

-----------------------------------------------------------------------------
(* ProviderStream.  That no markup is shown is not inductive: a marker may *)
(* be cut anywhere by the deltas.  GuardHolds is what the guard must keep  *)
(* true: whatever marker the text so far may be the beginning of, that     *)
(* beginning is held back.                                                 *)
Events == Payloads \cup {Done}

(* The types of a reader. *)
StreamTypes ==
  /\ profile \in {"ollama", "chat", "guarded", "gemma"} /\ stream \in {"open", "completed", "failed"}
  /\ finished \in BOOLEAN /\ parts \in Seq(Events)
  /\ guard \in Seq(Letters) /\ visible \in Seq(Letters) /\ said \in Seq(Letters)

(* Text that ends with the beginning of a marker ends so within its last n letters. *)
HeldBack(text, n) ==
  \A m \in Markers : \A k \in Nat : k < Len(m) /\ EndsWith(text, SubSeq(m, 1, k)) => k <= n

GuardHolds ==
  /\ ~Guarded => guard = <<>>
  /\ stream = "open" => said = visible \o guard
  /\ Guarded => ~Markup(visible)
  /\ Guarded /\ stream = "open" => ~Markup(said) /\ HeldBack(said, Len(guard))

(* A completed answer is all that was said. *)
WholeAnswer ==
  stream = "completed" => /\ visible = said /\ finished
                          /\ profile # "ollama" => ended = "DONE"

StreamInv == StreamTypes /\ GuardHolds /\ WholeAnswer

-----------------------------------------------------------------------------
(* Where a marker is in a text, letter by letter. *)
LEMMA MarkupAt ==
  ASSUME NEW s \in Seq(Letters)
  PROVE  Markup(s) <=> \E m \in Markers : \E i \in 0 .. Len(s) - Len(m) :
                          \A j \in 1 .. Len(m) : s[i + j] = m[j]
<1>1. ASSUME NEW m \in Markers, NEW i \in 0 .. Len(s) - Len(m)
      PROVE  SubSeq(s, i + 1, i + Len(m)) = m <=> \A j \in 1 .. Len(m) : s[i + j] = m[j]
  <2>1. m \in Seq(Letters) /\ Len(m) \in Nat /\ Len(s) \in Nat /\ i \in Nat /\ i + Len(m) <= Len(s)
    BY StreamAssumption
  <2>2. PICK w : w = SubSeq(s, i + 1, i + Len(m))
    OBVIOUS
  <2>3. \A k \in i + 1 .. i + Len(m) : s[k] \in Letters
    BY <2>1
  <2>4. /\ w \in Seq(Letters) /\ Len(w) = Len(m)
        /\ \A j \in 1 .. Len(m) : w[j] = s[i + j]
    <3>1. i + 1 \in Int /\ i + Len(m) \in Int
      BY <2>1
    <3>2. /\ w \in Seq(Letters)
          /\ Len(w) = (IF i + 1 <= i + Len(m) THEN i + Len(m) - (i + 1) + 1 ELSE 0)
          /\ \A j \in 1 .. i + Len(m) - (i + 1) + 1 : w[j] = s[i + 1 + j - 1]
      BY <2>2, <2>3, <3>1, SubSeqProperties
    <3>3. i + Len(m) - (i + 1) + 1 = Len(m) /\ \A j \in 1 .. Len(m) : i + 1 + j - 1 = i + j
      BY <2>1
    <3> QED
      BY <2>1, <3>2, <3>3
  <2>5. w = m => \A j \in 1 .. Len(m) : s[i + j] = m[j]
    BY <2>4
  <2>6. (\A j \in 1 .. Len(m) : s[i + j] = m[j]) => w = m
    BY <2>1, <2>4, SeqEqual
  <2> QED
    BY <2>2, <2>5, <2>6
<1> QED
  BY <1>1 DEF Markup, Within

(* A text ends with the beginning of a marker, letter by letter. *)
LEMMA EndsAt ==
  ASSUME NEW s \in Seq(Letters), NEW m \in Markers, NEW k \in Nat, k < Len(m)
  PROVE  EndsWith(s, SubSeq(m, 1, k)) <=>
           k <= Len(s) /\ \A j \in 1 .. k : s[Len(s) - k + j] = m[j]
<1>1. m \in Seq(Letters) /\ Len(m) \in Nat /\ Len(s) \in Nat
  BY StreamAssumption
<1>2. PICK p : p = SubSeq(m, 1, k)
  OBVIOUS
<1>3. p \in Seq(Letters) /\ Len(p) = k /\ \A j \in 1 .. k : p[j] = m[j]
  <2>1. \A j \in 1 .. k : m[j] \in Letters
    BY <1>1
  <2>2. /\ p \in Seq(Letters) /\ Len(p) = (IF 1 <= k THEN k - 1 + 1 ELSE 0)
        /\ \A j \in 1 .. k - 1 + 1 : p[j] = m[1 + j - 1]
    BY <1>2, <2>1, SubSeqProperties
  <2> QED
    BY <2>2
<1>4. CASE k <= Len(s)
  <2>1. PICK e : e = SubSeq(s, Len(s) - Len(p) + 1, Len(s))
    OBVIOUS
  <2>2. e \in Seq(Letters) /\ Len(e) = k /\ \A j \in 1 .. k : e[j] = s[Len(s) - k + j]
    <3>1. Len(s) - k + 1 \in Int /\ Len(s) \in Int /\ \A i \in Len(s) - k + 1 .. Len(s) : s[i] \in Letters
      BY <1>1, <1>4
    <3>2. /\ e \in Seq(Letters)
          /\ Len(e) = (IF Len(s) - k + 1 <= Len(s) THEN Len(s) - (Len(s) - k + 1) + 1 ELSE 0)
          /\ \A j \in 1 .. Len(s) - (Len(s) - k + 1) + 1 : e[j] = s[Len(s) - k + 1 + j - 1]
      BY <1>3, <2>1, <3>1, SubSeqProperties
    <3>3. Len(s) - (Len(s) - k + 1) + 1 = k /\ \A j \in 1 .. k : Len(s) - k + 1 + j - 1 = Len(s) - k + j
      BY <1>1
    <3> QED
      BY <1>1, <3>2, <3>3
  <2>3. e = p <=> \A j \in 1 .. k : s[Len(s) - k + j] = m[j]
    <3>1. e = p => \A j \in 1 .. k : s[Len(s) - k + j] = m[j]
      BY <1>3, <2>2
    <3>2. (\A j \in 1 .. k : s[Len(s) - k + j] = m[j]) => e = p
      BY <1>3, <2>2, SeqEqual
    <3> QED
      BY <3>1, <3>2
  <2> QED
    BY <1>2, <1>3, <1>4, <2>1, <2>3 DEF EndsWith
<1>5. CASE ~(k <= Len(s))
  BY <1>2, <1>3, <1>5 DEF EndsWith
<1> QED
  BY <1>4, <1>5

(* A beginning of a text without markup has none. *)
LEMMA BeginningClean ==
  ASSUME NEW s \in Seq(Letters), NEW t \in Seq(Letters), ~Markup(s \o t)
  PROVE  ~Markup(s)
<1>1. SUFFICES ASSUME NEW m \in Markers, NEW i \in 0 .. Len(s) - Len(m),
                      \A j \in 1 .. Len(m) : s[i + j] = m[j]
               PROVE  FALSE
  BY MarkupAt
<1>2. PICK w : w = s \o t
  OBVIOUS
<1>3. /\ w \in Seq(Letters) /\ Len(w) = Len(s) + Len(t)
      /\ \A k \in 1 .. Len(s) : w[k] = s[k]
  BY <1>2, ConcatProperties
<1>4. Len(m) \in Nat /\ Len(s) \in Nat /\ Len(t) \in Nat /\ i \in Nat /\ i + Len(m) <= Len(s)
  BY <1>1, StreamAssumption
<1>5. i \in 0 .. Len(w) - Len(m)
  BY <1>3, <1>4
<1>6. \A j \in 1 .. Len(m) : w[i + j] = m[j]
  <2> SUFFICES ASSUME NEW j \in 1 .. Len(m) PROVE w[i + j] = m[j]
    OBVIOUS
  <2>1. i + j \in 1 .. Len(s)
    BY <1>4
  <2> QED
    BY <1>1, <1>3, <2>1
<1> QED
  BY <1>2, <1>3, <1>5, <1>6, MarkupAt

(* _InlineReasoningGuard.feed holds back the longest beginning of a marker. *)
LEMMA RetainedHolds ==
  ASSUME NEW g \in Seq(Letters), NEW t \in Seq(Letters)
  PROVE  /\ Retained(g, t) \in 0 .. Len(g \o t)
         /\ HeldBack(g \o t, Retained(g, t))
<1>1. PICK all : all = g \o t
  OBVIOUS
<1>2. all \in Seq(Letters) /\ Len(all) \in Nat
  BY <1>1, ConcatProperties
<1>3. PICK held : held = {n \in 0 .. Len(all) :
                            \E m \in Markers : n < Len(m) /\ EndsWith(all, SubSeq(m, 1, n))}
  OBVIOUS
<1>4. 0 \in held
  <2>1. PICK m \in Markers : TRUE
    BY StreamAssumption
  <2>2. m \in Seq(Letters) /\ Len(m) \in Nat /\ Len(m) # 0
    <3>1. m \in Seq(Letters) /\ m # <<>>
      BY StreamAssumption
    <3> QED
      BY <3>1, EmptySeq
  <2>3. EndsWith(all, SubSeq(m, 1, 0))
    <3>1. PICK k : k = 0
      OBVIOUS
    <3>2. k \in Nat /\ k < Len(m) /\ k <= Len(all) /\ 1 .. k = {}
      BY <1>2, <2>2, <3>1
    <3>3. EndsWith(all, SubSeq(m, 1, k))
      BY <1>2, <3>2, EndsAt
    <3> QED
      BY <3>1, <3>3
  <2> QED
    BY <1>2, <1>3, <2>2, <2>3
<1>5. \E n \in held : \A k \in held : k <= n
  <2>1. PICK T : T = {Len(all) - n : n \in held}
    OBVIOUS
  <2>2. T \in SUBSET Nat /\ T # {}
    BY <1>2, <1>3, <1>4, <2>1
  <2>3. PICK x \in T : \A y \in T : x <= y
    BY <2>2, LeastNatural
  <2>4. PICK n \in held : x = Len(all) - n
    BY <2>1
  <2>5. \A k \in held : k <= n
    <3> SUFFICES ASSUME NEW k \in held PROVE k <= n
      OBVIOUS
    <3>1. x <= Len(all) - k
      BY <2>1, <2>3
    <3> QED
      BY <1>2, <1>3, <2>4, <3>1
  <2> QED
    BY <2>5
<1>6. PICK r : r = Retained(g, t)
  OBVIOUS
<1>7. r \in held /\ \A k \in held : k <= r
  BY <1>1, <1>3, <1>5, <1>6 DEF Retained
<1>8. r \in 0 .. Len(all)
  BY <1>3, <1>7
<1>9. HeldBack(all, r)
  <2> SUFFICES ASSUME NEW m \in Markers, NEW k \in Nat, k < Len(m), EndsWith(all, SubSeq(m, 1, k))
               PROVE  k <= r
    BY DEF HeldBack
  <2>1. k <= Len(all)
    BY <1>2, EndsAt
  <2>2. k \in held
    BY <1>2, <1>3, <2>1
  <2> QED
    BY <1>7, <2>2
<1> QED
  BY <1>1, <1>6, <1>8, <1>9

(* More text: what was held back and is no beginning of a marker with it    *)
(* may be shown.                                                            *)
LEMMA MoreText ==
  ASSUME NEW v \in Seq(Letters), NEW g \in Seq(Letters), NEW t \in Seq(Letters),
         ~Markup(v \o g), HeldBack(v \o g, Len(g)), ~Markup(g \o t),
         NEW n \in 0 .. Len(g \o t), HeldBack(g \o t, n)
  PROVE  ~Markup((v \o g) \o t) /\ HeldBack((v \o g) \o t, n)
<1>1. PICK s : s = v \o g
  OBVIOUS
<1>2. PICK a : a = g \o t
  OBVIOUS
<1>3. PICK w : w = s \o t
  OBVIOUS
<1>4. /\ s \in Seq(Letters) /\ a \in Seq(Letters) /\ w \in Seq(Letters)
      /\ Len(v) \in Nat /\ Len(g) \in Nat /\ Len(t) \in Nat
      /\ Len(s) = Len(v) + Len(g) /\ Len(a) = Len(g) + Len(t) /\ Len(w) = Len(v) + Len(g) + Len(t)
  BY <1>1, <1>2, <1>3, ConcatProperties
<1>5. \A i \in 1 .. Len(s) : w[i] = s[i]
  BY <1>1, <1>3, <1>4, ConcatProperties
<1>6. \A i \in 1 .. Len(a) : w[Len(v) + i] = a[i]
  <2>1. w = v \o a
    BY <1>1, <1>2, <1>3, ConcatAssociative
  <2>2. \A k \in 1 .. Len(v) + Len(a) : w[k] = IF k <= Len(v) THEN v[k] ELSE a[k - Len(v)]
    BY <1>4, <2>1, ConcatProperties
  <2> SUFFICES ASSUME NEW i \in 1 .. Len(a) PROVE w[Len(v) + i] = a[i]
    OBVIOUS
  <2>3. Len(v) + i \in 1 .. Len(v) + Len(a) /\ ~(Len(v) + i <= Len(v)) /\ Len(v) + i - Len(v) = i
    BY <1>4
  <2> QED
    BY <2>2, <2>3
<1>7. ~Markup(w)
  <2>1. SUFFICES ASSUME NEW m \in Markers, NEW i \in 0 .. Len(w) - Len(m),
                        \A j \in 1 .. Len(m) : w[i + j] = m[j]
                 PROVE  FALSE
    BY <1>4, MarkupAt
  <2>2. Len(m) \in Nat /\ i \in Nat /\ i + Len(m) <= Len(w)
    BY <1>4, <2>1, StreamAssumption
  <2>3. CASE i + Len(m) <= Len(s)
    <3>1. i \in 0 .. Len(s) - Len(m)
      BY <1>4, <2>2, <2>3
    <3>2. \A j \in 1 .. Len(m) : s[i + j] = m[j]
      <4> SUFFICES ASSUME NEW j \in 1 .. Len(m) PROVE s[i + j] = m[j]
        OBVIOUS
      <4>1. i + j \in 1 .. Len(s)
        BY <1>4, <2>2, <2>3
      <4> QED
        BY <1>5, <2>1, <4>1
    <3> QED
      BY <1>1, <1>4, <3>1, <3>2, MarkupAt
  <2>4. CASE i >= Len(v)
    <3>1. i - Len(v) \in 0 .. Len(a) - Len(m)
      BY <1>4, <2>2, <2>4
    <3>2. \A j \in 1 .. Len(m) : a[i - Len(v) + j] = m[j]
      <4> SUFFICES ASSUME NEW j \in 1 .. Len(m) PROVE a[i - Len(v) + j] = m[j]
        OBVIOUS
      <4>1. i - Len(v) + j \in 1 .. Len(a) /\ Len(v) + (i - Len(v) + j) = i + j
        BY <1>4, <2>2, <2>4
      <4> QED
        BY <1>6, <2>1, <4>1
    <3> QED
      BY <1>2, <1>4, <3>1, <3>2, MarkupAt
  <2>5. CASE i + Len(m) > Len(s) /\ i < Len(v)
    <3>1. PICK k : k = Len(s) - i
      OBVIOUS
    <3>2. k \in Nat /\ k < Len(m) /\ k <= Len(s) /\ k > Len(g) /\ Len(s) - k = i
      BY <1>4, <2>2, <2>5, <3>1
    <3>3. \A j \in 1 .. k : s[Len(s) - k + j] = m[j]
      <4> SUFFICES ASSUME NEW j \in 1 .. k PROVE s[i + j] = m[j]
        BY <3>2
      <4>1. i + j \in 1 .. Len(s) /\ j \in 1 .. Len(m)
        BY <1>4, <2>2, <3>1, <3>2
      <4> QED
        BY <1>5, <2>1, <4>1
    <3>4. EndsWith(s, SubSeq(m, 1, k))
      BY <1>4, <3>2, <3>3, EndsAt
    <3> QED
      BY <1>1, <1>4, <3>2, <3>4 DEF HeldBack
  <2> QED
    BY <1>4, <2>2, <2>3, <2>4, <2>5
<1>8. HeldBack(w, n)
  <2> SUFFICES ASSUME NEW m \in Markers, NEW k \in Nat, k < Len(m), EndsWith(w, SubSeq(m, 1, k))
               PROVE  k <= n
    BY DEF HeldBack
  <2>1. k <= Len(w) /\ \A j \in 1 .. k : w[Len(w) - k + j] = m[j]
    BY <1>4, EndsAt
  <2>2. Len(m) \in Nat
    BY StreamAssumption
  <2>3. CASE k <= Len(a)
    <3>1. \A j \in 1 .. k : a[Len(a) - k + j] = m[j]
      <4> SUFFICES ASSUME NEW j \in 1 .. k PROVE a[Len(a) - k + j] = m[j]
        OBVIOUS
      <4>1. Len(a) - k + j \in 1 .. Len(a) /\ Len(v) + (Len(a) - k + j) = Len(w) - k + j
        BY <1>4, <2>3
      <4> QED
        BY <1>6, <2>1, <4>1
    <3>2. EndsWith(a, SubSeq(m, 1, k))
      BY <1>4, <2>3, <3>1, EndsAt
    <3> QED
      BY <1>2, <3>2 DEF HeldBack
  <2>4. CASE k > Len(a)
    <3>1. PICK d : d = k - Len(t)
      OBVIOUS
    <3>2. d \in Nat /\ d < Len(m) /\ d > Len(g) /\ d <= Len(s) /\ Len(s) - d = Len(w) - k
      BY <1>4, <2>1, <2>2, <2>4, <3>1
    <3>3. \A j \in 1 .. d : s[Len(s) - d + j] = m[j]
      <4> SUFFICES ASSUME NEW j \in 1 .. d PROVE s[Len(w) - k + j] = m[j]
        BY <3>2
      <4>1. Len(w) - k + j \in 1 .. Len(s) /\ j \in 1 .. k
        <5>1. k <= Len(w) /\ Len(w) = Len(s) + Len(t) /\ Len(s) \in Nat
          BY <1>4, <2>1
        <5> QED
          BY <1>4, <3>1, <3>2, <5>1
      <4> QED
        BY <1>5, <2>1, <4>1
    <3>4. EndsWith(s, SubSeq(m, 1, d))
      BY <1>4, <3>2, <3>3, EndsAt
    <3> QED
      BY <1>1, <1>4, <3>2, <3>4 DEF HeldBack
  <2> QED
    BY <1>4, <2>3, <2>4
<1> QED
  BY <1>1, <1>3, <1>7, <1>8

(* It does not matter in which order texts are put together. *)
LEMMA Concatenated ==
  \A u, v, w \in Seq(Letters) : (u \o v) \o w = u \o (v \o w)
BY ConcatAssociative

(* Passing text on: what is shown and what is held back stay the text. *)
LEMMA ShowText ==
  ASSUME StreamInv, stream = "open", NEW text \in Seq(Letters), Show(text),
         Guarded => ~Markup(guard \o text)
  PROVE  /\ visible' \in Seq(Letters) /\ guard' \in Seq(Letters) /\ said \o text \in Seq(Letters)
         /\ said \o text = visible' \o guard'
         /\ ~Guarded => guard' = <<>>
         /\ Guarded => /\ ~Markup(visible') /\ ~Markup(said \o text)
                       /\ HeldBack(said \o text, Len(guard'))
<1>1. /\ visible \in Seq(Letters) /\ guard \in Seq(Letters) /\ said \in Seq(Letters)
      /\ said = visible \o guard
  BY DEF StreamInv, StreamTypes, GuardHolds
<1>2. said \o text \in Seq(Letters)
  BY <1>1, ConcatProperties
<1>3. CASE Guarded /\ text # <<>>
  <2>1. PICK all : all = guard \o text
    OBVIOUS
  <2>2. all \in Seq(Letters) /\ Len(all) \in Nat
    BY <1>1, <2>1, ConcatProperties
  <2>3. PICK n \in 0 .. Len(all) : n = Retained(guard, text) /\ HeldBack(all, n)
    BY <1>1, <2>1, RetainedHolds
  <2>4. visible' = visible \o SubSeq(all, 1, Len(all) - n) /\ guard' = SubSeq(all, Len(all) - n + 1, Len(all))
    BY <1>3, <2>1, <2>3 DEF Show
  <2>5. PICK first : first = SubSeq(all, 1, Len(all) - n)
    OBVIOUS
  <2>6. PICK last : last = SubSeq(all, Len(all) - n + 1, Len(all))
    OBVIOUS
  <2>7. first \in Seq(Letters) /\ last \in Seq(Letters) /\ Len(last) = n
    <3>1. \A i \in 1 .. Len(all) : all[i] \in Letters
      BY <2>2
    <3>2. first \in Seq(Letters)
      <4>1. \A i \in 1 .. Len(all) - n : all[i] \in Letters
        BY <2>2, <3>1
      <4> QED
        BY <2>2, <2>5, <4>1, SubSeqProperties
    <3>3. PICK f : f = Len(all) - n + 1
      OBVIOUS
    <3>4. f \in Int /\ Len(all) \in Int /\ \A i \in f .. Len(all) : all[i] \in Letters
      BY <2>2, <3>1, <3>3
    <3>5. last \in Seq(Letters) /\ Len(last) = IF f <= Len(all) THEN Len(all) - f + 1 ELSE 0
      BY <2>6, <3>3, <3>4, SubSeqProperties
    <3> QED
      BY <2>2, <3>2, <3>3, <3>5
  <2>8. first \o last = all
    <3>1. PICK k : k = Len(all) - n
      OBVIOUS
    <3>2. 1 \in 1 .. Len(all) + 1 /\ k \in 1 - 1 .. Len(all) /\ Len(all) \in k .. Len(all)
      BY <2>2, <3>1
    <3>3. SubSeq(all, 1, k) \o SubSeq(all, k + 1, Len(all)) = SubSeq(all, 1, Len(all))
      BY <2>2, <3>2, ConcatAdjacentSubSeq
    <3> QED
      BY <2>2, <2>5, <2>6, <3>1, <3>3, SubSeqFull
  <2>9. said \o text = visible' \o guard'
    <3>1. said \o text = visible \o all
      BY <1>1, <2>1, ConcatAssociative
    <3>2. (visible \o first) \o last = visible \o (first \o last)
      <4>1. visible \in Seq(Letters) /\ first \in Seq(Letters) /\ last \in Seq(Letters)
        BY <1>1, <2>7
      <4> QED
        BY <4>1, Concatenated, Zenon
    <3> QED
      BY <2>4, <2>5, <2>6, <2>8, <3>1, <3>2
  <2>10. visible' \in Seq(Letters) /\ guard' \in Seq(Letters) /\ Len(guard') = n
    BY <1>1, <2>4, <2>5, <2>6, <2>7, ConcatProperties
  <2>11. ~Markup(visible \o guard) /\ HeldBack(visible \o guard, Len(guard))
    BY <1>1, <1>3 DEF StreamInv, GuardHolds
  <2>12. ~Markup(guard \o text) /\ HeldBack(guard \o text, n) /\ n \in 0 .. Len(guard \o text)
    BY <1>3, <2>1, <2>3
  <2>13. ~Markup(said \o text) /\ HeldBack(said \o text, n)
    BY <1>1, <2>11, <2>12, MoreText
  <2>14. ~Markup(visible')
    BY <2>9, <2>10, <2>13, BeginningClean
  <2> QED
    BY <1>2, <1>3, <2>9, <2>10, <2>13, <2>14
<1>4. CASE ~Guarded
  <2>1. visible' = visible \o text /\ guard' = guard /\ guard = <<>>
    BY <1>4 DEF Show, StreamInv, GuardHolds
  <2>2. said = visible
    BY <1>1, <2>1, ConcatEmptySeq
  <2>3. visible' \in Seq(Letters) /\ visible' \o <<>> = visible'
    BY <1>2, <2>1, <2>2, ConcatEmptySeq
  <2> QED
    BY <1>1, <1>2, <1>4, <2>1, <2>2, <2>3
<1>5. CASE Guarded /\ text = <<>>
  <2>1. visible' = visible \o text /\ guard' = guard
    BY <1>5 DEF Show
  <2>2. visible' = visible /\ said \o text = said
    BY <1>1, <1>5, <2>1, ConcatEmptySeq
  <2> QED
    BY <1>1, <1>5, <2>1, <2>2 DEF StreamInv, GuardHolds
<1> QED
  BY <1>3, <1>4, <1>5

-----------------------------------------------------------------------------
(* The invariant holds before anything was read. *)
LEMMA StreamStarts == StreamInit => StreamInv
<1> SUFFICES ASSUME StreamInit PROVE StreamInv
  OBVIOUS
<1>1. /\ guard = <<>> /\ visible = <<>> /\ said = <<>> /\ stream = "open" /\ parts = <<>> /\ finished = FALSE
      /\ profile \in {"ollama", "chat", "guarded", "gemma"}
  BY DEF StreamInit
<1>2. <<>> \in Seq(Letters) /\ <<>> \in Seq(Events) /\ Len(<<>>) = 0
  BY EmptySeq
<1>3. said = visible \o guard
  BY <1>1, <1>2, ConcatEmptySeq
<1>4. ~Markup(said) /\ HeldBack(said, Len(guard))
  <2>1. \A m \in Markers : Len(m) \in Nat /\ Len(m) # 0
    <3> SUFFICES ASSUME NEW m \in Markers PROVE Len(m) \in Nat /\ Len(m) # 0
      OBVIOUS
    <3>1. m \in Seq(Letters) /\ m # <<>>
      BY StreamAssumption
    <3> QED
      BY <3>1, EmptySeq
  <2>2. ~Markup(said)
    <3> SUFFICES ASSUME NEW m \in Markers, NEW i \in 0 .. Len(said) - Len(m) PROVE FALSE
      BY <1>1, <1>2, MarkupAt
    <3> QED
      BY <1>1, <1>2, <2>1
  <2>3. HeldBack(said, Len(guard))
    <3> SUFFICES ASSUME NEW m \in Markers, NEW k \in Nat, k < Len(m), EndsWith(said, SubSeq(m, 1, k))
                 PROVE  k <= Len(guard)
      BY DEF HeldBack
    <3>1. said \in Seq(Letters) /\ Len(said) = 0 /\ Len(guard) = 0
      BY <1>1, <1>2
    <3>2. k <= Len(said)
      BY <3>1, EndsAt
    <3> QED
      BY <3>1, <3>2
  <2> QED
    BY <2>2, <2>3
<1>5. StreamTypes
  BY <1>1, <1>2 DEF StreamTypes
<1>6. GuardHolds
  BY <1>1, <1>3, <1>4 DEF GuardHolds
<1> QED
  BY <1>1, <1>5, <1>6 DEF StreamInv, WholeAnswer

(* Reading fails: what was shown stays. *)
LEMMA FailedRead ==
  ASSUME StreamInv, FailRead, profile' = profile, parts' \in Seq(Events), said' \in Seq(Letters)
  PROVE  StreamInv'
<1>1. /\ stream' = "failed" /\ guard' = guard /\ finished' = finished /\ visible' = visible
      /\ Guarded' <=> Guarded
  BY DEF FailRead, Guarded
<1> QED
  BY <1>1 DEF StreamInv, StreamTypes, GuardHolds, WholeAnswer

(* The payload of an event is a text of letters. *)
LEMMA EventText ==
  ASSUME NEW p \in Events
  PROVE  /\ p.text \in Seq(Letters) /\ p.stop \in {"none", "stop", "length", "DONE"}
         /\ p.stop = "DONE" => p.text = <<>>
<1>1. Texts \subseteq Seq(Letters)
  <2> SUFFICES ASSUME NEW n \in 0 .. MaxDelta, NEW t \in [1 .. n -> Letters] PROVE t \in Seq(Letters)
    BY DEF Texts
  <2>1. n \in Nat
    BY StreamAssumption
  <2> QED
    BY <2>1
<1>2. <<>> \in Seq(Letters)
  BY EmptySeq
<1>3. CASE p \in [text : Texts, stop : {"none", "stop", "length"}, bad : {FALSE}]
  <2>1. p.text \in Texts /\ p.stop \in {"none", "stop", "length"}
    BY <1>3
  <2> QED
    BY <1>1, <2>1
<1>4. CASE p \in {[text |-> <<>>, stop |-> "none", bad |-> TRUE], Done}
  <2>1. CASE p = [text |-> <<>>, stop |-> "none", bad |-> TRUE]
    BY <1>2, <2>1
  <2>2. CASE p = Done
    BY <1>2, <2>2 DEF Done
  <2> QED
    BY <1>4, <2>1, <2>2
<1> QED
  BY <1>3, <1>4 DEF Events, Payloads

(* One event is read. *)
LEMMA EventKeeps ==
  ASSUME StreamInv, stream = "open", NEW p \in Events, ReadEvent(p), profile' = profile,
         parts' \in Seq(Events)
  PROVE  StreamInv'
<1>1. /\ p.text \in Seq(Letters) /\ p.stop \in {"none", "stop", "length", "DONE"}
      /\ p.stop = "DONE" => p.text = <<>>
  BY EventText
<1>2. /\ visible \in Seq(Letters) /\ guard \in Seq(Letters) /\ said \in Seq(Letters)
      /\ said = visible \o guard /\ finished \in BOOLEAN
  BY DEF StreamInv, StreamTypes, GuardHolds
<1>3. said' = said \o p.text /\ said' \in Seq(Letters) /\ (Guarded' <=> Guarded)
  BY <1>1, <1>2, ConcatProperties DEF ReadEvent, Guarded
<1>4. ASSUME Show(p.text), ~Unusable(p)
      PROVE  /\ visible' \in Seq(Letters) /\ guard' \in Seq(Letters)
             /\ said' = visible' \o guard' /\ (~Guarded => guard' = <<>>)
             /\ Guarded => ~Markup(visible') /\ ~Markup(said') /\ HeldBack(said', Len(guard'))
  <2>1. Guarded => ~Markup(guard \o p.text)
    BY <1>4 DEF Unusable
  <2> QED
    BY <1>1, <1>3, <1>4, <2>1, ShowText
<1>5. CASE FailRead
  BY <1>3, <1>5, FailedRead
<1>6. CASE ~Unusable(p) /\ p.stop = "length" /\ Show(p.text) /\ stream' = "failed" /\ UNCHANGED finished
  BY <1>2, <1>3, <1>4, <1>6 DEF StreamInv, StreamTypes, GuardHolds, WholeAnswer
<1>7. CASE /\ ~Unusable(p) /\ p.stop \in {"none", "stop"} /\ Show(p.text)
           /\ finished' = (finished \/ p.stop = "stop")
           /\ stream' = IF profile = "ollama" /\ p.stop = "stop" THEN "completed" ELSE stream
  <2>1. finished' \in BOOLEAN /\ stream' \in {"open", "completed"}
    BY <1>2, <1>7
  <2>2. StreamTypes'
    BY <1>3, <1>4, <1>7, <2>1 DEF StreamInv, StreamTypes
  <2>3. GuardHolds'
    BY <1>3, <1>4, <1>7 DEF GuardHolds
  <2>4. WholeAnswer'
    <3> SUFFICES ASSUME stream' = "completed"
                 PROVE  visible' = said' /\ finished' /\ (profile' # "ollama" => ended' = "DONE")
      BY DEF WholeAnswer
    <3>1. profile = "ollama" /\ p.stop = "stop" /\ finished'
      BY <1>7
    <3>2. guard' = <<>>
      BY <1>4, <1>7, <3>1 DEF Guarded
    <3>3. said' = visible'
      BY <1>4, <1>7, <3>2, ConcatEmptySeq
    <3> QED
      BY <3>1, <3>3
  <2> QED
    BY <2>2, <2>3, <2>4 DEF StreamInv
<1>8. CASE /\ p.stop = "DONE" /\ finished /\ visible' = visible \o guard /\ guard' = <<>>
           /\ stream' = "completed" /\ UNCHANGED finished
  <2>1. said' = said /\ visible' = said' /\ ended' = "DONE" /\ finished'
    <3>1. said \o <<>> = said
      BY <1>2, ConcatEmptySeq
    <3> QED
      BY <1>1, <1>2, <1>3, <1>8, <3>1 DEF ReadEvent
  <2>2. Guarded => ~Markup(visible')
    BY <2>1 DEF StreamInv, GuardHolds
  <2>3. <<>> \in Seq(Letters)
    BY EmptySeq
  <2>4. StreamTypes'
    BY <1>2, <1>3, <1>8, <2>1, <2>3 DEF StreamInv, StreamTypes
  <2>5. GuardHolds'
    BY <1>3, <1>8, <2>2 DEF GuardHolds
  <2> QED
    BY <2>1, <2>4, <2>5 DEF StreamInv, WholeAnswer
<1> QED
  BY <1>5, <1>6, <1>7, <1>8 DEF ReadEvent

(* Every line, and every end of the connection. *)
LEMMA StreamKeeps == StreamInv /\ [StreamNext]_streamVars => StreamInv'
<1> SUFFICES ASSUME StreamInv, [StreamNext]_streamVars PROVE StreamInv'
  OBVIOUS
<1>1. parts \in Seq(Events) /\ said \in Seq(Letters) /\ <<>> \in Seq(Events)
  BY EmptySeq DEF StreamInv, StreamTypes
<1>2. ASSUME NEW p \in Payloads, JsonLine(p) PROVE StreamInv'
  BY <1>1, <1>2, EventKeeps DEF JsonLine, Events
<1>3. ASSUME NEW p \in Events, DataLine(p) PROVE StreamInv'
  <2>1. /\ parts' = Append(parts, p)
        /\ UNCHANGED <<profile, guard, finished, stream, visible, said, ended>>
    BY <1>3 DEF DataLine
  <2>2. parts' \in Seq(Events)
    BY <1>1, <2>1, AppendProperties
  <2> QED
    BY <2>1, <2>2 DEF StreamInv, StreamTypes, GuardHolds, WholeAnswer, Guarded
<1>4. CASE BlankLine
  <2>1. stream = "open" /\ parts' = <<>> /\ parts' \in Seq(Events) /\ profile' = profile
    BY <1>1, <1>4 DEF BlankLine
  <2>2. CASE Len(parts) = 1 /\ ReadEvent(parts[1])
    <3>1. parts[1] \in Events
      BY <1>1, <2>2
    <3> QED
      BY <2>1, <2>2, <3>1, EventKeeps
  <2>3. CASE FailRead /\ UNCHANGED <<said, ended>>
    BY <1>1, <2>1, <2>3, FailedRead
  <2> QED
    BY <1>4, <2>2, <2>3 DEF BlankLine
<1>5. CASE Garbage
  BY <1>1, <1>5, FailedRead DEF Garbage
<1>6. CASE EndOfStream
  BY <1>1, <1>6, FailedRead DEF EndOfStream, FailRead
<1>7. CASE UNCHANGED streamVars
  BY <1>7 DEF streamVars, StreamInv, StreamTypes, GuardHolds, WholeAnswer, Guarded
<1> QED
  BY <1>2, <1>3, <1>4, <1>5, <1>6, <1>7 DEF StreamNext, Events

(* The invariant says that what is shown is sound. *)
LEMMA SoundByGuard == StreamInv => ShownIsSound
BY DEF StreamInv, GuardHolds, WholeAnswer, ShownIsSound

(* For any letters, markup and deltas: no markup is shown however the      *)
(* deltas cut it, no text is lost, and only a whole answer is complete.    *)
THEOREM ShownSound == StreamSpec => []ShownIsSound
BY StreamStarts, StreamKeeps, SoundByGuard, PTL DEF StreamSpec

-----------------------------------------------------------------------------
(* OrchestratedProvider.  SlotsConserved is inductive with the types and   *)
(* with what aclose() waits for.                                           *)
Stages == {"idle", "gate", "select", "slot", "translate"}
Inside(place) == {r \in Requests : stage[r] = place}

OrchInv ==
  /\ stage \in [Requests -> Stages] /\ slots \in Nat /\ gate \in BOOLEAN
  /\ slots + Cardinality(Inside("translate")) = Concurrency
  /\ Cardinality(Inside("select")) = (IF gate THEN 0 ELSE 1)
  /\ closing = "closed" => Active = {}

(* How many requests are in a place after one has moved. *)
LEMMA InsideMoves ==
  ASSUME IsFiniteSet(Requests), stage \in [Requests -> Stages],
         NEW r \in Requests, NEW to \in Stages, stage' = [stage EXCEPT ![r] = to],
         NEW place \in Stages
  PROVE  /\ Cardinality(Inside(place)) \in Nat /\ Cardinality(Inside(place))' \in Nat
         /\ stage[r] = place => Cardinality(Inside(place)) > 0
         /\ Cardinality(Inside(place))' = Cardinality(Inside(place))
              + (IF to = place THEN 1 ELSE 0) - (IF stage[r] = place THEN 1 ELSE 0)
<1> DEFINE others == Inside(place) \ {r}
<1>1. IsFiniteSet(Inside(place)) /\ IsFiniteSet(others)
  BY FS_Subset DEF Inside
<1>2. /\ stage[r] = place => Inside(place) = others \cup {r}
      /\ stage[r] # place => Inside(place) = others
      /\ r \notin others
  BY DEF Inside
<1>3. /\ to = place => Inside(place)' = others \cup {r}
      /\ to # place => Inside(place)' = others
  BY DEF Inside
<1>4. Cardinality(others) \in Nat /\ Cardinality(others \cup {r}) = Cardinality(others) + 1
  BY <1>1, <1>2, FS_AddElement, FS_CardinalityType
<1> HIDE DEF others
<1>5. Cardinality(Inside(place))' = Cardinality(Inside(place)')
  OBVIOUS
<1> QED
  BY <1>2, <1>3, <1>4, <1>5

(* The provider starts with all of its slots and the gate. *)
LEMMA InitOrch ==
  ASSUME Concurrency \in Nat
  PROVE  OrchInit => OrchInv
<1> SUFFICES ASSUME OrchInit PROVE OrchInv
  OBVIOUS
<1>1. stage \in [Requests -> Stages] /\ Inside("translate") = {} /\ Inside("select") = {}
  BY DEF OrchInit, Stages, Inside
<1> QED
  BY <1>1, FS_EmptySet DEF OrchInit, OrchInv

(* A request that moves takes what it enters and gives back what it leaves. *)
LEMMA MoveOrch ==
  ASSUME IsFiniteSet(Requests), OrchInv, NEW r \in Requests, NEW to \in Stages,
         stage' = [stage EXCEPT ![r] = to], closing' = closing,
         closing # "closed" \/ stage[r] # "idle",
         slots' = slots + (IF stage[r] = "translate" THEN 1 ELSE 0)
                        - (IF to = "translate" THEN 1 ELSE 0),
         to = "translate" => slots > 0,
         gate' \in BOOLEAN,
         to = "select" => gate /\ ~gate',
         to # "select" => (gate' <=> gate \/ stage[r] = "select")
  PROVE  OrchInv'
<1>1. stage \in [Requests -> Stages] /\ stage' \in [Requests -> Stages] /\ slots \in Nat
  BY DEF OrchInv
<1>2. slots' \in Nat
  BY <1>1
<1>3. slots' + Cardinality(Inside("translate"))' = Concurrency
  <2>1. "translate" \in Stages
    BY DEF Stages
  <2>2. /\ Cardinality(Inside("translate")) \in Nat
        /\ Cardinality(Inside("translate"))' = Cardinality(Inside("translate"))
             + (IF to = "translate" THEN 1 ELSE 0) - (IF stage[r] = "translate" THEN 1 ELSE 0)
    BY <1>1, <2>1, InsideMoves
  <2>3. slots + Cardinality(Inside("translate")) = Concurrency
    BY DEF OrchInv
  <2> QED
    BY <1>1, <2>2, <2>3
<1>4. Cardinality(Inside("select"))' = (IF gate' THEN 0 ELSE 1)
  <2>1. "select" \in Stages
    BY DEF Stages
  <2>2. /\ stage[r] = "select" => Cardinality(Inside("select")) > 0
        /\ Cardinality(Inside("select"))' = Cardinality(Inside("select"))
             + (IF to = "select" THEN 1 ELSE 0) - (IF stage[r] = "select" THEN 1 ELSE 0)
    BY <1>1, <2>1, InsideMoves
  <2>3. Cardinality(Inside("select")) = (IF gate THEN 0 ELSE 1)
    BY DEF OrchInv
  <2> QED
    BY <2>2, <2>3
<1>5. closing' = "closed" => Active' = {}
  BY DEF OrchInv, Active
<1> QED
  BY <1>1, <1>2, <1>3, <1>4, <1>5 DEF OrchInv

(* Every step keeps it. *)
LEMMA NextOrch ==
  ASSUME IsFiniteSet(Requests)
  PROVE  OrchInv /\ [OrchNext]_orchVars => OrchInv'
<1> SUFFICES ASSUME OrchInv, [OrchNext]_orchVars PROVE OrchInv'
  OBVIOUS
<1>1. /\ gate \in BOOLEAN /\ slots \in Nat
      /\ {"idle", "gate", "slot", "select", "translate"} \subseteq Stages
  BY DEF OrchInv, Stages
<1>2. ASSUME NEW r \in Requests, NEW k \in {"semantic", "same", "correct", "translate"}, OrchBegin(r, k)
      PROVE  OrchInv'
  <2>1. PICK to \in {"slot", "gate"} : stage' = [stage EXCEPT ![r] = to]
    BY <1>2 DEF OrchBegin
  <2>2. stage[r] = "idle" /\ closing = "no" /\ UNCHANGED <<slots, gate, closing>>
    BY <1>2 DEF OrchBegin
  <2>3. slots' = slots + (IF stage[r] = "translate" THEN 1 ELSE 0)
                       - (IF to = "translate" THEN 1 ELSE 0)
    BY <1>1, <2>1, <2>2
  <2>4. gate' \in BOOLEAN /\ (gate' <=> gate \/ stage[r] = "select")
    BY <1>1, <2>2
  <2>5. to \in Stages /\ to # "translate" /\ to # "select"
    BY <1>1, <2>1
  <2> QED
    BY <2>1, <2>2, <2>3, <2>4, <2>5, MoveOrch
<1>3. ASSUME NEW r \in Requests, OrchEnter(r) PROVE OrchInv'
  <2>1. CASE stage[r] = "gate" /\ gate /\ Move(r, "select") /\ gate' = FALSE /\ UNCHANGED slots
    <3>1. /\ stage' = [stage EXCEPT ![r] = "select"] /\ closing' = closing
          /\ stage[r] = "gate" /\ gate /\ ~gate' /\ gate' \in BOOLEAN
      BY <1>3, <2>1 DEF OrchEnter, Move
    <3>2. slots' = slots + (IF stage[r] = "translate" THEN 1 ELSE 0)
                         - (IF "select" = "translate" THEN 1 ELSE 0)
      BY <1>1, <2>1
    <3> QED
      BY <1>1, <3>1, <3>2, MoveOrch
  <2>2. CASE stage[r] = "slot" /\ slots > 0 /\ Move(r, "translate") /\ slots' = slots - 1 /\ UNCHANGED gate
    <3>1. /\ stage' = [stage EXCEPT ![r] = "translate"] /\ closing' = closing
          /\ stage[r] = "slot" /\ slots > 0
      BY <1>3, <2>2 DEF OrchEnter, Move
    <3>2. slots' = slots + (IF stage[r] = "translate" THEN 1 ELSE 0)
                         - (IF "translate" = "translate" THEN 1 ELSE 0)
      BY <1>1, <2>2
    <3>3. gate' \in BOOLEAN /\ (gate' <=> gate \/ stage[r] = "select")
      BY <1>1, <2>2
    <3> QED
      BY <1>1, <3>1, <3>2, <3>3, MoveOrch
  <2> QED
    BY <1>3, <2>1, <2>2 DEF OrchEnter
<1>4. ASSUME NEW r \in Requests, OrchSelected(r) PROVE OrchInv'
  <2>1. PICK to \in {"idle", "slot", "gate"} : stage' = [stage EXCEPT ![r] = to]
    BY <1>4 DEF OrchSelected, Move
  <2>2. stage[r] = "select" /\ gate' /\ gate' \in BOOLEAN /\ UNCHANGED <<slots, closing>>
    BY <1>4 DEF OrchSelected
  <2>3. slots' = slots + (IF stage[r] = "translate" THEN 1 ELSE 0)
                       - (IF to = "translate" THEN 1 ELSE 0)
    BY <1>1, <2>1, <2>2
  <2>4. to \in Stages /\ to # "translate" /\ to # "select"
    BY <1>1, <2>1
  <2> QED
    BY <2>1, <2>2, <2>3, <2>4, MoveOrch
<1>5. ASSUME NEW r \in Requests, OrchTranslated(r) PROVE OrchInv'
  <2>1. /\ stage[r] = "translate" /\ stage' = [stage EXCEPT ![r] = "idle"]
        /\ slots' = slots + 1 - 0 /\ gate' = gate /\ closing' = closing
    BY <1>1, <1>5 DEF OrchTranslated, Move
  <2> QED
    BY <1>1, <2>1, MoveOrch
<1>6. ASSUME NEW r \in Requests, OrchFails(r) PROVE OrchInv'
  <2>1. /\ stage[r] # "idle" /\ stage' = [stage EXCEPT ![r] = "idle"] /\ closing' = closing
        /\ slots' = slots + (IF stage[r] = "translate" THEN 1 ELSE 0) - 0
    BY <1>1, <1>6 DEF OrchFails, Unwind, Move, Active
  <2>2. gate' \in BOOLEAN /\ (gate' <=> gate \/ stage[r] = "select")
    BY <1>1, <1>6 DEF OrchFails, Unwind
  <2> QED
    BY <1>1, <2>1, <2>2, MoveOrch
<1>7. CASE OrchClose
  BY <1>7 DEF OrchClose, OrchInv, Inside, Active
<1>8. CASE UNCHANGED orchVars
  BY <1>8 DEF orchVars, OrchInv, Inside, Active
<1> QED
  BY <1>2, <1>3, <1>4, <1>5, <1>6, <1>7, <1>8 DEF OrchNext

(* The invariant counts slots and gate. *)
LEMMA ConservedByPlaces == OrchInv => SlotsConserved
<1> SUFFICES ASSUME OrchInv PROVE SlotsConserved
  OBVIOUS
<1>1. closing = "closed" => Inside("translate") = {} /\ Inside("select") = {}
  BY DEF OrchInv, Active, Inside
<1>2. Cardinality({}) = 0
  BY FS_EmptySet
<1> QED
  BY <1>1, <1>2 DEF OrchInv, SlotsConserved, Inside

(* Whatever ends a request, at whatever stage, no translation slot is lost *)
(* or duplicated and the selector's gate is never held by nobody or by     *)
(* two, also when a request holds it twice, for any number of requests and *)
(* slots.                                                                  *)
THEOREM SlotsAreConserved ==
  ASSUME IsFiniteSet(Requests), Concurrency \in Nat
  PROVE  OrchSpec => []SlotsConserved
<1>1. OrchInit => OrchInv
  BY InitOrch
<1>2. OrchInv /\ [OrchNext]_orchVars => OrchInv'
  BY NextOrch
<1>3. OrchInv => SlotsConserved
  BY ConservedByPlaces
<1> QED
  BY <1>1, <1>2, <1>3, PTL DEF OrchSpec

(* However the reader of an answer and the requests interleave, what is    *)
(* shown is sound and nothing leaks a slot or the gate.                    *)
THEOREM ProvidersAreSound ==
  ASSUME IsFiniteSet(Requests), Concurrency \in Nat
  PROVE  ProvidersSpec => []ProvidersSound
<1>1. ProvidersInit => StreamInv /\ OrchInv
  BY StreamStarts, InitOrch DEF ProvidersInit
<1>2. StreamInv /\ OrchInv /\ [ProvidersNext]_<<streamVars, orchVars>> => StreamInv' /\ OrchInv'
  BY StreamKeeps, NextOrch DEF ProvidersNext
<1>3. StreamInv /\ OrchInv => ProvidersSound
  BY SoundByGuard, ConservedByPlaces DEF ProvidersSound
<1> QED
  BY <1>1, <1>2, <1>3, PTL DEF ProvidersSpec
=============================================================================
