---------------------------- MODULE BoundaryLanes ----------------------------
(***************************************************************************)
(* scripts/semantic_boundary_pipeline.py, NaturalBoundaryPipeline with     *)
(* quality_first: which lane a stable word joins.  A lane makes no claim   *)
(* about who speaks; it may only grow while nothing speaks against one     *)
(* voice.  The speaker evidence about a word arrives late and changes.     *)
(*                                                                         *)
(* An accept() carries at most one new stable word, numbered in order; a   *)
(* lane is named by the word that opened it.  The source's track, epoch    *)
(* and language are one fixed scope.                                       *)
(***************************************************************************)
EXTENDS Integers, FiniteSets

CONSTANTS Voices, Nobody, Adverse, MaxWords, MaxLaneSegments, MaxGens

VARIABLES
  lnEv,    \* evidence about each word: a voice, Nobody (benign) or Adverse
  lnEvAt,  \* history: the evidence when the word joined its lane
  lnLane,  \* the lane of each word, 0 before it has one
  lnGenOf, \* history: the generation of each word
  lnWords, \* words so far
  lnLeft,  \* words that left their lane's buffer
  lnSoft, lnHard, \* words that carry a boundary
  lnGen,   \* _boundary_generation
  lnCtx,   \* last, turn, anchor, adverse, cont, end of the pipeline
  lnSeg,   \* the segment being accepted
  lnView   \* its preview: turn, route, carried endpoint, final window seen

lnVars == <<lnEv, lnEvAt, lnLane, lnGenOf, lnWords, lnLeft, lnSoft, lnHard, lnGen, lnCtx, lnSeg, lnView>>

Words == 1 .. MaxWords
Broken == [last |-> 0, turn |-> 0, anchor |-> Nobody, adverse |-> FALSE, cont |-> 0, end |-> {}]
Fresh == [turn |-> 0, route |-> 0, carried |-> {}, ended |-> TRUE]

LnInit ==
  /\ lnEv = [w \in Words |-> Nobody] /\ lnEvAt = lnEv
  /\ lnLane = [w \in Words |-> 0] /\ lnGenOf = lnLane
  /\ lnWords = 0 /\ lnLeft = {} /\ lnSoft = {} /\ lnHard = {}
  /\ lnGen = 0 /\ lnCtx = Broken /\ lnSeg = 0 /\ lnView = Fresh

Pending(r) == {w \in 1 .. lnWords : lnLane[w] = r /\ w \notin lnLeft}
LastOf(ws) == {w \in ws : \A v \in ws : v <= w}
Lanes == {lnLane[w] : w \in 1 .. lnWords}

(* Variant bug: only the words still in the buffer are asked. *)
ConfirmedPending(r, ev, anchor) == ({lnEv[v] : v \in Pending(r)} \cup {ev}) \ {Nobody, Adverse}

(* _compatible_continuity: everybody the lane and the new word speak for. *)
ConfirmedVoices(r, ev, anchor) == ({lnEv[v] : v \in Pending(r)} \cup {ev, anchor}) \ {Nobody, Adverse}
Compatible(r, ev, anchor) ==
  /\ ev # Adverse /\ \A v \in Pending(r) : lnEv[v] # Adverse
  /\ Cardinality(ConfirmedVoices(r, ev, anchor)) <= 1
AnchorOf(r, ev, anchor) ==
  IF ConfirmedVoices(r, ev, anchor) = {} THEN Nobody
  ELSE CHOOSE v \in ConfirmedVoices(r, ev, anchor) : TRUE

(* accept(), first half: a new generation breaks every lane off, and a new *)
(* segment goes on with the turn that a full window interrupted.           *)
Entered(g, new, joined) ==
  LET ctx == IF g # lnGen THEN Broken ELSE lnCtx
  IN  IF ~new THEN [ctx |-> ctx, view |-> lnView]
      ELSE [ctx |-> [ctx EXCEPT !.cont = 0, !.end = {}],
            view |-> [turn |-> IF joined /\ ctx.cont # 0 THEN ctx.cont ELSE lnSeg + 1,
                      route |-> 0, carried |-> ctx.end, ended |-> FALSE]]

(* The endpoint before the first word is withdrawn: it is still the end of *)
(* its lane, soft, near, and no evidence speaks against one voice.         *)
Resumes(ctx, view, ev, near) ==
  \E e \in view.carried :
    /\ near /\ e.route = ctx.last /\ e.turn = ctx.turn
    /\ Pending(e.route) # {} /\ LastOf(Pending(e.route)) = {e.word}
    /\ e.word \in lnSoft \ lnHard
    /\ Compatible(e.route, ev, e.anchor)

(* The word joins the lane of the word before it. *)
Reuses(ctx, turn, ev) ==
  /\ ctx.last # 0 /\ ctx.turn = turn
  /\ IF ev = Adverse THEN ctx.adverse
     ELSE ~ctx.adverse /\ Compatible(ctx.last, ev, ctx.anchor)

(* accept(), the word: its lane, and a boundary where the lane changes. *)
Placed(in, w, ev, near) ==
  LET back == Resumes(in.ctx, in.view, ev, near)
      e == CHOOSE x \in in.view.carried : TRUE
      ctx == IF back THEN [in.ctx EXCEPT !.anchor = AnchorOf(e.route, ev, e.anchor)] ELSE in.ctx
      turn == IF back THEN e.turn ELSE in.view.turn
      reuse == Reuses(ctx, turn, ev)
      route == IF reuse THEN ctx.last ELSE w
      own == IF ev \in Voices THEN ev ELSE Nobody
  IN  [ctx |-> [ctx EXCEPT !.last = route, !.turn = turn, !.adverse = ev = Adverse,
                           !.anchor = IF ~reuse THEN own
                                      ELSE IF ev = Adverse THEN Nobody
                                      ELSE AnchorOf(ctx.last, ev, ctx.anchor)],
       view |-> [turn |-> turn, route |-> route, carried |-> {}, ended |-> FALSE],
       soft |-> (lnSoft \ (IF back THEN {e.word} ELSE {}))
                  \cup (IF route # ctx.last \/ ctx.turn # turn THEN LastOf(Pending(ctx.last)) ELSE {})]

(* accept(), the end of the segment by its reason.  `mine`: the words that *)
(* the lane of this preview holds now.                                     *)
EndedCtx(ctx, view, reason, mine) ==
  CASE reason = "max_window" -> [ctx EXCEPT !.cont = view.turn, !.end = {}]
    [] reason = "endpoint" ->
         [ctx EXCEPT !.cont = 0,
                     !.end = IF view.route # 0 /\ view.route = ctx.last /\ mine # {}
                             THEN {[turn |-> view.turn, route |-> view.route, anchor |-> ctx.anchor,
                                    word |-> CHOOSE w \in LastOf(mine) : TRUE]}
                             ELSE {}]
    [] reason \in {"transcript_inactivity", "stop"} -> [ctx EXCEPT !.cont = 0, !.end = {}]
    [] OTHER -> ctx

Accept(g, new, joined, word, ev, near, reason) ==
  LET in == Entered(g, new, joined)
      w == lnWords + 1
      out == IF word THEN Placed(in, w, ev, near)
             ELSE [ctx |-> in.ctx, view |-> in.view, soft |-> lnSoft]
      held(r) == Pending(r) \cup (IF word /\ r = out.view.route THEN {w} ELSE {})
      all == UNION {LastOf(held(r)) : r \in Lanes \cup {out.view.route}}
  IN  /\ lnView.ended => new
      /\ new => lnView.ended \/ g # lnGen \* a lost final window is a hole
      /\ lnSeg' = IF new THEN lnSeg + 1 ELSE lnSeg
      /\ lnGen' = g
      /\ lnWords' = IF word THEN w ELSE lnWords
      /\ lnLane' = IF word THEN [lnLane EXCEPT ![w] = out.view.route] ELSE lnLane
      /\ lnEvAt' = IF word THEN [lnEvAt EXCEPT ![w] = ev] ELSE lnEvAt
      /\ lnEv' = IF word THEN [lnEv EXCEPT ![w] = ev] ELSE lnEv
      /\ lnGenOf' = IF word THEN [lnGenOf EXCEPT ![w] = g] ELSE lnGenOf
      /\ lnCtx' = EndedCtx(out.ctx, out.view, reason, held(out.view.route))
      /\ lnView' = [out.view EXCEPT !.ended = reason # "live"]
      /\ lnSoft' = out.soft \cup (IF reason = "endpoint" THEN LastOf(held(out.view.route)) ELSE {})
      /\ lnHard' = lnHard
           \cup (IF g # lnGen THEN lnSoft \cup UNION {LastOf(Pending(r)) : r \in Lanes} ELSE {})
           \cup (CASE reason = "stop" -> all \cup out.soft
                   [] reason = "transcript_inactivity" -> LastOf(held(out.view.route))
                   [] OTHER -> {})
      /\ UNCHANGED lnLeft

AcceptsWord ==
  \E g \in {lnGen, lnGen + 1}, new, word \in BOOLEAN, ev \in Voices \cup {Nobody, Adverse},
     reason \in {"live", "max_window", "endpoint", "transcript_inactivity", "stop"} :
    \E joined, near \in BOOLEAN :
      /\ g <= MaxGens /\ (new => lnSeg < MaxLaneSegments) /\ (word => lnWords < MaxWords)
      /\ (~word => ev = Nobody /\ ~near) /\ (~new => ~joined) \* only used then
      /\ Accept(g, new, joined, word, ev, near, reason)

(* The speaker mapper learns more about a word that waits; nobody asks     *)
(* about the others again, and their evidence is forgotten.                *)
EvidenceArrives ==
  \E w \in 1 .. lnWords, e \in Voices \cup {Adverse} :
    /\ w \notin lnLeft /\ lnEv[w] = Nobody
    /\ lnEv' = [lnEv EXCEPT ![w] = e]
    /\ UNCHANGED <<lnEvAt, lnLane, lnGenOf, lnWords, lnLeft, lnSoft, lnHard, lnGen, lnCtx, lnSeg, lnView>>

(* A lane's coordinator hands a prefix of its words over. *)
WordsLeave ==
  \E r \in Lanes : \E w \in Pending(r) :
    /\ lnLeft' = lnLeft \cup {v \in Pending(r) : v <= w}
    /\ lnSoft' = lnSoft \ lnLeft' /\ lnHard' = lnHard \ lnLeft'
    /\ lnEv' = [v \in Words |-> IF v \in lnLeft' THEN Nobody ELSE lnEv[v]]
    /\ UNCHANGED <<lnEvAt, lnLane, lnGenOf, lnWords, lnGen, lnCtx, lnSeg, lnView>>

LnNext == AcceptsWord \/ EvidenceArrives \/ WordsLeave
LnSpec == LnInit /\ [][LnNext]_lnVars

(* Words of one lane were never known, when they joined it, to come from   *)
(* two voices, from an overlap as well as from one voice, or from both     *)
(* sides of a hole in the sound: also across a withdrawn endpoint, a       *)
(* continued window and words that have left the buffer since.             *)
LanesHoldOneVoice ==
  \A u, v \in 1 .. lnWords : lnLane[u] = lnLane[v] =>
    /\ {lnEvAt[u], lnEvAt[v]} \subseteq Voices => lnEvAt[u] = lnEvAt[v]
    /\ lnEvAt[u] = Adverse <=> lnEvAt[v] = Adverse
    /\ lnGenOf[u] = lnGenOf[v]
=============================================================================
