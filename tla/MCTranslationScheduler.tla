----------------------- MODULE MCTranslationScheduler -----------------------
(* Small instances of TranslationScheduler for TLC.                         *)
EXTENDS TranslationScheduler

(* One session submits partials and finals of every segment and revision,  *)
(* the others one partial, enough to compete with it for the workers.      *)
Varied == CHOOSE s \in Sessions : TRUE
Plain == CHOOSE a \in Segments : TRUE
Offered ==
  {j \in Job : j.session = Varied \/ (j.segment = Plain /\ j.revision = 1 /\ ~j.final)}

(* Deques!Filter is SelectSeq, over every sequence of up to five items.     *)
ASSUME FilterIsSelectSeq ==
  \A q \in UNION {[1 .. n -> 1 .. 3] : n \in 0 .. 5}, kept \in SUBSET (1 .. 3) :
    Filter(q, LAMBDA x : x \in kept) = SelectSeq(q, LAMBDA x : x \in kept)
=============================================================================
