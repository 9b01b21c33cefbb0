------------------------- MODULE TranslationService -------------------------
(***************************************************************************)
(* What TranslationScheduler promises its callers, with no workers, no     *)
(* ready queue and no condition variable.  Every session has a queue of    *)
(* jobs and one server.  The server begins the oldest job when it is idle, *)
(* delivers its outcome unless the job was voided meanwhile, and is idle   *)
(* again only after the delivery is over.  Finals leave a queue only to be *)
(* served or by an explicit retirement.  A job that waits is begun.        *)
(***************************************************************************)
EXTENDS Integers, Sequences, FiniteSets, Functions, Deques

CONSTANTS Sessions, Job, NoJob

VARIABLES
  queue,     \* queue[s]: the accepted jobs of s that are not begun
  serving,   \* serving[s]: what the server of s does, and with which job
  open       \* no shutdown yet

vars == <<queue, serving, open>>

Idle == [phase |-> "idle", job |-> NoJob]

(* A job in work loses the right to be delivered; one past that keeps it. *)
Voided(x) == IF x.phase = "working" THEN [x EXCEPT !.phase = "void"] ELSE x

(* new is old without some of its jobs, none of which satisfies Keep. *)
Thinned(old, new, Keep(_)) ==
  \E kept \in SUBSET DOMAIN old :
     /\ new = KeepAt(old, kept)
     /\ \A i \in DOMAIN old \ kept : ~Keep(old[i])

WithoutAt(q, i) == SubSeq(q, 1, i - 1) \o SubSeq(q, i + 1, Len(q))

Init ==
  /\ queue = [s \in Sessions |-> <<>>]
  /\ serving = [s \in Sessions |-> Idle]
  /\ open = TRUE

(* j enters its queue; only partials may leave to make room for it, and    *)
(* only a partial in work may be voided by it.                             *)
Accept(s) ==
  /\ open /\ UNCHANGED open
  /\ \E i \in DOMAIN queue'[s] :
       Thinned(queue[s], WithoutAt(queue'[s], i), LAMBDA e : e.final)
  /\ \A t \in Sessions \ {s} : queue'[t] = queue[t]
  /\ \/ UNCHANGED serving
     \/ /\ serving[s].phase = "working" /\ ~serving[s].job.final
        /\ serving' = [serving EXCEPT ![s] = Voided(serving[s])]

(* The caller gives up some jobs of s. *)
Retire(s) ==
  /\ Thinned(queue[s], queue'[s], LAMBDA e : FALSE)
  /\ \A t \in Sessions \ {s} : queue'[t] = queue[t]
  /\ \/ UNCHANGED serving
     \/ serving' = [serving EXCEPT ![s] = Voided(serving[s])]
  /\ UNCHANGED open

Begin(s) ==
  /\ serving[s] = Idle /\ queue[s] # <<>>
  /\ queue' = [queue EXCEPT ![s] = Tail(queue[s])]
  /\ serving' = [serving EXCEPT ![s] = [phase |-> "working", job |-> Head(queue[s])]]
  /\ UNCHANGED open

Phase(s, from, to) ==
  /\ serving[s].phase \in from
  /\ serving' = [serving EXCEPT ![s].phase = to]
  /\ UNCHANGED <<queue, open>>

Deliver(s) == Phase(s, {"working"}, "delivering")
Complete(s) == Phase(s, {"void", "delivering"}, "over")

BecomeIdle(s) ==
  /\ serving[s].phase = "over"
  /\ serving' = [serving EXCEPT ![s] = Idle]
  /\ UNCHANGED <<queue, open>>

Serve(s) == Begin(s) \/ Deliver(s) \/ Complete(s) \/ BecomeIdle(s)

Shutdown ==
  /\ open' = FALSE
  /\ queue' = [s \in Sessions |-> <<>>]
  /\ serving' = [s \in Sessions |-> Voided(serving[s])]

Next ==
  \/ \E s \in Sessions : Accept(s) \/ Retire(s) \/ Serve(s)
  \/ Shutdown

Spec == Init /\ [][Next]_vars /\ \A s \in Sessions : WF_vars(Serve(s))
=============================================================================
