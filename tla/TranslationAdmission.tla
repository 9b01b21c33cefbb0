------------------------ MODULE TranslationAdmission ------------------------
(***************************************************************************)
(* myvote_engine/priority_translation.py: live requests and corrections of *)
(* one provider take turns.  A caller is a request that a wrapper streams  *)
(* through acquire(); semantic_stream always asks as a live request.       *)
(*                                                                         *)
(* acquire() suspends only in Event.wait with a timeout of 50 ms and looks *)
(* at the condition again whenever it resumes.  A caller may therefore     *)
(* look again at any time, with or without a set() in between, and the     *)
(* event itself carries no information the model would need.               *)
(***************************************************************************)
EXTENDS Integers, FiniteSets

CONSTANTS
  Callers,     \* requests that may be in the wrapper at once
  MaxPrimary   \* max_primary

(* __init__ refuses capacities outside 1..4. *)
ASSUME AdmissionAssumption == IsFiniteSet(Callers) /\ MaxPrimary \in 1 .. 4

VARIABLES
  at,              \* where each caller is: idle, waiting, holding
  secondary,       \* whether its request is a correction
  busy,            \* _busy
  secondaryBusy,   \* _secondary_busy
  primaryWaiters,  \* _primary_waiters, which counts live holders too
  pending          \* what primary_pending() answers: a live job is on its way

vars == <<at, secondary, busy, secondaryBusy, primaryWaiters, pending>>

Holders == {c \in Callers : at[c] = "holding"}
Corrections == {c \in Holders : secondary[c]}
Live == {c \in Callers : at[c] # "idle" /\ ~secondary[c]}

Init ==
  /\ at = [c \in Callers |-> "idle"]
  /\ secondary = [c \in Callers |-> FALSE]
  /\ busy = 0
  /\ secondaryBusy = FALSE
  /\ primaryWaiters = 0
  /\ pending = FALSE

(* Variant bug: a live request does not look at the correction in work.    *)
BlockedByCapacityOnly(correction, waiters) ==
  \/ busy >= MaxPrimary
  \/ correction /\ (busy > 0 \/ waiters > 0 \/ pending)

(* The condition of the loop in acquire(). *)
Blocked(correction, waiters) ==
  \/ secondaryBusy
  \/ busy >= MaxPrimary
  \/ correction /\ (busy > 0 \/ waiters > 0 \/ pending)

(* acquire() after the loop, for a request that is a correction or not. *)
Admit(c, correction) ==
  /\ at' = [at EXCEPT ![c] = "holding"]
  /\ busy' = busy + 1
  /\ secondaryBusy' = correction

(* acquire() up to its first suspension: it joins the line and looks once. *)
Enter(c, correction) ==
  LET waiters == IF correction THEN primaryWaiters ELSE primaryWaiters + 1
  IN  /\ at[c] = "idle"
      /\ secondary' = [secondary EXCEPT ![c] = correction]
      /\ primaryWaiters' = waiters
      /\ \/ ~Blocked(correction, waiters) /\ Admit(c, correction)
         \/ /\ Blocked(correction, waiters)
            /\ at' = [at EXCEPT ![c] = "waiting"]
            /\ UNCHANGED <<busy, secondaryBusy>>
      /\ UNCHANGED pending

(* The event or the timeout resumes the loop and the way is free.  A look  *)
(* that finds the way blocked changes nothing.                             *)
Recheck(c) ==
  /\ at[c] = "waiting" /\ ~Blocked(secondary[c], primaryWaiters)
  /\ Admit(c, secondary[c])
  /\ UNCHANGED <<secondary, primaryWaiters, pending>>

(* The finally block: _primary_waiters without c. *)
OutOfLine(c) == IF secondary[c] THEN primaryWaiters ELSE primaryWaiters - 1

(* The finally block: _secondary_busy without c. *)
MarkWithout(c) == secondaryBusy /\ ~(at[c] = "holding" /\ secondary[c])

(* The finally block of acquire(): the request ended, failed or was        *)
(* cancelled, while it was streaming or still in line.                     *)
Leave(c) ==
  /\ at[c] # "idle"
  /\ at' = [at EXCEPT ![c] = "idle"]
  /\ secondary' = [secondary EXCEPT ![c] = FALSE]
  /\ primaryWaiters' = OutOfLine(c)
  /\ busy' = IF at[c] = "holding" THEN busy - 1 ELSE busy
  /\ secondaryBusy' = MarkWithout(c)
  /\ UNCHANGED pending

(* The translator's queue and the semantic units that primary_pending()    *)
(* reads fill and drain on their own.                                      *)
PendingChanges ==
  /\ pending' = ~pending
  /\ UNCHANGED <<at, secondary, busy, secondaryBusy, primaryWaiters>>

Next ==
  \/ \E c \in Callers : \E correction \in BOOLEAN : Enter(c, correction)
  \/ \E c \in Callers : Recheck(c) \/ Leave(c)
  \/ PendingChanges

(* Every 50 ms a caller in line looks again, and a stream that holds the   *)
(* provider ends.  Nothing makes a caller in line give up.                 *)
Fairness ==
  \A c \in Callers : WF_vars(Recheck(c)) /\ WF_vars(at[c] = "holding" /\ Leave(c))

Spec == Init /\ [][Next]_vars /\ Fairness

-----------------------------------------------------------------------------
TypeOK ==
  /\ at \in [Callers -> {"idle", "waiting", "holding"}]
  /\ secondary \in [Callers -> BOOLEAN]
  /\ busy \in Nat /\ primaryWaiters \in Nat
  /\ secondaryBusy \in BOOLEAN /\ pending \in BOOLEAN

(* The counters that acquire() decides on agree with the requests they     *)
(* stand for, whichever way the requests left.                             *)
CountsAgree ==
  /\ busy = Cardinality(Holders)
  /\ secondaryBusy = (Corrections # {})
  /\ primaryWaiters = Cardinality(Live)

(* A correction never streams beside another request, and live requests    *)
(* never exceed the capacity of the provider.                              *)
Exclusive ==
  /\ \A c \in Corrections : Holders = {c}
  /\ Cardinality(Holders) <= MaxPrimary

(* No correction begins while a live request is in line or streaming, or   *)
(* while a live job is on its way.                                         *)
LiveFirst ==
  [][Corrections' \subseteq Corrections \/ (Live = {} /\ ~pending)]_vars

=============================================================================
