------------------------ MODULE OrchestratedProvider ------------------------
(***************************************************************************)
(* myvote_engine/orchestrated_translation.py: a selector model that is     *)
(* used by one request at a time and translation slots that requests share.*)
(* A semantic request selects a prefix and then has it translated or, when *)
(* its two languages are the same, corrected by the selector model again;  *)
(* its stages have deadlines of their own.  Requests that correct or       *)
(* review text use the selector only, plain translations a slot only.      *)
(*                                                                         *)
(* A request is one task.  Whatever ends it early (its deadline, a         *)
(* cancellation, an error of the server, an unusable answer) unwinds its   *)
(* contexts; a cancelled request may first go on for a while.              *)
(***************************************************************************)
EXTENDS ProviderStream

CONSTANTS Requests, Concurrency

VARIABLES
  stage,      \* idle, gate, select (the selector model works), slot, translate
  kind,       \* semantic, same (semantic in one language), correct or translate
  slots,      \* _slots: free translation slots
  gate,       \* whether _orchestrator_gate is free
  closing     \* no, waiting or closed: aclose()

orchVars == <<stage, kind, slots, gate, closing>>

Active == {r \in Requests : stage[r] # "idle"}   \* _active_tasks

OrchInit ==
  /\ stage = [r \in Requests |-> "idle"] /\ kind = [r \in Requests |-> "translate"]
  /\ slots = Concurrency /\ gate = TRUE
  /\ closing = "no"

Move(r, place) ==
  /\ stage' = [stage EXCEPT ![r] = place]
  /\ kind' = IF place = "idle" THEN [kind EXCEPT ![r] = "translate"] ELSE kind

(* stream(), semantic_stream() and revision_stream(): _scope admits it. *)
OrchBegin(r, k) ==
  /\ stage[r] = "idle" /\ closing = "no"
  /\ stage' = [stage EXCEPT ![r] = IF k = "translate" THEN "slot" ELSE "gate"]
  /\ kind' = [kind EXCEPT ![r] = k]
  /\ UNCHANGED <<slots, gate, closing>>

(* The gate or a slot is obtained. *)
OrchEnter(r) ==
  /\ \/ stage[r] = "gate" /\ gate /\ Move(r, "select") /\ gate' = FALSE /\ UNCHANGED slots
     \/ /\ stage[r] = "slot" /\ slots > 0
        /\ Move(r, "translate") /\ slots' = slots - 1 /\ UNCHANGED gate
  /\ UNCHANGED closing

(* The selector answers: text, "wait", or a prefix.  The gate is released, *)
(* and _source_stream takes the prefix to a slot, or waits for the gate    *)
(* once more: text_operation_for makes one language a correction.          *)
OrchSelected(r) ==
  /\ stage[r] = "select" /\ gate' = TRUE
  /\ \/ Move(r, "idle")
     \/ kind[r] = "semantic" /\ Move(r, "slot")
     \/ /\ kind[r] = "same" /\ kind' = [kind EXCEPT ![r] = "correct"]
        /\ stage' = [stage EXCEPT ![r] = "gate"]
  /\ UNCHANGED <<slots, closing>>

(* The translation is complete. *)
OrchTranslated(r) ==
  /\ stage[r] = "translate"
  /\ Move(r, "idle") /\ slots' = slots + 1
  /\ UNCHANGED <<gate, closing>>

(* The contexts of a request that ends early. *)
Unwind(r) ==
  /\ gate' = (gate \/ stage[r] = "select")
  /\ slots' = slots + (IF stage[r] = "translate" THEN 1 ELSE 0)

(* A deadline, an error, an unusable answer or a cancellation. *)
OrchFails(r) ==
  /\ r \in Active
  /\ Unwind(r) /\ Move(r, "idle")
  /\ UNCHANGED closing

(* aclose(): the active requests are cancelled and waited for. *)
OrchClose ==
  /\ \/ closing = "no" /\ closing' = "waiting"
     \/ closing = "waiting" /\ Active = {} /\ closing' = "closed"
  /\ UNCHANGED <<stage, kind, slots, gate>>

OrchNext ==
  \/ \E r \in Requests :
       \/ \E k \in {"semantic", "same", "correct", "translate"} : OrchBegin(r, k)
       \/ OrchEnter(r) \/ OrchSelected(r) \/ OrchTranslated(r) \/ OrchFails(r)
  \/ OrchClose

OrchSpec == OrchInit /\ [][OrchNext]_orchVars

-----------------------------------------------------------------------------
(* No order of timeouts, failures, cancellations and close leaks or        *)
(* duplicates a slot or the gate, and a closed provider holds nothing.     *)
SlotsConserved ==
  /\ slots + Cardinality({r \in Requests : stage[r] = "translate"}) = Concurrency
  /\ Cardinality({r \in Requests : stage[r] = "select"}) = (IF gate THEN 0 ELSE 1)
  /\ closing = "closed" => gate /\ slots = Concurrency

(* The provider with the reader of one of its answers: the two share no    *)
(* state, the reader only ends the stage it is read in.                    *)
ProvidersInit == StreamInit /\ OrchInit
ProvidersNext ==
  \/ StreamNext /\ UNCHANGED orchVars
  \/ OrchNext /\ UNCHANGED streamVars
ProvidersSpec == ProvidersInit /\ [][ProvidersNext]_<<streamVars, orchVars>>

(* Answers are shown soundly, and nothing leaks a slot or the gate.        *)
ProvidersSound == ShownIsSound /\ SlotsConserved
=============================================================================
