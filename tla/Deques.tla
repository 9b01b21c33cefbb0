------------------------------- MODULE Deques -------------------------------
(***************************************************************************)
(* The one Python idiom the services of this repository use on their       *)
(* queues that the Sequences module has no provable operator for:          *)
(*                                                                         *)
(*     deque(item for item in queue if keep(item))                         *)
(*                                                                         *)
(* SelectSeq says the same, but its recursive definition is opaque to the  *)
(* proof system.  KeepAt builds the result from the set of positions kept, *)
(* with cardinalities instead of recursion; MCTranslationScheduler         *)
(* compares the two on small sequences.                                    *)
(***************************************************************************)
EXTENDS Integers, Sequences, FiniteSets, Functions

(* How many of the positions in keep are at most i. *)
Rank(keep, i) == Cardinality({j \in keep : j <= i})

(* The k-th smallest member of keep. *)
Nth(keep, k) == CHOOSE i \in keep : Rank(keep, i) = k

(* The items of q at the positions in keep, in their order in q. *)
KeepAt(q, keep) == [k \in 1 .. Cardinality(keep) |-> q[Nth(keep, k)]]

(* The items of q that satisfy Test, in their order in q. *)
Filter(q, Test(_)) == KeepAt(q, {i \in DOMAIN q : Test(q[i])})
=============================================================================
