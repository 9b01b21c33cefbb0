------------------------ MODULE SemanticRouterProofs ------------------------
(***************************************************************************)
(* ReturnedOnce and LaneOrder of SemanticRouter, for any set of lanes and  *)
(* any limits.  A unit is in one place until it is returned: in the buffer *)
(* of its lane, in the hands of the worker that waits for the lock, or     *)
(* with the append that was refused.                                       *)
(***************************************************************************)
EXTENDS SemanticRouter, DequesProofs, SequenceTheorems

RouterTypes ==
  /\ next \in Nat \ {0} /\ open \subseteq Lanes /\ resetting \subseteq Lanes
  /\ returned \in [Units -> {"no", "commit", "failure"}]
  /\ DOMAIN laneOf = Units
  /\ buf \in [Lanes -> Seq(Units)] /\ active \in [Lanes -> Seq(Units)]
  /\ refused \in [Lanes -> Seq(Units)]
  /\ worker \in [Lanes -> {"none", "loop", "query", "lock", "lockfail", "call"}]
  /\ lock \in [Lanes -> {"free", "worker", "append"}]

(* A unit of the lane that nobody has got yet. *)
Owned(l, u) == u < next /\ laneOf[u] = l /\ returned[u] = "no"

(* The same of the next state. *)
OwnedNext(l, u) == u < next' /\ laneOf'[u] = l /\ returned'[u] = "no"

(* Buffers hold their lane's units in the order of their arrival. *)
Buffered ==
  \A l \in Lanes :
    /\ \A i \in 1 .. Len(buf[l]) : Owned(l, buf[l][i])
    /\ \A i, j \in 1 .. Len(buf[l]) : i < j => buf[l][i] < buf[l][j]

(* A request was made of the first units, and no seal came inside it. *)
Asked ==
  \A l \in Lanes : worker[l] = "query" =>
    /\ Len(active[l]) \in 1 .. Len(buf[l])
    /\ \A i \in 1 .. Len(active[l]) : active[l][i] = buf[l][i]
    /\ \A i \in 1 .. Len(active[l]) - 1 : active[l][i] \notin sealed

(* A worker waits for the lock with units that are before all in the       *)
(* buffer.                                                                 *)
Held ==
  \A l \in Lanes : worker[l] \in {"lock", "lockfail"} =>
    \A i \in 1 .. Len(active[l]) :
      /\ Owned(l, active[l][i])
      /\ \A j \in 1 .. Len(buf[l]) : active[l][i] < buf[l][j]

(* A refused unit that waits for the lock is nowhere else. *)
Refusing ==
  \A l \in Lanes : lock[l] # "append" =>
    \A i \in 1 .. Len(refused[l]) :
      /\ Owned(l, refused[l][i])
      /\ \A j \in 1 .. Len(buf[l]) : refused[l][i] # buf[l][j]
      /\ worker[l] \in {"lock", "lockfail"} =>
           \A j \in 1 .. Len(active[l]) : refused[l][i] # active[l][j]

Unborn == \A u \in Units : u >= next => returned[u] = "no"

(* Only units in a buffer are sealed. *)
SealsWait == \A u \in sealed : \E l \in Lanes : \E i \in 1 .. Len(buf[l]) : u = buf[l][i]

(* A callback of the worker holds the lock, and a lane being reset has no  *)
(* worker.                                                                 *)
Turns ==
  \A l \in Lanes : /\ worker[l] = "call" => lock[l] = "worker"
                   /\ l \in resetting => worker[l] = "none"

RouterInv == RouterTypes /\ Buffered /\ Asked /\ Held /\ Refusing /\ Unborn /\ SealsWait /\ Turns

(* What one step promises for ReturnedOnce and for LaneOrder. *)
OnceStep == \A u \in Units : returned[u] # "no" => returned'[u] = returned[u]
OrderStep ==
  \A u \in Units :
    returned[u] = "no" /\ returned'[u] = "commit" =>
      \A v \in 1 .. u - 1 :
        laneOf[v] = laneOf[u] =>
          /\ \A l \in Lanes : v \notin Elems(buf'[l])
          /\ v \in sealed => returned[v] # "no" \/ returned'[v] = "failure"

-----------------------------------------------------------------------------
(* Units are natural numbers. *)
LEMMA UnitsNat == Units \subseteq Nat /\ Units \subseteq Int
BY DEF Units

(* A unit is in one buffer at one place. *)
LEMMA OnePlace ==
  ASSUME RouterInv, NEW l \in Lanes, NEW m \in Lanes, NEW i \in 1 .. Len(buf[l]),
         NEW j \in 1 .. Len(buf[m]), buf[l][i] = buf[m][j]
  PROVE  l = m /\ i = j
<1>1. l = m
  BY DEF RouterInv, Buffered, Owned
<1>2. buf[l] \in Seq(Units) /\ buf[l][i] \in Int /\ buf[l][j] \in Int
  <2>1. buf[l] \in Seq(Units) /\ j \in 1 .. Len(buf[l])
    BY <1>1 DEF RouterInv, RouterTypes
  <2> QED
    BY <2>1, ElementOfSeq, UnitsNat
<1>3. ~(i < j) /\ ~(j < i)
  BY <1>1, <1>2 DEF RouterInv, Buffered
<1> QED
  BY <1>1, <1>3

(* What is in a buffer is a unit of its lane that nobody has got. *)
LEMMA InBuffer ==
  ASSUME RouterInv, NEW l \in Lanes, NEW i \in 1 .. Len(buf[l])
  PROVE  buf[l][i] \in Units /\ Owned(l, buf[l][i])
<1>1. buf[l] \in Seq(Units)
  BY DEF RouterInv, RouterTypes
<1> QED
  BY <1>1, ElementOfSeq DEF RouterInv, Buffered

(* The first n elements of a sequence. *)
LEMMA FirstOf ==
  ASSUME NEW S, NEW s \in Seq(S), NEW n \in 0 .. Len(s)
  PROVE  /\ SubSeq(s, 1, n) \in Seq(S) /\ Len(SubSeq(s, 1, n)) = n
         /\ \A i \in 1 .. n : SubSeq(s, 1, n)[i] = s[i]
<1>1. Len(s) \in Nat /\ n \in Int /\ 1 \in Int /\ \A i \in 1 .. n : s[i] \in S
  OBVIOUS
<1>2. /\ SubSeq(s, 1, n) \in Seq(S)
      /\ Len(SubSeq(s, 1, n)) = IF 1 <= n THEN n - 1 + 1 ELSE 0
      /\ \A i \in 1 .. n - 1 + 1 : SubSeq(s, 1, n)[i] = s[1 + i - 1]
  BY <1>1, SubSeqProperties
<1>3. n - 1 + 1 = n /\ \A i \in 1 .. n : 1 + i - 1 = i
  BY <1>1
<1> QED
  BY <1>1, <1>2, <1>3

(* And the others. *)
LEMMA RestOf ==
  ASSUME NEW S, NEW s \in Seq(S), NEW n \in 0 .. Len(s)
  PROVE  /\ SubSeq(s, n + 1, Len(s)) \in Seq(S)
         /\ Len(SubSeq(s, n + 1, Len(s))) = Len(s) - n
         /\ \A i \in 1 .. Len(s) - n : SubSeq(s, n + 1, Len(s))[i] = s[n + i]
<1>1. Len(s) \in Nat /\ n \in Int /\ n + 1 \in Int /\ Len(s) \in Int /\ \A i \in n + 1 .. Len(s) : s[i] \in S
  OBVIOUS
<1>2. /\ SubSeq(s, n + 1, Len(s)) \in Seq(S)
      /\ Len(SubSeq(s, n + 1, Len(s))) = IF n + 1 <= Len(s) THEN Len(s) - (n + 1) + 1 ELSE 0
      /\ \A i \in 1 .. Len(s) - (n + 1) + 1 : SubSeq(s, n + 1, Len(s))[i] = s[n + 1 + i - 1]
  BY <1>1, SubSeqProperties
<1>3. Len(s) - (n + 1) + 1 = Len(s) - n /\ (~(n + 1 <= Len(s)) => Len(s) - n = 0)
  BY <1>1
<1>4. \A i \in 1 .. Len(s) - n : n + 1 + i - 1 = n + i
  BY <1>1
<1> QED
  BY <1>2, <1>3, <1>4

(* The head of a buffer ends with its first seal. *)
LEMMA HeadEnds ==
  ASSUME NEW l \in Lanes, buf[l] \in Seq(Units), buf[l] # <<>>
  PROVE  /\ HeadLen(l) \in 1 .. Len(buf[l])
         /\ \A i \in 1 .. HeadLen(l) - 1 : buf[l][i] \notin sealed
<1>1. Len(buf[l]) \in Nat /\ Len(buf[l]) # 0
  OBVIOUS
<1>2. PICK marks : marks = {i \in 1 .. Len(buf[l]) : buf[l][i] \in sealed}
  OBVIOUS
<1>3. HeadLen(l) = IF marks = {} THEN Len(buf[l]) ELSE CHOOSE i \in marks : \A j \in marks : i <= j
  BY <1>2 DEF HeadLen
<1>4. CASE marks = {}
  <2>1. HeadLen(l) = Len(buf[l])
    BY <1>3, <1>4
  <2> QED
    BY <1>1, <1>2, <1>4, <2>1
<1>5. CASE marks # {}
  <2>1. \E i \in marks : \A j \in marks : i <= j
    <3>1. marks \in SUBSET Nat
      BY <1>2
    <3> QED
      BY <1>5, <3>1, LeastNatural
  <2>2. HeadLen(l) \in marks /\ \A j \in marks : HeadLen(l) <= j
    BY <1>3, <1>5, <2>1
  <2>3. HeadLen(l) \in 1 .. Len(buf[l])
    BY <1>2, <2>2
  <2>4. ASSUME NEW j \in 1 .. HeadLen(l) - 1, buf[l][j] \in sealed PROVE FALSE
    BY <1>1, <1>2, <2>2, <2>3, <2>4
  <2> QED
    BY <2>3, <2>4
<1> QED
  BY <1>4, <1>5

(* Who has got a unit keeps it, if units are given that nobody has got. *)
LEMMA GivenOnce ==
  ASSUME RouterInv, NEW us, NEW kind \in {"commit", "failure"}, Give(us, kind),
         \A u \in us : u \in Units /\ returned[u] = "no"
  PROVE  /\ OnceStep
         /\ returned' \in [Units -> {"no", "commit", "failure"}]
         /\ \A u \in Units : returned'[u] = IF u \in us THEN kind ELSE returned[u]
<1>1. returned' = [u \in Units |-> IF u \in us THEN kind ELSE returned[u]]
  BY DEF Give
<1>2. returned \in [Units -> {"no", "commit", "failure"}]
  BY DEF RouterInv, RouterTypes
<1> QED
  BY <1>1, <1>2 DEF OnceStep

(* A failure overtakes nobody, nor does a step that returns nothing. *)
LEMMA NothingCommitted ==
  ASSUME \A u \in Units : returned'[u] \in {returned[u], "failure"}
  PROVE  OrderStep
BY DEF OrderStep

-----------------------------------------------------------------------------
(* The worker takes the first n units out of its buffer, none but the last *)
(* of them sealed, and returns them or queues for the lock with them.      *)
LEMMA Delivering ==
  ASSUME RouterInv, NEW l \in Lanes, NEW n \in 1 .. Len(buf[l]), NEW us, us = SubSeq(buf[l], 1, n),
         NEW kind \in {"commit", "failure"}, worker[l] # "none",
         \A i \in 1 .. n - 1 : buf[l][i] \notin sealed,
         Consume(l, n), Deliver(l, us, kind), UNCHANGED <<next, open, refused, resetting, laneOf>>
  PROVE  RouterInv' /\ OnceStep /\ OrderStep
<1>1. buf[l] \in Seq(Units) /\ Len(buf[l]) \in Nat /\ n \in Nat /\ n \in 0 .. Len(buf[l])
  BY DEF RouterInv, RouterTypes
<1>2. us \in Seq(Units) /\ Len(us) = n /\ \A i \in 1 .. n : us[i] = buf[l][i]
  BY <1>1, FirstOf
<1>3. \A u : u \in Elems(us) <=> \E i \in 1 .. n : u = buf[l][i]
  BY <1>2 DEF Elems
<1>4. /\ buf'[l] \in Seq(Units) /\ Len(buf'[l]) = Len(buf[l]) - n
      /\ \A i \in 1 .. Len(buf[l]) - n : buf'[l][i] = buf[l][n + i]
  <2>1. buf'[l] = SubSeq(buf[l], n + 1, Len(buf[l]))
    BY DEF Consume, RouterInv, RouterTypes
  <2> QED
    BY <1>1, <2>1, RestOf
<1>5. /\ buf' \in [Lanes -> Seq(Units)] /\ \A m \in Lanes \ {l} : buf'[m] = buf[m]
  BY <1>4 DEF Consume, RouterInv, RouterTypes
<1>6. sealed' = sealed \ Elems(us)
  BY DEF Consume
<1>7. /\ active' \in [Lanes -> Seq(Units)] /\ active'[l] = us
      /\ \A m \in Lanes \ {l} : active'[m] = active[m]
  BY <1>2 DEF Deliver, RouterInv, RouterTypes
<1>8. \A m \in Lanes : \A i \in 1 .. Len(buf[m]) : buf[m][i] \in Int /\ buf[m][i] \in Units /\ Owned(m, buf[m][i])
  BY InBuffer, UnitsNat
<1>9. \A u \in Elems(us) : laneOf[u] = l
  BY <1>1, <1>3, <1>8 DEF Owned
<1>10. next' = next /\ laneOf' = laneOf /\ refused' = refused /\ next \in Int
  BY DEF RouterInv, RouterTypes
<1>11. \A i, j \in 1 .. Len(buf[l]) : i < j => buf[l][i] < buf[l][j]
  BY DEF RouterInv, Buffered
<1>12. \A i \in 1 .. Len(buf'[l]) : n + i \in 1 .. Len(buf[l]) /\ buf'[l][i] = buf[l][n + i]
  BY <1>1, <1>4
<1>13. \A i \in 1 .. Len(buf'[l]) : \A j \in 1 .. n : buf[l][j] < buf'[l][i]
  <2> SUFFICES ASSUME NEW i \in 1 .. Len(buf'[l]), NEW j \in 1 .. n PROVE buf[l][j] < buf'[l][i]
    OBVIOUS
  <2>0. j \in 1 .. Len(buf[l])
    BY <1>1
  <2>1. n + i \in 1 .. Len(buf[l])
    BY <1>12
  <2>2. j < n + i
    BY <1>1, <1>4
  <2> QED
    BY <1>11, <1>12, <2>0, <2>1, <2>2
<1>14. \A i, j \in 1 .. Len(buf'[l]) : i < j => buf'[l][i] < buf'[l][j]
  <2> SUFFICES ASSUME NEW i \in 1 .. Len(buf'[l]), NEW j \in 1 .. Len(buf'[l]), i < j
               PROVE  buf'[l][i] < buf'[l][j]
    OBVIOUS
  <2>1. n + i < n + j
    BY <1>1
  <2>2. n + i \in 1 .. Len(buf[l]) /\ n + j \in 1 .. Len(buf[l])
    BY <1>12
  <2>3. buf[l][n + i] < buf[l][n + j]
    BY <1>11, <2>1, <2>2
  <2> QED
    BY <1>12, <2>3
<1>15. \A m \in Lanes : \A i \in 1 .. Len(buf'[m]) :
         \E j \in 1 .. Len(buf[m]) : buf'[m][i] = buf[m][j] /\ buf'[m][i] \notin Elems(us)
  <2> SUFFICES ASSUME NEW m \in Lanes, NEW i \in 1 .. Len(buf'[m])
               PROVE  \E j \in 1 .. Len(buf[m]) : buf'[m][i] = buf[m][j] /\ buf'[m][i] \notin Elems(us)
    OBVIOUS
  <2>1. CASE m = l
    <3>1. n + i \in 1 .. Len(buf[l]) /\ buf'[l][i] = buf[l][n + i] /\ buf[l][n + i] \in Int
      BY <1>8, <1>12, <2>1
    <3>2. \A j \in 1 .. n : buf[l][j] \in Int /\ buf[l][j] < buf'[l][i]
      BY <1>1, <1>8, <1>13, <2>1
    <3>3. ASSUME buf'[l][i] \in Elems(us) PROVE FALSE
      <4>1. PICK j \in 1 .. n : buf'[l][i] = buf[l][j]
        BY <1>3, <3>3
      <4>2. buf'[l][i] \in Int /\ buf'[l][i] < buf'[l][i]
        BY <3>1, <3>2, <4>1
      <4> QED
        BY <4>2
    <3> QED
      BY <2>1, <3>1, <3>3
  <2>2. CASE m # l
    BY <1>5, <1>8, <1>9, <2>2 DEF Owned
  <2> QED
    BY <2>1, <2>2
<1>16. /\ \A m \in Lanes \ {l} : worker'[m] = worker[m] /\ lock'[m] = lock[m]
       /\ worker'[l] \in {"call", "lock", "lockfail"}
       /\ worker' \in [Lanes -> {"none", "loop", "query", "lock", "lockfail", "call"}]
       /\ lock' \in [Lanes -> {"free", "worker", "append"}]
       /\ lock'[l] = IF lock[l] = "free" THEN "worker" ELSE lock[l]
  BY DEF Deliver, RouterInv, RouterTypes
<1>17. (lock[l] = "free" <=> worker'[l] = "call") /\ (lock[l] # "free" => returned' = returned)
  BY DEF Deliver, RouterInv, RouterTypes
<1>18. /\ OnceStep /\ returned' \in [Units -> {"no", "commit", "failure"}]
       /\ \A u \in Units \ Elems(us) : returned'[u] = returned[u]
       /\ \A u \in Units : returned'[u] \in {returned[u], kind}
  <2>1. CASE lock[l] = "free"
    <3>1. Give(Elems(us), kind)
      BY <2>1 DEF Deliver
    <3>2. \A u \in Elems(us) : u \in Units /\ returned[u] = "no"
      BY <1>1, <1>3, <1>8 DEF Owned
    <3> QED
      BY <3>1, <3>2, GivenOnce
  <2>2. CASE lock[l] # "free"
    BY <1>17, <2>2 DEF OnceStep, RouterInv, RouterTypes
  <2> QED
    BY <2>1, <2>2
<1>20. RouterTypes'
  BY <1>5, <1>7, <1>10, <1>16, <1>18 DEF RouterInv, RouterTypes
<1>21. Buffered'
  <2>1. \A m \in Lanes : \A i \in 1 .. Len(buf'[m]) : OwnedNext(m, buf'[m][i])
    <3> SUFFICES ASSUME NEW m \in Lanes, NEW i \in 1 .. Len(buf'[m])
                 PROVE  OwnedNext(m, buf'[m][i])
      OBVIOUS
    <3>1. PICK j \in 1 .. Len(buf[m]) : buf'[m][i] = buf[m][j] /\ buf'[m][i] \notin Elems(us)
      BY <1>15
    <3>2. buf'[m][i] \in Units /\ Owned(m, buf'[m][i])
      BY <1>8, <3>1
    <3> QED
      BY <1>10, <1>18, <3>1, <3>2 DEF Owned, OwnedNext
  <2>2. \A m \in Lanes : \A i, j \in 1 .. Len(buf'[m]) : i < j => buf'[m][i] < buf'[m][j]
    BY <1>5, <1>14 DEF RouterInv, Buffered
  <2> QED
    BY <2>1, <2>2 DEF Buffered, Owned, OwnedNext
<1>22. Asked'
  <2> SUFFICES ASSUME NEW m \in Lanes, worker'[m] = "query"
               PROVE  /\ Len(active'[m]) \in 1 .. Len(buf'[m])
                      /\ \A i \in 1 .. Len(active'[m]) : active'[m][i] = buf'[m][i]
                      /\ \A i \in 1 .. Len(active'[m]) - 1 : active'[m][i] \notin sealed'
    BY DEF Asked
  <2>1. m # l /\ worker[m] = "query" /\ buf'[m] = buf[m] /\ active'[m] = active[m]
    BY <1>5, <1>7, <1>16
  <2> QED
    BY <1>6, <2>1 DEF RouterInv, Asked
<1>23. Held'
  <2> SUFFICES ASSUME NEW m \in Lanes, worker'[m] \in {"lock", "lockfail"}, NEW i \in 1 .. Len(active'[m])
               PROVE  /\ OwnedNext(m, active'[m][i])
                      /\ \A j \in 1 .. Len(buf'[m]) : active'[m][i] < buf'[m][j]
    BY DEF Held, Owned, OwnedNext
  <2>1. CASE m = l
    <3>1. active'[m] = us /\ i \in 1 .. n /\ active'[m][i] = buf[l][i] /\ returned' = returned
      BY <1>2, <1>7, <1>17, <2>1
    <3>2. Owned(m, buf[l][i])
      BY <1>1, <1>8, <2>1, <3>1
    <3> QED
      BY <1>10, <1>13, <2>1, <3>1, <3>2 DEF Owned, OwnedNext
  <2>2. CASE m # l
    <3>1. active'[m] = active[m] /\ buf'[m] = buf[m] /\ worker[m] \in {"lock", "lockfail"}
      BY <1>5, <1>7, <1>16, <2>2
    <3>2. Owned(m, active[m][i]) /\ \A j \in 1 .. Len(buf[m]) : active[m][i] < buf[m][j]
      BY <3>1 DEF RouterInv, Held
    <3>3. active[m][i] \in Units
      <4>1. active[m] \in Seq(Units) /\ i \in 1 .. Len(active[m])
        BY <3>1 DEF RouterInv, RouterTypes
      <4> QED
        BY <4>1, ElementOfSeq
    <3>4. active[m][i] \notin Elems(us)
      BY <1>9, <2>2, <3>2 DEF Owned
    <3> QED
      BY <1>10, <1>18, <3>1, <3>2, <3>3, <3>4 DEF Owned, OwnedNext
  <2> QED
    BY <2>1, <2>2
<1>24. Refusing'
  <2> SUFFICES ASSUME NEW m \in Lanes, lock'[m] # "append", NEW i \in 1 .. Len(refused'[m])
               PROVE  /\ OwnedNext(m, refused'[m][i])
                      /\ \A j \in 1 .. Len(buf'[m]) : refused'[m][i] # buf'[m][j]
                      /\ worker'[m] \in {"lock", "lockfail"} =>
                           \A j \in 1 .. Len(active'[m]) : refused'[m][i] # active'[m][j]
    BY DEF Refusing, Owned, OwnedNext
  <2>1. lock[m] # "append" /\ refused'[m] = refused[m]
    BY <1>10, <1>16
  <2>2. /\ Owned(m, refused[m][i])
        /\ \A j \in 1 .. Len(buf[m]) : refused[m][i] # buf[m][j]
        /\ worker[m] \in {"lock", "lockfail"} => \A j \in 1 .. Len(active[m]) : refused[m][i] # active[m][j]
    BY <2>1 DEF RouterInv, Refusing
  <2>3. refused[m][i] \in Units
    <3>1. refused[m] \in Seq(Units) /\ i \in 1 .. Len(refused[m])
      BY <2>1 DEF RouterInv, RouterTypes
    <3> QED
      BY <3>1, ElementOfSeq
  <2>4. refused[m][i] \notin Elems(us)
    BY <1>1, <1>3, <1>9, <2>2 DEF Owned
  <2>5. OwnedNext(m, refused'[m][i])
    BY <1>10, <1>18, <2>1, <2>2, <2>3, <2>4 DEF Owned, OwnedNext
  <2>6. \A j \in 1 .. Len(buf'[m]) : refused'[m][i] # buf'[m][j]
    BY <1>15, <2>1, <2>2
  <2>7. ASSUME worker'[m] \in {"lock", "lockfail"}, NEW j \in 1 .. Len(active'[m])
        PROVE  refused'[m][i] # active'[m][j]
    <3>1. CASE m = l
      <4>1. active'[m][j] \in Elems(us)
        BY <1>2, <1>7, <3>1, <2>7 DEF Elems
      <4> QED
        BY <2>1, <2>4, <4>1
    <3>2. CASE m # l
      BY <1>7, <1>16, <2>1, <2>2, <2>7, <3>2
    <3> QED
      BY <3>1, <3>2
  <2> QED
    BY <2>5, <2>6, <2>7
<1>25. Unborn'
  <2>1. \A u \in Units : u >= next => u \notin Elems(us)
    BY <1>1, <1>3, <1>8, <1>10 DEF Owned
  <2> QED
    BY <1>10, <1>18, <2>1 DEF RouterInv, Unborn
<1>26. SealsWait'
  <2> SUFFICES ASSUME NEW u \in sealed' PROVE \E m \in Lanes : \E i \in 1 .. Len(buf'[m]) : u = buf'[m][i]
    BY DEF SealsWait
  <2>0. PICK m \in Lanes : \E i \in 1 .. Len(buf[m]) : u = buf[m][i]
    BY <1>6 DEF RouterInv, SealsWait
  <2>1. PICK i \in 1 .. Len(buf[m]) : u = buf[m][i]
    BY <2>0
  <2>2. CASE m = l
    <3>1. i \in Int /\ i > n /\ i <= Len(buf[l])
      BY <1>1, <1>3, <1>6, <2>1, <2>2
    <3>2. i - n \in 1 .. Len(buf'[l]) /\ n + (i - n) = i
      BY <1>1, <1>4, <3>1
    <3> QED
      BY <1>12, <2>1, <2>2, <3>2
  <2>3. CASE m # l
    BY <1>5, <2>1, <2>3
  <2> QED
    BY <2>2, <2>3
<1>27. Turns'
  <2>1. l \notin resetting /\ resetting' = resetting
    BY DEF RouterInv, Turns
  <2> QED
    BY <1>16, <1>17, <2>1 DEF RouterInv, Turns
<1>28. OrderStep
  <2> SUFFICES ASSUME NEW u \in Units, returned[u] = "no", returned'[u] = "commit",
                      NEW v \in 1 .. u - 1, laneOf[v] = laneOf[u]
               PROVE  /\ \A m \in Lanes : v \notin Elems(buf'[m])
                      /\ v \notin sealed
    BY DEF OrderStep
  <2>1. PICK k \in 1 .. n : u = buf[l][k]
    BY <1>3, <1>18
  <2>2. laneOf[v] = l /\ u \in Int /\ v \in Int /\ v < u
    <3>1. u \in Int
      BY UnitsNat
    <3> QED
      BY <1>1, <1>8, <2>1, <3>1 DEF Owned
  <2>3. ASSUME NEW m \in Lanes, v \in Elems(buf'[m]) PROVE FALSE
    <3>1. PICK i \in 1 .. Len(buf'[m]) : v = buf'[m][i]
      BY <2>3 DEF Elems
    <3>2. m = l
      <4>1. PICK j \in 1 .. Len(buf[m]) : v = buf[m][j]
        BY <1>15, <3>1
      <4> QED
        BY <1>8, <2>2, <4>1 DEF Owned
    <3> QED
      BY <1>13, <2>1, <2>2, <3>1, <3>2
  <2>4. ASSUME v \in sealed PROVE FALSE
    <3>0. PICK m \in Lanes : \E i \in 1 .. Len(buf[m]) : v = buf[m][i]
      BY <2>4 DEF RouterInv, SealsWait
    <3>1. PICK i \in 1 .. Len(buf[m]) : v = buf[m][i]
      BY <3>0
    <3>2. m = l
      BY <1>8, <2>2, <3>1 DEF Owned
    <3>3. ASSUME ~(i < k) PROVE FALSE
      <4>1. i = k \/ k < i
        BY <1>1, <3>2, <3>3
      <4>2. k \in 1 .. Len(buf[l]) /\ i \in 1 .. Len(buf[l])
        BY <1>1, <3>2
      <4>3. u = v \/ u < v
        BY <1>11, <2>1, <3>1, <3>2, <4>1, <4>2
      <4> QED
        BY <2>2, <4>3
    <3> QED
      BY <1>1, <2>4, <3>1, <3>2, <3>3
  <2> QED
    BY <2>3, <2>4
<1> QED
  BY <1>18, <1>20, <1>21, <1>22, <1>23, <1>24, <1>25, <1>26, <1>27, <1>28 DEF RouterInv

-----------------------------------------------------------------------------
(* The units us are handed to their callback, and are then in no place:    *)
(* Handing is about what this leaves of the invariant.                     *)
WorkerStates == {"none", "loop", "query", "lock", "lockfail", "call"}
LockStates == {"free", "worker", "append"}

(* The units of a lane that a step must not give away. *)
Gone(us, m) ==
  /\ \A i \in 1 .. Len(buf'[m]) : buf'[m][i] \notin us
  /\ worker'[m] \in {"lock", "lockfail"} => \A i \in 1 .. Len(active[m]) : active[m][i] \notin us
  /\ lock'[m] # "append" => \A i \in 1 .. Len(refused[m]) : refused[m][i] \notin us

(* Giving units to a callback keeps the invariant if they leave every place. *)
LEMMA Handing ==
  ASSUME RouterInv, NEW us, NEW kind \in {"commit", "failure"}, Give(us, kind),
         \A u \in us : u \in Units /\ u < next /\ returned[u] = "no",
         UNCHANGED <<next, laneOf, active>>,
         refused' \in [Lanes -> Seq(Units)],
         \A m \in Lanes : refused'[m] \in {refused[m], <<>>},
         buf' \in [Lanes -> Seq(Units)], open' \subseteq Lanes, resetting' \subseteq Lanes,
         worker' \in [Lanes -> WorkerStates], lock' \in [Lanes -> LockStates],
         \A m \in Lanes : buf'[m] \in {buf[m], <<>>} /\ worker'[m] \in {worker[m], "call"},
         \A m \in Lanes : worker'[m] = "query" => buf'[m] = buf[m],
         \A m \in Lanes : lock'[m] # "append" => lock[m] # "append" \/ refused'[m] = <<>>,
         \A m \in Lanes : Gone(us, m),
         sealed' \subseteq sealed, SealsWait', Turns'
  PROVE  RouterInv' /\ OnceStep
<1>1. /\ OnceStep /\ returned' \in [Units -> {"no", "commit", "failure"}]
      /\ \A u \in Units \ us : returned'[u] = returned[u]
  BY GivenOnce
<1>2. next' = next /\ laneOf' = laneOf /\ active' = active
  OBVIOUS
<1>3. \A m \in Lanes : \A u \in Units \ us : Owned(m, u) => OwnedNext(m, u)
  BY <1>1, <1>2 DEF Owned, OwnedNext
<1>4. RouterTypes'
  BY <1>1, <1>2 DEF RouterInv, RouterTypes, WorkerStates, LockStates
<1>5. Buffered'
  <2> SUFFICES ASSUME NEW m \in Lanes
               PROVE  /\ \A i \in 1 .. Len(buf'[m]) : OwnedNext(m, buf'[m][i])
                      /\ \A i, j \in 1 .. Len(buf'[m]) : i < j => buf'[m][i] < buf'[m][j]
    BY DEF Buffered, Owned, OwnedNext
  <2>1. CASE buf'[m] = buf[m]
    <3>1. ASSUME NEW i \in 1 .. Len(buf[m]) PROVE OwnedNext(m, buf[m][i])
      <4>1. buf[m][i] \in Units \ us /\ Owned(m, buf[m][i])
        BY <2>1, InBuffer DEF Gone
      <4> QED
        BY <1>3, <4>1
    <3> QED
      BY <2>1, <3>1 DEF RouterInv, Buffered
  <2>2. CASE buf'[m] = <<>>
    BY <2>2
  <2> QED
    BY <2>1, <2>2
<1>6. Asked'
  <2> SUFFICES ASSUME NEW m \in Lanes, worker'[m] = "query"
               PROVE  /\ Len(active'[m]) \in 1 .. Len(buf'[m])
                      /\ \A i \in 1 .. Len(active'[m]) : active'[m][i] = buf'[m][i]
                      /\ \A i \in 1 .. Len(active'[m]) - 1 : active'[m][i] \notin sealed'
    BY DEF Asked
  <2>1. worker[m] = "query" /\ buf'[m] = buf[m] /\ active'[m] = active[m]
    BY <1>2
  <2> QED
    BY <2>1 DEF RouterInv, Asked
<1>7. Held'
  <2> SUFFICES ASSUME NEW m \in Lanes, worker'[m] \in {"lock", "lockfail"}, NEW i \in 1 .. Len(active'[m])
               PROVE  /\ OwnedNext(m, active'[m][i])
                      /\ \A j \in 1 .. Len(buf'[m]) : active'[m][i] < buf'[m][j]
    BY DEF Held, Owned, OwnedNext
  <2>1. worker[m] \in {"lock", "lockfail"} /\ active'[m] = active[m] /\ i \in 1 .. Len(active[m])
    BY <1>2
  <2>2. Owned(m, active[m][i]) /\ \A j \in 1 .. Len(buf[m]) : active[m][i] < buf[m][j]
    BY <2>1 DEF RouterInv, Held
  <2>3. active[m][i] \in Units \ us
    <3>1. active[m] \in Seq(Units)
      BY DEF RouterInv, RouterTypes
    <3> QED
      BY <2>1, <3>1, ElementOfSeq DEF Gone
  <2>4. OwnedNext(m, active[m][i])
    BY <1>3, <2>2, <2>3
  <2>5. ASSUME NEW j \in 1 .. Len(buf'[m]) PROVE active[m][i] < buf'[m][j]
    <3>1. buf'[m] = buf[m]
      <4>1. buf'[m] # <<>>
        BY <2>5
      <4> QED
        BY <4>1
    <3> QED
      BY <2>2, <3>1
  <2> QED
    BY <2>1, <2>4, <2>5
<1>8. Refusing'
  <2> SUFFICES ASSUME NEW m \in Lanes, lock'[m] # "append", NEW i \in 1 .. Len(refused'[m])
               PROVE  /\ OwnedNext(m, refused'[m][i])
                      /\ \A j \in 1 .. Len(buf'[m]) : refused'[m][i] # buf'[m][j]
                      /\ worker'[m] \in {"lock", "lockfail"} =>
                           \A j \in 1 .. Len(active'[m]) : refused'[m][i] # active'[m][j]
    BY DEF Refusing, Owned, OwnedNext
  <2>a. refused'[m] # <<>>
    OBVIOUS
  <2>0. refused'[m] = refused[m]
    BY <2>a
  <2>1. lock[m] # "append" /\ i \in 1 .. Len(refused[m])
    BY <2>a, <2>0
  <2>2. /\ Owned(m, refused[m][i])
        /\ \A j \in 1 .. Len(buf[m]) : refused[m][i] # buf[m][j]
        /\ worker[m] \in {"lock", "lockfail"} => \A j \in 1 .. Len(active[m]) : refused[m][i] # active[m][j]
    BY <2>1 DEF RouterInv, Refusing
  <2>3. refused[m][i] \in Units \ us
    <3>1. refused[m] \in Seq(Units)
      BY DEF RouterInv, RouterTypes
    <3> QED
      BY <2>1, <3>1, ElementOfSeq DEF Gone
  <2>4. OwnedNext(m, refused[m][i])
    BY <1>3, <2>2, <2>3
  <2>5. ASSUME NEW j \in 1 .. Len(buf'[m]) PROVE refused[m][i] # buf'[m][j]
    <3>1. buf'[m] = buf[m]
      <4>1. buf'[m] # <<>>
        BY <2>5
      <4> QED
        BY <4>1
    <3> QED
      BY <2>2, <3>1
  <2> QED
    BY <1>2, <2>0, <2>2, <2>4, <2>5
<1>9. Unborn'
  <2>1. \A u \in Units : u >= next => u \notin us
    <3>1. next \in Int /\ \A u \in Units : u \in Int
      BY UnitsNat DEF RouterInv, RouterTypes
    <3> QED
      BY <3>1
  <2> QED
    BY <1>1, <1>2, <2>1 DEF RouterInv, Unborn
<1> QED
  BY <1>1, <1>4, <1>5, <1>6, <1>7, <1>8, <1>9 DEF RouterInv

-----------------------------------------------------------------------------
(* A step that moves workers and locks only.  A worker may go back to its  *)
(* loop, end, or ask about the head of its buffer.                         *)
Moves(m) ==
  \/ worker'[m] = worker[m] /\ active'[m] = active[m]
  \/ worker'[m] \in {"none", "loop"}
  \/ worker'[m] = "query" /\ buf[m] # <<>> /\ active'[m] = Head_(m)

(* So does a worker that goes on while all buffers stay as they are.       *)
LEMMA Moving ==
  ASSUME RouterInv, UNCHANGED <<next, laneOf, returned, buf, refused, sealed>>,
         open' \subseteq Lanes, resetting' \subseteq Lanes, active' \in [Lanes -> Seq(Units)],
         worker' \in [Lanes -> WorkerStates], lock' \in [Lanes -> LockStates],
         \A m \in Lanes : Moves(m) /\ (lock'[m] # "append" => lock[m] # "append"), Turns'
  PROVE  RouterInv' /\ OnceStep /\ OrderStep
<1>1. next' = next /\ laneOf' = laneOf /\ returned' = returned /\ buf' = buf /\ refused' = refused /\ sealed' = sealed
  OBVIOUS
<1>2. RouterTypes'
  BY <1>1 DEF RouterInv, RouterTypes, WorkerStates, LockStates
<1>3. Buffered' /\ Unborn' /\ SealsWait'
  BY <1>1 DEF RouterInv, Buffered, Unborn, SealsWait, Owned
<1>4. Asked'
  <2> SUFFICES ASSUME NEW m \in Lanes, worker'[m] = "query"
               PROVE  /\ Len(active'[m]) \in 1 .. Len(buf[m])
                      /\ \A i \in 1 .. Len(active'[m]) : active'[m][i] = buf[m][i]
                      /\ \A i \in 1 .. Len(active'[m]) - 1 : active'[m][i] \notin sealed
    BY <1>1 DEF Asked
  <2>1. CASE worker[m] = "query" /\ active'[m] = active[m]
    BY <2>1 DEF RouterInv, Asked
  <2>2. CASE buf[m] # <<>> /\ active'[m] = Head_(m)
    <3>1. buf[m] \in Seq(Units)
      BY DEF RouterInv, RouterTypes
    <3>2. /\ HeadLen(m) \in 1 .. Len(buf[m])
          /\ \A i \in 1 .. HeadLen(m) - 1 : buf[m][i] \notin sealed
      BY <2>2, <3>1, HeadEnds
    <3>3. PICK n \in 1 .. Len(buf[m]) : n = HeadLen(m)
      BY <3>2
    <3>4. n \in 0 .. Len(buf[m]) /\ active'[m] = SubSeq(buf[m], 1, n)
      BY <2>2, <3>1, <3>3 DEF Head_
    <3>5. Len(active'[m]) = n /\ \A i \in 1 .. n : active'[m][i] = buf[m][i]
      BY <3>1, <3>4, FirstOf
    <3>6. \A i \in 1 .. n - 1 : i \in 1 .. n /\ buf[m][i] \notin sealed
      BY <3>1, <3>2, <3>3
    <3> QED
      BY <3>3, <3>5, <3>6
  <2> QED
    BY <2>1, <2>2 DEF Moves
<1>5. Held'
  <2> SUFFICES ASSUME NEW m \in Lanes, worker'[m] \in {"lock", "lockfail"}
               PROVE  \A i \in 1 .. Len(active'[m]) :
                        Owned(m, active'[m][i]) /\ \A j \in 1 .. Len(buf[m]) : active'[m][i] < buf[m][j]
    BY <1>1 DEF Held, Owned
  <2>1. worker[m] \in {"lock", "lockfail"} /\ active'[m] = active[m]
    BY DEF Moves
  <2> QED
    BY <2>1 DEF RouterInv, Held
<1>6. Refusing'
  <2> SUFFICES ASSUME NEW m \in Lanes, lock'[m] # "append", NEW i \in 1 .. Len(refused'[m])
               PROVE  /\ OwnedNext(m, refused'[m][i])
                      /\ \A j \in 1 .. Len(buf'[m]) : refused'[m][i] # buf'[m][j]
                      /\ worker'[m] \in {"lock", "lockfail"} =>
                           \A j \in 1 .. Len(active'[m]) : refused'[m][i] # active'[m][j]
    BY DEF Refusing, Owned, OwnedNext
  <2>1. /\ lock[m] # "append" /\ refused'[m] = refused[m] /\ buf'[m] = buf[m] /\ i \in 1 .. Len(refused[m])
        /\ worker'[m] \in {"lock", "lockfail"} => worker'[m] = worker[m] /\ active'[m] = active[m]
    BY <1>1 DEF Moves
  <2>2. /\ Owned(m, refused[m][i])
        /\ \A j \in 1 .. Len(buf[m]) : refused[m][i] # buf[m][j]
        /\ worker[m] \in {"lock", "lockfail"} => \A j \in 1 .. Len(active[m]) : refused[m][i] # active[m][j]
    BY <2>1 DEF RouterInv, Refusing
  <2>3. OwnedNext(m, refused[m][i])
    BY <1>1, <2>2 DEF Owned, OwnedNext
  <2> QED
    BY <2>1, <2>2, <2>3
<1>7. OnceStep /\ OrderStep
  BY <1>1 DEF OnceStep, OrderStep
<1> QED
  BY <1>2, <1>3, <1>4, <1>5, <1>6, <1>7 DEF RouterInv

-----------------------------------------------------------------------------
(* A unit is sealed when it is the last of a buffer.  It is then not       *)
(* inside a request, which was made of the first units of its buffer.      *)
EndOfBuffer(u) == \E m \in Lanes : buf[m] # <<>> /\ u = buf[m][Len(buf[m])]

(* A mark seals ends of buffers only. *)
LEMMA SealsAtEnds ==
  ASSUME NEW ls, ls \subseteq Lanes
  PROVE  \A u \in Seals(ls) : u \in sealed \/ EndOfBuffer(u)
BY DEF Seals, EndOfBuffer

(* The end of a buffer is not inside a request. *)
LEMMA EndNotInside ==
  ASSUME RouterInv, NEW m \in Lanes, worker[m] = "query", NEW i \in 1 .. Len(active[m]) - 1
  PROVE  ~EndOfBuffer(active[m][i])
<1>1. SUFFICES ASSUME NEW k \in Lanes, buf[k] # <<>>, active[m][i] = buf[k][Len(buf[k])] PROVE FALSE
  BY DEF EndOfBuffer
<1>2. active[m] \in Seq(Units) /\ buf[k] \in Seq(Units) /\ buf[m] \in Seq(Units)
  BY DEF RouterInv, RouterTypes
<1>3. /\ Len(active[m]) \in 1 .. Len(buf[m]) /\ \A j \in 1 .. Len(active[m]) : active[m][j] = buf[m][j]
  BY DEF RouterInv, Asked
<1>4. i \in 1 .. Len(buf[m]) /\ i < Len(buf[m]) /\ active[m][i] = buf[m][i]
  BY <1>2, <1>3
<1>5. Len(buf[k]) \in 1 .. Len(buf[k])
  BY <1>1, <1>2
<1>6. PICK j \in 1 .. Len(buf[k]) : j = Len(buf[k])
  BY <1>5
<1>7. buf[m][i] = buf[k][j]
  BY <1>1, <1>4, <1>6
<1>8. i \in 1 .. Len(buf[m])
  BY <1>4
<1>9. m = k /\ i = j
  BY <1>6, <1>7, <1>8, OnePlace
<1> QED
  BY <1>4, <1>6, <1>9

(* What is sealed, or will be, waits in a buffer. *)
LEMMA EndWaits ==
  ASSUME RouterInv, NEW u, u \in sealed \/ EndOfBuffer(u)
  PROVE  \E m \in Lanes : \E i \in 1 .. Len(buf[m]) : u = buf[m][i]
<1>1. CASE u \in sealed
  BY <1>1 DEF RouterInv, SealsWait
<1>2. CASE EndOfBuffer(u)
  <2>1. PICK m \in Lanes : buf[m] # <<>> /\ u = buf[m][Len(buf[m])]
    BY <1>2 DEF EndOfBuffer
  <2>2. buf[m] \in Seq(Units)
    BY DEF RouterInv, RouterTypes
  <2>3. Len(buf[m]) \in 1 .. Len(buf[m])
    BY <2>1, <2>2
  <2> QED
    BY <2>1, <2>3
<1> QED
  BY <1>1, <1>2

(* Workers that sleep are woken, the others stay where they are. *)
Wakes(m) == worker'[m] = worker[m] \/ (worker[m] = "none" /\ worker'[m] = "loop")

(* A flush: ends of buffers are sealed and workers woken. *)
LEMMA Sealing ==
  ASSUME RouterInv, UNCHANGED <<next, laneOf, returned, open, buf, active, refused, lock, resetting>>,
         resetting = {}, \A u \in sealed' : u \in sealed \/ EndOfBuffer(u),
         worker' \in [Lanes -> WorkerStates], \A m \in Lanes : Wakes(m)
  PROVE  RouterInv' /\ OnceStep /\ OrderStep
<1>1. /\ next' = next /\ laneOf' = laneOf /\ returned' = returned /\ buf' = buf /\ refused' = refused
      /\ active' = active /\ open' = open /\ lock' = lock /\ resetting' = {}
  OBVIOUS
<1>2. RouterTypes'
  BY <1>1 DEF RouterInv, RouterTypes, WorkerStates
<1>3. Buffered' /\ Unborn'
  BY <1>1 DEF RouterInv, Buffered, Unborn, Owned
<1>4. Asked'
  <2> SUFFICES ASSUME NEW m \in Lanes, worker'[m] = "query"
               PROVE  /\ Len(active[m]) \in 1 .. Len(buf[m])
                      /\ \A i \in 1 .. Len(active[m]) : active[m][i] = buf[m][i]
                      /\ \A i \in 1 .. Len(active[m]) - 1 : active[m][i] \notin sealed'
    BY <1>1 DEF Asked
  <2>1. worker[m] = "query"
    BY DEF Wakes
  <2>2. \A i \in 1 .. Len(active[m]) - 1 : active[m][i] \notin sealed /\ ~EndOfBuffer(active[m][i])
    BY <2>1, EndNotInside DEF RouterInv, Asked
  <2>3. \A i \in 1 .. Len(active[m]) - 1 : active[m][i] \notin sealed'
    BY <2>2
  <2> QED
    BY <2>1, <2>3 DEF RouterInv, Asked
<1>5. Held'
  <2> SUFFICES ASSUME NEW m \in Lanes, worker'[m] \in {"lock", "lockfail"}
               PROVE  \A i \in 1 .. Len(active[m]) :
                        Owned(m, active[m][i]) /\ \A j \in 1 .. Len(buf[m]) : active[m][i] < buf[m][j]
    BY <1>1 DEF Held, Owned
  <2>1. worker[m] \in {"lock", "lockfail"}
    BY DEF Wakes
  <2> QED
    BY <2>1 DEF RouterInv, Held
<1>6. Refusing'
  <2>1. \A m \in Lanes : worker'[m] \in {"lock", "lockfail"} => worker[m] = worker'[m]
    BY DEF Wakes
  <2> QED
    BY <1>1, <2>1 DEF RouterInv, Refusing, Owned
<1>7. SealsWait'
  <2>1. \A u \in sealed' : \E m \in Lanes : \E i \in 1 .. Len(buf[m]) : u = buf[m][i]
    BY EndWaits
  <2> QED
    BY <1>1, <2>1 DEF SealsWait
<1>8. Turns'
  BY <1>1 DEF RouterInv, Turns, Wakes
<1>9. OnceStep /\ OrderStep
  BY <1>1 DEF OnceStep, OrderStep
<1> QED
  BY <1>2, <1>3, <1>4, <1>5, <1>6, <1>7, <1>8, <1>9 DEF RouterInv

-----------------------------------------------------------------------------
(* A unit arrives.  It is returned at once, waits with the append that was *)
(* refused, or joins the buffer of its lane.                               *)
Joins(l) ==
  /\ buf' = [buf EXCEPT ![l] = Append(@, next)] /\ UNCHANGED <<returned, refused, lock>>
  /\ \A u \in sealed' : u \in sealed \/ EndOfBuffer(u) \/ u = next
TurnedAway(l) ==
  /\ buf' = buf /\ \A u \in sealed' : u \in sealed \/ EndOfBuffer(u)
  /\ \/ Give({next}, "failure") /\ UNCHANGED <<refused, lock>>
     \/ /\ refused' = [refused EXCEPT ![l] = <<next>>]
        /\ \/ lock[l] = "free" /\ Give({next}, "failure") /\ lock' = [lock EXCEPT ![l] = "append"]
           \/ UNCHANGED <<returned, lock>>

(* What was owned stays so, and nobody is given away but the new unit. *)
LEMMA OthersOwned ==
  ASSUME RouterInv, NEW l \in Lanes, next \in Units, next' = next + 1, laneOf' = [laneOf EXCEPT ![next] = l],
         Give({next}, "failure") \/ returned' = returned
  PROVE  /\ \A m \in Lanes : \A u \in Units : Owned(m, u) => OwnedNext(m, u)
         /\ returned' \in [Units -> {"no", "commit", "failure"}]
         /\ \A u \in Units : returned'[u] \in {returned[u], "failure"} /\ (u # next => returned'[u] = returned[u])
         /\ OnceStep /\ returned[next] = "no"
<1>0. next \in Nat /\ DOMAIN laneOf = Units /\ returned \in [Units -> {"no", "commit", "failure"}]
  BY DEF RouterInv, RouterTypes
<1>1. returned[next] = "no"
  BY <1>0 DEF RouterInv, Unborn
<1>2. /\ OnceStep /\ returned' \in [Units -> {"no", "commit", "failure"}]
      /\ \A u \in Units : returned'[u] \in {returned[u], "failure"} /\ (u # next => returned'[u] = returned[u])
  <2>1. CASE Give({next}, "failure")
    <3>1. /\ OnceStep /\ returned' \in [Units -> {"no", "commit", "failure"}]
          /\ \A u \in Units : returned'[u] = IF u \in {next} THEN "failure" ELSE returned[u]
      BY <1>1, <2>1, GivenOnce
    <3> QED
      BY <3>1
  <2>2. CASE returned' = returned
    BY <1>0, <2>2 DEF OnceStep
  <2> QED
    BY <2>1, <2>2
<1>3. ASSUME NEW m \in Lanes, NEW u \in Units, Owned(m, u) PROVE OwnedNext(m, u)
  <2>1. u \in Int /\ u < next /\ u # next
    BY <1>0, <1>3, UnitsNat DEF Owned
  <2>2. laneOf'[u] = laneOf[u] /\ returned'[u] = returned[u] /\ u < next'
    BY <1>0, <1>2, <2>1
  <2> QED
    BY <1>3, <2>2 DEF Owned, OwnedNext
<1> QED
  BY <1>1, <1>2, <1>3

(* A unit joins the end of the buffer of its lane. *)
LEMMA Joining ==
  ASSUME RouterInv, NEW l \in Lanes, next \in Units, next' = next + 1, laneOf' = [laneOf EXCEPT ![next] = l],
         UNCHANGED <<active, resetting>>, resetting = {}, open' \subseteq Lanes,
         worker' \in [Lanes -> WorkerStates], \A m \in Lanes : Wakes(m), Joins(l)
  PROVE  RouterInv' /\ OnceStep /\ OrderStep
<1>1. /\ returned' = returned /\ refused' = refused /\ lock' = lock /\ active' = active /\ resetting' = {}
      /\ buf' = [buf EXCEPT ![l] = Append(@, next)]
  BY DEF Joins
<1>2. /\ \A m \in Lanes : \A u \in Units : Owned(m, u) => OwnedNext(m, u)
      /\ returned[next] = "no"
  BY <1>1, OthersOwned
<1>3. buf \in [Lanes -> Seq(Units)] /\ next \in Nat /\ DOMAIN laneOf = Units
  BY DEF RouterInv, RouterTypes
<1>4. PICK n \in Nat : n = Len(buf[l])
  BY <1>3
<1>5. /\ buf'[l] \in Seq(Units) /\ Len(buf'[l]) = n + 1 /\ buf'[l][n + 1] = next
      /\ \A i \in 1 .. n : buf'[l][i] = buf[l][i]
  <2>1. buf'[l] = Append(buf[l], next) /\ buf[l] \in Seq(Units)
    BY <1>1, <1>3
  <2> QED
    BY <1>4, <2>1
<1>6. buf' \in [Lanes -> Seq(Units)] /\ \A m \in Lanes \ {l} : buf'[m] = buf[m]
  BY <1>1, <1>3, <1>5
<1>7. \A m \in Lanes : \A i \in 1 .. Len(buf[m]) : i \in 1 .. Len(buf'[m]) /\ buf'[m][i] = buf[m][i]
  <2> SUFFICES ASSUME NEW m \in Lanes, NEW i \in 1 .. Len(buf[m])
               PROVE  i \in 1 .. Len(buf'[m]) /\ buf'[m][i] = buf[m][i]
    OBVIOUS
  <2>1. CASE m = l
    BY <1>4, <1>5, <2>1
  <2>2. CASE m # l
    BY <1>6, <2>2
  <2> QED
    BY <2>1, <2>2
<1>8. \A m \in Lanes : \A i \in 1 .. Len(buf'[m]) :
         \/ i \in 1 .. Len(buf[m]) /\ buf'[m][i] = buf[m][i]
         \/ m = l /\ i = n + 1 /\ buf'[m][i] = next
  <2> SUFFICES ASSUME NEW m \in Lanes, NEW i \in 1 .. Len(buf'[m])
               PROVE  \/ i \in 1 .. Len(buf[m]) /\ buf'[m][i] = buf[m][i]
                      \/ m = l /\ i = n + 1 /\ buf'[m][i] = next
    OBVIOUS
  <2>1. CASE m = l
    <3>1. i \in 1 .. n \/ i = n + 1
      BY <1>5, <2>1
    <3> QED
      BY <1>4, <1>5, <2>1, <3>1
  <2>2. CASE m # l
    BY <1>6, <2>2
  <2> QED
    BY <2>1, <2>2
<1>9. OwnedNext(l, next)
  BY <1>1, <1>2, <1>3 DEF OwnedNext
<1>10. RouterTypes'
  BY <1>1, <1>3, <1>6 DEF RouterInv, RouterTypes, WorkerStates
<1>11. Buffered'
  <2> SUFFICES ASSUME NEW m \in Lanes
               PROVE  /\ \A i \in 1 .. Len(buf'[m]) : OwnedNext(m, buf'[m][i])
                      /\ \A i, j \in 1 .. Len(buf'[m]) : i < j => buf'[m][i] < buf'[m][j]
    BY DEF Buffered, Owned, OwnedNext
  <2>1. \A i \in 1 .. Len(buf[m]) : buf[m][i] \in Units /\ Owned(m, buf[m][i])
    BY InBuffer
  <2>2. ASSUME NEW i \in 1 .. Len(buf'[m]) PROVE OwnedNext(m, buf'[m][i])
    BY <1>2, <1>8, <1>9, <2>1
  <2>3. ASSUME NEW i \in 1 .. Len(buf'[m]), NEW j \in 1 .. Len(buf'[m]), i < j PROVE buf'[m][i] < buf'[m][j]
    <3>1. CASE j \in 1 .. Len(buf[m])
      <4>1. i \in 1 .. Len(buf[m])
        BY <2>3, <3>1
      <4> QED
        BY <1>7, <2>3, <3>1, <4>1 DEF RouterInv, Buffered
    <3>2. CASE j \notin 1 .. Len(buf[m])
      <4>1. m = l /\ j = n + 1 /\ buf'[m][j] = next
        BY <1>8, <3>2
      <4>2. i \in 1 .. Len(buf[m])
        BY <1>4, <2>3, <4>1
      <4> QED
        BY <1>7, <2>1, <4>1, <4>2 DEF Owned
    <3> QED
      BY <3>1, <3>2
  <2> QED
    BY <2>2, <2>3
<1>12. Asked'
  <2> SUFFICES ASSUME NEW m \in Lanes, worker'[m] = "query"
               PROVE  /\ Len(active'[m]) \in 1 .. Len(buf'[m])
                      /\ \A i \in 1 .. Len(active'[m]) : active'[m][i] = buf'[m][i]
                      /\ \A i \in 1 .. Len(active'[m]) - 1 : active'[m][i] \notin sealed'
    BY DEF Asked
  <2>1. worker[m] = "query" /\ active'[m] = active[m]
    BY <1>1 DEF Wakes
  <2>2. /\ Len(active[m]) \in 1 .. Len(buf[m])
        /\ \A i \in 1 .. Len(active[m]) : i \in 1 .. Len(buf[m]) /\ active[m][i] = buf[m][i]
    <3>1. Len(active[m]) \in 1 .. Len(buf[m]) /\ \A i \in 1 .. Len(active[m]) : active[m][i] = buf[m][i]
      BY <2>1 DEF RouterInv, Asked
    <3>2. Len(buf[m]) \in Nat
      BY <1>3
    <3> QED
      BY <3>1, <3>2
  <2>3. \A i \in 1 .. Len(active[m]) : active[m][i] = buf'[m][i]
    BY <1>7, <2>2
  <2>4. Len(active[m]) \in 1 .. Len(buf'[m])
    BY <1>7, <2>2
  <2>5. ASSUME NEW i \in 1 .. Len(active[m]) - 1 PROVE active[m][i] \notin sealed'
    <3>1. active[m][i] \notin sealed /\ ~EndOfBuffer(active[m][i])
      BY <2>1, EndNotInside DEF RouterInv, Asked
    <3>2. i \in 1 .. Len(active[m])
      BY <2>2
    <3>3. active[m][i] \in Int /\ active[m][i] < next
      BY <2>2, <3>2, InBuffer, UnitsNat DEF Owned
    <3> QED
      BY <1>3, <3>1, <3>3 DEF Joins
  <2> QED
    BY <2>1, <2>3, <2>4, <2>5
<1>13. Held'
  <2> SUFFICES ASSUME NEW m \in Lanes, worker'[m] \in {"lock", "lockfail"}, NEW i \in 1 .. Len(active'[m])
               PROVE  /\ OwnedNext(m, active'[m][i])
                      /\ \A j \in 1 .. Len(buf'[m]) : active'[m][i] < buf'[m][j]
    BY DEF Held, Owned, OwnedNext
  <2>1. worker[m] \in {"lock", "lockfail"} /\ active'[m] = active[m] /\ i \in 1 .. Len(active[m])
    BY <1>1 DEF Wakes
  <2>2. Owned(m, active[m][i]) /\ \A j \in 1 .. Len(buf[m]) : active[m][i] < buf[m][j]
    BY <2>1 DEF RouterInv, Held
  <2>3. active[m][i] \in Units
    <3>1. active[m] \in Seq(Units)
      BY DEF RouterInv, RouterTypes
    <3> QED
      BY <2>1, <3>1, ElementOfSeq
  <2>4. OwnedNext(m, active[m][i])
    BY <1>2, <2>2, <2>3
  <2>5. \A j \in 1 .. Len(buf'[m]) : active[m][i] < buf'[m][j]
    BY <1>8, <2>2 DEF Owned
  <2> QED
    BY <2>1, <2>4, <2>5
<1>14. Refusing'
  <2> SUFFICES ASSUME NEW m \in Lanes, lock'[m] # "append", NEW i \in 1 .. Len(refused'[m])
               PROVE  /\ OwnedNext(m, refused'[m][i])
                      /\ \A j \in 1 .. Len(buf'[m]) : refused'[m][i] # buf'[m][j]
                      /\ worker'[m] \in {"lock", "lockfail"} =>
                           \A j \in 1 .. Len(active'[m]) : refused'[m][i] # active'[m][j]
    BY DEF Refusing, Owned, OwnedNext
  <2>1. /\ lock[m] # "append" /\ refused'[m] = refused[m] /\ i \in 1 .. Len(refused[m]) /\ active'[m] = active[m]
        /\ worker'[m] \in {"lock", "lockfail"} => worker[m] = worker'[m]
    BY <1>1 DEF Wakes
  <2>2. /\ Owned(m, refused[m][i])
        /\ \A j \in 1 .. Len(buf[m]) : refused[m][i] # buf[m][j]
        /\ worker[m] \in {"lock", "lockfail"} => \A j \in 1 .. Len(active[m]) : refused[m][i] # active[m][j]
    BY <2>1 DEF RouterInv, Refusing
  <2>3. refused[m][i] \in Units /\ refused[m][i] # next
    <3>1. refused[m] \in Seq(Units)
      BY DEF RouterInv, RouterTypes
    <3>2. refused[m][i] \in Units
      BY <2>1, <3>1, ElementOfSeq
    <3> QED
      BY <1>3, <2>2, <3>2, UnitsNat DEF Owned
  <2>4. OwnedNext(m, refused[m][i])
    BY <1>2, <2>2, <2>3
  <2>5. \A j \in 1 .. Len(buf'[m]) : refused[m][i] # buf'[m][j]
    BY <1>8, <2>2, <2>3
  <2> QED
    BY <2>1, <2>2, <2>4, <2>5
<1>15. Unborn'
  <2>1. \A u \in Units : u >= next + 1 => u >= next
    BY <1>3, UnitsNat
  <2> QED
    BY <1>1, <2>1 DEF RouterInv, Unborn
<1>16. SealsWait'
  <2> SUFFICES ASSUME NEW u \in sealed' PROVE \E m \in Lanes : \E i \in 1 .. Len(buf'[m]) : u = buf'[m][i]
    BY DEF SealsWait
  <2>1. CASE u \in sealed \/ EndOfBuffer(u)
    <3>1. PICK m \in Lanes : \E i \in 1 .. Len(buf[m]) : u = buf[m][i]
      BY <2>1, EndWaits
    <3> QED
      BY <1>7, <3>1
  <2>2. CASE u = next
    <3>1. n + 1 \in 1 .. Len(buf'[l]) /\ u = buf'[l][n + 1]
      BY <1>5, <2>2
    <3> QED
      BY <3>1
  <2> QED
    BY <2>1, <2>2 DEF Joins
<1>17. Turns'
  BY <1>1 DEF RouterInv, Turns, Wakes
<1>18. OnceStep /\ OrderStep
  BY <1>1 DEF OnceStep, OrderStep
<1> QED
  BY <1>10, <1>11, <1>12, <1>13, <1>14, <1>15, <1>16, <1>17, <1>18 DEF RouterInv

(* A unit is turned away. *)
LEMMA TurningAway ==
  ASSUME RouterInv, NEW l \in Lanes, next \in Units, next' = next + 1, laneOf' = [laneOf EXCEPT ![next] = l],
         UNCHANGED <<active, resetting>>, resetting = {}, open' \subseteq Lanes,
         worker' \in [Lanes -> WorkerStates], \A m \in Lanes : Wakes(m), TurnedAway(l)
  PROVE  RouterInv' /\ OnceStep /\ OrderStep
<1>1. buf' = buf /\ active' = active /\ resetting' = {} /\ (Give({next}, "failure") \/ returned' = returned)
  BY DEF TurnedAway
<1>2. /\ \A m \in Lanes : \A u \in Units : Owned(m, u) => OwnedNext(m, u)
      /\ returned' \in [Units -> {"no", "commit", "failure"}]
      /\ \A u \in Units : returned'[u] \in {returned[u], "failure"} /\ (u # next => returned'[u] = returned[u])
      /\ OnceStep /\ returned[next] = "no"
  BY <1>1, OthersOwned
<1>3. next \in Nat /\ DOMAIN laneOf = Units /\ refused \in [Lanes -> Seq(Units)] /\ lock \in [Lanes -> LockStates]
  BY DEF RouterInv, RouterTypes, LockStates
<1>4. \A m \in Lanes : \A i \in 1 .. Len(buf[m]) : buf[m][i] \in Int /\ buf[m][i] < next
  BY InBuffer, UnitsNat DEF Owned
<1>5. \A m \in Lanes : worker[m] \in {"lock", "lockfail"} =>
        \A i \in 1 .. Len(active[m]) : active[m][i] \in Units /\ active[m][i] \in Int /\ active[m][i] < next
  <2> SUFFICES ASSUME NEW m \in Lanes, worker[m] \in {"lock", "lockfail"}, NEW i \in 1 .. Len(active[m])
               PROVE  active[m][i] \in Units /\ active[m][i] \in Int /\ active[m][i] < next
    OBVIOUS
  <2>1. active[m] \in Seq(Units)
    BY DEF RouterInv, RouterTypes
  <2>2. active[m][i] \in Units
    BY <2>1, ElementOfSeq
  <2> QED
    BY <2>2, UnitsNat DEF RouterInv, Held, Owned
<1>6. /\ refused' \in [Lanes -> Seq(Units)] /\ lock' \in [Lanes -> LockStates]
      /\ \A m \in Lanes : (lock'[m] = lock[m] /\ refused'[m] = refused[m]) \/ (m = l /\ lock'[m] = "append")
                           \/ (m = l /\ lock'[m] = lock[m] /\ returned' = returned /\ refused'[m] = <<next>>)
  <2>1. CASE UNCHANGED <<refused, lock>>
    BY <1>3, <2>1
  <2>2. CASE refused' = [refused EXCEPT ![l] = <<next>>] /\ lock' = [lock EXCEPT ![l] = "append"]
    <3>1. <<next>> \in Seq(Units)
      OBVIOUS
    <3> QED
      BY <1>3, <2>2, <3>1 DEF LockStates
  <2>3. CASE refused' = [refused EXCEPT ![l] = <<next>>] /\ UNCHANGED <<returned, lock>>
    <3>1. <<next>> \in Seq(Units)
      OBVIOUS
    <3> QED
      BY <1>3, <2>3, <3>1
  <2> QED
    BY <2>1, <2>2, <2>3 DEF TurnedAway
<1>7. RouterTypes'
  BY <1>1, <1>2, <1>3, <1>6 DEF RouterInv, RouterTypes, WorkerStates, LockStates
<1>8. Buffered'
  <2> SUFFICES ASSUME NEW m \in Lanes
               PROVE  /\ \A i \in 1 .. Len(buf'[m]) : OwnedNext(m, buf'[m][i])
                      /\ \A i, j \in 1 .. Len(buf'[m]) : i < j => buf'[m][i] < buf'[m][j]
    BY DEF Buffered, Owned, OwnedNext
  <2>1. \A i \in 1 .. Len(buf[m]) : buf[m][i] \in Units /\ Owned(m, buf[m][i])
    BY InBuffer
  <2>2. \A i \in 1 .. Len(buf[m]) : OwnedNext(m, buf[m][i])
    BY <1>2, <2>1
  <2> QED
    BY <1>1, <2>2 DEF RouterInv, Buffered
<1>9. Asked'
  <2> SUFFICES ASSUME NEW m \in Lanes, worker'[m] = "query"
               PROVE  /\ Len(active[m]) \in 1 .. Len(buf[m])
                      /\ \A i \in 1 .. Len(active[m]) : active[m][i] = buf[m][i]
                      /\ \A i \in 1 .. Len(active[m]) - 1 : active[m][i] \notin sealed'
    BY <1>1 DEF Asked
  <2>1. worker[m] = "query"
    BY DEF Wakes
  <2>2. \A i \in 1 .. Len(active[m]) - 1 : active[m][i] \notin sealed /\ ~EndOfBuffer(active[m][i])
    BY <2>1, EndNotInside DEF RouterInv, Asked
  <2>3. \A i \in 1 .. Len(active[m]) - 1 : active[m][i] \notin sealed'
    BY <2>2 DEF TurnedAway
  <2> QED
    BY <2>1, <2>3 DEF RouterInv, Asked
<1>10. Held'
  <2> SUFFICES ASSUME NEW m \in Lanes, worker'[m] \in {"lock", "lockfail"}, NEW i \in 1 .. Len(active'[m])
               PROVE  /\ OwnedNext(m, active'[m][i])
                      /\ \A j \in 1 .. Len(buf'[m]) : active'[m][i] < buf'[m][j]
    BY DEF Held, Owned, OwnedNext
  <2>1. worker[m] \in {"lock", "lockfail"} /\ active'[m] = active[m] /\ buf'[m] = buf[m] /\ i \in 1 .. Len(active[m])
    BY <1>1 DEF Wakes
  <2>2. Owned(m, active[m][i]) /\ \A j \in 1 .. Len(buf[m]) : active[m][i] < buf[m][j]
    BY <2>1 DEF RouterInv, Held
  <2>3. OwnedNext(m, active[m][i])
    BY <1>2, <1>5, <2>1, <2>2
  <2> QED
    BY <2>1, <2>2, <2>3
<1>11. Refusing'
  <2> SUFFICES ASSUME NEW m \in Lanes, lock'[m] # "append", NEW i \in 1 .. Len(refused'[m])
               PROVE  /\ OwnedNext(m, refused'[m][i])
                      /\ \A j \in 1 .. Len(buf'[m]) : refused'[m][i] # buf'[m][j]
                      /\ worker'[m] \in {"lock", "lockfail"} =>
                           \A j \in 1 .. Len(active'[m]) : refused'[m][i] # active'[m][j]
    BY DEF Refusing, Owned, OwnedNext
  <2>0. /\ active'[m] = active[m] /\ buf'[m] = buf[m]
        /\ worker'[m] \in {"lock", "lockfail"} => worker[m] = worker'[m]
    BY <1>1 DEF Wakes
  <2>1. CASE lock'[m] = lock[m] /\ refused'[m] = refused[m]
    <3>1. /\ Owned(m, refused[m][i])
          /\ \A j \in 1 .. Len(buf[m]) : refused[m][i] # buf[m][j]
          /\ worker[m] \in {"lock", "lockfail"} => \A j \in 1 .. Len(active[m]) : refused[m][i] # active[m][j]
      BY <2>1 DEF RouterInv, Refusing
    <3>2. refused[m][i] \in Units
      <4>1. refused[m] \in Seq(Units) /\ i \in 1 .. Len(refused[m])
        BY <1>3, <2>1
      <4> QED
        BY <4>1, ElementOfSeq
    <3>3. OwnedNext(m, refused[m][i])
      BY <1>2, <3>1, <3>2
    <3> QED
      BY <2>0, <2>1, <3>1, <3>3
  <2>2. CASE m = l /\ lock'[m] = lock[m] /\ returned' = returned /\ refused'[m] = <<next>>
    <3>1. refused'[m][i] = next
      BY <2>2
    <3>2. OwnedNext(m, next)
      BY <1>2, <1>3, <2>2 DEF OwnedNext
    <3>3. \A j \in 1 .. Len(buf[m]) : next # buf[m][j]
      BY <1>3, <1>4
    <3>4. worker[m] \in {"lock", "lockfail"} => \A j \in 1 .. Len(active[m]) : next # active[m][j]
      BY <1>3, <1>5
    <3> QED
      BY <2>0, <3>1, <3>2, <3>3, <3>4
  <2> QED
    BY <1>6, <2>1, <2>2
<1>12. Unborn'
  <2>1. \A u \in Units : u >= next + 1 => u >= next /\ u # next
    BY <1>3, UnitsNat
  <2> QED
    BY <1>2, <2>1 DEF RouterInv, Unborn
<1>13. SealsWait'
  <2>1. \A u \in sealed' : \E m \in Lanes : \E i \in 1 .. Len(buf[m]) : u = buf[m][i]
    BY EndWaits DEF TurnedAway
  <2> QED
    BY <1>1, <2>1 DEF SealsWait
<1>14. Turns'
  <2>1. \A m \in Lanes : lock'[m] = lock[m] \/ lock[m] = "free"
    BY <1>3 DEF TurnedAway
  <2> QED
    BY <1>1, <2>1 DEF RouterInv, Turns, Wakes
<1>15. OrderStep
  BY <1>2, NothingCommitted
<1> QED
  BY <1>2, <1>7, <1>8, <1>9, <1>10, <1>11, <1>12, <1>13, <1>14, <1>15 DEF RouterInv

-----------------------------------------------------------------------------
(* The operations of the router, one lemma each where it takes more than   *)
(* naming the right one of the lemmas above.                               *)
LEMMA Awakening ==
  ASSUME RouterInv, NEW ls, worker' = Awake(ls)
  PROVE  worker' \in [Lanes -> WorkerStates] /\ \A m \in Lanes : Wakes(m)
BY DEF RouterInv, RouterTypes, Awake, Wakes, WorkerStates

(* append() of the router. *)
LEMMA Appending ==
  ASSUME RouterInv, NEW l \in Lanes, NEW boundary, NEW turn, NEW tooLarge,
         Append_(l, boundary, turn, tooLarge)
  PROVE  RouterInv' /\ OnceStep /\ OrderStep
<1>1. /\ next \in Units /\ next' = next + 1 /\ laneOf' = [laneOf EXCEPT ![next] = l]
      /\ UNCHANGED <<active, resetting>> /\ resetting = {}
  BY DEF Append_
<1>2. open \subseteq Lanes
  BY DEF RouterInv, RouterTypes
<1>3. CASE RouterRefuses(next)
  <2>1. worker' \in [Lanes -> WorkerStates] /\ \A m \in Lanes : Wakes(m)
    BY <1>3, Awakening DEF RouterRefuses
  <2>2. TurnedAway(l)
    <3>1. \A u \in sealed' : u \in sealed \/ EndOfBuffer(u)
      BY <1>2, <1>3, SealsAtEnds DEF RouterRefuses
    <3> QED
      BY <1>3, <3>1 DEF RouterRefuses, TurnedAway
  <2>3. open' \subseteq Lanes
    BY <1>2, <1>3 DEF RouterRefuses
  <2> QED
    BY <1>1, <2>1, <2>2, <2>3, TurningAway
<1>4. CASE CoordinatorTakes(l, next, boundary, turn) /\ open' \subseteq Lanes
  <2>1. worker' \in [Lanes -> WorkerStates] /\ \A m \in Lanes : Wakes(m)
    BY <1>4, Awakening DEF CoordinatorTakes
  <2>2. PICK before : /\ before = IF turn THEN Seals(open) ELSE sealed
                      /\ \A u \in before : u \in sealed \/ EndOfBuffer(u)
    BY <1>2, SealsAtEnds
  <2>3. CASE Len(buf[l]) >= LaneUnits
    <3>1. sealed' = before \cup Seals(IF boundary THEN open ELSE {l})
      BY <1>4, <2>2, <2>3 DEF CoordinatorTakes
    <3>2. \A u \in Seals(IF boundary THEN open ELSE {l}) : u \in sealed \/ EndOfBuffer(u)
      <4>1. (IF boundary THEN open ELSE {l}) \subseteq Lanes
        BY <1>2
      <4> QED
        BY <4>1, SealsAtEnds
    <3>3. \A u \in sealed' : u \in sealed \/ EndOfBuffer(u)
      BY <2>2, <3>1, <3>2
    <3>4. TurnedAway(l)
      BY <1>4, <2>3, <3>3 DEF CoordinatorTakes, TurnedAway
    <3> QED
      BY <1>1, <1>4, <2>1, <3>4, TurningAway
  <2>4. CASE ~(Len(buf[l]) >= LaneUnits)
    <3>1. sealed' = before \cup (IF boundary THEN Seals(open \ {l}) \cup {next} ELSE {})
      BY <1>4, <2>2, <2>4 DEF CoordinatorTakes
    <3>2. \A u \in Seals(open \ {l}) : u \in sealed \/ EndOfBuffer(u)
      <4>1. open \ {l} \subseteq Lanes
        BY <1>2
      <4> QED
        BY <4>1, SealsAtEnds
    <3>3. \A u \in sealed' : u \in sealed \/ EndOfBuffer(u) \/ u = next
      BY <2>2, <3>1, <3>2
    <3>4. Joins(l)
      BY <1>4, <2>4, <3>3 DEF CoordinatorTakes, Joins
    <3> QED
      BY <1>1, <1>4, <2>1, <3>4, Joining
  <2> QED
    BY <2>3, <2>4
<1> QED
  <2>1. CASE RouterRefuses(next)
    BY <1>3, <2>1
  <2>2. CASE ~RouterRefuses(next)
    <3>1. CoordinatorTakes(l, next, boundary, turn)
      BY <2>2 DEF Append_
    <3>2. open' \subseteq Lanes
      BY <1>2, <2>2 DEF Append_
    <3> QED
      BY <1>4, <3>1, <3>2
  <2> QED
    BY <2>1, <2>2

(* The first units of a request are the first of the buffer. *)
LEMMA RequestPrefix ==
  ASSUME RouterInv, NEW l \in Lanes, worker[l] = "query", NEW n \in 1 .. Len(active[l])
  PROVE  /\ n \in 1 .. Len(buf[l]) /\ SubSeq(active[l], 1, n) = SubSeq(buf[l], 1, n)
         /\ \A i \in 1 .. n - 1 : buf[l][i] \notin sealed
         /\ SubSeq(active[l], 1, Len(active[l])) = active[l]
<1>1. active[l] \in Seq(Units) /\ buf[l] \in Seq(Units)
  BY DEF RouterInv, RouterTypes
<1>2. /\ Len(active[l]) \in 1 .. Len(buf[l])
      /\ \A i \in 1 .. Len(active[l]) : active[l][i] = buf[l][i]
      /\ \A i \in 1 .. Len(active[l]) - 1 : active[l][i] \notin sealed
  BY DEF RouterInv, Asked
<1>3. n \in 1 .. Len(buf[l]) /\ n \in 0 .. Len(active[l]) /\ n \in 0 .. Len(buf[l])
  BY <1>1, <1>2
<1>4. \A i \in 1 .. n - 1 : i \in 1 .. Len(active[l]) /\ i \in 1 .. Len(active[l]) - 1
  BY <1>1
<1>5. /\ SubSeq(active[l], 1, n) \in Seq(Units) /\ Len(SubSeq(active[l], 1, n)) = n
      /\ \A i \in 1 .. n : SubSeq(active[l], 1, n)[i] = active[l][i]
  BY <1>1, <1>3, FirstOf
<1>6. /\ SubSeq(buf[l], 1, n) \in Seq(Units) /\ Len(SubSeq(buf[l], 1, n)) = n
      /\ \A i \in 1 .. n : SubSeq(buf[l], 1, n)[i] = buf[l][i]
  BY <1>1, <1>3, FirstOf
<1>7. \A i \in 1 .. n : SubSeq(active[l], 1, n)[i] = SubSeq(buf[l], 1, n)[i]
  <2>1. \A i \in 1 .. n : i \in 1 .. Len(active[l])
    BY <1>1
  <2> QED
    BY <1>2, <1>5, <1>6, <2>1
<1>8. SubSeq(active[l], 1, n) = SubSeq(buf[l], 1, n)
  BY <1>5, <1>6, <1>7, SeqEqual
<1>9. SubSeq(active[l], 1, Len(active[l])) = active[l]
  BY <1>1, SubSeqFull
<1> QED
  BY <1>2, <1>3, <1>4, <1>8, <1>9

(* A request ended: the worker goes back to its loop or has units to       *)
(* return.                                                                 *)
LEMMA Settling ==
  ASSUME RouterInv, NEW l \in Lanes, worker[l] = "query", UNCHANGED <<next, open, refused, resetting, laneOf>>,
         \/ Return(l) /\ UNCHANGED <<buf, sealed, returned, lock>>
         \/ Consume(l, Len(active[l])) /\ Deliver(l, active[l], "failure")
         \/ \E n \in Prefixes(l) : Consume(l, n) /\ Deliver(l, SubSeq(active[l], 1, n), "commit")
  PROVE  RouterInv' /\ OnceStep /\ OrderStep
<1>0. Len(active[l]) \in 1 .. Len(active[l]) /\ Prefixes(l) \subseteq 1 .. Len(active[l])
  <2>1. active[l] \in Seq(Units) /\ buf[l] \in Seq(Units)
    BY DEF RouterInv, RouterTypes
  <2>2. Len(active[l]) \in 1 .. Len(buf[l])
    BY DEF RouterInv, Asked
  <2>3. Len(active[l]) \in 1 .. Len(active[l])
    BY <2>1, <2>2
  <2> QED
    BY <2>3 DEF Prefixes
<1>1. CASE Return(l) /\ UNCHANGED <<buf, sealed, returned, lock>>
  <2>1. /\ active' \in [Lanes -> Seq(Units)] /\ worker' \in [Lanes -> WorkerStates]
        /\ worker'[l] = "loop"
        /\ \A m \in Lanes \ {l} : worker'[m] = worker[m] /\ active'[m] = active[m]
    <3>1. <<>> \in Seq(Units)
      OBVIOUS
    <3> QED
      BY <1>1, <3>1 DEF Return, RouterInv, RouterTypes, WorkerStates
  <2>2. \A m \in Lanes : Moves(m) /\ (lock'[m] # "append" => lock[m] # "append")
    BY <1>1, <2>1 DEF Moves
  <2>3. l \notin resetting
    BY DEF RouterInv, Turns
  <2>4. Turns'
    BY <1>1, <2>1, <2>3 DEF RouterInv, Turns
  <2>5. open' \subseteq Lanes /\ resetting' \subseteq Lanes /\ lock' \in [Lanes -> LockStates]
    BY <1>1 DEF RouterInv, RouterTypes, LockStates
  <2> QED
    BY <1>1, <2>1, <2>2, <2>4, <2>5, Moving
<1>2. CASE Consume(l, Len(active[l])) /\ Deliver(l, active[l], "failure")
  <2>1. PICK n \in 1 .. Len(active[l]) : n = Len(active[l])
    BY <1>0
  <2>2. /\ n \in 1 .. Len(buf[l]) /\ active[l] = SubSeq(buf[l], 1, n)
        /\ \A i \in 1 .. n - 1 : buf[l][i] \notin sealed
    BY <2>1, RequestPrefix
  <2>3. Consume(l, n) /\ Deliver(l, active[l], "failure")
    BY <1>2, <2>1
  <2> QED
    BY <2>2, <2>3, Delivering
<1>3. CASE \E n \in Prefixes(l) : Consume(l, n) /\ Deliver(l, SubSeq(active[l], 1, n), "commit")
  <2>1. PICK n \in Prefixes(l) : Consume(l, n) /\ Deliver(l, SubSeq(active[l], 1, n), "commit")
    BY <1>3
  <2>2. /\ n \in 1 .. Len(buf[l]) /\ SubSeq(active[l], 1, n) = SubSeq(buf[l], 1, n)
        /\ \A i \in 1 .. n - 1 : buf[l][i] \notin sealed
    BY <1>0, RequestPrefix
  <2> QED
    BY <2>1, <2>2, Delivering
<1> QED
  BY <1>1, <1>2, <1>3

(* The worker gets the lock. *)
LEMMA Granting ==
  ASSUME RouterInv, NEW l \in Lanes, Granted(l)
  PROVE  RouterInv' /\ OnceStep /\ OrderStep
<1>1. /\ worker[l] \in {"lock", "lockfail"} /\ lock[l] = "free"
      /\ lock' = [lock EXCEPT ![l] = "worker"] /\ worker' = [worker EXCEPT ![l] = "call"]
      /\ UNCHANGED <<next, open, buf, sealed, active, refused, resetting, laneOf>>
  BY DEF Granted, Fixed
<1>2. PICK us : us = Elems(active[l])
  OBVIOUS
<1>3. PICK kind \in {"commit", "failure"} : Give(us, kind)
  BY <1>2 DEF Granted
<1>4. active[l] \in Seq(Units) /\ \A u : u \in us <=> \E i \in 1 .. Len(active[l]) : u = active[l][i]
  BY <1>2 DEF Elems, RouterInv, RouterTypes
<1>5. \A i \in 1 .. Len(active[l]) :
        /\ active[l][i] \in Units /\ active[l][i] \in Int /\ Owned(l, active[l][i])
        /\ \A j \in 1 .. Len(buf[l]) : active[l][i] < buf[l][j]
  BY <1>1, <1>4, ElementOfSeq, UnitsNat DEF RouterInv, Held
<1>6. \A u \in us : u \in Units /\ u \in Int /\ Owned(l, u)
  BY <1>4, <1>5
<1>8. /\ worker' \in [Lanes -> WorkerStates] /\ lock' \in [Lanes -> LockStates]
      /\ worker'[l] = "call" /\ lock'[l] = "worker"
      /\ \A m \in Lanes \ {l} : worker'[m] = worker[m] /\ lock'[m] = lock[m]
  BY <1>1 DEF RouterInv, RouterTypes, WorkerStates, LockStates
<1>9. \A m \in Lanes : Gone(us, m)
  <2> SUFFICES ASSUME NEW m \in Lanes PROVE Gone(us, m)
    OBVIOUS
  <2>1. buf'[m] = buf[m] /\ \A i \in 1 .. Len(buf[m]) : Owned(m, buf[m][i])
    BY <1>1, InBuffer
  <2>2. \A i \in 1 .. Len(buf[m]) : buf[m][i] \notin us
    <3>1. CASE m = l
      <4>1. ASSUME NEW i \in 1 .. Len(buf[l]), buf[l][i] \in us PROVE FALSE
        <5>1. PICK k \in 1 .. Len(active[l]) : buf[l][i] = active[l][k]
          BY <1>4, <4>1
        <5>2. active[l][k] \in Int /\ active[l][k] < buf[l][i]
          BY <1>5
        <5> QED
          BY <5>1, <5>2
      <4> QED
        BY <3>1, <4>1
    <3>2. CASE m # l
      BY <1>6, <2>1, <3>2 DEF Owned
    <3> QED
      BY <3>1, <3>2
  <2>3. ASSUME worker'[m] \in {"lock", "lockfail"}, NEW i \in 1 .. Len(active[m]) PROVE active[m][i] \notin us
    <3>1. m # l /\ worker[m] \in {"lock", "lockfail"}
      BY <1>8, <2>3
    <3>2. Owned(m, active[m][i])
      BY <3>1 DEF RouterInv, Held
    <3> QED
      BY <1>6, <3>1, <3>2 DEF Owned
  <2>4. ASSUME lock'[m] # "append", NEW i \in 1 .. Len(refused[m]) PROVE refused[m][i] \notin us
    <3>1. lock[m] # "append"
      BY <1>1, <1>8, <2>4
    <3>2. /\ Owned(m, refused[m][i])
          /\ worker[m] \in {"lock", "lockfail"} => \A j \in 1 .. Len(active[m]) : refused[m][i] # active[m][j]
      BY <3>1 DEF RouterInv, Refusing
    <3>3. CASE m = l
      BY <1>1, <1>4, <3>2, <3>3
    <3>4. CASE m # l
      BY <1>6, <3>2, <3>4 DEF Owned
    <3> QED
      BY <3>3, <3>4
  <2> QED
    BY <2>1, <2>2, <2>3, <2>4 DEF Gone
<1>10. SealsWait' /\ Turns'
  BY <1>1, <1>8 DEF RouterInv, SealsWait, Turns
<1>11. RouterInv' /\ OnceStep
  <2>1. \A u \in us : u \in Units /\ u < next /\ returned[u] = "no"
    BY <1>6 DEF Owned
  <2>2. /\ refused' \in [Lanes -> Seq(Units)] /\ buf' \in [Lanes -> Seq(Units)]
        /\ open' \subseteq Lanes /\ resetting' \subseteq Lanes /\ sealed' \subseteq sealed
    BY <1>1 DEF RouterInv, RouterTypes
  <2>3. \A m \in Lanes : /\ refused'[m] \in {refused[m], <<>>} /\ buf'[m] \in {buf[m], <<>>}
                         /\ worker'[m] \in {worker[m], "call"}
                         /\ worker'[m] = "query" => buf'[m] = buf[m]
                         /\ lock'[m] # "append" => lock[m] # "append" \/ refused'[m] = <<>>
    BY <1>1, <1>8
  <2>4. /\ \A m \in Lanes : refused'[m] \in {refused[m], <<>>}
        /\ \A m \in Lanes : buf'[m] \in {buf[m], <<>>} /\ worker'[m] \in {worker[m], "call"}
        /\ \A m \in Lanes : worker'[m] = "query" => buf'[m] = buf[m]
        /\ \A m \in Lanes : lock'[m] # "append" => lock[m] # "append" \/ refused'[m] = <<>>
    BY <2>3
  <2>5. kind \in {"commit", "failure"} /\ Give(us, kind) /\ UNCHANGED <<next, laneOf, active>>
    BY <1>1, <1>3
  <2>6. worker' \in [Lanes -> WorkerStates] /\ lock' \in [Lanes -> LockStates]
    BY <1>8
  <2> QED
    BY <1>9, <1>10, <2>1, <2>2, <2>4, <2>5, <2>6, Handing
<1>12. OrderStep
  <2> SUFFICES ASSUME NEW u \in Units, returned[u] = "no", returned'[u] = "commit",
                      NEW v \in 1 .. u - 1, laneOf[v] = laneOf[u]
               PROVE  /\ \A m \in Lanes : v \notin Elems(buf[m])
                      /\ v \notin sealed
    BY <1>1 DEF OrderStep
  <2>1. u \in us /\ v \in Int /\ u \in Int /\ v < u
    <3>1. u \in us
      BY <1>3 DEF Give
    <3> QED
      BY <1>6, <3>1
  <2>2. laneOf[v] = l
    BY <1>6, <2>1 DEF Owned
  <2>3. ASSUME NEW m \in Lanes, NEW j \in 1 .. Len(buf[m]), v = buf[m][j] PROVE FALSE
    <3>1. m = l
      BY <2>2, <2>3, InBuffer DEF Owned
    <3>2. PICK k \in 1 .. Len(active[l]) : u = active[l][k]
      BY <1>4, <2>1
    <3>3. u < v
      BY <1>5, <2>3, <3>1, <3>2
    <3> QED
      BY <2>1, <3>3
  <2>4. \A m \in Lanes : v \notin Elems(buf[m])
    BY <2>3 DEF Elems
  <2>5. v \notin sealed
    BY <2>3 DEF RouterInv, SealsWait
  <2> QED
    BY <2>4, <2>5
<1> QED
  BY <1>11, <1>12

(* The append that was refused gets the lock, or is done. *)
LEMMA RefusedStepping ==
  ASSUME RouterInv, NEW l \in Lanes, RefusedStep(l)
  PROVE  RouterInv' /\ OnceStep /\ OrderStep
<1>1. UNCHANGED <<next, open, buf, sealed, active, worker, resetting, laneOf>>
  BY DEF RefusedStep, Fixed
<1>2. PICK us : /\ Give(us, "failure") /\ us \subseteq Units
                /\ \A u \in us : u \in Units /\ u < next /\ returned[u] = "no"
                /\ \A m \in Lanes : Gone(us, m)
                /\ refused' \in [Lanes -> Seq(Units)] /\ lock' \in [Lanes -> LockStates]
                /\ \A m \in Lanes : /\ refused'[m] \in {refused[m], <<>>}
                                    /\ lock'[m] # "append" => lock[m] # "append" \/ refused'[m] = <<>>
                                    /\ worker[m] = "call" => lock'[m] = "worker"
  <2>1. CASE lock[l] = "free" /\ Give(Elems(refused[l]), "failure") /\ lock' = [lock EXCEPT ![l] = "append"]
             /\ refused' = refused
    <3>1. PICK us : us = Elems(refused[l])
      OBVIOUS
    <3>2. refused[l] \in Seq(Units) /\ \A u : u \in us <=> \E i \in 1 .. Len(refused[l]) : u = refused[l][i]
      BY <3>1 DEF Elems, RouterInv, RouterTypes
    <3>3. \A i \in 1 .. Len(refused[l]) :
            /\ refused[l][i] \in Units /\ Owned(l, refused[l][i])
            /\ \A j \in 1 .. Len(buf[l]) : refused[l][i] # buf[l][j]
            /\ worker[l] \in {"lock", "lockfail"} => \A j \in 1 .. Len(active[l]) : refused[l][i] # active[l][j]
      BY <2>1, <3>2, ElementOfSeq DEF RouterInv, Refusing
    <3>4. \A u \in us : u \in Units /\ Owned(l, u)
      BY <3>2, <3>3
    <3>5. /\ lock' \in [Lanes -> LockStates] /\ lock'[l] = "append"
          /\ \A m \in Lanes \ {l} : lock'[m] = lock[m]
      BY <2>1 DEF RouterInv, RouterTypes, LockStates
    <3>6. \A m \in Lanes : Gone(us, m)
      <4> SUFFICES ASSUME NEW m \in Lanes PROVE Gone(us, m)
        OBVIOUS
      <4>1. CASE m = l
        BY <1>1, <3>2, <3>3, <3>5, <4>1 DEF Gone
      <4>2. CASE m # l
        <5>1. \A u \in Units : Owned(m, u) => u \notin us
          BY <3>4, <4>2 DEF Owned
        <5>2. \A i \in 1 .. Len(buf[m]) : buf[m][i] \in Units /\ Owned(m, buf[m][i])
          BY InBuffer
        <5>3. worker[m] \in {"lock", "lockfail"} => \A i \in 1 .. Len(active[m]) : active[m][i] \in Units /\ Owned(m, active[m][i])
          <6>1. active[m] \in Seq(Units)
            BY DEF RouterInv, RouterTypes
          <6> QED
            BY <6>1, ElementOfSeq DEF RouterInv, Held
        <5>4. lock[m] # "append" => \A i \in 1 .. Len(refused[m]) : refused[m][i] \in Units /\ Owned(m, refused[m][i])
          <6>1. refused[m] \in Seq(Units)
            BY DEF RouterInv, RouterTypes
          <6> QED
            BY <6>1, ElementOfSeq DEF RouterInv, Refusing
        <5>5. lock'[m] = lock[m] /\ buf'[m] = buf[m] /\ worker'[m] = worker[m]
          BY <1>1, <3>5, <4>2
        <5> QED
          BY <5>1, <5>2, <5>3, <5>4, <5>5 DEF Gone
      <4> QED
        BY <4>1, <4>2
    <3>7. \A m \in Lanes : worker[m] = "call" => lock'[m] = "worker"
      BY <2>1, <3>5 DEF RouterInv, Turns
    <3>8. \A u \in us : u \in Units /\ u < next /\ returned[u] = "no"
      BY <3>4 DEF Owned
    <3>9. \A m \in Lanes : lock'[m] # "append" => lock[m] # "append"
      BY <2>1, <3>5
    <3>10. Give(us, "failure") /\ us \subseteq Units
      BY <2>1, <3>1, <3>8
    <3>11. refused' \in [Lanes -> Seq(Units)] /\ \A m \in Lanes : refused'[m] = refused[m]
      BY <2>1 DEF RouterInv, RouterTypes
    <3> QED
      BY <3>5, <3>6, <3>7, <3>8, <3>9, <3>10, <3>11
  <2>2. CASE lock[l] = "append" /\ lock' = [lock EXCEPT ![l] = "free"] /\ refused' = [refused EXCEPT ![l] = <<>>]
             /\ returned' = returned
    <3>1. Give({}, "failure")
      BY <2>2 DEF Give, RouterInv, RouterTypes
    <3>2. \A m \in Lanes : Gone({}, m)
      BY DEF Gone
    <3>3. refused' \in [Lanes -> Seq(Units)] /\ lock' \in [Lanes -> LockStates]
      <4>1. <<>> \in Seq(Units)
        OBVIOUS
      <4> QED
        BY <2>2, <4>1 DEF RouterInv, RouterTypes, LockStates
    <3>4. \A m \in Lanes : /\ refused'[m] \in {refused[m], <<>>}
                           /\ lock'[m] # "append" => lock[m] # "append" \/ refused'[m] = <<>>
                           /\ worker[m] = "call" => lock'[m] = "worker"
      BY <2>2 DEF RouterInv, RouterTypes, Turns
    <3> QED
      BY <3>1, <3>2, <3>3, <3>4
  <2> QED
    BY <2>1, <2>2 DEF RefusedStep
<1>3. RouterInv' /\ OnceStep
  <2>1. SealsWait' /\ Turns'
    BY <1>1, <1>2 DEF RouterInv, SealsWait, Turns
  <2>2. /\ buf' \in [Lanes -> Seq(Units)] /\ open' \subseteq Lanes /\ resetting' \subseteq Lanes
        /\ worker' \in [Lanes -> WorkerStates] /\ sealed' \subseteq sealed
    BY <1>1 DEF RouterInv, RouterTypes, WorkerStates
  <2>3. \A m \in Lanes : buf'[m] \in {buf[m], <<>>} /\ worker'[m] \in {worker[m], "call"}
                         /\ (worker'[m] = "query" => buf'[m] = buf[m])
    BY <1>1
  <2> QED
    BY <1>1, <1>2, <2>1, <2>2, <2>3, Handing
<1>4. OrderStep
  <2>1. \A u \in Units : returned'[u] \in {returned[u], "failure"}
    BY <1>2 DEF Give
  <2> QED
    BY <2>1, NothingCommitted
<1> QED
  BY <1>3, <1>4

(* reset() returns what its lane still had. *)
LEMMA ResetEnding ==
  ASSUME RouterInv, NEW l \in Lanes, ResetEnd(l)
  PROVE  RouterInv' /\ OnceStep /\ OrderStep
<1>1. /\ l \in resetting /\ resetting' = resetting \ {l} /\ Consume(l, Len(buf[l])) /\ Retire(l)
      /\ open' \in {open, open \ {l}}
      /\ UNCHANGED <<next, worker, active, refused, lock, laneOf>>
  BY DEF ResetEnd, Fixed
<1>2. worker[l] = "none"
  BY <1>1 DEF RouterInv, Turns
<1>3. PICK us : us = Elems(buf[l])
  OBVIOUS
<1>4. Give(us, "failure") /\ buf[l] \in Seq(Units)
  BY <1>1, <1>3 DEF Retire, RouterInv, RouterTypes
<1>5. \A u : u \in us <=> \E i \in 1 .. Len(buf[l]) : u = buf[l][i]
  BY <1>3 DEF Elems
<1>6. \A u \in us : u \in Units /\ Owned(l, u)
  BY <1>5, InBuffer
<1>7. buf'[l] = <<>> /\ sealed' = sealed \ us
  <2>1. SubSeq(buf[l], 1, Len(buf[l])) = buf[l]
    BY <1>4, SubSeqFull
  <2>2. SubSeq(buf[l], Len(buf[l]) + 1, Len(buf[l])) = <<>>
    <3>1. Len(buf[l]) \in Int /\ Len(buf[l]) + 1 \in Int /\ Len(buf[l]) < Len(buf[l]) + 1
      BY <1>4
    <3> QED
      BY <3>1, SubSeqEmpty
  <2> QED
    BY <1>1, <1>3, <2>1, <2>2 DEF Consume, RouterInv, RouterTypes
<1>8. buf' \in [Lanes -> Seq(Units)] /\ \A m \in Lanes \ {l} : buf'[m] = buf[m]
  <2>1. <<>> \in Seq(Units)
    OBVIOUS
  <2> QED
    BY <1>1, <1>7, <2>1 DEF Consume, RouterInv, RouterTypes
<1>9. \A m \in Lanes : Gone(us, m)
  <2> SUFFICES ASSUME NEW m \in Lanes PROVE Gone(us, m)
    OBVIOUS
  <2>1. \A u \in Units : Owned(m, u) /\ m # l => u \notin us
    BY <1>6 DEF Owned
  <2>2. \A i \in 1 .. Len(buf'[m]) : buf'[m][i] \notin us
    <3>1. CASE m = l
      BY <1>7, <3>1
    <3>2. CASE m # l
      BY <1>8, <2>1, <3>2, InBuffer
    <3> QED
      BY <3>1, <3>2
  <2>3. ASSUME worker'[m] \in {"lock", "lockfail"}, NEW i \in 1 .. Len(active[m]) PROVE active[m][i] \notin us
    <3>1. m # l /\ worker[m] \in {"lock", "lockfail"} /\ active[m] \in Seq(Units)
      BY <1>1, <1>2, <2>3 DEF RouterInv, RouterTypes
    <3>2. Owned(m, active[m][i]) /\ active[m][i] \in Units
      BY <3>1, ElementOfSeq DEF RouterInv, Held
    <3> QED
      BY <2>1, <3>1, <3>2
  <2>4. ASSUME lock'[m] # "append", NEW i \in 1 .. Len(refused[m]) PROVE refused[m][i] \notin us
    <3>1. lock[m] # "append" /\ refused[m] \in Seq(Units)
      BY <1>1, <2>4 DEF RouterInv, RouterTypes
    <3>2. /\ Owned(m, refused[m][i]) /\ refused[m][i] \in Units
          /\ \A j \in 1 .. Len(buf[m]) : refused[m][i] # buf[m][j]
      BY <3>1, ElementOfSeq DEF RouterInv, Refusing
    <3> QED
      BY <1>5, <2>1, <3>2
  <2> QED
    BY <2>2, <2>3, <2>4 DEF Gone
<1>10. SealsWait'
  <2> SUFFICES ASSUME NEW u \in sealed' PROVE \E m \in Lanes : \E i \in 1 .. Len(buf'[m]) : u = buf'[m][i]
    BY DEF SealsWait
  <2>1. PICK m \in Lanes : \E i \in 1 .. Len(buf[m]) : u = buf[m][i]
    BY <1>7 DEF RouterInv, SealsWait
  <2>2. m # l
    BY <1>5, <1>7, <2>1
  <2> QED
    BY <1>8, <2>1, <2>2
<1>11. Turns'
  BY <1>1 DEF RouterInv, Turns
<1>12. RouterInv' /\ OnceStep
  <2>1. \A u \in us : u \in Units /\ u < next /\ returned[u] = "no"
    BY <1>6 DEF Owned
  <2>2. /\ refused' \in [Lanes -> Seq(Units)] /\ worker' \in [Lanes -> WorkerStates] /\ lock' \in [Lanes -> LockStates]
        /\ open' \subseteq Lanes /\ resetting' \subseteq Lanes /\ sealed' \subseteq sealed
    BY <1>1, <1>7 DEF RouterInv, RouterTypes, WorkerStates, LockStates
  <2>3. \A m \in Lanes : /\ refused'[m] \in {refused[m], <<>>} /\ buf'[m] \in {buf[m], <<>>}
                         /\ worker'[m] \in {worker[m], "call"}
                         /\ worker'[m] = "query" => buf'[m] = buf[m]
                         /\ lock'[m] # "append" => lock[m] # "append" \/ refused'[m] = <<>>
    BY <1>1, <1>2, <1>7, <1>8
  <2> QED
    BY <1>1, <1>4, <1>8, <1>9, <1>10, <1>11, <2>1, <2>2, <2>3, Handing
<1>13. OrderStep
  <2>1. \A u \in Units : returned'[u] \in {returned[u], "failure"}
    BY <1>4 DEF Give
  <2> QED
    BY <2>1, NothingCommitted
<1> QED
  BY <1>12, <1>13

(* Workers are cancelled by reset() and by close(). *)
LEMMA Cancelling ==
  ASSUME RouterInv, CancelWorkers(open), UNCHANGED <<next, laneOf, returned, open, buf, sealed, refused>>
  PROVE  RouterInv' /\ OnceStep /\ OrderStep
<1>1. open \subseteq Lanes /\ resetting' = resetting \cup open /\ resetting \subseteq Lanes
  BY DEF CancelWorkers, RouterInv, RouterTypes
<1>2. \A m \in Lanes : IF m \in open
                       THEN worker'[m] = "none"
                       ELSE worker'[m] = worker[m] /\ active'[m] = active[m] /\ lock'[m] = lock[m]
  BY DEF CancelWorkers
<1>3. \A m \in Lanes : lock'[m] = lock[m] \/ (lock[m] = "worker" /\ lock'[m] = "free")
  BY DEF CancelWorkers
<1>4. active' \in [Lanes -> Seq(Units)] /\ worker' \in [Lanes -> WorkerStates] /\ lock' \in [Lanes -> LockStates]
  <2>1. <<>> \in Seq(Units)
    OBVIOUS
  <2> QED
    BY <2>1 DEF CancelWorkers, RouterInv, RouterTypes, WorkerStates, LockStates
<1>5. \A m \in Lanes : Moves(m) /\ (lock'[m] # "append" => lock[m] # "append")
  BY <1>2, <1>3 DEF Moves
<1>6. Turns'
  BY <1>1, <1>2 DEF RouterInv, Turns
<1> QED
  BY <1>1, <1>4, <1>5, <1>6, Moving

-----------------------------------------------------------------------------
(* The invariant holds when the router is made. *)
LEMMA RouterStarts == Init => RouterInv
<1> SUFFICES ASSUME Init PROVE RouterInv
  OBVIOUS
<1>1. <<>> \in Seq(Units) /\ Len(<<>>) = 0
  OBVIOUS
<1>2. RouterTypes
  BY <1>1 DEF Init, RouterTypes
<1>3. \A l \in Lanes : buf[l] = <<>> /\ refused[l] = <<>> /\ worker[l] = "none"
  BY DEF Init
<1>4. Buffered /\ Asked /\ Held /\ Refusing
  BY <1>1, <1>3 DEF Buffered, Asked, Held, Refusing
<1>5. Unborn /\ SealsWait /\ Turns
  BY <1>3 DEF Init, Unborn, SealsWait, Turns
<1> QED
  BY <1>2, <1>4, <1>5 DEF RouterInv

(* Every operation of a lane keeps it. *)
LEMMA LaneStepKeeps ==
  ASSUME RouterInv, NEW l \in Lanes, LaneStep(l)
  PROVE  RouterInv' /\ OnceStep /\ OrderStep
<1>0. /\ open \subseteq Lanes /\ resetting \subseteq Lanes /\ buf[l] \in Seq(Units)
      /\ lock \in [Lanes -> LockStates] /\ worker \in [Lanes -> WorkerStates]
      /\ active \in [Lanes -> Seq(Units)]
      /\ (worker[l] # "none" => l \notin resetting)
  BY DEF RouterInv, RouterTypes, LockStates, WorkerStates, Turns
<1>1. CASE WorkerEnds(l)
  <2>1. /\ worker' = [worker EXCEPT ![l] = "none"] /\ worker[l] = "loop"
        /\ UNCHANGED <<next, laneOf, returned, open, buf, refused, sealed, active, lock, resetting>>
    BY <1>1 DEF WorkerEnds, Fixed
  <2>2. worker' \in [Lanes -> WorkerStates] /\ \A m \in Lanes : Moves(m) /\ (lock'[m] # "append" => lock[m] # "append")
    BY <1>0, <2>1 DEF Moves, WorkerStates
  <2>3. Turns'
    BY <1>0, <2>1 DEF RouterInv, Turns, WorkerStates
  <2> QED
    BY <1>0, <2>1, <2>2, <2>3, Moving
<1>2. CASE SourceDeadline(l)
  <2>1. /\ worker[l] = "loop" /\ buf[l] # <<>> /\ Consume(l, HeadLen(l)) /\ Deliver(l, Head_(l), "failure")
        /\ UNCHANGED <<next, open, refused, resetting, laneOf>>
    BY <1>2 DEF SourceDeadline, Fixed
  <2>2. HeadLen(l) \in 1 .. Len(buf[l]) /\ \A i \in 1 .. HeadLen(l) - 1 : buf[l][i] \notin sealed
    BY <1>0, <2>1, HeadEnds
  <2>3. Head_(l) = SubSeq(buf[l], 1, HeadLen(l))
    BY DEF Head_
  <2> QED
    BY <2>1, <2>2, <2>3, Delivering
<1>3. CASE Query(l)
  <2>1. /\ worker[l] = "loop" /\ buf[l] # <<>>
        /\ active' = [active EXCEPT ![l] = Head_(l)] /\ worker' = [worker EXCEPT ![l] = "query"]
        /\ UNCHANGED <<next, laneOf, returned, open, buf, refused, sealed, lock, resetting>>
    BY <1>3 DEF Query, Fixed
  <2>2. Head_(l) \in Seq(Units)
    <3>1. HeadLen(l) \in 1 .. Len(buf[l])
      BY <1>0, <2>1, HeadEnds
    <3>2. HeadLen(l) \in 0 .. Len(buf[l])
      BY <1>0, <3>1
    <3> QED
      BY <1>0, <3>2, FirstOf DEF Head_
  <2>3. active' \in [Lanes -> Seq(Units)] /\ worker' \in [Lanes -> WorkerStates]
    BY <1>0, <2>1, <2>2 DEF WorkerStates
  <2>4. \A m \in Lanes : Moves(m) /\ (lock'[m] # "append" => lock[m] # "append")
    BY <1>0, <2>1 DEF Moves
  <2>5. Turns'
    BY <1>0, <2>1 DEF RouterInv, Turns, WorkerStates
  <2> QED
    BY <1>0, <2>1, <2>3, <2>4, <2>5, Moving
<1>4. CASE Answered(l) \/ Lingered(l)
  <2>1. UNCHANGED <<next, laneOf, returned, open, buf, refused, sealed, active, worker, lock, resetting>>
    BY <1>4 DEF Answered, Lingered, Fixed
  <2>2. (\A m \in Lanes : Moves(m) /\ (lock'[m] # "append" => lock[m] # "append")) /\ Turns'
    BY <2>1 DEF Moves, RouterInv, Turns
  <2> QED
    BY <1>0, <2>1, <2>2, Moving
<1>5. CASE Resume(l)
  <2>1. worker[l] = "query" /\ UNCHANGED <<next, open, refused, resetting, laneOf>>
    BY <1>5 DEF Resume, Fixed
  <2>2. \/ Return(l) /\ UNCHANGED <<buf, sealed, returned, lock>>
        \/ Consume(l, Len(active[l])) /\ Deliver(l, active[l], "failure")
        \/ \E n \in Prefixes(l) : Consume(l, n) /\ Deliver(l, SubSeq(active[l], 1, n), "commit")
    BY <1>5 DEF Resume
  <2> QED
    BY <2>1, <2>2, Settling
<1>6. CASE ModelTimeout(l)
  <2>1. worker[l] = "query" /\ UNCHANGED <<next, open, refused, resetting, laneOf>>
    BY <1>6 DEF ModelTimeout, Fixed
  <2>2. \/ Return(l) /\ UNCHANGED <<buf, sealed, returned, lock>>
        \/ Consume(l, Len(active[l])) /\ Deliver(l, active[l], "failure")
    BY <1>6 DEF ModelTimeout
  <2> QED
    BY <2>1, <2>2, Settling
<1>7. CASE CallbackEnds(l)
  <2>1. /\ Return(l) /\ lock' = [lock EXCEPT ![l] = "free"] /\ worker[l] = "call"
        /\ UNCHANGED <<next, laneOf, returned, open, buf, refused, sealed, resetting>>
    BY <1>7 DEF CallbackEnds, Fixed
  <2>2. lock[l] = "worker" /\ <<>> \in Seq(Units)
    BY <2>1 DEF RouterInv, Turns
  <2>3. /\ worker' = [worker EXCEPT ![l] = "loop"] /\ active' = [active EXCEPT ![l] = <<>>]
        /\ active' \in [Lanes -> Seq(Units)] /\ worker' \in [Lanes -> WorkerStates] /\ lock' \in [Lanes -> LockStates]
    BY <1>0, <2>1, <2>2 DEF Return, WorkerStates, LockStates
  <2>4. \A m \in Lanes : Moves(m) /\ (lock'[m] # "append" => lock[m] # "append")
    BY <1>0, <2>1, <2>2, <2>3 DEF Moves
  <2>5. Turns'
    BY <1>0, <2>1, <2>3 DEF RouterInv, Turns, WorkerStates, LockStates
  <2> QED
    BY <1>0, <2>1, <2>3, <2>4, <2>5, Moving
<1> QED
  BY <1>1, <1>2, <1>3, <1>4, <1>5, <1>6, <1>7, Granting, RefusedStepping, ResetEnding DEF LaneStep

(* Every step keeps it, and returns units once and in order. *)
LEMMA RouterStep ==
  ASSUME RouterInv, [Next]_vars
  PROVE  RouterInv' /\ OnceStep /\ OrderStep
<1>0. /\ open \subseteq Lanes /\ resetting \subseteq Lanes
      /\ lock \in [Lanes -> LockStates] /\ worker \in [Lanes -> WorkerStates]
      /\ active \in [Lanes -> Seq(Units)]
  BY DEF RouterInv, RouterTypes, LockStates, WorkerStates
<1>1. ASSUME UNCHANGED <<next, laneOf, returned, open, buf, refused, sealed, active, worker, lock, resetting>>
      PROVE  RouterInv' /\ OnceStep /\ OrderStep
  <2>1. (\A m \in Lanes : Moves(m) /\ (lock'[m] # "append" => lock[m] # "append")) /\ Turns'
    BY <1>1 DEF Moves, RouterInv, Turns
  <2> QED
    BY <1>0, <1>1, <2>1, Moving
<1>2. ASSUME NEW l \in Lanes, NEW boundary \in BOOLEAN, NEW turn \in BOOLEAN, NEW tooLarge \in BOOLEAN,
             Append_(l, boundary, turn, tooLarge)
      PROVE  RouterInv' /\ OnceStep /\ OrderStep
  BY <1>2, Appending
<1>3. ASSUME NEW l \in Lanes, LaneStep(l) PROVE RouterInv' /\ OnceStep /\ OrderStep
  BY <1>3, LaneStepKeeps
<1>4. ASSUME NEW l \in Lanes, Tick(l) PROVE RouterInv' /\ OnceStep /\ OrderStep
  BY <1>1, <1>4 DEF Tick, Fixed
<1>5. CASE FlushEnd \/ UNCHANGED vars
  BY <1>1, <1>5 DEF FlushEnd, Fixed, vars
<1>6. CASE Reset
  BY <1>6, Cancelling DEF Reset
<1>7. CASE Close
  BY <1>7, Cancelling DEF Close
<1>8. ASSUME NEW last \in BOOLEAN, FlushBegin(last) PROVE RouterInv' /\ OnceStep /\ OrderStep
  <2>1. /\ UNCHANGED <<next, laneOf, returned, open, buf, active, refused, lock, resetting>>
        /\ resetting = {} /\ sealed' = Seals(open) /\ worker' = Awake(Busy)
    BY <1>8 DEF FlushBegin, Fixed
  <2>2. \A u \in sealed' : u \in sealed \/ EndOfBuffer(u)
    BY <1>0, <2>1, SealsAtEnds
  <2>3. worker' \in [Lanes -> WorkerStates] /\ \A m \in Lanes : Wakes(m)
    BY <2>1, Awakening
  <2> QED
    BY <2>1, <2>2, <2>3, Sealing
<1> QED
  BY <1>2, <1>3, <1>4, <1>5, <1>6, <1>7, <1>8 DEF Next

(* A unit goes to one callback, once, whatever is reset, closed, refused   *)
(* or answered late.                                                       *)
THEOREM UnitsReturnOnce == Spec => ReturnedOnce
<1>1. RouterInv /\ [Next]_vars => [\A u \in Units : returned[u] # "no" => returned'[u] = returned[u]]_vars
  BY RouterStep DEF OnceStep
<1>2. RouterInv /\ [Next]_vars => RouterInv'
  BY RouterStep
<1> QED
  BY <1>1, <1>2, RouterStarts, PTL DEF Spec, ReturnedOnce

(* A commit overtakes no earlier speech of its lane and crosses no         *)
(* boundary.                                                               *)
THEOREM CommitsInOrder == Spec => LaneOrder
<1>1. RouterInv /\ [Next]_vars =>
        [\A u \in Units :
           returned[u] = "no" /\ returned'[u] = "commit" =>
             \A v \in 1 .. u - 1 :
               laneOf[v] = laneOf[u] =>
                 /\ \A l \in Lanes : v \notin Elems(buf'[l])
                 /\ v \in sealed => returned[v] # "no" \/ returned'[v] = "failure"]_vars
  BY RouterStep DEF OrderStep
<1>2. RouterInv /\ [Next]_vars => RouterInv'
  BY RouterStep
<1> QED
  BY <1>1, <1>2, RouterStarts, PTL DEF Spec, LaneOrder
=============================================================================
