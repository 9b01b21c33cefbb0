--------------------------- MODULE CaptionProofs ----------------------------
(***************************************************************************)
(* Proofs about the two caption stores of CaptionExchange.  That captions  *)
(* leave no hole is not inductive: a held alternative may be accepted long *)
(* after it was stored, so the held groups must stay apart from the shown  *)
(* captions and from each other, tombstones must be captions of the live   *)
(* path, and groups on the wire must be made as the engine makes them.     *)
(* That the copies agree rests on a log: while nobody has assigned a       *)
(* caption of the client's, its captions become the gateway's by what the  *)
(* events on the way tell, one after the other.                            *)
(* Another part is about the desktop's window, DesktopBridge: it shows the *)
(* projection once its queue is empty because of what is queued: the views *)
(* in order, each begun once and before anything else of it, and as the    *)
(* last message about a thing the projection's content of it.              *)
(* The last part is about LiveClient, which sends the audio that becomes   *)
(* captions: a session it reports as completed was sent whole.             *)
(***************************************************************************)
EXTENDS CaptionExchange, DesktopBridge, LiveClient, DequesProofs, FiniteSetTheorems,
        SequenceTheorems, TLAPS

Fields == {"res", "spk", "rev", "man", "sup", "par", "span"}
IsCaption(c) == c = [f \in Fields |-> c[f]] /\ c.res \in Nat

(* A group as the engine makes them: the children of captions are new      *)
(* captions under the names of children.                                   *)
GroupOK(g) ==
  /\ DOMAIN g = {"parents", "kids"}
  /\ g.parents \subseteq Captions
  /\ Kids(g) \cap Captions = {}
  /\ \A k \in Kids(g) : IsCaption(g.kids[k]) /\ ~Hidden(g.kids[k]) /\ g.kids[k].par \subseteq g.parents

(* Held alternatives are beside the captions and beside each other. *)
HeldApart(st) ==
  /\ st.held \subseteq DOMAIN st.groups
  /\ \A g \in st.held : GroupOK(st.groups[g]) /\ Kids(st.groups[g]) \cap DOMAIN st.seg = {}
  /\ \A g, h \in st.held : g # h => Kids(st.groups[g]) \cap Kids(st.groups[h]) = {}

(* Only captions are replaced, and only by children. *)
Replaced(st) ==
  \A id \in DOMAIN st.seg :
    /\ IsCaption(st.seg[id])
    /\ Hidden(st.seg[id]) => id \in Captions
    /\ st.seg[id].sup \cap Captions = {}

StoreInv(st) ==
  /\ DOMAIN st = {"seg", "groups", "held"}
  /\ HeldApart(st) /\ Replaced(st) /\ Shown(st)

(* What a step may do to the captions of a store. *)
Forward(st, new) ==
  \A id \in DOMAIN st.seg :
    /\ id \in DOMAIN new.seg
    /\ new.seg[id].res >= st.seg[id].res
    /\ Hidden(st.seg[id]) => new.seg[id] = st.seg[id]
(* What an event may do to a caption the user assigned. *)
Respects(st, new) ==
  \A id \in DOMAIN st.seg :
    st.seg[id].man =>
      /\ new.seg[id] = [st.seg[id] EXCEPT !.res = new.seg[id].res]
      /\ st.seg[id].res >= Completed => new.seg[id].res = st.seg[id].res

(* A held alternative written inside its group. *)
PutHeld(st, h, id, c) == [st EXCEPT !.groups[h].kids[id] = c]

(* What is put is a caption of its own or the alternative of a held group. *)
LEMMA PutAside ==
  ASSUME NEW st, NEW id, NEW c, StoreInv(st), id \in HeldKids(st)
  PROVE  \E h \in st.held :
           /\ id \in Kids(st.groups[h]) /\ Lookup(st, id) = st.groups[h].kids[id]
           /\ Put(st, id, c) = PutHeld(st, h, id, c)
<1> DEFINE h == CHOOSE g \in HeldGroupOf(st, id) : TRUE
<1>1. HeldGroupOf(st, id) # {}
  BY DEF HeldGroupOf, HeldKids
<1>2. h \in HeldGroupOf(st, id)
  BY <1>1
<1>3. /\ h \in st.held /\ id \in Kids(st.groups[h])
      /\ Lookup(st, id) = st.groups[h].kids[id]
      /\ Put(st, id, c) = PutHeld(st, h, id, c)
  BY <1>2 DEF HeldGroupOf, Lookup, Put, PutHeld
<1> QED
  BY <1>3

(* The store new is st but for the alternative id of the group h. *)
InGroupOnly(new, st, h, id, c) ==
  /\ DOMAIN new = {"seg", "groups", "held"} /\ new.seg = st.seg /\ new.held = st.held
  /\ DOMAIN new.groups = DOMAIN st.groups
  /\ \A g \in DOMAIN st.groups \ {h} : new.groups[g] = st.groups[g]
  /\ DOMAIN new.groups[h] = {"parents", "kids"}
  /\ new.groups[h].parents = st.groups[h].parents
  /\ Kids(new.groups[h]) = Kids(st.groups[h])
  /\ \A k \in Kids(st.groups[h]) :
       new.groups[h].kids[k] = IF k = id THEN c ELSE st.groups[h].kids[k]

(* A held alternative is changed inside its group only. *)
LEMMA AsideParts ==
  ASSUME NEW st, NEW h \in st.held, NEW id \in Kids(st.groups[h]), NEW c, StoreInv(st),
         NEW new, new = PutHeld(st, h, id, c)
  PROVE  InGroupOnly(new, st, h, id, c)
<1>1. PICK kids : kids = [st.groups[h].kids EXCEPT ![id] = c]
  OBVIOUS
<1>2. PICK group : group = [st.groups[h] EXCEPT !.kids = kids]
  OBVIOUS
<1>3. PICK groups : groups = [st.groups EXCEPT ![h] = group]
  OBVIOUS
<1>4. new = [st EXCEPT !.groups = groups]
  BY <1>1, <1>2, <1>3 DEF PutHeld
<1>6. h \in DOMAIN st.groups /\ DOMAIN st.groups[h] = {"parents", "kids"}
  BY DEF StoreInv, HeldApart, GroupOK
<1>5. DOMAIN new = {"seg", "groups", "held"} /\ new.seg = st.seg /\ new.held = st.held
      /\ new.groups = groups
  BY <1>4 DEF StoreInv
<1>8. DOMAIN groups = DOMAIN st.groups /\ groups[h] = group
      /\ \A g \in DOMAIN st.groups \ {h} : groups[g] = st.groups[g]
  BY <1>3, <1>6
<1>9. DOMAIN group = {"parents", "kids"} /\ group.parents = st.groups[h].parents /\ group.kids = kids
  BY <1>2, <1>6
<1>10. DOMAIN kids = Kids(st.groups[h]) /\ \A k \in Kids(st.groups[h]) :
         kids[k] = IF k = id THEN c ELSE st.groups[h].kids[k]
  BY <1>1 DEF Kids
<1> QED
  BY <1>5, <1>8, <1>9, <1>10 DEF Kids, InGroupOnly

(* The captions of a store with another one. *)
LEMMA PutShown ==
  ASSUME NEW st, NEW id, NEW c, DOMAIN st = {"seg", "groups", "held"}, id \notin HeldKids(st)
  PROVE  \E new \in {Put(st, id, c)} :
           /\ DOMAIN new = {"seg", "groups", "held"}
           /\ new.groups = st.groups /\ new.held = st.held
           /\ DOMAIN new.seg = DOMAIN st.seg \cup {id}
           /\ \A k \in DOMAIN new.seg : new.seg[k] = IF k = id THEN c ELSE st.seg[k]
<1>1. PICK seg : seg = Over(Entry(id, c), st.seg)
  OBVIOUS
<1>2. DOMAIN seg = DOMAIN st.seg \cup {id}
      /\ \A k \in DOMAIN seg : seg[k] = IF k = id THEN c ELSE st.seg[k]
  BY <1>1 DEF Over, Entry
<1>3. PICK new : new = [st EXCEPT !.seg = seg]
  OBVIOUS
<1>4. new = Put(st, id, c)
  BY <1>1, <1>3 DEF Put
<1>5. DOMAIN new = {"seg", "groups", "held"} /\ new.groups = st.groups /\ new.held = st.held
      /\ new.seg = seg
  BY <1>3
<1> QED
  BY <1>2, <1>4, <1>5

(* A caption changed in what it says keeps its place in the store. *)
LEMMA ChangeStore ==
  ASSUME NEW st, StoreInv(st), NEW id \in Ids(st), NEW c, IsCaption(c),
         c.sup = Lookup(st, id).sup, c.par = Lookup(st, id).par
  PROVE  \E new \in {Put(st, id, c)} :
           /\ StoreInv(new) /\ DOMAIN new.seg = DOMAIN st.seg
           /\ \A k \in DOMAIN st.seg : new.seg[k] = st.seg[k] \/ (k = id /\ new.seg[k] = c)
           /\ id \in DOMAIN st.seg => Lookup(st, id) = st.seg[id]
<1>0. id \in DOMAIN st.seg <=> id \notin HeldKids(st)
  BY DEF Ids, HeldKids, StoreInv, HeldApart
<1>1. CASE id \in HeldKids(st)
  <2>1. PICK h \in st.held :
          /\ id \in Kids(st.groups[h]) /\ Lookup(st, id) = st.groups[h].kids[id]
          /\ Put(st, id, c) = PutHeld(st, h, id, c)
    BY <1>1, PutAside
  <2>0. PICK new : new = PutHeld(st, h, id, c)
    OBVIOUS
  <2>2. InGroupOnly(new, st, h, id, c)
    BY <2>0, <2>1, AsideParts
  <2>3. GroupOK(st.groups[h]) /\ h \in DOMAIN st.groups
    BY DEF StoreInv, HeldApart
  <2>4. GroupOK(new.groups[h])
    <3>1. ASSUME NEW k \in Kids(st.groups[h])
          PROVE  /\ IsCaption(new.groups[h].kids[k]) /\ ~Hidden(new.groups[h].kids[k])
                 /\ new.groups[h].kids[k].par \subseteq st.groups[h].parents
      BY <2>1, <2>2, <2>3 DEF GroupOK, Hidden, InGroupOnly
    <3> QED
      BY <2>2, <2>3, <3>1 DEF GroupOK, InGroupOnly
  <2>5. \A g \in st.held : GroupOK(new.groups[g]) /\ Kids(new.groups[g]) = Kids(st.groups[g])
    BY <2>2, <2>4 DEF StoreInv, HeldApart, InGroupOnly
  <2>6. HeldApart(new)
    BY <2>2, <2>5 DEF StoreInv, HeldApart, InGroupOnly
  <2>7. Replaced(new) /\ Shown(new)
    BY <2>2 DEF StoreInv, Replaced, Shown, Visible, InGroupOnly
  <2> QED
    BY <1>0, <1>1, <2>0, <2>1, <2>2, <2>6, <2>7 DEF StoreInv, InGroupOnly
<1>2. CASE id \notin HeldKids(st)
  <2>0. id \in DOMAIN st.seg /\ Lookup(st, id) = st.seg[id]
    BY <1>0, <1>2 DEF Lookup
  <2>1. PICK new \in {Put(st, id, c)} :
          /\ DOMAIN new = {"seg", "groups", "held"}
          /\ new.groups = st.groups /\ new.held = st.held
          /\ DOMAIN new.seg = DOMAIN st.seg \cup {id}
          /\ \A k \in DOMAIN new.seg : new.seg[k] = IF k = id THEN c ELSE st.seg[k]
    BY <1>2, PutShown DEF StoreInv
  <2>2. DOMAIN new.seg = DOMAIN st.seg
    BY <2>0, <2>1
  <2>3. \A k \in DOMAIN st.seg : new.seg[k].sup = st.seg[k].sup /\ new.seg[k].par = st.seg[k].par
    BY <2>0, <2>1
  <2>4. Visible(new) = Visible(st)
    BY <2>2, <2>3 DEF Visible, Hidden
  <2>5. Replaced(new)
    BY <2>1, <2>2, <2>3 DEF StoreInv, Replaced, Hidden
  <2>6. Shown(new)
    BY <2>2, <2>3, <2>4 DEF StoreInv, Shown, Hidden
  <2>7. HeldApart(new)
    BY <2>1, <2>2 DEF StoreInv, HeldApart
  <2> QED
    BY <2>0, <2>1, <2>2, <2>5, <2>6, <2>7 DEF StoreInv
<1> QED
  BY <1>1, <1>2

(* A new caption hides nothing. *)
LEMMA AddStore ==
  ASSUME NEW st, StoreInv(st), NEW id, NEW span
  PROVE  \E new \in {UpsertSource(st, id, span)} :
           /\ StoreInv(new) /\ DOMAIN st.seg \subseteq DOMAIN new.seg
           /\ \A k \in DOMAIN st.seg : new.seg[k] = st.seg[k]
<1>1. CASE id \in Ids(st)
  BY <1>1 DEF UpsertSource
<1>2. CASE id \notin Ids(st)
  <2>0. id \notin HeldKids(st) /\ id \notin DOMAIN st.seg
    BY <1>2 DEF Ids
  <2>1. PICK c : c = NewCaption(span)
    OBVIOUS
  <2>2. IsCaption(c) /\ c.sup = {} /\ c.par = {}
    BY <2>1 DEF NewCaption, IsCaption, Fields
  <2>3. PICK new \in {Put(st, id, c)} :
          /\ DOMAIN new = {"seg", "groups", "held"}
          /\ new.groups = st.groups /\ new.held = st.held
          /\ DOMAIN new.seg = DOMAIN st.seg \cup {id}
          /\ \A k \in DOMAIN new.seg : new.seg[k] = IF k = id THEN c ELSE st.seg[k]
    BY <2>0, PutShown DEF StoreInv
  <2>4. \A k \in DOMAIN st.seg : new.seg[k] = st.seg[k]
    BY <2>0, <2>3
  <2>5. Visible(new) = Visible(st) \cup {id}
    BY <2>0, <2>2, <2>3, <2>4 DEF Visible, Hidden
  <2>6. Replaced(new)
    BY <2>2, <2>3, <2>4 DEF StoreInv, Replaced, Hidden
  <2>7. Shown(new)
    <3>1. ASSUME NEW k \in DOMAIN st.seg
          PROVE  /\ Hidden(new.seg[k]) => new.seg[k].sup \subseteq Visible(new)
                 /\ \A p \in new.seg[k].par : p \in DOMAIN new.seg \ Visible(new)
      <4>1. /\ Hidden(st.seg[k]) => st.seg[k].sup \subseteq Visible(st)
            /\ \A p \in st.seg[k].par : p \in DOMAIN st.seg \ Visible(st)
        BY DEF StoreInv, Shown
      <4> QED
        BY <2>0, <2>3, <2>4, <2>5, <4>1
    <3>2. new.seg[id].sup = {} /\ new.seg[id].par = {}
      BY <2>2, <2>3
    <3> QED
      BY <2>3, <3>1, <3>2 DEF Shown, Hidden
  <2>8. HeldApart(new)
    BY <2>0, <2>3 DEF StoreInv, HeldApart, HeldKids
  <2>9. new = UpsertSource(st, id, span)
    BY <1>2, <2>1, <2>3 DEF UpsertSource
  <2> QED
    BY <2>3, <2>4, <2>6, <2>7, <2>8, <2>9 DEF StoreInv
<1> QED
  BY <1>1, <1>2

(* A group that waits beside the captions. *)
Waits(st, gid, g) ==
  /\ GroupOK(g) /\ Kids(g) \cap DOMAIN st.seg = {}
  /\ \A h \in st.held \ {gid} : Kids(g) \cap Kids(st.groups[h]) = {}

(* A held group changes no caption. *)
LEMMA HoldGroup ==
  ASSUME NEW st, StoreInv(st), NEW gid, NEW g, Waits(st, gid, g)
  PROVE  \E new \in {CommitGroup(st, gid, g, "held")} : StoreInv(new) /\ new.seg = st.seg
<1>1. PICK groups : groups = Over(Entry(gid, g), st.groups)
  OBVIOUS
<1>2. PICK new : new = [st EXCEPT !.groups = groups, !.held = st.held \cup {gid}]
  OBVIOUS
<1>3. new = CommitGroup(st, gid, g, "held")
  BY <1>1, <1>2 DEF CommitGroup
<1>4. /\ DOMAIN new = {"seg", "groups", "held"} /\ new.seg = st.seg
      /\ new.groups = groups /\ new.held = st.held \cup {gid}
  BY <1>2 DEF StoreInv
<1>5. DOMAIN groups = DOMAIN st.groups \cup {gid} /\ groups[gid] = g
      /\ \A h \in st.held \ {gid} : groups[h] = st.groups[h]
  BY <1>1 DEF Over, Entry, StoreInv, HeldApart
<1>6. HeldApart(new)
  <2>1. new.held \subseteq DOMAIN new.groups
    BY <1>4, <1>5 DEF StoreInv, HeldApart
  <2>2. \A h \in new.held : GroupOK(new.groups[h]) /\ Kids(new.groups[h]) \cap DOMAIN new.seg = {}
    BY <1>4, <1>5 DEF StoreInv, HeldApart, Waits
  <2>3. ASSUME NEW h \in new.held, NEW k \in new.held, h # k
        PROVE  Kids(new.groups[h]) \cap Kids(new.groups[k]) = {}
    BY <1>4, <1>5, <2>3 DEF StoreInv, HeldApart, Waits
  <2> QED
    BY <2>1, <2>2, <2>3 DEF HeldApart
<1>7. Replaced(new) /\ Shown(new)
  BY <1>4 DEF StoreInv, Replaced, Shown, Visible
<1> QED
  BY <1>3, <1>4, <1>6, <1>7 DEF StoreInv

(* The captions after a group has replaced its parents. *)
LEMMA GroupSeg ==
  ASSUME NEW st, StoreInv(st), NEW gid, NEW g, Waits(st, gid, g), g.parents \subseteq Visible(st)
  PROVE  \E new \in {CommitGroup(st, gid, g, "applied")} :
           /\ DOMAIN new = {"seg", "groups", "held"} /\ new.held = st.held \ {gid}
           /\ new.groups = Over(Entry(gid, g), st.groups)
           /\ DOMAIN new.seg = DOMAIN st.seg \cup Kids(g)
           /\ \A k \in Kids(g) : new.seg[k] = g.kids[k]
           /\ \A p \in DOMAIN st.seg \ g.parents : new.seg[p] = st.seg[p]
           /\ \A p \in g.parents :
                /\ IsCaption(new.seg[p]) /\ new.seg[p].par = st.seg[p].par
                /\ new.seg[p].man = st.seg[p].man /\ new.seg[p].span = st.seg[p].span
                /\ new.seg[p].res = st.seg[p].res
                /\ new.seg[p].sup = {k \in Kids(g) : p \in g.kids[k].par}
<1>0. g.parents \subseteq DOMAIN st.seg /\ g.parents \cap Kids(g) = {} /\ Kids(g) \cap DOMAIN st.seg = {}
  BY DEF Waits, GroupOK, Visible
<1>1. PICK t : t = Tombstones(st, g)
  OBVIOUS
<1>2. PICK seg : seg = Over(t, Over(g.kids, st.seg))
  OBVIOUS
<1>3. PICK groups : groups = Over(Entry(gid, g), st.groups)
  OBVIOUS
<1>4. PICK new : new = [st EXCEPT !.groups = groups, !.held = st.held \ {gid}, !.seg = seg]
  OBVIOUS
<1>5. new = CommitGroup(st, gid, g, "applied")
  BY <1>1, <1>2, <1>3, <1>4 DEF CommitGroup
<1>6. /\ DOMAIN new = {"seg", "groups", "held"} /\ new.seg = seg
      /\ new.groups = groups /\ new.held = st.held \ {gid}
  BY <1>4 DEF StoreInv
<1>7. DOMAIN t = g.parents
  BY <1>1 DEF Tombstones
<1>8. DOMAIN seg = DOMAIN st.seg \cup Kids(g)
  BY <1>0, <1>2, <1>7 DEF Over, Kids
<1>9. \A k \in Kids(g) : seg[k] = g.kids[k]
  BY <1>0, <1>2, <1>7 DEF Over, Kids
<1>10. \A p \in DOMAIN st.seg \ g.parents : seg[p] = st.seg[p]
  BY <1>0, <1>2, <1>7 DEF Over, Kids
<1>11. ASSUME NEW p \in g.parents
       PROVE  /\ IsCaption(seg[p]) /\ seg[p].par = st.seg[p].par
              /\ seg[p].man = st.seg[p].man /\ seg[p].span = st.seg[p].span
              /\ seg[p].res = st.seg[p].res
              /\ seg[p].sup = {k \in Kids(g) : p \in g.kids[k].par}
  <2>1. seg[p] = t[p]
    BY <1>2, <1>7 DEF Over
  <2>2. PICK sup : sup = {k \in Kids(g) : p \in g.kids[k].par}
    OBVIOUS
  <2>3. t[p] = [st.seg[p] EXCEPT !.sup = sup]
    BY <1>1, <2>2 DEF Tombstones
  <2>4. IsCaption(st.seg[p])
    BY <1>0 DEF StoreInv, Replaced
  <2>5. PICK c : c = st.seg[p]
    OBVIOUS
  <2>6. PICK d : d = [c EXCEPT !.sup = sup]
    OBVIOUS
  <2>7. /\ d = [f \in Fields |-> d[f]] /\ d.res = c.res /\ d.par = c.par /\ d.sup = sup
        /\ d.man = c.man /\ d.span = c.span
    BY <2>4, <2>5, <2>6 DEF IsCaption, Fields
  <2> QED
    BY <2>1, <2>2, <2>3, <2>4, <2>5, <2>6, <2>7 DEF IsCaption
<1> QED
  BY <1>3, <1>5, <1>6, <1>8, <1>9, <1>10, <1>11

(* A group that replaces its parents leaves no hole. *)
LEMMA ApplyGroup ==
  ASSUME NEW st, StoreInv(st), NEW gid, NEW g, Waits(st, gid, g), g.parents \subseteq Visible(st)
  PROVE  \E new \in {CommitGroup(st, gid, g, "applied")} :
           /\ StoreInv(new) /\ Forward(st, new)
           /\ DOMAIN st.seg \subseteq DOMAIN new.seg
           /\ \A p \in DOMAIN st.seg \ g.parents : new.seg[p] = st.seg[p]
<1>1. PICK new \in {CommitGroup(st, gid, g, "applied")} :
        /\ DOMAIN new = {"seg", "groups", "held"} /\ new.held = st.held \ {gid}
        /\ new.groups = Over(Entry(gid, g), st.groups)
        /\ DOMAIN new.seg = DOMAIN st.seg \cup Kids(g)
        /\ \A k \in Kids(g) : new.seg[k] = g.kids[k]
        /\ \A p \in DOMAIN st.seg \ g.parents : new.seg[p] = st.seg[p]
        /\ \A p \in g.parents :
             /\ IsCaption(new.seg[p]) /\ new.seg[p].par = st.seg[p].par
             /\ new.seg[p].man = st.seg[p].man /\ new.seg[p].span = st.seg[p].span
             /\ new.seg[p].res = st.seg[p].res
             /\ new.seg[p].sup = {k \in Kids(g) : p \in g.kids[k].par}
  BY GroupSeg
<1>2. /\ g.parents \subseteq DOMAIN st.seg /\ Kids(g) \cap DOMAIN st.seg = {}
      /\ g.parents \subseteq Captions /\ Kids(g) \cap Captions = {}
      /\ \A p \in g.parents : ~Hidden(st.seg[p])
      /\ \A k \in Kids(g) : IsCaption(g.kids[k]) /\ ~Hidden(g.kids[k]) /\ g.kids[k].par \subseteq g.parents
  BY DEF Waits, GroupOK, Visible
<1>3. \A h \in new.held : new.groups[h] = st.groups[h] /\ h \in DOMAIN new.groups
  BY <1>1 DEF Over, Entry, StoreInv, HeldApart
<1>4. HeldApart(new)
  <2>1. \A h \in new.held : GroupOK(new.groups[h]) /\ Kids(new.groups[h]) \cap DOMAIN new.seg = {}
    BY <1>1, <1>3 DEF StoreInv, HeldApart, Waits
  <2>2. ASSUME NEW h \in new.held, NEW k \in new.held, h # k
        PROVE  Kids(new.groups[h]) \cap Kids(new.groups[k]) = {}
    BY <1>1, <1>3, <2>2 DEF StoreInv, HeldApart
  <2> QED
    BY <1>3, <2>1, <2>2 DEF HeldApart
<1>5. Replaced(new)
  <2>1. ASSUME NEW id \in DOMAIN new.seg
        PROVE  /\ IsCaption(new.seg[id])
               /\ Hidden(new.seg[id]) => id \in Captions
               /\ new.seg[id].sup \cap Captions = {}
    <3>1. CASE id \in Kids(g)
      BY <1>1, <1>2, <3>1 DEF Hidden
    <3>2. CASE id \in g.parents
      BY <1>1, <1>2, <3>2
    <3>3. CASE id \in DOMAIN st.seg \ g.parents
      BY <1>1, <3>3 DEF StoreInv, Replaced
    <3> QED
      BY <1>1, <3>1, <3>2, <3>3
  <2> QED
    BY <2>1 DEF Replaced
<1>6. \A id \in DOMAIN new.seg : id \in Visible(st) \ g.parents => id \in Visible(new)
  BY <1>1 DEF Visible
<1>7. \A id \in Kids(g) : id \in Visible(new)
  BY <1>1, <1>2 DEF Visible
<1>8. Shown(new)
  <2>1. ASSUME NEW id \in DOMAIN new.seg
        PROVE  /\ Hidden(new.seg[id]) => new.seg[id].sup \subseteq Visible(new)
               /\ \A p \in new.seg[id].par : p \in DOMAIN new.seg \ Visible(new)
    <3>1. ASSUME NEW p \in DOMAIN st.seg, Hidden(st.seg[p])
          PROVE  p \in DOMAIN new.seg \ Visible(new)
      <4>1. new.seg[p] = st.seg[p]
        BY <1>1, <1>2, <3>1
      <4> QED
        BY <1>1, <3>1, <4>1 DEF Visible
    <3>2. CASE id \in Kids(g)
      <4>1. ASSUME NEW p \in g.kids[id].par PROVE p \in DOMAIN new.seg \ Visible(new)
        <5>1. p \in g.parents /\ id \in new.seg[p].sup
          BY <1>1, <1>2, <3>2, <4>1
        <5> QED
          BY <1>1, <1>2, <5>1 DEF Visible, Hidden
      <4> QED
        BY <1>1, <1>2, <3>2, <4>1
    <3>3. \A p \in DOMAIN st.seg : \A q \in st.seg[p].par : q \in DOMAIN st.seg /\ Hidden(st.seg[q])
      BY DEF StoreInv, Shown, Visible
    <3>4. CASE id \in g.parents
      BY <1>1, <1>2, <1>7, <3>1, <3>3, <3>4
    <3>5. CASE id \in DOMAIN st.seg \ g.parents
      <4>1. new.seg[id] = st.seg[id]
        BY <1>1, <3>5
      <4>2. Hidden(st.seg[id]) => st.seg[id].sup \subseteq Visible(st) \ g.parents
        BY <1>2, <3>5 DEF StoreInv, Shown, Replaced
      <4>3. Visible(st) \subseteq DOMAIN new.seg
        BY <1>1 DEF Visible
      <4> QED
        BY <1>6, <3>1, <3>3, <3>5, <4>1, <4>2, <4>3
    <3> QED
      BY <1>1, <3>2, <3>4, <3>5
  <2> QED
    BY <2>1 DEF Shown
<1>9. Forward(st, new)
  <2>1. \A id \in DOMAIN st.seg : st.seg[id].res \in Nat
    BY DEF StoreInv, Replaced, IsCaption
  <2> QED
    BY <1>1, <1>2, <2>1 DEF Forward
<1> QED
  BY <1>1, <1>4, <1>5, <1>8, <1>9 DEF StoreInv

(* What is found under a name is a caption. *)
LEMMA LookupIsCaption ==
  ASSUME NEW st, StoreInv(st), NEW id \in Ids(st)
  PROVE  IsCaption(Lookup(st, id)) /\ (id \in DOMAIN st.seg => Lookup(st, id) = st.seg[id])
<1>1. CASE id \in HeldKids(st)
  <2>1. PICK h \in st.held : id \in Kids(st.groups[h]) /\ Lookup(st, id) = st.groups[h].kids[id]
    BY <1>1, PutAside
  <2>2. GroupOK(st.groups[h]) /\ id \notin DOMAIN st.seg
    BY <2>1 DEF StoreInv, HeldApart
  <2> QED
    BY <2>1, <2>2 DEF GroupOK
<1>2. CASE id \notin HeldKids(st)
  BY <1>2 DEF Ids, Lookup, StoreInv, Replaced
<1> QED
  BY <1>1, <1>2

(* What a change of what a caption says amounts to. *)
LEMMA CaptionFields ==
  ASSUME NEW c, IsCaption(c), NEW res \in Nat
  PROVE  \E d \in {[c EXCEPT !.res = res]} :
           /\ IsCaption(d) /\ d.sup = c.sup /\ d.par = c.par /\ d.res = res
           /\ d = [c EXCEPT !.res = d.res]
<1>1. PICK d : d = [c EXCEPT !.res = res]
  OBVIOUS
<1>2. DOMAIN c = Fields
  BY DEF IsCaption
<1>3. d = [f \in Fields |-> d[f]] /\ d.res = res /\ d.sup = c.sup /\ d.par = c.par
  BY <1>1, <1>2 DEF Fields
<1> QED
  BY <1>1, <1>3 DEF IsCaption

(* A caption with its own result is itself. *)
LEMMA SameCaption ==
  ASSUME NEW c, IsCaption(c)
  PROVE  c = [c EXCEPT !.res = c.res]
BY DEF IsCaption, Fields

(* A store whose captions stay as they are. *)
LEMMA SameCaptions ==
  ASSUME NEW st, StoreInv(st), NEW new, DOMAIN st.seg \subseteq DOMAIN new.seg,
         \A k \in DOMAIN st.seg : new.seg[k] = st.seg[k]
  PROVE  Forward(st, new) /\ Respects(st, new)
<1>1. \A id \in DOMAIN st.seg : IsCaption(st.seg[id]) /\ st.seg[id].res \in Nat
  BY DEF StoreInv, Replaced, IsCaption
<1>2. Forward(st, new)
  BY <1>1 DEF Forward
<1>3. Respects(st, new)
  BY <1>1, SameCaption DEF Respects
<1> QED
  BY <1>2, <1>3

(* A result replaces an earlier one of a shown caption. *)
LEMMA TakeResult ==
  ASSUME NEW st, StoreInv(st), NEW id, NEW res \in {Preview, Completed}, TakesResult(st, id, res)
  PROVE  \E new \in {ApplyTranslation(st, id, res)} :
           StoreInv(new) /\ Forward(st, new) /\ Respects(st, new)
<1>1. id \in Ids(st) /\ ~Hidden(Lookup(st, id)) /\ Lookup(st, id).res < res /\ res \in Nat /\ res <= Completed
  BY DEF TakesResult, Preview, Completed
<1>2. PICK c : c = Lookup(st, id)
  OBVIOUS
<1>3. IsCaption(c) /\ (id \in DOMAIN st.seg => c = st.seg[id])
  BY <1>1, <1>2, LookupIsCaption
<1>4. PICK d \in {[c EXCEPT !.res = res]} :
        /\ IsCaption(d) /\ d.sup = c.sup /\ d.par = c.par /\ d.res = res
        /\ d = [c EXCEPT !.res = d.res]
  BY <1>1, <1>3, CaptionFields
<1>5. PICK new \in {Put(st, id, d)} :
        /\ StoreInv(new) /\ DOMAIN new.seg = DOMAIN st.seg
        /\ \A k \in DOMAIN st.seg : new.seg[k] = st.seg[k] \/ (k = id /\ new.seg[k] = d)
        /\ id \in DOMAIN st.seg => Lookup(st, id) = st.seg[id]
  BY <1>1, <1>2, <1>4, ChangeStore
<1>6. new = ApplyTranslation(st, id, res)
  BY <1>2, <1>4, <1>5 DEF ApplyTranslation
<1>7. \A k \in DOMAIN st.seg : IsCaption(st.seg[k]) /\ st.seg[k].res \in Nat
  BY DEF StoreInv, Replaced, IsCaption
<1>8. ASSUME NEW k \in DOMAIN st.seg
      PROVE  /\ new.seg[k].res >= st.seg[k].res
             /\ Hidden(st.seg[k]) => new.seg[k] = st.seg[k]
             /\ new.seg[k] = [st.seg[k] EXCEPT !.res = new.seg[k].res]
             /\ st.seg[k].res >= Completed => new.seg[k].res = st.seg[k].res
  <2>1. CASE new.seg[k] = st.seg[k]
    BY <1>7, <2>1, SameCaption
  <2>2. CASE k = id /\ new.seg[k] = d
    <3>1. st.seg[k] = c /\ c.res \in Nat /\ c.res < res
      BY <1>1, <1>2, <1>3, <1>7, <2>2
    <3> QED
      BY <1>1, <1>2, <1>4, <2>2, <3>1 DEF Completed
  <2> QED
    BY <1>5, <2>1, <2>2
<1> QED
  BY <1>5, <1>6, <1>8 DEF Forward, Respects

(* A speaker is changed of a shown caption, and of a caption the user      *)
(* assigned by the user only.                                              *)
LEMMA TakeSpeaker ==
  ASSUME NEW st, StoreInv(st), NEW id \in Ids(st), ~Hidden(Lookup(st, id)), NEW spk, NEW rev, NEW man
  PROVE  \E new \in {UpdateSpeaker(st, id, spk, rev, man)} :
           /\ StoreInv(new) /\ Forward(st, new)
           /\ ~Lookup(st, id).man => Respects(st, new)
<1>2. PICK c : c = Lookup(st, id)
  OBVIOUS
<1>3. IsCaption(c) /\ (id \in DOMAIN st.seg => c = st.seg[id])
  BY <1>2, LookupIsCaption
<1>4. PICK d : d = [c EXCEPT !.spk = spk, !.rev = rev, !.man = man]
  OBVIOUS
<1>5. IsCaption(d) /\ d.sup = c.sup /\ d.par = c.par /\ d.res = c.res
  <2>1. DOMAIN c = Fields /\ c.res \in Nat
    BY <1>3 DEF IsCaption
  <2>2. d = [f \in Fields |-> d[f]] /\ d.res = c.res /\ d.sup = c.sup /\ d.par = c.par
    BY <1>4, <2>1 DEF Fields
  <2> QED
    BY <2>1, <2>2 DEF IsCaption
<1>6. PICK new \in {Put(st, id, d)} :
        /\ StoreInv(new) /\ DOMAIN new.seg = DOMAIN st.seg
        /\ \A k \in DOMAIN st.seg : new.seg[k] = st.seg[k] \/ (k = id /\ new.seg[k] = d)
        /\ id \in DOMAIN st.seg => Lookup(st, id) = st.seg[id]
  BY <1>2, <1>5, ChangeStore
<1>7. new = UpdateSpeaker(st, id, spk, rev, man)
  BY <1>2, <1>4, <1>6 DEF UpdateSpeaker
<1>8. \A k \in DOMAIN st.seg : IsCaption(st.seg[k]) /\ st.seg[k].res \in Nat
  BY DEF StoreInv, Replaced, IsCaption
<1>9. Forward(st, new)
  <2>1. ASSUME NEW k \in DOMAIN st.seg
        PROVE  /\ new.seg[k].res >= st.seg[k].res
               /\ Hidden(st.seg[k]) => new.seg[k] = st.seg[k]
    <3>1. CASE new.seg[k] = st.seg[k]
      BY <1>8, <3>1
    <3>2. CASE k = id /\ new.seg[k] = d
      BY <1>2, <1>3, <1>5, <1>8, <3>2
    <3> QED
      BY <1>6, <3>1, <3>2
  <2> QED
    BY <1>6, <2>1 DEF Forward
<1>10. ASSUME ~c.man PROVE Respects(st, new)
  <2>1. ASSUME NEW k \in DOMAIN st.seg, st.seg[k].man PROVE new.seg[k] = st.seg[k]
    BY <1>3, <1>6, <1>10, <2>1
  <2> QED
    BY <1>8, <2>1, SameCaption DEF Respects
<1> QED
  BY <1>2, <1>6, <1>7, <1>9, <1>10

(* A review improves completed results of shown captions nobody assigned. *)
LEMMA TakeRevision ==
  ASSUME NEW st, StoreInv(st), NEW batch, TakesRevision(st, batch)
  PROVE  \E new \in {ReviseTranslations(st, batch)} :
           StoreInv(new) /\ Forward(st, new) /\ Respects(st, new)
<1>1. \A id \in DOMAIN batch : id \in DOMAIN st.seg /\ ~Hidden(st.seg[id]) /\ ~st.seg[id].man
  BY DEF TakesRevision
<1>2. PICK better : better = [id \in DOMAIN batch |-> [st.seg[id] EXCEPT !.res = @ + 1]]
  OBVIOUS
<1>3. PICK seg : seg = Over(better, st.seg)
  OBVIOUS
<1>4. PICK new : new = [st EXCEPT !.seg = seg]
  OBVIOUS
<1>5. new = ReviseTranslations(st, batch)
  BY <1>2, <1>3, <1>4 DEF ReviseTranslations
<1>6. /\ DOMAIN new = {"seg", "groups", "held"} /\ new.groups = st.groups /\ new.held = st.held
      /\ new.seg = seg
  BY <1>4 DEF StoreInv
<1>7. DOMAIN seg = DOMAIN st.seg
  BY <1>1, <1>2, <1>3 DEF Over
<1>8. \A k \in DOMAIN st.seg : IsCaption(st.seg[k]) /\ st.seg[k].res \in Nat
  BY DEF StoreInv, Replaced, IsCaption
<1>9. ASSUME NEW k \in DOMAIN batch
      PROVE  /\ IsCaption(seg[k]) /\ seg[k].sup = st.seg[k].sup /\ seg[k].par = st.seg[k].par
             /\ seg[k].res = st.seg[k].res + 1
  <2>1. PICK c : c = st.seg[k]
    OBVIOUS
  <2>2. IsCaption(c) /\ c.res \in Nat
    BY <1>1, <1>8, <2>1
  <2>3. seg[k] = [c EXCEPT !.res = c.res + 1]
    BY <1>2, <1>3, <2>1 DEF Over
  <2> QED
    BY <2>1, <2>2, <2>3, CaptionFields
<1>10. \A k \in DOMAIN st.seg \ DOMAIN batch : seg[k] = st.seg[k]
  BY <1>2, <1>3 DEF Over
<1>11. \A k \in DOMAIN st.seg : /\ IsCaption(seg[k]) /\ seg[k].sup = st.seg[k].sup
                                /\ seg[k].par = st.seg[k].par
  BY <1>8, <1>9, <1>10
<1>12. Visible(new) = Visible(st)
  BY <1>6, <1>7, <1>11 DEF Visible, Hidden
<1>13. StoreInv(new)
  <2>1. HeldApart(new)
    BY <1>6, <1>7 DEF StoreInv, HeldApart
  <2>2. Replaced(new)
    BY <1>6, <1>7, <1>11 DEF StoreInv, Replaced, Hidden
  <2>3. Shown(new)
    BY <1>6, <1>7, <1>11, <1>12 DEF StoreInv, Shown, Hidden
  <2> QED
    BY <1>6, <2>1, <2>2, <2>3 DEF StoreInv
<1>14. Forward(st, new)
  <2>1. ASSUME NEW k \in DOMAIN st.seg
        PROVE  seg[k].res >= st.seg[k].res /\ (Hidden(st.seg[k]) => seg[k] = st.seg[k])
    BY <1>1, <1>8, <1>9, <1>10
  <2> QED
    BY <1>6, <1>7, <2>1 DEF Forward
<1>15. Respects(st, new)
  <2>1. ASSUME NEW k \in DOMAIN st.seg, st.seg[k].man PROVE seg[k] = st.seg[k]
    BY <1>1, <1>10, <2>1
  <2> QED
    BY <1>6, <1>8, <2>1, SameCaption DEF Respects
<1> QED
  BY <1>5, <1>13, <1>14, <1>15

(* A new group is applied, or held while the user's word is in its way. *)
LEMMA TakeGroup ==
  ASSUME NEW st, StoreInv(st), NEW gid, NEW g, GroupOK(g), NEW status \in {"held", "applied"},
         GroupStatus(st, gid, g) = status
  PROVE  \E new \in {CommitGroup(st, gid, g, status)} :
           StoreInv(new) /\ Forward(st, new) /\ Respects(st, new)
<1>1. /\ gid \notin DOMAIN st.groups /\ ValidGroup(st, g, {})
      /\ status = "held" \/ \A p \in g.parents : ~st.seg[p].man
  BY DEF GroupStatus
<1>2. Kids(g) \cap Ids(st) = {} /\ g.parents \subseteq Visible(st)
  BY <1>1 DEF ValidGroup
<1>3. Waits(st, gid, g)
  BY <1>2 DEF Waits, Ids, HeldKids
<1>4. CASE status = "held"
  <2>1. PICK new \in {CommitGroup(st, gid, g, "held")} : StoreInv(new) /\ new.seg = st.seg
    BY <1>3, HoldGroup
  <2> QED
    BY <1>4, <2>1, SameCaptions
<1>5. CASE status = "applied"
  <2>1. PICK new \in {CommitGroup(st, gid, g, "applied")} :
           /\ StoreInv(new) /\ Forward(st, new)
           /\ DOMAIN st.seg \subseteq DOMAIN new.seg
           /\ \A p \in DOMAIN st.seg \ g.parents : new.seg[p] = st.seg[p]
    BY <1>2, <1>3, ApplyGroup
  <2>2. ASSUME NEW k \in DOMAIN st.seg, st.seg[k].man
        PROVE  new.seg[k] = st.seg[k] /\ IsCaption(st.seg[k])
    BY <1>1, <1>5, <2>1, <2>2 DEF StoreInv, Replaced
  <2>3. Respects(st, new)
    BY <2>2, SameCaption DEF Respects
  <2> QED
    BY <1>5, <2>1, <2>3
<1> QED
  BY <1>4, <1>5

(* A held group is applied once its parents are free. *)
LEMMA TakeHeldGroup ==
  ASSUME NEW st, StoreInv(st), NEW gid, TakesHeldGroup(st, gid)
  PROVE  \E new \in {ApplyHeldGroup(st, gid)} : StoreInv(new) /\ Forward(st, new)
<1>1. gid \in st.held /\ ValidGroup(st, st.groups[gid], Kids(st.groups[gid]))
  BY DEF TakesHeldGroup
<1>2. Waits(st, gid, st.groups[gid]) /\ st.groups[gid].parents \subseteq Visible(st)
  BY <1>1 DEF ValidGroup, Waits, StoreInv, HeldApart
<1>3. PICK new \in {CommitGroup(st, gid, st.groups[gid], "applied")} :
           /\ StoreInv(new) /\ Forward(st, new)
           /\ DOMAIN st.seg \subseteq DOMAIN new.seg
           /\ \A p \in DOMAIN st.seg \ st.groups[gid].parents : new.seg[p] = st.seg[p]
  BY <1>2, ApplyGroup
<1> QED
  BY <1>3 DEF ApplyHeldGroup

-----------------------------------------------------------------------------
EventKinds == {"source", "result", "failed", "revised", "speaker", "group"}
EventOK(e) ==
  /\ e.kind \in EventKinds
  /\ e.kind = "result" => e.res \in {Preview, Completed}
  /\ e.kind = "group" => GroupOK(e.group)
WireOK(w) == w \in Seq(ToSet(w)) /\ \A i \in DOMAIN w : EventOK(w[i])

(* The caption an overlap is separated of is one the recogniser made. *)
JobOK(o) ==
  /\ DOMAIN o = {"parents", "regions", "tried", "queue", "job"}
  /\ ~Idle(o.job) => DOMAIN o.job = {"of", "live"} /\ o.job.of \in Captions

ExchangeInv == StoreInv(srv) /\ StoreInv(cli) /\ WireOK(wire) /\ JobOK(overlap)

(* What every step does to the two stores. *)
Steps ==
  /\ Forward(srv, srv') /\ Forward(cli, cli')
  /\ wire' # wire => Respects(cli, cli')

(* An event goes to the end of the wire.                                   *)
LEMMA WireGrows ==
  ASSUME NEW w, WireOK(w), NEW e, EventOK(e)
  PROVE  WireOK(w \o <<e>>)
<1>1. PICK S : S = ToSet(w) \cup {e}
  OBVIOUS
<1>2. w \in Seq(S) /\ <<e>> \in Seq(S)
  BY <1>1 DEF WireOK
<1>3. PICK v : v = w \o <<e>>
  OBVIOUS
<1>4. /\ v \in Seq(S) /\ Len(v) = Len(w) + 1 /\ Len(w) \in Nat /\ v[Len(v)] = e
      /\ \A i \in 1..Len(w) : v[i] = w[i]
  BY <1>2, <1>3
<1>5. \A i \in DOMAIN v : EventOK(v[i])
  BY <1>2, <1>4 DEF WireOK
<1>6. v \in Seq(ToSet(v))
  BY <1>4 DEF ToSet
<1> QED
  BY <1>3, <1>5, <1>6 DEF WireOK

(* The client takes the oldest event; what it took is well formed.         *)
LEMMA WireShrinks ==
  ASSUME NEW w, WireOK(w), w # <<>>
  PROVE  WireOK(Tail(w)) /\ EventOK(Head(w)) /\ Tail(w) # w
<1>1. PICK S : S = ToSet(w)
  OBVIOUS
<1>2. w \in Seq(S)
  BY <1>1 DEF WireOK
<1>3. PICK v : v = Tail(w)
  OBVIOUS
<1>4. /\ v \in Seq(S) /\ Len(v) = Len(w) - 1 /\ Len(w) \in Nat /\ Len(w) > 0
      /\ \A i \in 1..Len(v) : v[i] = w[i + 1]
      /\ Head(w) = w[1]
  BY <1>2, <1>3
<1>5. \A i \in DOMAIN v : EventOK(v[i])
  BY <1>2, <1>4 DEF WireOK
<1>6. v \in Seq(ToSet(v))
  BY <1>4 DEF ToSet
<1>7. EventOK(Head(w)) /\ v # w
  BY <1>2, <1>4 DEF WireOK
<1> QED
  BY <1>3, <1>5, <1>6, <1>7 DEF WireOK

(* A store nobody writes. *)
LEMMA QuietStore ==
  ASSUME NEW st, StoreInv(st)
  PROVE  Forward(st, st) /\ Respects(st, st)
BY SameCaptions

(* A step that leaves both stores, the stream and the separation alone. *)
LEMMA QuietStep ==
  ASSUME ExchangeInv, UNCHANGED <<srv, cli, wire>>, JobOK(overlap')
  PROVE  ExchangeInv' /\ Steps
<1>1. Forward(srv, srv') /\ Forward(cli, cli')
  BY QuietStore DEF ExchangeInv
<1> QED
  BY <1>1 DEF ExchangeInv, Steps

(* A step of the gateway that says what it writes. *)
LEMMA GatewayStep ==
  ASSUME ExchangeInv, NEW e, EventOK(e), Emits(<<e>>), UNCHANGED cli,
         StoreInv(srv'), Forward(srv, srv'), JobOK(overlap')
  PROVE  ExchangeInv' /\ Steps
<1>1. WireOK(wire')
  BY WireGrows DEF ExchangeInv, Emits
<1>2. Forward(cli, cli') /\ Respects(cli, cli')
  BY QuietStore DEF ExchangeInv
<1> QED
  BY <1>1, <1>2 DEF ExchangeInv, Steps

(* A step of the client. *)
LEMMA ClientStep ==
  ASSUME ExchangeInv, UNCHANGED <<srv, overlap>>, WireOK(wire'),
         StoreInv(cli'), Forward(cli, cli'), wire' # wire => Respects(cli, cli')
  PROVE  ExchangeInv' /\ Steps
<1>1. Forward(srv, srv')
  BY QuietStore DEF ExchangeInv
<1> QED
  BY <1>1 DEF ExchangeInv, Steps

(* A caption is stored under a fresh id and emitted.                       *)
LEMMA CaptionStep ==
  ASSUME ExchangeInv, NEW n \in Captions, Caption(n)
  PROVE  ExchangeInv' /\ Steps
<1>1. PICK e : e = [kind |-> "source", id |-> n, span |-> Cells(n)]
  OBVIOUS
<1>2. EventOK(e) /\ Emits(<<e>>) /\ UNCHANGED cli
  BY <1>1 DEF Caption, EventOK, EventKinds
<1>3. PICK new \in {UpsertSource(srv, n, Cells(n))} :
        /\ StoreInv(new) /\ DOMAIN srv.seg \subseteq DOMAIN new.seg
        /\ \A k \in DOMAIN srv.seg : new.seg[k] = srv.seg[k]
  BY AddStore DEF ExchangeInv
<1>4. srv' = new
  BY <1>3 DEF Caption
<1>5. Forward(srv, srv')
  BY <1>3, <1>4, SameCaptions DEF ExchangeInv
<1>6. JobOK(overlap')
  BY DEF ExchangeInv, JobOK, Caption, RegisterParent, Scheduled
<1> QED
  BY <1>2, <1>3, <1>4, <1>5, <1>6, GatewayStep

(* A result is stored and emitted, or refused and dropped.                 *)
LEMMA TranslatedStep ==
  ASSUME ExchangeInv, NEW n \in Captions, NEW res \in {Preview, Completed}, Translated(n, res)
  PROVE  ExchangeInv' /\ Steps
<1>0. JobOK(overlap') /\ UNCHANGED cli
  BY DEF ExchangeInv, Translated
<1>1. CASE TakesResult(srv, n, res)
  <2>1. PICK e : e = [kind |-> "result", id |-> n, res |-> res]
    OBVIOUS
  <2>2. EventOK(e) /\ Emits(<<e>>)
    BY <1>1, <2>1 DEF Translated, EventOK, EventKinds
  <2>3. StoreInv(srv') /\ Forward(srv, srv')
    BY <1>1, TakeResult DEF Translated, ExchangeInv
  <2> QED
    BY <1>0, <2>2, <2>3, GatewayStep
<1>2. CASE ~TakesResult(srv, n, res)
  BY <1>0, <1>2, QuietStep DEF Translated
<1> QED
  BY <1>1, <1>2

(* A failed translation is only emitted.                                   *)
LEMMA FailsStep ==
  ASSUME ExchangeInv, NEW n \in Captions, TranslationFails(n)
  PROVE  ExchangeInv' /\ Steps
<1>1. PICK e : e = [kind |-> "failed", id |-> n]
  OBVIOUS
<1>2. EventOK(e) /\ Emits(<<e>>)
  BY <1>1 DEF TranslationFails, EventOK, EventKinds
<1>3. /\ UNCHANGED <<srv, cli>> /\ JobOK(overlap')
      /\ StoreInv(srv') /\ Forward(srv, srv')
  BY QuietStore DEF TranslationFails, ExchangeInv
<1> QED
  BY <1>2, <1>3, GatewayStep

(* A speaker decision goes to a caption that is shown.                     *)
LEMMA SpeakerStep ==
  ASSUME ExchangeInv, NEW n \in Captions, NEW spk, SpeakerPatch(n, spk)
  PROVE  ExchangeInv' /\ Steps
<1>1. PICK rev : rev = srv.seg[n].rev + 1
  OBVIOUS
<1>2. PICK e : e = [kind |-> "speaker", id |-> n, spk |-> spk, rev |-> rev]
  OBVIOUS
<1>3. EventOK(e) /\ Emits(<<e>>) /\ UNCHANGED cli /\ JobOK(overlap')
  BY <1>1, <1>2 DEF SpeakerPatch, ExchangeInv, EventOK, EventKinds
<1>4. n \in Ids(srv) /\ ~Hidden(Lookup(srv, n))
  BY DEF SpeakerPatch, TakesSpeaker
<1>5. PICK new \in {UpdateSpeaker(srv, n, spk, rev, FALSE)} : StoreInv(new) /\ Forward(srv, new)
  BY <1>4, TakeSpeaker DEF ExchangeInv
<1>6. srv' = new
  BY <1>1, <1>5 DEF SpeakerPatch
<1> QED
  BY <1>3, <1>5, <1>6, GatewayStep

(* A review raises the results it was based on, or changes nothing.        *)
LEMMA ReviewStep ==
  ASSUME ExchangeInv, ReviewAnswers
  PROVE  ExchangeInv' /\ Steps
<1>0. JobOK(overlap') /\ UNCHANGED cli
  BY DEF ExchangeInv, ReviewAnswers
<1>1. PICK T \in SUBSET DOMAIN review.job.targets :
       LET batch == [t \in T |-> review.job.targets[t]]
           accepted == T # {} /\ IsCurrent(review.job, srv) /\ TakesRevision(srv, batch)
       IN /\ srv' = IF accepted THEN ReviseTranslations(srv, batch) ELSE srv
          /\ IF accepted THEN Emits(<<[kind |-> "revised", batch |-> batch]>>)
                         ELSE UNCHANGED wire
  BY DEF ReviewAnswers
<1>2. PICK batch : batch = [t \in T |-> review.job.targets[t]]
  OBVIOUS
<1>3. PICK e : e = [kind |-> "revised", batch |-> batch]
  OBVIOUS
<1>4. \/ srv' = srv /\ UNCHANGED wire
      \/ TakesRevision(srv, batch) /\ srv' = ReviseTranslations(srv, batch) /\ Emits(<<e>>)
  BY <1>1, <1>2, <1>3
<1>5. EventOK(e)
  BY <1>3 DEF EventOK, EventKinds
<1>6. CASE TakesRevision(srv, batch) /\ srv' = ReviseTranslations(srv, batch) /\ Emits(<<e>>)
  <2>1. StoreInv(srv') /\ Forward(srv, srv')
    BY <1>6, TakeRevision DEF ExchangeInv
  <2> QED
    BY <1>0, <1>5, <1>6, <2>1, GatewayStep
<1>7. CASE srv' = srv /\ UNCHANGED wire
  BY <1>0, <1>7, QuietStep
<1> QED
  BY <1>4, <1>6, <1>7

(* The children of a caption are a group as GroupOK says. *)
LEMMA ChildrenOK ==
  ASSUME NEW n \in Captions, NEW context \in BOOLEAN, NEW st, NEW g,
         g = [parents |-> {n}, kids |-> Children(n, context, st)]
  PROVE  GroupOK(g)
<1>1. PICK kids : kids = Children(n, context, st)
  OBVIOUS
<1>2. DOMAIN g = {"parents", "kids"} /\ g.parents = {n} /\ g.kids = kids
  BY <1>1
<1>3. \A k \in DOMAIN kids : \E lane \in Lanes : k = Kid(n, lane)
  BY <1>1 DEF Children
<1>4. DOMAIN kids \cap Captions = {}
  <2>1. \A lane \in Lanes : Kid(n, lane) \notin Captions
    BY ExchangeAssumption DEF Lanes, Kid, Captions
  <2> QED
    BY <1>3, <2>1
<1>5. ASSUME NEW k \in DOMAIN kids
      PROVE  IsCaption(kids[k]) /\ kids[k].sup = {} /\ kids[k].par = {n}
  <2>1. PICK span : span = IF k = Kid(n, Context) THEN {2 * n - 1} ELSE {2 * n}
    OBVIOUS
  <2>2. PICK c : c = NewCaption(span)
    OBVIOUS
  <2>3. PICK spk : spk = IF k = Kid(n, Context) THEN st.seg[n].spk ELSE c.spk
    OBVIOUS
  <2>4. PICK d : d = [c EXCEPT !.res = Completed, !.par = {n}, !.spk = spk]
    OBVIOUS
  <2>5. kids[k] = d
    BY <1>1, <2>1, <2>2, <2>3, <2>4 DEF Children
  <2>6. DOMAIN c = Fields /\ c.sup = {}
    BY <2>2 DEF NewCaption, Fields
  <2>7. d = [f \in Fields |-> d[f]] /\ d.res = Completed /\ d.par = {n} /\ d.sup = {}
    BY <2>4, <2>6 DEF Fields
  <2> QED
    BY <2>5, <2>7 DEF IsCaption, Completed
<1> QED
  BY <1>2, <1>4, <1>5 DEF GroupOK, Kids, Hidden

(* An accepted separation replaces its parent by new children.             *)
LEMMA CommitsStep ==
  ASSUME ExchangeInv, NEW context \in BOOLEAN, OverlapCommits(context)
  PROVE  ExchangeInv' /\ Steps
<1>1. PICK g \in {[parents |-> {overlap.job.of}, kids |-> Children(overlap.job.of, context, srv)]} :
       /\ GroupStatus(srv, overlap.job.of, g) = "applied"
       /\ srv' = CommitGroup(srv, overlap.job.of, g, "applied")
       /\ Emits(<<[kind |-> "group", id |-> overlap.job.of, group |-> g]>>)
  BY DEF OverlapCommits
<1>2. overlap.job.of \in Captions
  BY DEF OverlapCommits, ExchangeInv, JobOK
<1>3. GroupOK(g)
  BY <1>1, <1>2, ChildrenOK
<1>4. StoreInv(srv') /\ Forward(srv, srv')
  BY <1>1, <1>3, TakeGroup DEF ExchangeInv
<1>5. PICK e : e = [kind |-> "group", id |-> overlap.job.of, group |-> g]
  OBVIOUS
<1>6. EventOK(e) /\ Emits(<<e>>)
  BY <1>1, <1>3, <1>5 DEF EventOK, EventKinds
<1>7. overlap' = [overlap EXCEPT !.job = None] /\ UNCHANGED cli
  BY DEF OverlapCommits
<1>8. JobOK(overlap')
  BY <1>7 DEF ExchangeInv, JobOK, Idle
<1> QED
  BY <1>4, <1>6, <1>7, <1>8, GatewayStep

(* The other steps of the overlap corrector touch no store.                *)
LEMMA OverlapSteps ==
  ASSUME ExchangeInv,
         \/ \E n \in Captions : ObserveAnalysis(n) \/ Separated(n)
         \/ OverlapSkips \/ Gap
  PROVE  ExchangeInv' /\ Steps
<1>0. UNCHANGED <<srv, cli, wire>>
  BY DEF ObserveAnalysis, Separated, OverlapSkips, Gap
<1>1. ASSUME NEW n \in Captions, ObserveAnalysis(n) PROVE JobOK(overlap')
  BY <1>1 DEF ExchangeInv, JobOK, ObserveAnalysis, Scheduled
<1>2. ASSUME NEW n \in Captions, Separated(n) PROVE JobOK(overlap')
  <2>1. PICK job : job = IF n \in overlap.parents /\ n \in Visible(srv)
                         THEN [of |-> n, live |-> TRUE] ELSE overlap.job
    OBVIOUS
  <2>2. overlap' = [overlap EXCEPT !.queue = @ \ {n}, !.job = job]
    BY <1>2, <2>1 DEF Separated
  <2>3. Idle(overlap.job)
    BY <1>2 DEF Separated
  <2>4. ~Idle(job) => DOMAIN job = {"of", "live"} /\ job.of \in Captions
    BY <2>1, <2>3 DEF Idle
  <2> QED
    BY <2>2, <2>4 DEF ExchangeInv, JobOK
<1>3. ASSUME OverlapSkips PROVE JobOK(overlap')
  BY <1>3 DEF ExchangeInv, JobOK, OverlapSkips, Idle
<1>4. ASSUME Gap PROVE JobOK(overlap')
  <2>1. PICK job : job = IF Idle(overlap.job) THEN overlap.job
                         ELSE [overlap.job EXCEPT !.live = FALSE]
    OBVIOUS
  <2>2. overlap' = [overlap EXCEPT !.parents = {}, !.tried = {}, !.regions = {}, !.job = job]
    BY <1>4, <2>1 DEF Gap, OverlapGap
  <2>3. ~Idle(job) => DOMAIN job = {"of", "live"} /\ job.of \in Captions
    BY <2>1 DEF ExchangeInv, JobOK
  <2> QED
    BY <2>2, <2>3 DEF ExchangeInv, JobOK
<1>5. JobOK(overlap')
  BY <1>1, <1>2, <1>3, <1>4
<1> QED
  BY <1>0, <1>5, QuietStep

(* An event is reduced as its kind says. *)
LEMMA ReduceStep ==
  ASSUME ExchangeInv, NEW e, EventOK(e),
         CASE e.kind = "source"  -> ReduceSource(e)
           [] e.kind = "result"  -> ReduceResult(e)
           [] e.kind = "failed"  -> ReduceFailed(e)
           [] e.kind = "revised" -> ReduceRevised(e)
           [] e.kind = "speaker" -> ReduceSpeaker(e)
           [] e.kind = "group"   -> ReduceGroup(e)
  PROVE  StoreInv(cli') /\ Forward(cli, cli') /\ Respects(cli, cli')
<1>0. StoreInv(cli) /\ Forward(cli, cli) /\ Respects(cli, cli)
  BY QuietStore DEF ExchangeInv
<1>1. CASE e.kind = "source"
  <2>1. PICK new \in {UpsertSource(cli, e.id, e.span)} :
          /\ StoreInv(new) /\ DOMAIN cli.seg \subseteq DOMAIN new.seg
          /\ \A k \in DOMAIN cli.seg : new.seg[k] = cli.seg[k]
    BY <1>0, AddStore
  <2>2. cli' = new
    BY <1>1, <2>1 DEF ReduceSource
  <2> QED
    BY <1>0, <2>1, <2>2, SameCaptions
<1>2. CASE e.kind = "result"
  <2>1. ReduceResult(e)
    BY <1>2
  <2>2. \/ TakesResult(cli, e.id, e.res) /\ cli' = ApplyTranslation(cli, e.id, e.res)
        \/ cli' = cli
    BY <2>1 DEF ReduceResult
  <2>3. e.res \in {Preview, Completed}
    BY <1>2 DEF EventOK
  <2> QED
    BY <1>0, <2>2, <2>3, TakeResult
<1>3. CASE e.kind = "failed"
  <2>1. cli' = cli
    BY <1>3 DEF ReduceFailed
  <2> QED
    BY <1>0, <2>1
<1>4. CASE e.kind = "revised"
  <2>1. ReduceRevised(e)
    BY <1>4
  <2>2. \/ TakesRevision(cli, e.batch) /\ cli' = ReviseTranslations(cli, e.batch)
        \/ cli' = cli
    BY <2>1 DEF ReduceRevised
  <2> QED
    BY <1>0, <2>2, TakeRevision
<1>5. CASE e.kind = "speaker"
  <2>1. ReduceSpeaker(e)
    BY <1>5
  <2>2. \/ TakesSpeaker(cli, e.id, e.rev, FALSE)
           /\ cli' = UpdateSpeaker(cli, e.id, e.spk, e.rev, FALSE)
        \/ cli' = cli
    BY <2>1 DEF ReduceSpeaker
  <2>3. TakesSpeaker(cli, e.id, e.rev, FALSE) =>
          e.id \in Ids(cli) /\ ~Hidden(Lookup(cli, e.id)) /\ ~Lookup(cli, e.id).man
    BY DEF TakesSpeaker
  <2>4. CASE TakesSpeaker(cli, e.id, e.rev, FALSE)
              /\ cli' = UpdateSpeaker(cli, e.id, e.spk, e.rev, FALSE)
    <3>1. PICK new \in {UpdateSpeaker(cli, e.id, e.spk, e.rev, FALSE)} :
            StoreInv(new) /\ Forward(cli, new) /\ (~Lookup(cli, e.id).man => Respects(cli, new))
      BY <1>0, <2>3, <2>4, TakeSpeaker
    <3> QED
      BY <2>3, <2>4, <3>1
  <2> QED
    BY <1>0, <2>2, <2>4
<1>6. CASE e.kind = "group"
  <2>1. ReduceGroup(e) /\ GroupOK(e.group)
    BY <1>6 DEF EventOK
  <2>2. PICK status : status = GroupStatus(cli, e.id, e.group)
    OBVIOUS
  <2>3. status \in {"stale", "held", "applied"}
    BY <2>2 DEF GroupStatus
  <2>4. \/ status \in {"held", "applied"} /\ cli' = CommitGroup(cli, e.id, e.group, status)
        \/ cli' = cli
    BY <2>1, <2>2, <2>3 DEF ReduceGroup
  <2> QED
    BY <1>0, <2>1, <2>2, <2>4, TakeGroup
<1> QED
  BY <1>1, <1>2, <1>3, <1>4, <1>5, <1>6 DEF EventOK, EventKinds

(* The client reduces an event: it respects what the user assigned.        *)
LEMMA DeliverStep ==
  ASSUME ExchangeInv, Deliver
  PROVE  ExchangeInv' /\ Steps
<1>1. PICK e \in {Head(wire)} :
       CASE e.kind = "source"  -> ReduceSource(e)
         [] e.kind = "result"  -> ReduceResult(e)
         [] e.kind = "failed"  -> ReduceFailed(e)
         [] e.kind = "revised" -> ReduceRevised(e)
         [] e.kind = "speaker" -> ReduceSpeaker(e)
         [] e.kind = "group"   -> ReduceGroup(e)
  BY DEF Deliver
<1>2. wire # <<>> /\ wire' = Tail(wire) /\ UNCHANGED <<srv, overlap>>
  BY DEF Deliver
<1>3. WireOK(wire') /\ EventOK(e)
  BY <1>1, <1>2, WireShrinks DEF ExchangeInv
<1>4. StoreInv(cli') /\ Forward(cli, cli') /\ Respects(cli, cli')
  BY <1>1, <1>3, ReduceStep
<1> QED
  BY <1>2, <1>3, <1>4, ClientStep

(* The user assigns speakers to what is shown and accepts alternatives     *)
(* whose parents are.                                                      *)
LEMMA UserSteps ==
  ASSUME ExchangeInv,
         \/ \E id \in DOMAIN cli.seg, spk \in Speakers \cup {NoSpeaker} : AssignSpeaker(id, spk)
         \/ \E g \in cli.held : ApplyCaptionGroup(g)
  PROVE  ExchangeInv' /\ Steps
<1>0. UNCHANGED <<srv, overlap, wire>> /\ WireOK(wire)
  BY DEF AssignSpeaker, ApplyCaptionGroup, ExchangeInv
<1>1. ASSUME NEW id \in DOMAIN cli.seg, NEW spk \in Speakers \cup {NoSpeaker}, AssignSpeaker(id, spk)
      PROVE  StoreInv(cli') /\ Forward(cli, cli')
  <2>1. PICK rev : rev = cli.seg[id].rev + 1
    OBVIOUS
  <2>2. id \in Ids(cli) /\ Lookup(cli, id) = cli.seg[id] /\ ~Hidden(cli.seg[id])
    BY <1>1, LookupIsCaption DEF AssignSpeaker, Visible, Ids, ExchangeInv
  <2>3. PICK new \in {UpdateSpeaker(cli, id, spk, rev, TRUE)} : StoreInv(new) /\ Forward(cli, new)
    BY <2>2, TakeSpeaker DEF ExchangeInv
  <2> QED
    BY <1>1, <2>1, <2>3 DEF AssignSpeaker
<1>2. ASSUME NEW g \in cli.held, ApplyCaptionGroup(g)
      PROVE  StoreInv(cli') /\ Forward(cli, cli')
  BY <1>2, TakeHeldGroup DEF ApplyCaptionGroup, ExchangeInv
<1>3. StoreInv(cli') /\ Forward(cli, cli')
  BY <1>1, <1>2
<1> QED
  BY <1>0, <1>3, ClientStep

(* A review that starts or fails touches no store.                         *)
LEMMA ReviewQuiet ==
  ASSUME ExchangeInv, ReviewStarts \/ ReviewFails
  PROVE  ExchangeInv' /\ Steps
<1>1. UNCHANGED <<srv, cli, wire, overlap>> /\ JobOK(overlap)
  BY DEF ReviewStarts, ReviewFails, ExchangeInv
<1> QED
  BY <1>1, QuietStep

(* Every step keeps the invariant, and does to the stores what Steps says. *)
LEMMA ExchangeNext ==
  ASSUME ExchangeInv, [Next]_vars
  PROVE  ExchangeInv' /\ Steps
<1>1. CASE UNCHANGED vars
  <2>1. UNCHANGED <<srv, cli, wire, overlap>> /\ JobOK(overlap)
    BY <1>1 DEF vars, ExchangeInv
  <2> QED
    BY <2>1, QuietStep
<1>2. ASSUME NEW n \in Captions,
             \/ Caption(n) \/ TranslationFails(n) \/ ObserveAnalysis(n) \/ Separated(n)
             \/ \E res \in {Preview, Completed} : Translated(n, res)
             \/ \E spk \in Speakers \cup {NoSpeaker} : SpeakerPatch(n, spk)
      PROVE  ExchangeInv' /\ Steps
  BY <1>2, CaptionStep, FailsStep, OverlapSteps, TranslatedStep, SpeakerStep
<1> QED
  BY <1>1, <1>2, ReviewStep, ReviewQuiet, CommitsStep, OverlapSteps, DeliverStep, UserSteps DEF Next

(* Both stores are empty at first.                                         *)
LEMMA ExchangeStarts == Init => ExchangeInv
<1> SUFFICES ASSUME Init PROVE ExchangeInv
  OBVIOUS
<1>1. ASSUME NEW st, st = EmptyStore PROVE StoreInv(st)
  <2>1. DOMAIN st = {"seg", "groups", "held"} /\ DOMAIN st.seg = {} /\ st.held = {}
    BY <1>1 DEF EmptyStore
  <2> QED
    BY <2>1 DEF StoreInv, HeldApart, Replaced, Shown
<1>2. WireOK(wire)
  BY DEF Init, WireOK
<1>3. JobOK(overlap)
  BY DEF Init, NewOverlap, JobOK, Idle
<1> QED
  BY <1>1, <1>2, <1>3 DEF Init, ExchangeInv

(* For any captions, bounds and settings of the review, and whatever the   *)
(* order of translations, speakers, reviews, groups and deliveries: a      *)
(* caption is shown or all its replacements are, in the gateway's store    *)
(* and in the client's (replace_group, apply_held_group, _commit_group).   *)
THEOREM CaptionsLeaveNoHole == Spec => []NoHole
<1>1. ExchangeInv => NoHole
  BY DEF ExchangeInv, StoreInv, NoHole
<1> QED
  BY <1>1, ExchangeStarts, ExchangeNext, PTL DEF Spec

(* For any captions, speakers, bounds and settings of the review: no event *)
(* changes the speaker, the place or a completed text of a caption that    *)
(* the user assigned (the client's reducers, update_speaker,               *)
(* replace_group, revise_translations).                                    *)
THEOREM UserHasTheLastWord == Spec => UserWins
<1>1. ASSUME ExchangeInv, [Next]_vars
      PROVE  [wire' # wire =>
       \A id \in DOMAIN cli.seg :
         cli.seg[id].man =>
           /\ cli'.seg[id] = [cli.seg[id] EXCEPT !.res = cli'.seg[id].res]
           /\ cli.seg[id].res >= Completed => cli'.seg[id].res = cli.seg[id].res]_vars
  BY <1>1, ExchangeNext DEF Steps, Respects
<1> QED
  BY <1>1, ExchangeStarts, ExchangeNext, PTL DEF Spec, UserWins

(* In both stores a caption stays, its result is never replaced by an      *)
(* older one, and nothing is written behind a tombstone.                   *)
THEOREM ResultsOnlyImprove == Spec => ForwardOnly
<1>1. ASSUME ExchangeInv, [Next]_vars
      PROVE  [\A st \in {<<srv, srv'>>, <<cli, cli'>>} : \A id \in DOMAIN st[1].seg :
       /\ id \in DOMAIN st[2].seg
       /\ st[2].seg[id].res >= st[1].seg[id].res
       /\ Hidden(st[1].seg[id]) => st[2].seg[id] = st[1].seg[id]]_vars
  BY <1>1, ExchangeNext DEF Steps, Forward
<1> QED
  BY <1>1, ExchangeStarts, ExchangeNext, PTL DEF Spec, ForwardOnly

-----------------------------------------------------------------------------
(* The copies agree *)

(* The names of the alternatives of caption n. *)
KidsOf(n) == {Kid(n, lane) : lane \in Lanes}

(* A child lies in the time of parents that know it. *)
Linked(st) ==
  \A k \in DOMAIN st.seg : \A p \in st.seg[k].par :
    /\ p \in DOMAIN st.seg
    /\ k \in st.seg[p].sup
    /\ st.seg[k].span \cap st.seg[p].span # {}

(* What waits, waits for the user's word. *)
Waiting(st) ==
  \A g \in st.held :
    /\ WellFormedGroup(st.groups[g])
    /\ st.groups[g].parents \subseteq DOMAIN st.seg
    /\ \E p \in st.groups[g].parents : st.seg[p].man

(* Only groups the client knows have brought children. *)
Named(st) == \A id \in Ids(st) \ Captions : \E n \in DOMAIN st.groups : id \in KidsOf(n)

Copy(st) == Linked(st) /\ Waiting(st) /\ Named(st)
Unassigned(st) == \A id \in DOMAIN st.seg : ~st.seg[id].man

(* The groups on the way: known to the gateway (D), new to the client (C). *)
NewGroup(e, D, C) ==
  /\ e.id \in D \ C
  /\ Kids(e.group) \subseteq KidsOf(e.id)
  /\ WellFormedGroup(e.group)
GroupsNamed(w, D, C) ==
  /\ \A i \in 1..Len(w) : w[i].kind = "group" => NewGroup(w[i], D, C)
  /\ \A i, j \in 1..Len(w) :
       i < j /\ w[i].kind = "group" /\ w[j].kind = "group" => w[i].id # w[j].id

(* A translation ends once: A are the captions whose translation has not   *)
(* ended, S those the client has seen end, D those the gateway has.        *)
Ends(e, n) == e.kind \in {"failed", "result"} /\ e.id = n /\ (e.kind = "result" => e.res = Completed)
EndsOnce(w, A, S, D) ==
  /\ A \subseteq Captions \cap D /\ S \cap Captions \subseteq D
  /\ \A i \in 1..Len(w) : w[i].kind # "revised" => w[i].id \in Captions \cap D
  /\ \A n \in A : n \notin S /\ \A i \in 1..Len(w) : ~Ends(w[i], n)
  /\ \A i \in 1..Len(w) : w[i].kind = "result" =>
       /\ w[i].id \notin S
       /\ \A j \in 1..Len(w) : j < i => ~Ends(w[j], w[i].id)

(* The event e tells how the captions a became the captions b. *)
TellsSource(e, a, b) == e.id \notin DOMAIN a /\ b = Over(Entry(e.id, NewCaption(e.span)), a)
TellsResult(e, a, b) ==
  /\ e.id \in DOMAIN a /\ ~Hidden(a[e.id]) /\ a[e.id].res < e.res
  /\ b = Over(Entry(e.id, [a[e.id] EXCEPT !.res = e.res]), a)
TellsRevised(e, a, b) ==
  /\ \A id \in DOMAIN e.batch :
       /\ id \in DOMAIN a /\ ~Hidden(a[id]) /\ ~a[id].man
       /\ e.batch[id] >= Completed /\ a[id].res = e.batch[id]
  /\ b = Over([id \in DOMAIN e.batch |-> [a[id] EXCEPT !.res = @ + 1]], a)
TellsSpeaker(e, a, b) ==
  /\ e.id \in DOMAIN a /\ ~Hidden(a[e.id]) /\ e.rev > a[e.id].rev /\ ~a[e.id].man
  /\ b = Over(Entry(e.id, [a[e.id] EXCEPT !.spk = e.spk, !.rev = e.rev, !.man = FALSE]), a)
Replacing(g, a) == [p \in g.parents |-> [a[p] EXCEPT !.sup = {k \in Kids(g) : p \in g.kids[k].par}]]
TellsGroup(e, a, b) ==
  /\ Kids(e.group) \cap DOMAIN a = {}
  /\ \A p \in e.group.parents :
       /\ p \in DOMAIN a /\ ~Hidden(a[p]) /\ ~a[p].man
       /\ \A k \in Kids(e.group) : p \in e.group.kids[k].par => e.group.kids[k].span \cap a[p].span # {}
  /\ b = Over(Replacing(e.group, a), Over(e.group.kids, a))
Tells(e, a, b) ==
  /\ e.kind = "source" => TellsSource(e, a, b)
  /\ e.kind = "result" => TellsResult(e, a, b)
  /\ e.kind = "failed" => b = a
  /\ e.kind = "revised" => TellsRevised(e, a, b)
  /\ e.kind = "speaker" => TellsSpeaker(e, a, b)
  /\ e.kind = "group" => TellsGroup(e, a, b)

(* The stream w tells how a became b: log are the captions in between. *)
Replays(w, log, a, b) ==
  /\ log[1] = a /\ log[Len(w) + 1] = b
  /\ \A k \in 1..Len(w) : Tells(w[k], log[k], log[k + 1])
Replayable(w, a, b) == \E log : Replays(w, log, a, b)

CopyInv ==
  /\ ExchangeInv /\ ~broken
  /\ srv.held = {} /\ DOMAIN srv.groups \subseteq Captions
  /\ DOMAIN cli.groups \subseteq DOMAIN srv.groups
  /\ GroupsNamed(wire, DOMAIN srv.groups, DOMAIN cli.groups)
  /\ EndsOnce(wire, asked, settled, DOMAIN srv.seg)
  /\ Copy(srv) /\ Copy(cli)
  /\ Unassigned(cli) => Replayable(wire, cli.seg, srv.seg)

-----------------------------------------------------------------------------
(* The stream after an event has been emitted. *)
LEMMA LongerWire ==
  ASSUME NEW w, WireOK(w), NEW e
  PROVE  \E v \in {w \o <<e>>} :
           /\ Len(w) \in Nat /\ Len(v) = Len(w) + 1 /\ v[Len(v)] = e
           /\ \A i \in 1..Len(w) : v[i] = w[i]
<1>1. PICK S : S = ToSet(w) \cup {e}
  OBVIOUS
<1>2. w \in Seq(S) /\ <<e>> \in Seq(S)
  BY <1>1 DEF WireOK
<1>3. PICK v : v = w \o <<e>>
  OBVIOUS
<1> QED
  BY <1>2, <1>3

(* The stream after its first event has been taken. *)
LEMMA ShorterWire ==
  ASSUME NEW w, WireOK(w), w # <<>>
  PROVE  \E v \in {Tail(w)} :
           /\ Len(w) \in Nat /\ Len(w) > 0 /\ Len(v) = Len(w) - 1 /\ Head(w) = w[1]
           /\ \A i \in 1..Len(v) : v[i] = w[i + 1]
<1>1. PICK S : S = ToSet(w)
  OBVIOUS
<1>2. w \in Seq(S)
  BY <1>1 DEF WireOK
<1> QED
  BY <1>2

(* A new group is known to the gateway and to nobody else. *)
LEMMA GroupsGrow ==
  ASSUME NEW w, WireOK(w), NEW e, NEW D, NEW C, NEW E, GroupsNamed(w, D, C),
         D \subseteq E, C \subseteq D, e.kind = "group" => NewGroup(e, E, D)
  PROVE  GroupsNamed(w \o <<e>>, E, C)
<1>1. PICK v \in {w \o <<e>>} :
        /\ Len(w) \in Nat /\ Len(v) = Len(w) + 1 /\ v[Len(v)] = e
        /\ \A i \in 1..Len(w) : v[i] = w[i]
  BY LongerWire
<1>2. \A i \in 1..Len(v) : i \in 1..Len(w) \/ i = Len(v)
  BY <1>1
<1>3. ASSUME NEW i \in 1..Len(v), v[i].kind = "group" PROVE NewGroup(v[i], E, C)
  <2>1. CASE i \in 1..Len(w)
    BY <1>1, <1>3, <2>1 DEF GroupsNamed, NewGroup
  <2>2. CASE i = Len(v)
    BY <1>1, <1>3, <2>2 DEF NewGroup
  <2> QED
    BY <1>2, <2>1, <2>2
<1>4. ASSUME NEW i \in 1..Len(v), NEW j \in 1..Len(v), i < j,
             v[i].kind = "group", v[j].kind = "group"
      PROVE  v[i].id # v[j].id
  <2>1. i \in 1..Len(w)
    BY <1>1, <1>4
  <2>2. CASE j \in 1..Len(w)
    BY <1>1, <1>4, <2>1, <2>2 DEF GroupsNamed
  <2>3. CASE j = Len(v)
    BY <1>1, <1>4, <2>1, <2>3 DEF GroupsNamed, NewGroup
  <2> QED
    BY <1>2, <2>2, <2>3
<1> QED
  BY <1>1, <1>3, <1>4 DEF GroupsNamed

(* The client comes to know at most the group that arrives. *)
LEMMA GroupsShrink ==
  ASSUME NEW w, WireOK(w), w # <<>>, NEW D, NEW C, NEW B, GroupsNamed(w, D, C),
         \A n \in B : n \in C \/ (Head(w).kind = "group" /\ n = Head(w).id)
  PROVE  GroupsNamed(Tail(w), D, B)
<1>1. PICK v \in {Tail(w)} :
        /\ Len(w) \in Nat /\ Len(w) > 0 /\ Len(v) = Len(w) - 1 /\ Head(w) = w[1]
        /\ \A i \in 1..Len(v) : v[i] = w[i + 1]
  BY ShorterWire
<1>2. \A i \in 1..Len(v) : i + 1 \in 1..Len(w) /\ 1 < i + 1 /\ 1 \in 1..Len(w)
  BY <1>1
<1>3. ASSUME NEW i \in 1..Len(v), v[i].kind = "group" PROVE NewGroup(v[i], D, B)
  <2>1. v[i] = w[i + 1] /\ NewGroup(w[i + 1], D, C)
    BY <1>1, <1>2, <1>3 DEF GroupsNamed
  <2>2. w[1].kind = "group" => w[1].id # w[i + 1].id
    BY <1>2, <1>3, <2>1 DEF GroupsNamed
  <2> QED
    BY <1>1, <2>1, <2>2 DEF NewGroup
<1>4. ASSUME NEW i \in 1..Len(v), NEW j \in 1..Len(v), i < j,
             v[i].kind = "group", v[j].kind = "group"
      PROVE  v[i].id # v[j].id
  <2>1. i + 1 < j + 1
    BY <1>1, <1>4
  <2> QED
    BY <1>1, <1>2, <1>4, <2>1 DEF GroupsNamed
<1> QED
  BY <1>1, <1>3, <1>4 DEF GroupsNamed

(* A result is emitted while its translation has not ended; a translation  *)
(* that ends is not asked for any more, and a new one is of a new caption. *)
LEMMA EndsGrow ==
  ASSUME NEW w, WireOK(w), NEW e, NEW A, NEW S, NEW D, NEW B, NEW E, EndsOnce(w, A, S, D),
         D \subseteq E, e.kind # "revised" => e.id \in Captions \cap E,
         e.kind = "result" => e.id \in A,
         \A n \in B : ~Ends(e, n) /\ (n \in A \/ n \in (Captions \cap E) \ D)
  PROVE  EndsOnce(w \o <<e>>, B, S, E)
<1>1. PICK v \in {w \o <<e>>} :
        /\ Len(w) \in Nat /\ Len(v) = Len(w) + 1 /\ v[Len(v)] = e
        /\ \A i \in 1..Len(w) : v[i] = w[i]
  BY LongerWire
<1>2. \A i \in 1..Len(v) : i \in 1..Len(w) \/ i = Len(v)
  BY <1>1
<1>3. B \subseteq Captions \cap E /\ S \cap Captions \subseteq E
  BY DEF EndsOnce
<1>4. ASSUME NEW i \in 1..Len(v), v[i].kind # "revised" PROVE v[i].id \in Captions \cap E
  <2>1. CASE i \in 1..Len(w)
    BY <1>1, <1>4, <2>1 DEF EndsOnce
  <2>2. CASE i = Len(v)
    BY <1>1, <1>4, <2>2
  <2> QED
    BY <1>2, <2>1, <2>2
<1>5. ASSUME NEW n \in B PROVE n \notin S /\ \A i \in 1..Len(v) : ~Ends(v[i], n)
  <2>1. CASE n \in A
    BY <1>1, <1>2, <2>1 DEF EndsOnce
  <2>2. CASE n \in (Captions \cap E) \ D
    <3>1. n \notin S /\ \A i \in 1..Len(w) : ~Ends(w[i], n)
      BY <2>2 DEF EndsOnce, Ends
    <3> QED
      BY <1>1, <1>2, <3>1
  <2> QED
    BY <2>1, <2>2
<1>6. ASSUME NEW i \in 1..Len(v), v[i].kind = "result"
      PROVE  v[i].id \notin S /\ \A j \in 1..Len(v) : j < i => ~Ends(v[j], v[i].id)
  <2>1. CASE i \in 1..Len(w)
    <3>1. \A j \in 1..Len(v) : j < i => j \in 1..Len(w)
      BY <1>1, <2>1
    <3> QED
      BY <1>1, <1>6, <2>1, <3>1 DEF EndsOnce
  <2>2. CASE i = Len(v)
    <3>1. \A j \in 1..Len(v) : j < i => j \in 1..Len(w)
      BY <1>1, <2>2
    <3>2. v[i].id \in A
      BY <1>1, <1>6, <2>2
    <3> QED
      BY <1>1, <3>1, <3>2 DEF EndsOnce
  <2> QED
    BY <1>2, <2>1, <2>2
<1> QED
  BY <1>1, <1>3, <1>4, <1>5, <1>6 DEF EndsOnce

(* The client takes as ended what the arriving event ends. *)
LEMMA EndsShrink ==
  ASSUME NEW w, WireOK(w), w # <<>>, NEW A, NEW S, NEW D, NEW T, EndsOnce(w, A, S, D),
         \A n \in T \cap Captions : n \in S \/ Ends(Head(w), n)
  PROVE  EndsOnce(Tail(w), A, T, D)
<1>1. PICK v \in {Tail(w)} :
        /\ Len(w) \in Nat /\ Len(w) > 0 /\ Len(v) = Len(w) - 1 /\ Head(w) = w[1]
        /\ \A i \in 1..Len(v) : v[i] = w[i + 1]
  BY ShorterWire
<1>2. \A i \in 1..Len(v) : i + 1 \in 1..Len(w) /\ 1 < i + 1
  BY <1>1
<1>0. 1 \in 1..Len(w)
  BY <1>1
<1>3. A \subseteq Captions \cap D /\ T \cap Captions \subseteq D
  <2>1. \A n : Ends(w[1], n) => n \in D
    BY <1>0 DEF EndsOnce, Ends
  <2> QED
    BY <1>1, <2>1 DEF EndsOnce
<1>4. \A i \in 1..Len(v) : v[i].kind # "revised" => v[i].id \in Captions \cap D
  BY <1>1, <1>2 DEF EndsOnce
<1>5. ASSUME NEW n \in A PROVE n \notin T /\ \A i \in 1..Len(v) : ~Ends(v[i], n)
  <2>1. n \in Captions /\ n \notin S /\ \A i \in 1..Len(w) : ~Ends(w[i], n)
    BY DEF EndsOnce
  <2> QED
    BY <1>0, <1>1, <1>2, <2>1
<1>6. ASSUME NEW i \in 1..Len(v), v[i].kind = "result"
      PROVE  v[i].id \notin T /\ \A j \in 1..Len(v) : j < i => ~Ends(v[j], v[i].id)
  <2>1. v[i] = w[i + 1] /\ v[i].id \in Captions /\ v[i].id \notin S
        /\ \A j \in 1..Len(w) : j < i + 1 => ~Ends(w[j], v[i].id)
    BY <1>1, <1>2, <1>6 DEF EndsOnce
  <2>2. ASSUME NEW j \in 1..Len(v), j < i PROVE j + 1 < i + 1
    BY <1>1, <2>2
  <2> QED
    BY <1>0, <1>1, <1>2, <2>1, <2>2
<1> QED
  BY <1>1, <1>3, <1>4, <1>5, <1>6 DEF EndsOnce

(* What is emitted is told after everything else. *)
LEMMA ReplayGrows ==
  ASSUME NEW w, WireOK(w), NEW e, NEW a, NEW b, NEW c, Replayable(w, a, b), Tells(e, b, c)
  PROVE  Replayable(w \o <<e>>, a, c)
<1>1. PICK v \in {w \o <<e>>} :
        /\ Len(w) \in Nat /\ Len(v) = Len(w) + 1 /\ v[Len(v)] = e
        /\ \A i \in 1..Len(w) : v[i] = w[i]
  BY LongerWire
<1>2. PICK log : Replays(w, log, a, b)
  BY DEF Replayable
<1>3. PICK new : new = [k \in 1..Len(w) + 2 |-> IF k = Len(w) + 2 THEN c ELSE log[k]]
  OBVIOUS
<1>4. /\ new[1] = log[1] /\ new[Len(v) + 1] = c /\ new[Len(v)] = log[Len(w) + 1]
      /\ \A k \in 1..Len(w) : new[k] = log[k] /\ new[k + 1] = log[k + 1]
  BY <1>1, <1>3
<1>5. ASSUME NEW k \in 1..Len(v) PROVE Tells(v[k], new[k], new[k + 1])
  <2>1. CASE k \in 1..Len(w)
    BY <1>1, <1>2, <1>4, <2>1 DEF Replays
  <2>2. CASE k = Len(v)
    BY <1>1, <1>2, <1>4, <2>2 DEF Replays
  <2> QED
    BY <1>1, <2>1, <2>2
<1>6. Replays(v, new, a, c)
  BY <1>2, <1>4, <1>5 DEF Replays
<1> QED
  BY <1>1, <1>6 DEF Replayable

(* The first event tells the reader's next captions. *)
LEMMA ReplayShrinks ==
  ASSUME NEW w, WireOK(w), w # <<>>, NEW a, NEW b, Replayable(w, a, b)
  PROVE  \E c : Tells(Head(w), a, c) /\ Replayable(Tail(w), c, b)
<1>1. PICK v \in {Tail(w)} :
        /\ Len(w) \in Nat /\ Len(w) > 0 /\ Len(v) = Len(w) - 1 /\ Head(w) = w[1]
        /\ \A i \in 1..Len(v) : v[i] = w[i + 1]
  BY ShorterWire
<1>2. PICK log : Replays(w, log, a, b)
  BY DEF Replayable
<1>3. PICK new : new = [k \in 1..Len(w) |-> log[k + 1]]
  OBVIOUS
<1>4. \A k \in 1..Len(v) : k + 1 \in 1..Len(w) /\ k \in 1..Len(w)
  BY <1>1
<1>5. new[1] = log[2] /\ new[Len(v) + 1] = log[Len(w) + 1]
  BY <1>1, <1>3
<1>6. ASSUME NEW k \in 1..Len(v) PROVE Tells(v[k], new[k], new[k + 1])
  BY <1>1, <1>2, <1>3, <1>4 DEF Replays
<1>7. Replays(v, new, log[2], b)
  BY <1>2, <1>5, <1>6 DEF Replays
<1>8. Tells(Head(w), a, log[2])
  BY <1>1, <1>2 DEF Replays
<1> QED
  BY <1>1, <1>7, <1>8 DEF Replayable

-----------------------------------------------------------------------------
(* A caption of its own is not a held alternative. *)
LEMMA NotAside ==
  ASSUME NEW st, StoreInv(st), NEW id \in DOMAIN st.seg \cup Captions
  PROVE  id \notin HeldKids(st) /\ Lookup(st, id) = st.seg[id] /\ (id \in Ids(st) <=> id \in DOMAIN st.seg)
<1>1. \A g \in st.held : Kids(st.groups[g]) \cap DOMAIN st.seg = {} /\ Kids(st.groups[g]) \cap Captions = {}
  BY DEF StoreInv, HeldApart, GroupOK
<1>2. id \notin HeldKids(st)
  BY <1>1 DEF HeldKids
<1> QED
  BY <1>2 DEF Lookup, Ids

(* Writing a caption leaves the groups alone. *)
LEMMA SegPut ==
  ASSUME NEW st, NEW id, NEW c, StoreInv(st), id \notin HeldKids(st)
  PROVE  \E new \in {Put(st, id, c)} :
           /\ new.groups = st.groups /\ new.held = st.held
           /\ new.seg = Over(Entry(id, c), st.seg)
           /\ DOMAIN new.seg = DOMAIN st.seg \cup {id} /\ new.seg[id] = c
           /\ \A k \in DOMAIN st.seg \ {id} : new.seg[k] = st.seg[k]
<1>1. PICK seg : seg = Over(Entry(id, c), st.seg)
  OBVIOUS
<1>2. /\ DOMAIN seg = DOMAIN st.seg \cup {id} /\ seg[id] = c
      /\ \A k \in DOMAIN st.seg \ {id} : seg[k] = st.seg[k]
  BY <1>1 DEF Over, Entry
<1>3. PICK new : new = [st EXCEPT !.seg = seg]
  OBVIOUS
<1>4. new = Put(st, id, c)
  BY <1>1, <1>3 DEF Put
<1>5. new.groups = st.groups /\ new.held = st.held /\ new.seg = seg
  BY <1>3 DEF StoreInv
<1> QED
  BY <1>1, <1>2, <1>4, <1>5

(* Captions that say something else in the same place. *)
SamePlace(c, d) ==
  /\ d.sup = c.sup /\ d.par = c.par /\ d.span = c.span
  /\ c.man => d.man
SameShape(a, b) == DOMAIN b = DOMAIN a /\ \A k \in DOMAIN a : SamePlace(a[k], b[k])

(* Words and speakers do not touch what the archive checks. *)
LEMMA RewordedCopy ==
  ASSUME NEW st, NEW new, Copy(st), new.groups = st.groups, new.held = st.held,
         SameShape(st.seg, new.seg)
  PROVE  Copy(new)
<1>1. Linked(new)
  BY DEF Copy, Linked, SameShape, SamePlace
<1>2. Waiting(new)
  BY DEF Copy, Waiting, SameShape, SamePlace
<1>3. Ids(new) = Ids(st)
  BY DEF Ids, HeldKids, SameShape
<1>4. Named(new)
  BY <1>3 DEF Copy, Named
<1> QED
  BY <1>1, <1>2, <1>4 DEF Copy

(* A caption with another result. *)
LEMMA ResultFields ==
  ASSUME NEW c, IsCaption(c), NEW res
  PROVE  \E d \in {[c EXCEPT !.res = res]} :
           SamePlace(c, d)
BY DEF IsCaption, Fields, SamePlace

(* A caption of its own is written. *)
LEMMA PutCopy ==
  ASSUME NEW st, StoreInv(st), Copy(st), NEW id \in DOMAIN st.seg, NEW c,
         SamePlace(st.seg[id], c)
  PROVE  \E new \in {Put(st, id, c)} :
           /\ Copy(new) /\ new.groups = st.groups /\ new.held = st.held
           /\ DOMAIN new.seg = DOMAIN st.seg /\ new.seg[id] = c
           /\ new.seg = Over(Entry(id, c), st.seg)
<1>1. id \notin HeldKids(st)
  BY NotAside
<1>2. PICK new \in {Put(st, id, c)} :
           /\ new.groups = st.groups /\ new.held = st.held
           /\ new.seg = Over(Entry(id, c), st.seg)
           /\ DOMAIN new.seg = DOMAIN st.seg \cup {id} /\ new.seg[id] = c
           /\ \A k \in DOMAIN st.seg \ {id} : new.seg[k] = st.seg[k]
  BY <1>1, SegPut
<1>3. SameShape(st.seg, new.seg)
  BY <1>2 DEF SameShape, SamePlace
<1> QED
  BY <1>2, <1>3, RewordedCopy

(* A result is written. *)
LEMMA ResultCopy ==
  ASSUME NEW st, StoreInv(st), Copy(st), NEW id \in DOMAIN st.seg, NEW res
  PROVE  \E new \in {ApplyTranslation(st, id, res)} :
           /\ Copy(new) /\ new.groups = st.groups /\ new.held = st.held
           /\ DOMAIN new.seg = DOMAIN st.seg
           /\ new.seg = Over(Entry(id, [st.seg[id] EXCEPT !.res = res]), st.seg)
<1>1. Lookup(st, id) = st.seg[id]
  BY NotAside
<1>2. PICK c : c = st.seg[id]
  OBVIOUS
<1>3. IsCaption(c)
  BY <1>2 DEF StoreInv, Replaced
<1>4. PICK d \in {[c EXCEPT !.res = res]} :
           SamePlace(c, d)
  BY <1>3, ResultFields
<1>5. ApplyTranslation(st, id, res) = Put(st, id, d)
  BY <1>1, <1>2, <1>4 DEF ApplyTranslation
<1>6. PICK new \in {Put(st, id, d)} :
           /\ Copy(new) /\ new.groups = st.groups /\ new.held = st.held
           /\ DOMAIN new.seg = DOMAIN st.seg /\ new.seg[id] = d
           /\ new.seg = Over(Entry(id, d), st.seg)
  BY <1>2, <1>4, PutCopy
<1> QED
  BY <1>2, <1>4, <1>5, <1>6

(* The user's word is changed by the user only. *)
MayAssign(c, man) == man = TRUE \/ ~c.man
Spoken(c, spk, rev, man) == [c EXCEPT !.spk = spk, !.rev = rev, !.man = man]

(* A speaker is written, over the user's word only by the user. *)
LEMMA SpeakerCopy ==
  ASSUME NEW st, StoreInv(st), Copy(st), NEW id \in DOMAIN st.seg, NEW spk, NEW rev, NEW man,
         MayAssign(st.seg[id], man)
  PROVE  \E new \in {UpdateSpeaker(st, id, spk, rev, man)} :
           /\ Copy(new) /\ new.groups = st.groups /\ new.held = st.held
           /\ DOMAIN new.seg = DOMAIN st.seg /\ new.seg[id].man = man
           /\ new.seg = Over(Entry(id, Spoken(st.seg[id], spk, rev, man)), st.seg)
<1>1. Lookup(st, id) = st.seg[id]
  BY NotAside
<1>2. PICK c : c = st.seg[id]
  OBVIOUS
<1>3. IsCaption(c)
  BY <1>2 DEF StoreInv, Replaced
<1>4. MayAssign(c, man)
  BY <1>2
<1>5. PICK d : d = Spoken(c, spk, rev, man)
  OBVIOUS
<1>6. d.sup = c.sup /\ d.par = c.par /\ d.span = c.span /\ d.man = man
  BY <1>3, <1>5 DEF IsCaption, Fields, Spoken
<1>7. SamePlace(c, d)
  BY <1>4, <1>6 DEF SamePlace, MayAssign
<1>8. UpdateSpeaker(st, id, spk, rev, man) = Put(st, id, d)
  BY <1>1, <1>2, <1>5 DEF UpdateSpeaker, Spoken
<1>9. PICK new \in {Put(st, id, d)} :
           /\ Copy(new) /\ new.groups = st.groups /\ new.held = st.held
           /\ DOMAIN new.seg = DOMAIN st.seg /\ new.seg[id] = d
           /\ new.seg = Over(Entry(id, d), st.seg)
  BY <1>2, <1>7, PutCopy
<1>10. d = Spoken(st.seg[id], spk, rev, man)
  BY <1>2, <1>5, Zenon
<1>11. new.seg[id].man = man
  BY <1>9, <1>6
<1> QED
  BY <1>8, <1>9, <1>10, <1>11, Zenon

(* A review is written. *)
LEMMA RevisedCopy ==
  ASSUME NEW st, StoreInv(st), Copy(st), NEW batch, TakesRevision(st, batch)
  PROVE  \E new \in {ReviseTranslations(st, batch)} :
           /\ Copy(new) /\ new.groups = st.groups /\ new.held = st.held
           /\ DOMAIN new.seg = DOMAIN st.seg
           /\ new.seg = Over([id \in DOMAIN batch |-> [st.seg[id] EXCEPT !.res = @ + 1]], st.seg)
<1>1. PICK better : better = [id \in DOMAIN batch |-> [st.seg[id] EXCEPT !.res = @ + 1]]
  OBVIOUS
<1>2. PICK seg : seg = Over(better, st.seg)
  OBVIOUS
<1>3. PICK new : new = [st EXCEPT !.seg = seg]
  OBVIOUS
<1>4. new = ReviseTranslations(st, batch)
  BY <1>1, <1>2, <1>3 DEF ReviseTranslations
<1>5. new.groups = st.groups /\ new.held = st.held /\ new.seg = seg
  BY <1>3 DEF StoreInv
<1>6. DOMAIN batch \subseteq DOMAIN st.seg
  BY DEF TakesRevision
<1>7. DOMAIN seg = DOMAIN st.seg /\ \A k \in DOMAIN st.seg \ DOMAIN batch : seg[k] = st.seg[k]
  BY <1>1, <1>2, <1>6 DEF Over
<1>8. ASSUME NEW k \in DOMAIN batch
      PROVE  SamePlace(st.seg[k], seg[k])
  <2>1. PICK c : c = st.seg[k]
    OBVIOUS
  <2>2. IsCaption(c)
    BY <1>6, <2>1 DEF StoreInv, Replaced
  <2>3. seg[k] = [c EXCEPT !.res = c.res + 1]
    BY <1>1, <1>2, <2>1 DEF Over
  <2> QED
    BY <2>1, <2>2, <2>3, ResultFields
<1>9. SameShape(st.seg, seg)
  BY <1>7, <1>8 DEF SameShape, SamePlace
<1>10. Copy(new)
  BY <1>5, <1>9, RewordedCopy
<1> QED
  BY <1>1, <1>2, <1>4, <1>5, <1>7, <1>10

(* A caption of the live path is new. *)
LEMMA SourceCopy ==
  ASSUME NEW st, StoreInv(st), Copy(st), NEW id \in Captions, NEW span
  PROVE  \E new \in {UpsertSource(st, id, span)} :
           /\ Copy(new) /\ new.groups = st.groups /\ new.held = st.held
           /\ DOMAIN new.seg = DOMAIN st.seg \cup {id}
           /\ id \notin DOMAIN st.seg => new.seg = Over(Entry(id, NewCaption(span)), st.seg)
<1>0. id \notin HeldKids(st) /\ (id \in Ids(st) <=> id \in DOMAIN st.seg)
  BY NotAside
<1>1. CASE id \in DOMAIN st.seg
  BY <1>0, <1>1 DEF UpsertSource
<1>2. CASE id \notin DOMAIN st.seg
  <2>1. PICK c : c = NewCaption(span)
    OBVIOUS
  <2>2. c.par = {}
    BY <2>1 DEF NewCaption
  <2>3. PICK new \in {Put(st, id, c)} :
           /\ new.groups = st.groups /\ new.held = st.held
           /\ new.seg = Over(Entry(id, c), st.seg)
           /\ DOMAIN new.seg = DOMAIN st.seg \cup {id} /\ new.seg[id] = c
           /\ \A k \in DOMAIN st.seg \ {id} : new.seg[k] = st.seg[k]
    BY <1>0, SegPut
  <2>4. UpsertSource(st, id, span) = new
    BY <1>0, <1>2, <2>1, <2>3 DEF UpsertSource
  <2>5. \A k \in DOMAIN st.seg : new.seg[k] = st.seg[k]
    BY <1>2, <2>3
  <2>6. Linked(new)
    BY <2>2, <2>3, <2>5 DEF Copy, Linked
  <2>7. Waiting(new)
    BY <2>3, <2>5 DEF Copy, Waiting
  <2>8. Named(new)
    BY <2>3 DEF Copy, Named, Ids, HeldKids
  <2> QED
    BY <2>1, <2>3, <2>4, <2>6, <2>7, <2>8 DEF Copy
<1> QED
  BY <1>1, <1>2

(* A group waits for the user's word. *)
LEMMA HeldCopy ==
  ASSUME NEW st, StoreInv(st), Copy(st), NEW gid, NEW g, WellFormedGroup(g),
         Kids(g) \subseteq KidsOf(gid), GroupStatus(st, gid, g) = "held"
  PROVE  \E new \in {CommitGroup(st, gid, g, "held")} :
           Copy(new) /\ new.seg = st.seg /\ DOMAIN new.groups = DOMAIN st.groups \cup {gid}
<1>1. /\ gid \notin DOMAIN st.groups /\ ValidGroup(st, g, {})
      /\ \E p \in g.parents : st.seg[p].man
  BY DEF GroupStatus
<1>2. g.parents \subseteq DOMAIN st.seg
  BY <1>1 DEF ValidGroup, Visible
<1>3. PICK groups : groups = Over(Entry(gid, g), st.groups)
  OBVIOUS
<1>4. DOMAIN groups = DOMAIN st.groups \cup {gid} /\ groups[gid] = g
      /\ \A h \in DOMAIN st.groups : groups[h] = st.groups[h]
  BY <1>1, <1>3 DEF Over, Entry
<1>5. PICK new : new = [st EXCEPT !.groups = groups, !.held = st.held \cup {gid}]
  OBVIOUS
<1>6. new = CommitGroup(st, gid, g, "held")
  BY <1>3, <1>5 DEF CommitGroup
<1>7. new.seg = st.seg /\ new.groups = groups /\ new.held = st.held \cup {gid}
  BY <1>5 DEF StoreInv
<1>8. st.held \subseteq DOMAIN st.groups
  BY DEF StoreInv, HeldApart
<1>9. Linked(new)
  BY <1>7 DEF Copy, Linked
<1>10. Waiting(new)
  BY <1>1, <1>2, <1>4, <1>7, <1>8 DEF Copy, Waiting
<1>11. Ids(new) \subseteq Ids(st) \cup Kids(g)
  BY <1>4, <1>7, <1>8 DEF Ids, HeldKids
<1>12. Named(new)
  BY <1>4, <1>7, <1>11 DEF Copy, Named
<1> QED
  BY <1>4, <1>6, <1>7, <1>9, <1>10, <1>12 DEF Copy

(* A group replaces its parents. *)
LEMMA AppliedCopy ==
  ASSUME NEW st, StoreInv(st), Copy(st), NEW gid, NEW g, NEW mine, Waits(st, gid, g),
         ValidGroup(st, g, mine),
         \A k \in Kids(g) : \E n \in DOMAIN st.groups \cup {gid} : k \in KidsOf(n)
  PROVE  \E new \in {CommitGroup(st, gid, g, "applied")} :
           /\ Copy(new) /\ new.held = st.held \ {gid}
           /\ DOMAIN new.groups = DOMAIN st.groups \cup {gid}
           /\ DOMAIN st.seg \subseteq DOMAIN new.seg
           /\ \A p \in DOMAIN st.seg : new.seg[p].man = st.seg[p].man
<1>1. /\ g.parents \subseteq Visible(st)
      /\ \A p \in g.parents : \A k \in Kids(g) :
           p \in g.kids[k].par => g.kids[k].span \cap st.seg[p].span # {}
  BY DEF ValidGroup
<1>2. PICK new \in {CommitGroup(st, gid, g, "applied")} :
           /\ DOMAIN new = {"seg", "groups", "held"} /\ new.held = st.held \ {gid}
           /\ new.groups = Over(Entry(gid, g), st.groups)
           /\ DOMAIN new.seg = DOMAIN st.seg \cup Kids(g)
           /\ \A k \in Kids(g) : new.seg[k] = g.kids[k]
           /\ \A p \in DOMAIN st.seg \ g.parents : new.seg[p] = st.seg[p]
           /\ \A p \in g.parents :
                /\ IsCaption(new.seg[p]) /\ new.seg[p].par = st.seg[p].par
                /\ new.seg[p].man = st.seg[p].man /\ new.seg[p].span = st.seg[p].span
                /\ new.seg[p].res = st.seg[p].res
                /\ new.seg[p].sup = {k \in Kids(g) : p \in g.kids[k].par}
  BY <1>1, GroupSeg
<1>3. DOMAIN new.groups = DOMAIN st.groups \cup {gid}
      /\ \A h \in DOMAIN st.groups \ {gid} : new.groups[h] = st.groups[h]
  BY <1>2 DEF Over, Entry
<1>4. \A p \in DOMAIN st.seg : /\ new.seg[p].par = st.seg[p].par /\ new.seg[p].man = st.seg[p].man
                              /\ new.seg[p].span = st.seg[p].span
  BY <1>2
<1>5. st.held \subseteq DOMAIN st.groups
  BY DEF StoreInv, HeldApart
<1>6. Linked(new)
  <2>1. ASSUME NEW k \in DOMAIN new.seg, NEW p \in new.seg[k].par
        PROVE  p \in DOMAIN new.seg /\ k \in new.seg[p].sup /\ new.seg[k].span \cap new.seg[p].span # {}
    <3>1. CASE k \in Kids(g)
      <4>1. p \in g.parents /\ p \in g.kids[k].par
        BY <1>2, <2>1, <3>1 DEF Waits, GroupOK
      <4> QED
        BY <1>1, <1>2, <3>1, <4>1 DEF Visible
    <3>2. CASE k \in DOMAIN st.seg
      <4>1. p \in st.seg[k].par
        BY <1>4, <2>1, <3>2
      <4>2. p \in DOMAIN st.seg /\ k \in st.seg[p].sup /\ st.seg[k].span \cap st.seg[p].span # {}
        BY <3>2, <4>1 DEF Copy, Linked
      <4>3. p \notin g.parents
        BY <1>1, <4>2 DEF Visible, Hidden
      <4> QED
        BY <1>2, <1>4, <3>2, <4>2, <4>3
    <3> QED
      BY <1>2, <3>1, <3>2
  <2> QED
    BY <2>1 DEF Linked
<1>7. Waiting(new)
  <2>1. ASSUME NEW h \in new.held
        PROVE  /\ WellFormedGroup(new.groups[h]) /\ new.groups[h].parents \subseteq DOMAIN new.seg
               /\ \E p \in new.groups[h].parents : new.seg[p].man
    <3>1. h \in st.held /\ new.groups[h] = st.groups[h]
      BY <1>2, <1>3, <1>5
    <3>2. /\ WellFormedGroup(st.groups[h]) /\ st.groups[h].parents \subseteq DOMAIN st.seg
          /\ \E p \in st.groups[h].parents : st.seg[p].man
      BY <3>1 DEF Copy, Waiting
    <3> QED
      BY <1>2, <1>4, <3>1, <3>2
  <2> QED
    BY <2>1 DEF Waiting
<1>8. Named(new)
  <2>1. HeldKids(new) \subseteq HeldKids(st)
    BY <1>2, <1>3, <1>5 DEF HeldKids
  <2>2. Ids(new) \subseteq Ids(st) \cup Kids(g)
    BY <1>2, <2>1 DEF Ids
  <2> QED
    BY <1>3, <2>2 DEF Copy, Named
<1> QED
  BY <1>2, <1>3, <1>4, <1>6, <1>7, <1>8 DEF Copy

(* A copy whose captions nobody assigned has nothing that waits. *)
LEMMA NothingWaits ==
  ASSUME NEW st, StoreInv(st), Copy(st), Unassigned(st)
  PROVE  st.held = {} /\ HeldKids(st) = {} /\ Ids(st) = DOMAIN st.seg
         /\ \A id : Lookup(st, id) = st.seg[id]
<1>1. st.held = {}
  BY DEF Copy, Waiting, Unassigned
<1>2. HeldKids(st) = {}
  BY <1>1 DEF HeldKids
<1> QED
  BY <1>1, <1>2 DEF Ids, Lookup

-----------------------------------------------------------------------------
(* The gateway writes its store and says what it wrote. *)
LEMMA GatewayCopy ==
  ASSUME CopyInv, NEW e, Emits(<<e>>), UNCHANGED <<cli, settled, broken>>, ExchangeInv',
         srv'.held = {}, Copy(srv'),
         DOMAIN srv.groups \subseteq DOMAIN srv'.groups, DOMAIN srv'.groups \subseteq Captions,
         DOMAIN srv.seg \subseteq DOMAIN srv'.seg,
         e.kind = "group" => NewGroup(e, DOMAIN srv'.groups, DOMAIN srv.groups),
         e.kind # "revised" => e.id \in Captions \cap DOMAIN srv'.seg,
         e.kind = "result" => e.id \in asked,
         \A n \in asked' :
           ~Ends(e, n) /\ (n \in asked \/ n \in (Captions \cap DOMAIN srv'.seg) \ DOMAIN srv.seg),
         Tells(e, srv.seg, srv'.seg)
  PROVE  CopyInv'
<1>0. wire' = wire \o <<e>> /\ WireOK(wire)
  BY DEF Emits, CopyInv, ExchangeInv
<1>1. GroupsNamed(wire \o <<e>>, DOMAIN srv'.groups, DOMAIN cli.groups)
  BY <1>0, GroupsGrow DEF CopyInv
<1>2. EndsOnce(wire \o <<e>>, asked', settled, DOMAIN srv'.seg)
  BY <1>0, EndsGrow DEF CopyInv
<1>3. Unassigned(cli) => Replayable(wire \o <<e>>, cli.seg, srv'.seg)
  BY <1>0, ReplayGrows DEF CopyInv
<1>4. /\ GroupsNamed(wire', DOMAIN srv'.groups, DOMAIN cli'.groups)
      /\ EndsOnce(wire', asked', settled', DOMAIN srv'.seg)
      /\ Unassigned(cli') => Replayable(wire', cli'.seg, srv'.seg)
  BY <1>0, <1>1, <1>2, <1>3
<1>5. Copy(cli') /\ ~broken' /\ DOMAIN cli'.groups \subseteq DOMAIN srv'.groups
  BY DEF CopyInv
<1> QED
  BY <1>4, <1>5 DEF CopyInv

(* Nothing is written and nothing is said; a translation may end. *)
LEMMA QuietCopy ==
  ASSUME CopyInv, UNCHANGED <<srv, cli, wire, settled, broken>>, ExchangeInv', asked' \subseteq asked
  PROVE  CopyInv'
<1>1. EndsOnce(wire, asked', settled, DOMAIN srv.seg)
  BY DEF CopyInv, EndsOnce
<1>2. EndsOnce(wire', asked', settled', DOMAIN srv'.seg)
  BY <1>1
<1>3. /\ GroupsNamed(wire', DOMAIN srv'.groups, DOMAIN cli'.groups)
      /\ Unassigned(cli') => Replayable(wire', cli'.seg, srv'.seg)
  BY DEF CopyInv
<1>4. /\ Copy(srv') /\ Copy(cli') /\ ~broken' /\ DOMAIN cli'.groups \subseteq DOMAIN srv'.groups
      /\ srv'.held = {} /\ DOMAIN srv'.groups \subseteq Captions
  BY DEF CopyInv
<1> QED
  BY <1>2, <1>3, <1>4 DEF CopyInv

(* In the gateway's store nothing waits. *)
LEMMA NothingHeld ==
  ASSUME CopyInv
  PROVE  /\ StoreInv(srv) /\ Copy(srv) /\ HeldKids(srv) = {} /\ Ids(srv) = DOMAIN srv.seg
         /\ \A id : Lookup(srv, id) = srv.seg[id]
<1>1. HeldKids(srv) = {}
  BY DEF HeldKids, CopyInv
<1> QED
  BY <1>1 DEF CopyInv, ExchangeInv, Ids, Lookup

(* A new caption is told. *)
LEMMA CaptionCopies ==
  ASSUME CopyInv, NEW n \in Captions, Caption(n), ExchangeInv'
  PROVE  CopyInv'
<1>1. PICK span : span = Cells(n)
  OBVIOUS
<1>2. PICK e : e = [kind |-> "source", id |-> n, span |-> span]
  OBVIOUS
<1>3. e.kind = "source" /\ e.id = n /\ e.span = span
  BY <1>2
<1>4. /\ Emits(<<e>>) /\ UNCHANGED <<cli, settled, broken>> /\ asked' = asked \cup {n}
      /\ srv' = UpsertSource(srv, n, span) /\ n \notin Ids(srv)
  BY <1>1, <1>2 DEF Caption
<1>5. StoreInv(srv) /\ Copy(srv) /\ n \notin DOMAIN srv.seg
  BY <1>4, NothingHeld
<1>6. PICK new \in {UpsertSource(srv, n, span)} :
           /\ Copy(new) /\ new.groups = srv.groups /\ new.held = srv.held
           /\ DOMAIN new.seg = DOMAIN srv.seg \cup {n}
           /\ n \notin DOMAIN srv.seg => new.seg = Over(Entry(n, NewCaption(span)), srv.seg)
  BY <1>5, SourceCopy
<1>7. srv' = new
  BY <1>4, <1>6
<1>8. TellsSource(e, srv.seg, new.seg)
  BY <1>3, <1>5, <1>6 DEF TellsSource
<1>9. Tells(e, srv.seg, srv'.seg)
  BY <1>3, <1>7, <1>8 DEF Tells
<1>10. \A m : ~Ends(e, m)
  BY <1>3 DEF Ends
<1>11. /\ srv'.held = {} /\ Copy(srv')
       /\ DOMAIN srv.groups \subseteq DOMAIN srv'.groups /\ DOMAIN srv'.groups \subseteq Captions
       /\ DOMAIN srv.seg \subseteq DOMAIN srv'.seg /\ n \in DOMAIN srv'.seg
  BY <1>6, <1>7 DEF CopyInv
<1> QED
  BY <1>3, <1>4, <1>5, <1>9, <1>10, <1>11, GatewayCopy

(* A result that the store takes is told. *)
LEMMA TranslatedCopies ==
  ASSUME CopyInv, NEW n \in Captions, NEW res \in {Preview, Completed}, Translated(n, res), ExchangeInv'
  PROVE  CopyInv'
<1>1. /\ n \in asked /\ UNCHANGED <<cli, settled, broken>>
      /\ asked' = IF res = Completed THEN asked \ {n} ELSE asked
  BY DEF Translated
<1>2. CASE TakesResult(srv, n, res)
  <2>1. PICK e : e = [kind |-> "result", id |-> n, res |-> res]
    OBVIOUS
  <2>2. e.kind = "result" /\ e.id = n /\ e.res = res
    BY <2>1
  <2>3. Emits(<<e>>) /\ srv' = ApplyTranslation(srv, n, res)
    BY <1>2, <2>1 DEF Translated
  <2>4. StoreInv(srv) /\ Copy(srv) /\ n \in DOMAIN srv.seg /\ ~Hidden(srv.seg[n]) /\ srv.seg[n].res < res
    BY <1>2, NothingHeld DEF TakesResult
  <2>5. PICK new \in {ApplyTranslation(srv, n, res)} :
           /\ Copy(new) /\ new.groups = srv.groups /\ new.held = srv.held
           /\ DOMAIN new.seg = DOMAIN srv.seg
           /\ new.seg = Over(Entry(n, [srv.seg[n] EXCEPT !.res = res]), srv.seg)
    BY <2>4, ResultCopy
  <2>6. srv' = new
    BY <2>3, <2>5
  <2>7. TellsResult(e, srv.seg, new.seg)
    BY <2>2, <2>4, <2>5 DEF TellsResult
  <2>8. Tells(e, srv.seg, srv'.seg)
    BY <2>2, <2>6, <2>7 DEF Tells
  <2>9. \A m \in asked' : ~Ends(e, m) /\ m \in asked
    BY <1>1, <2>2 DEF Ends
  <2>10. /\ srv'.held = {} /\ Copy(srv')
         /\ DOMAIN srv.groups \subseteq DOMAIN srv'.groups /\ DOMAIN srv'.groups \subseteq Captions
         /\ DOMAIN srv.seg \subseteq DOMAIN srv'.seg /\ n \in DOMAIN srv'.seg
    BY <2>4, <2>5, <2>6 DEF CopyInv
  <2> QED
    BY <1>1, <2>2, <2>3, <2>8, <2>9, <2>10, GatewayCopy
<1>3. CASE ~TakesResult(srv, n, res)
  <2>1. UNCHANGED <<srv, cli, wire, settled, broken>> /\ asked' \subseteq asked
    BY <1>1, <1>3 DEF Translated
  <2> QED
    BY <2>1, QuietCopy
<1> QED
  BY <1>2, <1>3

(* A failed translation is told and changes no caption. *)
LEMMA FailsCopies ==
  ASSUME CopyInv, NEW n \in Captions, TranslationFails(n), ExchangeInv'
  PROVE  CopyInv'
<1>1. PICK e : e = [kind |-> "failed", id |-> n]
  OBVIOUS
<1>2. e.kind = "failed" /\ e.id = n
  BY <1>1
<1>3. /\ Emits(<<e>>) /\ UNCHANGED <<srv, cli, settled, broken>> /\ n \in asked /\ asked' = asked \ {n}
  BY <1>1 DEF TranslationFails
<1>4. Tells(e, srv.seg, srv'.seg)
  BY <1>2, <1>3 DEF Tells
<1>5. \A m \in asked' : ~Ends(e, m) /\ m \in asked
  BY <1>2, <1>3 DEF Ends
<1>6. n \in DOMAIN srv.seg
  BY <1>3 DEF CopyInv, EndsOnce
<1>7. /\ srv'.held = {} /\ Copy(srv')
      /\ DOMAIN srv.groups \subseteq DOMAIN srv'.groups /\ DOMAIN srv'.groups \subseteq Captions
      /\ DOMAIN srv.seg \subseteq DOMAIN srv'.seg /\ n \in DOMAIN srv'.seg
  BY <1>3, <1>6 DEF CopyInv
<1> QED
  BY <1>2, <1>3, <1>4, <1>5, <1>7, GatewayCopy

(* A speaker decision is told. *)
LEMMA SpeakerCopies ==
  ASSUME CopyInv, NEW n \in Captions, NEW spk, SpeakerPatch(n, spk), ExchangeInv'
  PROVE  CopyInv'
<1>1. PICK rev : rev = srv.seg[n].rev + 1
  OBVIOUS
<1>2. PICK e : e = [kind |-> "speaker", id |-> n, spk |-> spk, rev |-> rev]
  OBVIOUS
<1>3. e.kind = "speaker" /\ e.id = n /\ e.spk = spk /\ e.rev = rev
  BY <1>2
<1>4. /\ Emits(<<e>>) /\ UNCHANGED <<cli, settled, broken, asked>>
      /\ srv' = UpdateSpeaker(srv, n, spk, rev, FALSE) /\ TakesSpeaker(srv, n, rev, FALSE)
  BY <1>1, <1>2 DEF SpeakerPatch
<1>5. /\ StoreInv(srv) /\ Copy(srv) /\ n \in DOMAIN srv.seg /\ ~Hidden(srv.seg[n])
      /\ rev > srv.seg[n].rev /\ ~srv.seg[n].man
  BY <1>4, NothingHeld DEF TakesSpeaker
<1>12. PICK man : man = FALSE
  OBVIOUS
<1>13. MayAssign(srv.seg[n], man)
  BY <1>5 DEF MayAssign
<1>6. PICK new \in {UpdateSpeaker(srv, n, spk, rev, man)} :
           /\ Copy(new) /\ new.groups = srv.groups /\ new.held = srv.held
           /\ DOMAIN new.seg = DOMAIN srv.seg /\ new.seg[n].man = man
           /\ new.seg = Over(Entry(n, Spoken(srv.seg[n], spk, rev, man)), srv.seg)
  BY <1>5, <1>13, SpeakerCopy
<1>7. srv' = new
  BY <1>4, <1>6, <1>12
<1>8. TellsSpeaker(e, srv.seg, new.seg)
  BY <1>3, <1>5, <1>6, <1>12 DEF TellsSpeaker, Spoken
<1>9. Tells(e, srv.seg, srv'.seg)
  BY <1>3, <1>7, <1>8 DEF Tells
<1>10. \A m : ~Ends(e, m)
  BY <1>3 DEF Ends
<1>11. /\ srv'.held = {} /\ Copy(srv')
       /\ DOMAIN srv.groups \subseteq DOMAIN srv'.groups /\ DOMAIN srv'.groups \subseteq Captions
       /\ DOMAIN srv.seg \subseteq DOMAIN srv'.seg /\ n \in DOMAIN srv'.seg
  BY <1>5, <1>6, <1>7 DEF CopyInv
<1> QED
  BY <1>3, <1>4, <1>9, <1>10, <1>11, GatewayCopy

(* A review that the store takes is told. *)
LEMMA ReviewCopies ==
  ASSUME CopyInv, ReviewAnswers, ExchangeInv'
  PROVE  CopyInv'
<1>0. UNCHANGED <<asked, cli, settled, broken>>
  BY DEF ReviewAnswers
<1>1. PICK T \in SUBSET DOMAIN review.job.targets :
       LET batch == [t \in T |-> review.job.targets[t]]
           accepted == T # {} /\ IsCurrent(review.job, srv) /\ TakesRevision(srv, batch)
       IN /\ srv' = IF accepted THEN ReviseTranslations(srv, batch) ELSE srv
          /\ IF accepted THEN Emits(<<[kind |-> "revised", batch |-> batch]>>)
                         ELSE UNCHANGED wire
  BY DEF ReviewAnswers
<1>2. PICK batch : batch = [t \in T |-> review.job.targets[t]]
  OBVIOUS
<1>3. PICK e : e = [kind |-> "revised", batch |-> batch]
  OBVIOUS
<1>4. \/ srv' = srv /\ UNCHANGED wire
      \/ TakesRevision(srv, batch) /\ srv' = ReviseTranslations(srv, batch) /\ Emits(<<e>>)
  BY <1>1, <1>2, <1>3
<1>5. CASE TakesRevision(srv, batch) /\ srv' = ReviseTranslations(srv, batch) /\ Emits(<<e>>)
  <2>1. e.kind = "revised" /\ e.batch = batch
    BY <1>3
  <2>2. StoreInv(srv) /\ Copy(srv)
    BY NothingHeld
  <2>3. PICK new \in {ReviseTranslations(srv, batch)} :
           /\ Copy(new) /\ new.groups = srv.groups /\ new.held = srv.held
           /\ DOMAIN new.seg = DOMAIN srv.seg
           /\ new.seg = Over([id \in DOMAIN batch |-> [srv.seg[id] EXCEPT !.res = @ + 1]], srv.seg)
    BY <1>5, <2>2, RevisedCopy
  <2>4. srv' = new
    BY <1>5, <2>3
  <2>5. TellsRevised(e, srv.seg, new.seg)
    BY <1>5, <2>1, <2>3 DEF TellsRevised, TakesRevision
  <2>6. Tells(e, srv.seg, srv'.seg)
    BY <2>1, <2>4, <2>5 DEF Tells
  <2>7. \A m : ~Ends(e, m)
    BY <2>1 DEF Ends
  <2>8. /\ srv'.held = {} /\ Copy(srv')
        /\ DOMAIN srv.groups \subseteq DOMAIN srv'.groups /\ DOMAIN srv'.groups \subseteq Captions
        /\ DOMAIN srv.seg \subseteq DOMAIN srv'.seg
    BY <2>3, <2>4 DEF CopyInv
  <2> QED
    BY <1>0, <1>5, <2>1, <2>6, <2>7, <2>8, GatewayCopy
<1>6. CASE srv' = srv /\ UNCHANGED wire
  BY <1>0, <1>6, QuietCopy
<1> QED
  BY <1>4, <1>5, <1>6

(* The children of a caption are a well formed group under its names. *)
LEMMA ChildrenFormed ==
  ASSUME NEW n \in Captions, NEW context \in BOOLEAN, NEW st, NEW g,
         g = [parents |-> {n}, kids |-> Children(n, context, st)]
  PROVE  WellFormedGroup(g) /\ Kids(g) \subseteq KidsOf(n)
<1>1. PICK kids : kids = Children(n, context, st)
  OBVIOUS
<1>2. g.parents = {n} /\ g.kids = kids
  BY <1>1
<1>3. DOMAIN kids = {Kid(n, lane) : lane \in IF context THEN Lanes ELSE Lanes \ {Context}}
  BY <1>1 DEF Children
<1>4. DOMAIN kids \subseteq KidsOf(n)
  BY <1>3 DEF KidsOf
<1>5. n \in Nat /\ n \in 1..MaxCaptions /\ MaxCaptions \in Nat
  BY ExchangeAssumption DEF Captions
<1>6. Kid(n, 1) \in DOMAIN kids /\ Kid(n, 2) \in DOMAIN kids
  BY <1>3 DEF Lanes, Context
<1>7. Kid(n, 1) # Kid(n, 2) /\ \A k \in KidsOf(n) : k \notin Captions
  BY <1>5 DEF Kid, KidsOf, Lanes, Captions
<1>8. Cardinality(DOMAIN kids) >= 2
  <2>1. KidsOf(n) \subseteq {Kid(n, 1), Kid(n, 2)} \cup {Kid(n, 3)}
    BY DEF KidsOf, Lanes
  <2>2. IsFiniteSet({Kid(n, 1)}) /\ Cardinality({Kid(n, 1)}) = 1
    BY FS_Singleton
  <2>3. PICK two : two = {Kid(n, 1)} \cup {Kid(n, 2)}
    OBVIOUS
  <2>4. IsFiniteSet(two) /\ Cardinality(two) = 2
    BY <1>7, <2>2, <2>3, FS_AddElement
  <2>5. IsFiniteSet(two \cup {Kid(n, 3)})
    BY <2>4, FS_AddElement
  <2>6. DOMAIN kids \subseteq two \cup {Kid(n, 3)}
    BY <1>4, <2>1, <2>3
  <2>7. IsFiniteSet(DOMAIN kids)
    BY <2>5, <2>6, FS_Subset
  <2>8. two \subseteq DOMAIN kids
    BY <1>6, <2>3
  <2>9. Cardinality(two) <= Cardinality(DOMAIN kids)
    BY <2>7, <2>8, FS_Subset
  <2>10. Cardinality(DOMAIN kids) \in Nat
    BY <2>7, FS_CardinalityType
  <2> QED
    BY <2>4, <2>9, <2>10
<1>9. ASSUME NEW k \in DOMAIN kids
      PROVE  kids[k].sup = {} /\ kids[k].par = {n} /\ ~kids[k].man /\ kids[k].res = Completed
  <2>1. PICK span : span = IF k = Kid(n, Context) THEN {2 * n - 1} ELSE {2 * n}
    OBVIOUS
  <2>2. PICK c : c = NewCaption(span)
    OBVIOUS
  <2>3. PICK spk : spk = IF k = Kid(n, Context) THEN st.seg[n].spk ELSE c.spk
    OBVIOUS
  <2>4. PICK d : d = [c EXCEPT !.res = Completed, !.par = {n}, !.spk = spk]
    OBVIOUS
  <2>5. kids[k] = d
    BY <1>1, <2>1, <2>2, <2>3, <2>4 DEF Children
  <2>6. DOMAIN c = Fields /\ c.sup = {} /\ c.man = FALSE
    BY <2>2 DEF NewCaption, Fields
  <2>7. d.res = Completed /\ d.par = {n} /\ d.sup = {} /\ d.man = FALSE
    BY <2>4, <2>6 DEF Fields
  <2> QED
    BY <2>5, <2>7
<1>10. g.parents # {} /\ g.parents \cap Kids(g) = {} /\ Cardinality(Kids(g)) >= 2
  BY <1>2, <1>4, <1>7, <1>8 DEF Kids
<1>11. UNION {g.kids[k].par : k \in Kids(g)} = g.parents
  BY <1>2, <1>6, <1>9 DEF Kids
<1>12. \A k \in Kids(g) : ~Hidden(g.kids[k]) /\ ~g.kids[k].man /\ g.kids[k].res # Preview
  BY <1>2, <1>9 DEF Kids, Hidden, Preview, Completed
<1> QED
  BY <1>2, <1>4, <1>10, <1>11, <1>12 DEF WellFormedGroup, Kids

(* What is replaced and by what. *)
LEMMA AppliedSeg ==
  ASSUME NEW st, StoreInv(st), NEW gid, NEW g
  PROVE  \E new \in {CommitGroup(st, gid, g, "applied")} :
           new.seg = Over(Replacing(g, st.seg), Over(g.kids, st.seg))
<1>1. PICK seg : seg = Over(Tombstones(st, g), Over(g.kids, st.seg))
  OBVIOUS
<1>2. PICK groups : groups = Over(Entry(gid, g), st.groups)
  OBVIOUS
<1>3. PICK new : new = [st EXCEPT !.groups = groups, !.held = st.held \ {gid}, !.seg = seg]
  OBVIOUS
<1>4. new = CommitGroup(st, gid, g, "applied")
  BY <1>1, <1>2, <1>3 DEF CommitGroup
<1>5. new.seg = seg
  BY <1>3 DEF StoreInv
<1>6. Tombstones(st, g) = Replacing(g, st.seg)
  BY DEF Tombstones, Replacing
<1> QED
  BY <1>1, <1>4, <1>5, <1>6

(* A separated caption is told with its children. *)
LEMMA CommitsCopies ==
  ASSUME CopyInv, NEW context \in BOOLEAN, OverlapCommits(context), ExchangeInv'
  PROVE  CopyInv'
<1>1. PICK n : n = overlap.job.of
  OBVIOUS
<1>2. PICK g \in {[parents |-> {n}, kids |-> Children(n, context, srv)]} :
       /\ GroupStatus(srv, n, g) = "applied"
       /\ srv' = CommitGroup(srv, n, g, "applied")
       /\ Emits(<<[kind |-> "group", id |-> n, group |-> g]>>)
  BY <1>1 DEF OverlapCommits
<1>3. n \in Captions /\ n \in DOMAIN srv.seg
  BY <1>1 DEF OverlapCommits, GroupReady, Visible, CopyInv, ExchangeInv, JobOK
<1>4. UNCHANGED <<asked, cli, settled, broken>>
  BY DEF OverlapCommits
<1>5. GroupOK(g) /\ WellFormedGroup(g) /\ Kids(g) \subseteq KidsOf(n) /\ g.parents = {n}
  BY <1>2, <1>3, ChildrenOK, ChildrenFormed
<1>6. PICK e : e = [kind |-> "group", id |-> n, group |-> g]
  OBVIOUS
<1>7. e.kind = "group" /\ e.id = n /\ e.group = g
  BY <1>6
<1>8. Emits(<<e>>)
  BY <1>2, <1>6
<1>9. /\ n \notin DOMAIN srv.groups /\ ValidGroup(srv, g, {})
      /\ \A p \in g.parents : ~srv.seg[p].man
  BY <1>2 DEF GroupStatus
<1>10. StoreInv(srv) /\ Copy(srv) /\ Ids(srv) = DOMAIN srv.seg /\ srv.held = {}
  BY NothingHeld DEF CopyInv
<1>11. Kids(g) \cap DOMAIN srv.seg = {} /\ g.parents \subseteq Visible(srv)
  BY <1>9, <1>10 DEF ValidGroup
<1>12. Waits(srv, n, g)
  BY <1>5, <1>10, <1>11 DEF Waits
<1>13. \A k \in Kids(g) : \E m \in DOMAIN srv.groups \cup {n} : k \in KidsOf(m)
  BY <1>5
<1>14. PICK new \in {CommitGroup(srv, n, g, "applied")} :
           /\ Copy(new) /\ new.held = srv.held \ {n}
           /\ DOMAIN new.groups = DOMAIN srv.groups \cup {n}
           /\ DOMAIN srv.seg \subseteq DOMAIN new.seg
           /\ \A p \in DOMAIN srv.seg : new.seg[p].man = srv.seg[p].man
  BY <1>9, <1>10, <1>12, <1>13, AppliedCopy
<1>15. srv' = new
  BY <1>2, <1>14
<1>16. new.seg = Over(Replacing(g, srv.seg), Over(g.kids, srv.seg))
  BY <1>10, <1>14, AppliedSeg
<1>17. ASSUME NEW p \in g.parents
       PROVE  /\ p \in DOMAIN srv.seg /\ ~Hidden(srv.seg[p]) /\ ~srv.seg[p].man
              /\ \A k \in Kids(g) : p \in g.kids[k].par => g.kids[k].span \cap srv.seg[p].span # {}
  BY <1>9 DEF ValidGroup, Visible
<1>18. TellsGroup(e, srv.seg, new.seg)
  BY <1>7, <1>11, <1>16, <1>17 DEF TellsGroup
<1>19. Tells(e, srv.seg, srv'.seg)
  BY <1>7, <1>15, <1>18 DEF Tells
<1>20. NewGroup(e, DOMAIN srv'.groups, DOMAIN srv.groups)
  BY <1>5, <1>7, <1>9, <1>14, <1>15 DEF NewGroup
<1>21. \A m : ~Ends(e, m)
  BY <1>7 DEF Ends
<1>22. /\ srv'.held = {} /\ Copy(srv')
       /\ DOMAIN srv.groups \subseteq DOMAIN srv'.groups /\ DOMAIN srv'.groups \subseteq Captions
       /\ DOMAIN srv.seg \subseteq DOMAIN srv'.seg /\ n \in DOMAIN srv'.seg
  BY <1>3, <1>10, <1>14, <1>15 DEF CopyInv
<1> QED
  BY <1>3, <1>4, <1>7, <1>8, <1>19, <1>20, <1>21, <1>22, GatewayCopy

(* The other steps of the gateway write nothing. *)
LEMMA QuietCopies ==
  ASSUME CopyInv, ExchangeInv',
         \/ \E n \in Captions : ObserveAnalysis(n) \/ Separated(n)
         \/ OverlapSkips \/ Gap \/ ReviewStarts \/ ReviewFails \/ UNCHANGED vars
  PROVE  CopyInv'
<1>1. UNCHANGED <<srv, cli, wire, settled, broken, asked>>
  BY DEF ObserveAnalysis, Separated, OverlapSkips, Gap, ReviewStarts, ReviewFails, vars
<1> QED
  BY <1>1, QuietCopy

-----------------------------------------------------------------------------
(* A caption the user assigned stays assigned when an event arrives. *)
LEMMA AssignedStays ==
  ASSUME NEW st, NEW new, StoreInv(st), Forward(st, new), Respects(st, new), Unassigned(new)
  PROVE  Unassigned(st)
<1>1. SUFFICES ASSUME NEW id \in DOMAIN st.seg, st.seg[id].man PROVE FALSE
  BY DEF Unassigned
<1>2. id \in DOMAIN new.seg /\ new.seg[id] = [st.seg[id] EXCEPT !.res = new.seg[id].res]
  BY <1>1 DEF Forward, Respects
<1>3. PICK c : c = st.seg[id]
  OBVIOUS
<1>4. IsCaption(c) /\ c.man
  BY <1>1, <1>3 DEF StoreInv, Replaced
<1>5. PICK res : res = new.seg[id].res
  OBVIOUS
<1>6. PICK d \in {[c EXCEPT !.res = res]} : SamePlace(c, d)
  BY <1>4, ResultFields
<1>7. new.seg[id] = d
  BY <1>2, <1>3, <1>5, <1>6
<1>8. new.seg[id].man
  BY <1>4, <1>6, <1>7 DEF SamePlace
<1> QED
  BY <1>2, <1>8 DEF Unassigned

(* The next event is about something the client has not seen. *)
LEMMA HeadIsNew ==
  ASSUME CopyInv, wire # <<>>
  PROVE  \E e \in {Head(wire)} :
           /\ EventOK(e)
           /\ e.kind = "group" => NewGroup(e, DOMAIN srv.groups, DOMAIN cli.groups)
           /\ e.kind # "revised" => e.id \in Captions
           /\ e.kind = "result" => e.id \notin settled
<1>1. WireOK(wire)
  BY DEF CopyInv, ExchangeInv
<1>2. Head(wire) = wire[1] /\ 1 \in 1..Len(wire)
  BY <1>1, ShorterWire
<1>3. EventOK(Head(wire))
  BY <1>1, WireShrinks
<1>4. GroupsNamed(wire, DOMAIN srv.groups, DOMAIN cli.groups) /\ EndsOnce(wire, asked, settled, DOMAIN srv.seg)
  BY DEF CopyInv
<1>5. /\ wire[1].kind = "group" => NewGroup(wire[1], DOMAIN srv.groups, DOMAIN cli.groups)
      /\ wire[1].kind # "revised" => wire[1].id \in Captions
      /\ wire[1].kind = "result" => wire[1].id \notin settled
  BY <1>2, <1>4 DEF GroupsNamed, EndsOnce
<1> QED
  BY <1>2, <1>3, <1>5

(* The event e was received as it was sent. *)
Received(e) ==
  /\ ~broken' /\ Copy(cli')
  /\ \A n \in DOMAIN cli'.groups : n \in DOMAIN cli.groups \/ (e.kind = "group" /\ n = e.id)
  /\ \A n \in settled' \cap Captions : n \in settled \/ Ends(e, n)
  /\ Unassigned(cli) => \A b : Tells(e, cli.seg, b) => cli'.seg = b

(* What the invariant says of the client alone. *)
ClientOK == StoreInv(cli) /\ Copy(cli) /\ DOMAIN cli.groups \subseteq Captions /\ ~broken

(* A new caption is received. *)
LEMMA SourceReceived ==
  ASSUME ClientOK, NEW e, e.kind = "source", e.id \in Captions, ReduceSource(e)
  PROVE  Received(e)
<1>1. PICK n \in Captions : n = e.id
  OBVIOUS
<1>2. PICK span : span = e.span
  OBVIOUS
<1>3. PICK new \in {UpsertSource(cli, n, span)} :
           /\ Copy(new) /\ new.groups = cli.groups /\ new.held = cli.held
           /\ DOMAIN new.seg = DOMAIN cli.seg \cup {n}
           /\ n \notin DOMAIN cli.seg => new.seg = Over(Entry(n, NewCaption(span)), cli.seg)
  BY SourceCopy DEF ClientOK
<1>4. cli' = new /\ UNCHANGED <<settled, broken>>
  BY <1>1, <1>2, <1>3 DEF ReduceSource
<1>5. ASSUME NEW b, Tells(e, cli.seg, b) PROVE cli'.seg = b
  BY <1>1, <1>2, <1>3, <1>4, <1>5 DEF Tells, TellsSource
<1> QED
  BY <1>3, <1>4, <1>5 DEF Received, ClientOK

(* A result is received. *)
LEMMA ResultReceived ==
  ASSUME ClientOK, NEW e, EventOK(e), e.kind = "result", e.id \in Captions, e.id \notin settled, ReduceResult(e)
  PROVE  Received(e)
<1>0. UNCHANGED broken /\ StoreInv(cli) /\ Copy(cli)
  BY DEF ReduceResult, ClientOK
<1>1. PICK n \in Captions : n = e.id
  OBVIOUS
<1>2. PICK res : res = e.res
  OBVIOUS
<1>3. CASE Reduced(e) /\ TakesResult(cli, e.id, e.res)
  <2>1. n \in DOMAIN cli.seg
    BY <1>0, <1>1, <1>3, NotAside DEF Reduced
  <2>2. PICK new \in {ApplyTranslation(cli, n, res)} :
           /\ Copy(new) /\ new.groups = cli.groups /\ new.held = cli.held
           /\ DOMAIN new.seg = DOMAIN cli.seg
           /\ new.seg = Over(Entry(n, [cli.seg[n] EXCEPT !.res = res]), cli.seg)
    BY <1>0, <2>1, ResultCopy
  <2>3. cli' = new
    BY <1>1, <1>2, <1>3, <2>2 DEF ReduceResult
  <2>4. settled' = IF e.res = Completed THEN settled \cup {e.id} ELSE settled
    BY <1>3 DEF ReduceResult
  <2>5. \A m \in settled' \cap Captions : m \in settled \/ Ends(e, m)
    BY <2>4 DEF Ends
  <2>6. ASSUME NEW b, Tells(e, cli.seg, b) PROVE cli'.seg = b
    BY <1>1, <1>2, <2>2, <2>3, <2>6 DEF Tells, TellsResult
  <2> QED
    BY <1>0, <2>2, <2>3, <2>5, <2>6 DEF Received, ClientOK
<1>4. CASE ~(Reduced(e) /\ TakesResult(cli, e.id, e.res))
  <2>1. UNCHANGED <<cli, settled>>
    BY <1>4 DEF ReduceResult
  <2>2. ASSUME NEW b, Unassigned(cli), Tells(e, cli.seg, b) PROVE FALSE
    <3>1. /\ HeldKids(cli) = {} /\ Ids(cli) = DOMAIN cli.seg
          /\ \A id : Lookup(cli, id) = cli.seg[id]
      BY <1>0, <2>2, NothingWaits
    <3>2. TellsResult(e, cli.seg, b)
      BY <2>2 DEF Tells
    <3> QED
      BY <1>4, <3>1, <3>2 DEF TellsResult, Reduced, TakesResult
  <2> QED
    BY <1>0, <2>1, <2>2 DEF Received, ClientOK
<1> QED
  BY <1>3, <1>4

(* The end of a translation is received. *)
LEMMA FailedReceived ==
  ASSUME ClientOK, NEW e, e.kind = "failed", ReduceFailed(e)
  PROVE  Received(e)
<1>1. UNCHANGED <<cli, broken>> /\ settled' \subseteq settled \cup {e.id}
  BY DEF ReduceFailed
<1>2. \A m \in settled' \cap Captions : m \in settled \/ Ends(e, m)
  BY <1>1 DEF Ends
<1>3. ASSUME NEW b, Tells(e, cli.seg, b) PROVE cli'.seg = b
  BY <1>1, <1>3 DEF Tells
<1> QED
  BY <1>1, <1>2, <1>3 DEF Received, ClientOK

(* A review is received. *)
LEMMA RevisedReceived ==
  ASSUME ClientOK, NEW e, e.kind = "revised", ReduceRevised(e)
  PROVE  Received(e)
<1>0. UNCHANGED <<settled, broken>>
  BY DEF ReduceRevised
<1>1. PICK batch : batch = e.batch
  OBVIOUS
<1>2. CASE TakesRevision(cli, batch)
  <2>1. PICK new \in {ReviseTranslations(cli, batch)} :
           /\ Copy(new) /\ new.groups = cli.groups /\ new.held = cli.held
           /\ DOMAIN new.seg = DOMAIN cli.seg
           /\ new.seg = Over([id \in DOMAIN batch |-> [cli.seg[id] EXCEPT !.res = @ + 1]], cli.seg)
    BY <1>2, RevisedCopy DEF ClientOK
  <2>2. cli' = new
    BY <1>1, <1>2, <2>1 DEF ReduceRevised
  <2>3. ASSUME NEW b, Tells(e, cli.seg, b) PROVE cli'.seg = b
    BY <1>1, <2>1, <2>2, <2>3 DEF Tells, TellsRevised
  <2> QED
    BY <1>0, <2>1, <2>2, <2>3 DEF Received, ClientOK
<1>3. CASE ~TakesRevision(cli, batch)
  <2>1. cli' = cli
    BY <1>1, <1>3 DEF ReduceRevised
  <2>2. \A b : ~Tells(e, cli.seg, b)
    BY <1>1, <1>3 DEF Tells, TellsRevised, TakesRevision
  <2> QED
    BY <1>0, <2>1, <2>2 DEF Received, ClientOK
<1> QED
  BY <1>2, <1>3

(* A speaker decision is received. *)
LEMMA SpeakerReceived ==
  ASSUME ClientOK, NEW e, e.kind = "speaker", e.id \in Captions, ReduceSpeaker(e)
  PROVE  Received(e)
<1>0. UNCHANGED <<settled, broken>> /\ StoreInv(cli) /\ Copy(cli)
  BY DEF ReduceSpeaker, ClientOK
<1>1. PICK n \in Captions : n = e.id
  OBVIOUS
<1>2. PICK spk : spk = e.spk
  OBVIOUS
<1>3. PICK rev : rev = e.rev
  OBVIOUS
<1>4. PICK man : man = FALSE
  OBVIOUS
<1>5. CASE TakesSpeaker(cli, n, rev, man)
  <2>1. n \in DOMAIN cli.seg /\ ~cli.seg[n].man
    BY <1>0, <1>4, <1>5, NotAside DEF TakesSpeaker
  <2>2. MayAssign(cli.seg[n], man)
    BY <2>1 DEF MayAssign
  <2>3. PICK new \in {UpdateSpeaker(cli, n, spk, rev, man)} :
           /\ Copy(new) /\ new.groups = cli.groups /\ new.held = cli.held
           /\ DOMAIN new.seg = DOMAIN cli.seg /\ new.seg[n].man = man
           /\ new.seg = Over(Entry(n, Spoken(cli.seg[n], spk, rev, man)), cli.seg)
    BY <1>0, <2>1, <2>2, SpeakerCopy
  <2>4. cli' = new
    BY <1>1, <1>2, <1>3, <1>4, <1>5, <2>3 DEF ReduceSpeaker
  <2>5. ASSUME NEW b, Tells(e, cli.seg, b) PROVE cli'.seg = b
    BY <1>1, <1>2, <1>3, <1>4, <2>3, <2>4, <2>5 DEF Tells, TellsSpeaker, Spoken
  <2> QED
    BY <1>0, <2>3, <2>4, <2>5 DEF Received, ClientOK
<1>6. CASE ~TakesSpeaker(cli, n, rev, man)
  <2>1. cli' = cli
    BY <1>1, <1>3, <1>4, <1>6 DEF ReduceSpeaker
  <2>2. ASSUME NEW b, Unassigned(cli), Tells(e, cli.seg, b) PROVE FALSE
    <3>1. /\ HeldKids(cli) = {} /\ Ids(cli) = DOMAIN cli.seg
          /\ \A id : Lookup(cli, id) = cli.seg[id]
      BY <1>0, <2>2, NothingWaits
    <3>2. TellsSpeaker(e, cli.seg, b)
      BY <2>2 DEF Tells
    <3> QED
      BY <1>1, <1>3, <1>4, <1>6, <3>1, <3>2 DEF TellsSpeaker, TakesSpeaker
  <2> QED
    BY <1>0, <2>1, <2>2 DEF Received, ClientOK
<1> QED
  BY <1>5, <1>6

(* Two captions share no name of a child. *)
LEMMA KidsApart ==
  ASSUME NEW n \in Captions, NEW m \in Captions, n # m
  PROVE  KidsOf(n) \cap KidsOf(m) = {}
<1>1. n \in Nat /\ m \in Nat /\ MaxCaptions \in Nat
  BY ExchangeAssumption DEF Captions
<1>2. ASSUME NEW i \in Lanes, NEW j \in Lanes PROVE Kid(n, i) # Kid(m, j)
  BY <1>1, <1>2 DEF Lanes, Kid
<1> QED
  BY <1>2 DEF KidsOf

(* A group is received: its children are new to the client too. *)
LEMMA GroupReceived ==
  ASSUME ClientOK, NEW e, EventOK(e), e.kind = "group", NEW D, D \subseteq Captions,
         NewGroup(e, D, DOMAIN cli.groups), ReduceGroup(e)
  PROVE  Received(e)
<1>0. StoreInv(cli) /\ Copy(cli) /\ DOMAIN cli.groups \subseteq Captions /\ ~broken
  BY DEF ClientOK
<1>1. PICK n \in Captions : n = e.id
  BY DEF NewGroup
<1>2. PICK g : g = e.group
  OBVIOUS
<1>3. n \notin DOMAIN cli.groups /\ WellFormedGroup(g) /\ Kids(g) \subseteq KidsOf(n) /\ GroupOK(g)
  BY <1>1, <1>2 DEF NewGroup, EventOK
<1>4. Kids(g) \cap Ids(cli) = {}
  <2>1. SUFFICES ASSUME NEW k \in Kids(g), k \in Ids(cli) PROVE FALSE
    OBVIOUS
  <2>2. k \notin Captions
    BY <1>3 DEF GroupOK
  <2>3. PICK m \in DOMAIN cli.groups : k \in KidsOf(m)
    BY <1>0, <2>1, <2>2 DEF Copy, Named
  <2>4. m \in Captions /\ m # n
    BY <1>0, <1>3, <2>3
  <2> QED
    BY <1>3, <2>3, <2>4, KidsApart
<1>5. PICK status : status = GroupStatus(cli, n, g)
  OBVIOUS
<1>6. /\ cli' = IF status = "stale" THEN cli ELSE CommitGroup(cli, n, g, status)
      /\ settled' = IF status = "stale" THEN settled ELSE settled \cup Kids(g)
      /\ UNCHANGED broken
  BY <1>1, <1>2, <1>3, <1>4, <1>5 DEF ReduceGroup
<1>7. \A m \in settled' \cap Captions : m \in settled
  BY <1>3, <1>6 DEF GroupOK
<1>8. ASSUME NEW b, Unassigned(cli), Tells(e, cli.seg, b)
      PROVE  status = "applied" /\ b = Over(Replacing(g, cli.seg), Over(g.kids, cli.seg))
  <2>1. TellsGroup(e, cli.seg, b)
    BY <1>8 DEF Tells
  <2>2. ValidGroup(cli, g, {}) /\ \A p \in g.parents : ~cli.seg[p].man
    BY <1>2, <1>4, <2>1 DEF ValidGroup, TellsGroup, Visible
  <2>3. status = "applied"
    BY <1>3, <1>5, <2>2 DEF GroupStatus
  <2>4. b = Over(Replacing(g, cli.seg), Over(g.kids, cli.seg))
    BY <1>2, <2>1 DEF TellsGroup
  <2> QED
    BY <2>3, <2>4
<1>9. CASE status = "stale"
  BY <1>0, <1>6, <1>7, <1>8, <1>9 DEF Received
<1>10. CASE status = "held"
  <2>0. GroupStatus(cli, n, g) = "held"
    BY <1>5, <1>10
  <2>1. PICK new \in {CommitGroup(cli, n, g, "held")} :
           Copy(new) /\ new.seg = cli.seg /\ DOMAIN new.groups = DOMAIN cli.groups \cup {n}
    BY <1>0, <1>3, <2>0, HeldCopy
  <2>2. cli' = new
    BY <1>6, <1>10, <2>1
  <2> QED
    BY <1>0, <1>1, <1>6, <1>7, <1>8, <1>10, <2>1, <2>2 DEF Received
<1>11. CASE status = "applied"
  <2>1. ValidGroup(cli, g, {})
    BY <1>5, <1>11 DEF GroupStatus
  <2>2. Waits(cli, n, g)
    BY <1>3, <1>4 DEF Waits, Ids, HeldKids
  <2>3. \A k \in Kids(g) : \E m \in DOMAIN cli.groups \cup {n} : k \in KidsOf(m)
    BY <1>3
  <2>4. PICK new \in {CommitGroup(cli, n, g, "applied")} :
           /\ Copy(new) /\ new.held = cli.held \ {n}
           /\ DOMAIN new.groups = DOMAIN cli.groups \cup {n}
           /\ DOMAIN cli.seg \subseteq DOMAIN new.seg
           /\ \A p \in DOMAIN cli.seg : new.seg[p].man = cli.seg[p].man
    BY <1>0, <2>1, <2>2, <2>3, AppliedCopy
  <2>5. new.seg = Over(Replacing(g, cli.seg), Over(g.kids, cli.seg))
    BY <1>0, <2>4, AppliedSeg
  <2>6. cli' = new
    BY <1>6, <1>11, <2>4
  <2>7. ASSUME NEW b, Unassigned(cli), Tells(e, cli.seg, b) PROVE cli'.seg = b
    BY <1>8, <2>5, <2>6, <2>7
  <2> QED
    BY <1>0, <1>1, <1>6, <1>7, <2>4, <2>6, <2>7 DEF Received
<1>12. status \in {"stale", "held", "applied"}
  BY <1>5 DEF GroupStatus
<1> QED
  BY <1>9, <1>10, <1>11, <1>12

(* Every event is received as it was sent. *)
LEMMA DeliverCopies ==
  ASSUME CopyInv, Deliver, ExchangeInv'
  PROVE  CopyInv'
<1>1. PICK e \in {Head(wire)} :
       CASE e.kind = "source"  -> ReduceSource(e)
         [] e.kind = "result"  -> ReduceResult(e)
         [] e.kind = "failed"  -> ReduceFailed(e)
         [] e.kind = "revised" -> ReduceRevised(e)
         [] e.kind = "speaker" -> ReduceSpeaker(e)
         [] e.kind = "group"   -> ReduceGroup(e)
  BY DEF Deliver
<1>2. wire # <<>> /\ wire' = Tail(wire) /\ UNCHANGED <<srv, asked>> /\ WireOK(wire)
  BY DEF Deliver, CopyInv, ExchangeInv
<1>3. /\ EventOK(e)
      /\ e.kind = "group" => NewGroup(e, DOMAIN srv.groups, DOMAIN cli.groups)
      /\ e.kind # "revised" => e.id \in Captions
      /\ e.kind = "result" => e.id \notin settled
  BY <1>1, <1>2, HeadIsNew
<1>4. ClientOK /\ ExchangeInv /\ DOMAIN srv.groups \subseteq Captions
  BY DEF ClientOK, CopyInv, ExchangeInv
<1>5. Received(e)
  <2>1. CASE e.kind = "source"
    <3>1. ReduceSource(e) BY <1>1, <2>1
    <3> QED BY <1>3, <1>4, <2>1, <3>1, SourceReceived
  <2>2. CASE e.kind = "result"
    <3>1. ReduceResult(e) BY <1>1, <2>2
    <3> QED BY <1>3, <1>4, <2>2, <3>1, ResultReceived
  <2>3. CASE e.kind = "failed"
    <3>1. ReduceFailed(e) BY <1>1, <2>3
    <3> QED BY <1>4, <2>3, <3>1, FailedReceived
  <2>4. CASE e.kind = "revised"
    <3>1. ReduceRevised(e) BY <1>1, <2>4
    <3> QED BY <1>4, <2>4, <3>1, RevisedReceived
  <2>5. CASE e.kind = "speaker"
    <3>1. ReduceSpeaker(e) BY <1>1, <2>5
    <3> QED BY <1>3, <1>4, <2>5, <3>1, SpeakerReceived
  <2>6. CASE e.kind = "group"
    <3>1. ReduceGroup(e) BY <1>1, <2>6
    <3> QED BY <1>3, <1>4, <2>6, <3>1, GroupReceived
  <2> QED
    BY <1>3, <2>1, <2>2, <2>3, <2>4, <2>5, <2>6 DEF EventOK, EventKinds
<1>6. /\ ~broken' /\ Copy(cli')
      /\ \A n \in DOMAIN cli'.groups : n \in DOMAIN cli.groups \/ (e.kind = "group" /\ n = e.id)
      /\ \A n \in settled' \cap Captions : n \in settled \/ Ends(e, n)
  BY <1>5 DEF Received
<1>7. GroupsNamed(Tail(wire), DOMAIN srv.groups, DOMAIN cli'.groups)
  <2>1. GroupsNamed(wire, DOMAIN srv.groups, DOMAIN cli.groups)
    BY DEF CopyInv
  <2>2. \A n \in DOMAIN cli'.groups : n \in DOMAIN cli.groups \/ (Head(wire).kind = "group" /\ n = Head(wire).id)
    BY <1>1, <1>6
  <2> QED
    BY <1>2, <2>1, <2>2, GroupsShrink
<1>8. EndsOnce(Tail(wire), asked, settled', DOMAIN srv.seg)
  <2>1. EndsOnce(wire, asked, settled, DOMAIN srv.seg)
    BY DEF CopyInv
  <2>2. \A n \in settled' \cap Captions : n \in settled \/ Ends(Head(wire), n)
    BY <1>1, <1>6
  <2> QED
    BY <1>2, <2>1, <2>2, EndsShrink
<1>9. DOMAIN cli'.groups \subseteq DOMAIN srv.groups
  BY <1>3, <1>6 DEF CopyInv, NewGroup
<1>10. ASSUME Unassigned(cli') PROVE Replayable(Tail(wire), cli'.seg, srv.seg)
  <2>1. StoreInv(cli) /\ Forward(cli, cli') /\ Respects(cli, cli')
    BY <1>1, <1>3, <1>4, ReduceStep DEF ExchangeInv
  <2>2. Unassigned(cli)
    BY <1>10, <2>1, AssignedStays
  <2>3. Replayable(wire, cli.seg, srv.seg)
    BY <2>2 DEF CopyInv
  <2>4. PICK c : Tells(Head(wire), cli.seg, c) /\ Replayable(Tail(wire), c, srv.seg)
    BY <1>2, <2>3, ReplayShrinks
  <2>5. cli'.seg = c
    BY <1>1, <1>5, <2>2, <2>4 DEF Received
  <2> QED
    BY <2>4, <2>5
<1>11. /\ GroupsNamed(wire', DOMAIN srv'.groups, DOMAIN cli'.groups)
       /\ EndsOnce(wire', asked', settled', DOMAIN srv'.seg)
       /\ Unassigned(cli') => Replayable(wire', cli'.seg, srv'.seg)
       /\ DOMAIN cli'.groups \subseteq DOMAIN srv'.groups
  BY <1>2, <1>7, <1>8, <1>9, <1>10
<1>12. srv'.held = {} /\ DOMAIN srv'.groups \subseteq Captions /\ Copy(srv')
  BY <1>2 DEF CopyInv
<1> QED
  BY <1>6, <1>11, <1>12 DEF CopyInv

(* The user's changes leave an assigned caption. *)
LEMMA UserCopy ==
  ASSUME CopyInv, UNCHANGED <<srv, asked, wire, settled, broken>>, ExchangeInv',
         Copy(cli'), DOMAIN cli'.groups = DOMAIN cli.groups, ~Unassigned(cli')
  PROVE  CopyInv'
<1>1. /\ GroupsNamed(wire', DOMAIN srv'.groups, DOMAIN cli'.groups)
      /\ EndsOnce(wire', asked', settled', DOMAIN srv'.seg)
      /\ DOMAIN cli'.groups \subseteq DOMAIN srv'.groups
      /\ srv'.held = {} /\ DOMAIN srv'.groups \subseteq Captions /\ Copy(srv') /\ ~broken'
  BY DEF CopyInv
<1> QED
  BY <1>1 DEF CopyInv

(* The user assigns a speaker or accepts an alternative. *)
LEMMA UserCopies ==
  ASSUME CopyInv, ExchangeInv',
         \/ \E id \in DOMAIN cli.seg, spk \in Speakers \cup {NoSpeaker} : AssignSpeaker(id, spk)
         \/ \E g \in cli.held : ApplyCaptionGroup(g)
  PROVE  CopyInv'
<1>0. UNCHANGED <<srv, asked, wire, settled, broken>> /\ StoreInv(cli) /\ Copy(cli)
  BY DEF AssignSpeaker, ApplyCaptionGroup, CopyInv, ExchangeInv
<1>1. ASSUME NEW id \in DOMAIN cli.seg, NEW spk \in Speakers \cup {NoSpeaker}, AssignSpeaker(id, spk)
      PROVE  Copy(cli') /\ DOMAIN cli'.groups = DOMAIN cli.groups /\ ~Unassigned(cli')
  <2>1. PICK rev : rev = cli.seg[id].rev + 1
    OBVIOUS
  <2>2. PICK man : man = TRUE
    OBVIOUS
  <2>3. MayAssign(cli.seg[id], man)
    BY <2>2 DEF MayAssign
  <2>4. PICK new \in {UpdateSpeaker(cli, id, spk, rev, man)} :
           /\ Copy(new) /\ new.groups = cli.groups /\ new.held = cli.held
           /\ DOMAIN new.seg = DOMAIN cli.seg /\ new.seg[id].man = man
           /\ new.seg = Over(Entry(id, Spoken(cli.seg[id], spk, rev, man)), cli.seg)
    BY <1>0, <2>3, SpeakerCopy
  <2>5. cli' = new
    BY <1>1, <2>1, <2>2, <2>4 DEF AssignSpeaker
  <2> QED
    BY <2>2, <2>4, <2>5 DEF Unassigned
<1>2. ASSUME NEW gid \in cli.held, ApplyCaptionGroup(gid)
      PROVE  Copy(cli') /\ DOMAIN cli'.groups = DOMAIN cli.groups /\ ~Unassigned(cli')
  <2>1. PICK g : g = cli.groups[gid]
    OBVIOUS
  <2>2. PICK mine : mine = Kids(g)
    OBVIOUS
  <2>3. ValidGroup(cli, g, mine) /\ cli' = CommitGroup(cli, gid, g, "applied")
    BY <1>2, <2>1, <2>2 DEF ApplyCaptionGroup, TakesHeldGroup, ApplyHeldGroup
  <2>4. Waits(cli, gid, g) /\ GroupOK(g) /\ gid \in DOMAIN cli.groups
    BY <1>0, <2>1 DEF StoreInv, HeldApart, Waits
  <2>5. \A k \in Kids(g) : k \in Ids(cli) \ Captions
    BY <2>1, <2>4 DEF Ids, HeldKids, GroupOK
  <2>6. \A k \in Kids(g) : \E n \in DOMAIN cli.groups \cup {gid} : k \in KidsOf(n)
    BY <1>0, <2>5 DEF Copy, Named
  <2>7. PICK new \in {CommitGroup(cli, gid, g, "applied")} :
           /\ Copy(new) /\ new.held = cli.held \ {gid}
           /\ DOMAIN new.groups = DOMAIN cli.groups \cup {gid}
           /\ DOMAIN cli.seg \subseteq DOMAIN new.seg
           /\ \A p \in DOMAIN cli.seg : new.seg[p].man = cli.seg[p].man
    BY <1>0, <2>3, <2>4, <2>6, AppliedCopy
  <2>8. ~Unassigned(cli)
    BY <1>0, NothingWaits
  <2> QED
    BY <2>3, <2>4, <2>7, <2>8 DEF Unassigned
<1>3. Copy(cli') /\ DOMAIN cli'.groups = DOMAIN cli.groups /\ ~Unassigned(cli')
  BY <1>1, <1>2
<1> QED
  BY <1>0, <1>3, UserCopy

(* Every step keeps the invariant.                                         *)
LEMMA CopyNext ==
  ASSUME CopyInv, [Next]_vars
  PROVE  CopyInv'
<1>1. ExchangeInv'
  BY ExchangeNext DEF CopyInv
<1>2. ASSUME NEW n \in Captions,
             \/ Caption(n) \/ TranslationFails(n) \/ ObserveAnalysis(n) \/ Separated(n)
             \/ \E res \in {Preview, Completed} : Translated(n, res)
             \/ \E spk \in Speakers \cup {NoSpeaker} : SpeakerPatch(n, spk)
      PROVE  CopyInv'
  BY <1>1, <1>2, CaptionCopies, FailsCopies, QuietCopies, TranslatedCopies, SpeakerCopies
<1> QED
  BY <1>1, <1>2, ReviewCopies, QuietCopies, CommitsCopies, DeliverCopies, UserCopies DEF Next

(* At first there is nothing to tell.                                      *)
LEMMA CopyStarts == Init => CopyInv
<1> SUFFICES ASSUME Init PROVE CopyInv
  OBVIOUS
<1>1. ExchangeInv
  BY ExchangeStarts
<1>2. wire = <<>> /\ Len(wire) = 0 /\ 1..Len(wire) = {} /\ asked = {} /\ settled = {} /\ ~broken
  BY DEF Init
<1>3. ASSUME NEW st, st = EmptyStore
      PROVE  DOMAIN st.seg = {} /\ DOMAIN st.groups = {} /\ st.held = {} /\ Copy(st)
  <2>1. DOMAIN st.seg = {} /\ DOMAIN st.groups = {} /\ st.held = {}
    BY <1>3 DEF EmptyStore
  <2>2. Ids(st) = {}
    BY <2>1 DEF Ids, HeldKids
  <2> QED
    BY <2>1, <2>2 DEF Copy, Linked, Waiting, Named
<1>4. srv = cli /\ cli = EmptyStore
  BY DEF Init
<1>5. /\ GroupsNamed(wire, DOMAIN srv.groups, DOMAIN cli.groups)
      /\ EndsOnce(wire, asked, settled, DOMAIN srv.seg)
  BY <1>2 DEF GroupsNamed, EndsOnce
<1>6. Replayable(wire, cli.seg, srv.seg)
  <2>1. PICK log : log = [k \in {1} |-> cli.seg]
    OBVIOUS
  <2>2. Replays(wire, log, cli.seg, srv.seg)
    BY <1>2, <1>4, <2>1 DEF Replays
  <2> QED
    BY <2>2 DEF Replayable
<1> QED
  BY <1>1, <1>2, <1>3, <1>4, <1>5, <1>6 DEF CopyInv

(* A copy can be saved, and is opened as it was saved. *)
LEMMA CopyReopens ==
  ASSUME NEW st, StoreInv(st), Copy(st)
  PROVE  Reopens(st)
<1>1. PICK snap : snap = Snapshot(st)
  OBVIOUS
<1>2. /\ snap.seg = st.seg /\ DOMAIN snap.held = st.held
      /\ \A g \in st.held : snap.held[g] = st.groups[g]
  BY <1>1 DEF Snapshot
<1>3. Decodes(snap)
  BY <1>2 DEF Decodes, Copy, Waiting, StoreInv, HeldApart
<1>4. FromSnapshotAccepts(snap)
  BY <1>2 DEF FromSnapshotAccepts, Copy, Linked, Waiting, StoreInv, HeldApart
<1>5. PICK new : new = FromSnapshot(snap)
  OBVIOUS
<1>6. /\ new.seg = st.seg /\ new.held = st.held
      /\ \A g \in st.held : new.groups[g] = st.groups[g]
  BY <1>2, <1>5 DEF FromSnapshot
<1>7. Ids(new) = Ids(st) /\ Visible(new) = Visible(st)
  BY <1>6 DEF Ids, HeldKids, Visible
<1>8. \A g \in st.held : TakesHeldGroup(new, g) <=> TakesHeldGroup(st, g)
  BY <1>6, <1>7 DEF TakesHeldGroup, ValidGroup
<1> QED
  BY <1>1, <1>3, <1>4, <1>5, <1>6, <1>8 DEF Reopens

(* For any captions, speakers, bounds and settings of the review: the      *)
(* client raises no protocol error, its captions are the gateway's once    *)
(* every event has arrived and nobody assigned one, and every state of its *)
(* store can be saved and opened again (remote_captions.apply,             *)
(* decode_snapshot, from_snapshot).                                        *)
THEOREM CopiesStayEqual == Spec => []CopiesAgree
<1>1. ASSUME CopyInv PROVE CopiesAgree
  <2>1. StoreInv(cli) /\ Copy(cli) /\ ~broken
    BY <1>1 DEF CopyInv, ExchangeInv
  <2>2. ASSUME wire = <<>>, \A id \in Ids(cli) : ~Lookup(cli, id).man
        PROVE  cli.seg = srv.seg
    <3>1. \A id \in DOMAIN cli.seg : id \in Ids(cli) /\ Lookup(cli, id) = cli.seg[id]
      BY <2>1, NotAside
    <3>2. Unassigned(cli)
      BY <2>2, <3>1 DEF Unassigned
    <3>3. PICK log : Replays(wire, log, cli.seg, srv.seg)
      BY <1>1, <3>2 DEF CopyInv, Replayable
    <3>4. Len(wire) + 1 = 1
      BY <2>2
    <3> QED
      BY <3>3, <3>4 DEF Replays
  <2>3. Reopens(cli)
    BY <2>1, CopyReopens
  <2> QED
    BY <2>1, <2>2, <2>3 DEF CopiesAgree
<1> QED
  BY <1>1, CopyStarts, CopyNext, PTL DEF Spec

-----------------------------------------------------------------------------
(* The desktop window *)

Contents == [Things -> Nat]
Page == [thing: Things, content: Nat]
Kinds == {"caption", "finished", "notice", "tail", "session", "opened", "page", "ok", "error"}

(* A message on its way to the window: only captions have a key, and only  *)
(* they are replaced while they wait.                                      *)
Line ==
  {m \in [kind: Kinds, view: Nat, key: Things \cup {0}, preview: BOOLEAN, data: Contents \cup Page] :
     /\ m.preview \/ m.key # 0 => m.kind = "caption"
     /\ m.kind = "caption" => m.key \in Things /\ m.data \in Contents
     /\ m.kind = "page" => m.data \in Page
     /\ m.kind \in {"session", "opened"} => m.data \in Contents}

(* The message begins a view; it shows x. *)
Begins(m) == m.kind \in {"session", "opened"}
Shows(m, x) == (m.kind = "caption" /\ m.key = x) \/ (m.kind = "page" /\ m.data.thing = x)
Content(m, x) == IF m.kind = "page" THEN m.data.content ELSE m.data[x]

(* The queue is in the order of the views, and a view begins once. *)
Ordered(q) ==
  \A i, j \in 1 .. Len(q) : i < j =>
    q[i].view <= q[j].view /\ (Begins(q[j]) => q[i].view < q[j].view)

ShownAt(q, i, v, x) == q[i].view = v /\ Shows(q[i], x)
LastShown(q, i, v, x) == ShownAt(q, i, v, x) /\ \A j \in 1 .. Len(q) : j > i => ~Shows(q[j], x)
NotShown(q, v, x) == \A i \in 1 .. Len(q) : ~ShownAt(q, i, v, x)

-----------------------------------------------------------------------------
(* The queue r comes from q by emitting m: at says where the items of r     *)
(* come from; what is missing is a preview of m's thing.                    *)
Sent(q, m, r) ==
  /\ r \in Seq(Line) /\ Len(r) \in Nat \ {0} /\ r[Len(r)] = m
  /\ \E at \in [1 .. Len(r) - 1 -> 1 .. Len(q)] :
       /\ \A i \in 1 .. Len(r) - 1 : r[i] = q[at[i]]
       /\ \A i, j \in 1 .. Len(r) - 1 : i < j => at[i] < at[j]
       /\ \A k \in 1 .. Len(q) :
            (\E i \in 1 .. Len(r) - 1 : at[i] = k) \/ (q[k].key = m.key /\ m.key # 0 /\ q[k].preview)

(* What Emit does, by positions. *)
LEMMA EmitSends ==
  ASSUME NEW q \in Seq(Line), NEW m \in Line, NEW r, r = Emit(q, m)
  PROVE  Sent(q, m, r)
<1>1. PICK keep : keep = {i \in DOMAIN q : ~(q[i].key = m.key /\ m.key # 0 /\ q[i].preview)}
  OBVIOUS
<1>2. PICK f : f = KeepAt(q, keep)
  OBVIOUS
<1>3. r = Append(f, m)
  BY <1>1, <1>2 DEF Emit, Superseded, Filter
<1>4. keep \in SUBSET DOMAIN q /\ DOMAIN q = 1 .. Len(q)
  BY <1>1
<1>5. f \in Seq(Line) /\ KeepsInOrder(q, keep)
  BY <1>2, <1>4, KeepAtProperties
<1>6. PICK n \in Nat : n = Cardinality(keep)
  BY <1>5 DEF KeepsInOrder
<1>7. /\ Len(f) = n /\ \A k \in 1 .. n : Nth(keep, k) \in keep /\ f[k] = q[Nth(keep, k)]
      /\ \A k, l \in 1 .. n : k < l => Nth(keep, k) < Nth(keep, l)
      /\ \A i \in keep : \E k \in 1 .. n : Nth(keep, k) = i
  BY <1>2, <1>5, <1>6 DEF KeepsInOrder
<1>8. /\ r \in Seq(Line) /\ Len(r) = n + 1 /\ r[n + 1] = m
      /\ \A k \in 1 .. n : r[k] = f[k]
  BY <1>3, <1>5, <1>7
<1>9. Len(r) \in Nat \ {0} /\ Len(r) - 1 = n /\ r[Len(r)] = m
  BY <1>6, <1>8
<1>10. PICK at : at = [k \in 1 .. n |-> Nth(keep, k)]
  OBVIOUS
<1>11. at \in [1 .. n -> 1 .. Len(q)] /\ \A k \in 1 .. n : at[k] = Nth(keep, k)
  BY <1>4, <1>7, <1>10
<1>12. \A i \in 1 .. n : r[i] = q[at[i]]
  BY <1>7, <1>8, <1>11
<1>13. \A i, j \in 1 .. n : i < j => at[i] < at[j]
  BY <1>7, <1>11
<1>14. ASSUME NEW k \in 1 .. Len(q)
       PROVE  (\E i \in 1 .. n : at[i] = k) \/ (q[k].key = m.key /\ m.key # 0 /\ q[k].preview)
  <2>1. CASE k \in keep
    <3>1. PICK i \in 1 .. n : Nth(keep, i) = k
      BY <1>7, <2>1
    <3> QED
      BY <1>11, <3>1
  <2>2. CASE k \notin keep
    BY <1>1, <1>4, <2>2
  <2> QED
    BY <2>1, <2>2
<1> QED
  BY <1>8, <1>9, <1>11, <1>12, <1>13, <1>14 DEF Sent

(* What is in the new queue is the message or was there. *)
LEMMA SentFrom ==
  ASSUME NEW q \in Seq(Line), NEW m \in Line, NEW r, Sent(q, m, r), NEW i \in 1 .. Len(r)
  PROVE  (i = Len(r) /\ r[i] = m) \/ \E j \in 1 .. Len(q) : r[i] = q[j]
<1>1. i = Len(r) \/ i \in 1 .. Len(r) - 1
  BY DEF Sent
<1> QED
  BY <1>1 DEF Sent

(* A message that is no preview stays. *)
LEMMA SentKeeps ==
  ASSUME NEW q \in Seq(Line), NEW m \in Line, NEW r, Sent(q, m, r), NEW k \in 1 .. Len(q), ~q[k].preview
  PROVE  \E i \in 1 .. Len(r) : r[i] = q[k]
<1>1. PICK n \in Nat : n = Len(r) - 1
  BY DEF Sent
<1>2. \E i \in 1 .. n : r[i] = q[k]
  BY <1>1 DEF Sent
<1>3. 1 .. n \subseteq 1 .. Len(r)
  BY <1>1 DEF Sent
<1> QED
  BY <1>2, <1>3

(* A message of the last view keeps the queue in the order of the views. *)
LEMMA SentOrdered ==
  ASSUME NEW q \in Seq(Line), NEW m \in Line, NEW r, Sent(q, m, r), Ordered(q),
         \A i \in 1 .. Len(q) : q[i].view <= m.view /\ (Begins(m) => q[i].view < m.view)
  PROVE  Ordered(r)
<1>1. PICK n \in Nat : n = Len(r) - 1 /\ Len(r) = n + 1 /\ r[n + 1] = m
  BY DEF Sent
<1>2. PICK at \in [1 .. n -> 1 .. Len(q)] :
        /\ \A i \in 1 .. n : r[i] = q[at[i]]
        /\ \A i, j \in 1 .. n : i < j => at[i] < at[j]
  BY <1>1 DEF Sent
<1> SUFFICES ASSUME NEW i \in 1 .. Len(r), NEW j \in 1 .. Len(r), i < j
             PROVE  r[i].view <= r[j].view /\ (Begins(r[j]) => r[i].view < r[j].view)
  BY DEF Ordered
<1>3. i \in 1 .. n /\ (j \in 1 .. n \/ j = n + 1)
  BY <1>1
<1>4. CASE j \in 1 .. n
  <2>1. r[i] = q[at[i]] /\ r[j] = q[at[j]] /\ at[i] < at[j]
    BY <1>2, <1>3, <1>4
  <2>2. at[i] \in 1 .. Len(q) /\ at[j] \in 1 .. Len(q)
    BY <1>2, <1>3, <1>4
  <2> QED
    BY <2>1, <2>2 DEF Ordered
<1>5. CASE j = n + 1
  BY <1>1, <1>2, <1>3, <1>5
<1> QED
  BY <1>3, <1>4, <1>5

(* The last message that shows x is the new one, or it was the last before. *)
LEMMA SentLast ==
  ASSUME NEW q \in Seq(Line), NEW m \in Line, NEW r, Sent(q, m, r), NEW v, NEW x \in Things,
         NEW i \in 1 .. Len(r), LastShown(r, i, v, x)
  PROVE  \/ r[i] = m /\ Shows(m, x)
         \/ ~Shows(m, x) /\ \E k \in 1 .. Len(q) : r[i] = q[k] /\ LastShown(q, k, v, x)
<1>1. PICK n \in Nat : n = Len(r) - 1 /\ Len(r) = n + 1 /\ r[n + 1] = m
  BY DEF Sent
<1>2. PICK at \in [1 .. n -> 1 .. Len(q)] :
        /\ \A h \in 1 .. n : r[h] = q[at[h]]
        /\ \A h, j \in 1 .. n : h < j => at[h] < at[j]
        /\ \A k \in 1 .. Len(q) :
             (\E h \in 1 .. n : at[h] = k) \/ (q[k].key = m.key /\ m.key # 0 /\ q[k].preview)
  BY <1>1 DEF Sent
<1>3. i = n + 1 \/ i \in 1 .. n
  BY <1>1
<1>4. CASE i = n + 1
  BY <1>1, <1>4 DEF LastShown, ShownAt
<1>5. CASE i \in 1 .. n
  <2>1. ~Shows(m, x)
    <3>1. n + 1 \in 1 .. Len(r) /\ n + 1 > i
      BY <1>1, <1>5
    <3> QED
      BY <1>1, <3>1 DEF LastShown
  <2>2. PICK k \in 1 .. Len(q) : k = at[i] /\ r[i] = q[k]
    BY <1>2, <1>5
  <2>3. ASSUME NEW j \in 1 .. Len(q), j > k, Shows(q[j], x) PROVE FALSE
    <3>1. CASE q[j].key = m.key /\ m.key # 0 /\ q[j].preview
      <4>1. q[j] \in Line
        OBVIOUS
      <4>2. q[j].kind = "caption" /\ m.kind = "caption"
        BY <3>1, <4>1 DEF Line
      <4>3. q[j].key = x
        BY <2>3, <4>2 DEF Shows
      <4> QED
        BY <2>1, <3>1, <4>2, <4>3 DEF Shows
    <3>2. ASSUME NEW h \in 1 .. n, at[h] = j PROVE FALSE
      <4>1. h > i
        <5>1. h # i /\ ~(h < i)
          BY <1>2, <1>5, <2>2, <2>3, <3>2
        <5> QED
          BY <1>5, <5>1
      <4>2. h \in 1 .. Len(r) /\ r[h] = q[j]
        BY <1>1, <1>2, <3>2
      <4> QED
        BY <2>3, <4>1, <4>2 DEF LastShown
    <3> QED
      BY <1>2, <3>1, <3>2
  <2>4. ShownAt(q, k, v, x)
    BY <2>2 DEF LastShown, ShownAt
  <2> QED
    BY <2>1, <2>2, <2>3, <2>4 DEF LastShown
<1> QED
  BY <1>3, <1>4, <1>5

(* What is not shown after the message was not shown before it. *)
LEMMA SentNotShown ==
  ASSUME NEW q \in Seq(Line), NEW m \in Line, NEW r, Sent(q, m, r), NEW v, NEW x \in Things,
         m.view = v, NotShown(r, v, x)
  PROVE  NotShown(q, v, x) /\ ~Shows(m, x)
<1>1. PICK n \in Nat : n = Len(r) - 1 /\ Len(r) = n + 1 /\ r[n + 1] = m
  BY DEF Sent
<1>2. ~Shows(m, x)
  <2>1. n + 1 \in 1 .. Len(r)
    BY <1>1
  <2> QED
    BY <1>1, <2>1 DEF NotShown, ShownAt
<1>3. ASSUME NEW k \in 1 .. Len(q), ShownAt(q, k, v, x) PROVE FALSE
  <2>1. q[k] \in Line
    OBVIOUS
  <2>2. CASE \E i \in 1 .. Len(r) : r[i] = q[k]
    BY <1>3, <2>2 DEF NotShown, ShownAt
  <2>3. CASE q[k].key = m.key /\ m.key # 0 /\ q[k].preview
    BY <1>2, <1>3, <2>1, <2>3 DEF Line, ShownAt, Shows
  <2>4. ASSUME NEW h \in 1 .. Len(r) - 1 PROVE h \in 1 .. Len(r)
    BY <1>1
  <2> QED
    BY <2>2, <2>3, <2>4 DEF Sent
<1> QED
  BY <1>2, <1>3 DEF NotShown

-----------------------------------------------------------------------------
Commands ==
  {c \in [step: {"none", "tell", "save", "reply"}, thing: Things \cup {0}, data: Contents \cup Page,
          reply: {"ok", "error", "opened", "page", "none"}] :
     /\ c.step = "tell" => c.thing \in Things /\ c.data \in Contents
     /\ c.step = "save" => c.data \in Contents
     /\ c.step = "reply" => c.reply \in {"ok", "error", "opened", "page"}
     /\ c.step = "reply" /\ c.reply = "page" => c.data \in Page
     /\ c.step = "reply" /\ c.reply # "page" => c.data \in Contents}

DeskTypes ==
  /\ deskView \in Nat /\ deskToken \in Nat /\ deskChange \in Nat
  /\ deskProj \in Contents /\ deskPending \in Contents /\ deskDisk \in [1 .. MaxViews -> Contents]
  /\ deskLines \in Seq(Line) /\ deskCmd \in Commands
  /\ DOMAIN deskUi = {"view", "things", "paged", "opened"} /\ deskUi.view \in Nat
  /\ DOMAIN deskUi.things = Things

Opening == deskCmd.step = "reply" /\ deskCmd.reply = "opened"
Paging == deskCmd.step = "reply" /\ deskCmd.reply = "page"

(* The window is in the current view, or the message that begins it is     *)
(* still to come, ahead of everything else about that view.                *)
ViewsOK ==
  /\ Ordered(deskLines) /\ deskUi.view <= deskView
  /\ \A i \in 1 .. Len(deskLines) :
       /\ deskUi.view <= deskLines[i].view /\ deskLines[i].view <= deskView
       /\ Begins(deskLines[i]) => deskUi.view < deskLines[i].view
  /\ Opening => /\ ~LiveActive /\ deskUi.view < deskView
                /\ \A i \in 1 .. Len(deskLines) : deskLines[i].view < deskView
  /\ \/ deskUi.view = deskView \/ Opening
     \/ \E i \in 1 .. Len(deskLines) : Begins(deskLines[i]) /\ deskLines[i].view = deskView

(* The current view was opened with d. *)
OpenedWith(d) ==
  /\ deskUi.view = deskView => deskUi.opened = d
  /\ \A i \in 1 .. Len(deskLines) : Begins(deskLines[i]) /\ deskLines[i].view = deskView => deskLines[i].data = d
  /\ Opening => deskCmd.data = d

(* While pages may be asked for, the projection is what was opened. *)
TokenOK ==
  deskToken # 0 =>
    /\ deskToken = deskView /\ ~LiveActive
    /\ deskView \notin deskUntold /\ deskCmd.step # "tell" => OpenedWith(deskProj)

(* A page is of what its view was opened with. *)
PagesOK ==
  /\ PagesAgree
  /\ \A i \in 1 .. Len(deskLines) : deskLines[i].kind = "page" /\ deskLines[i].view \notin deskUntold =>
       /\ deskUi.view = deskLines[i].view =>
            deskLines[i].data.content = deskUi.opened[deskLines[i].data.thing]
       /\ \A j \in 1 .. Len(deskLines) : Begins(deskLines[j]) /\ deskLines[j].view = deskLines[i].view =>
            deskLines[i].data.content = deskLines[j].data[deskLines[i].data.thing]
  /\ Paging => /\ deskToken # 0 /\ deskUi.view = deskView
               /\ deskCmd.data.content = deskProj[deskCmd.data.thing]

(* What the window shows of x when nothing more is sent. *)
Displayed(x) ==
  /\ deskUi.view = deskView =>
       deskUi.things[x] = deskProj[x] \/ (deskUi.things[x] = 0 /\ deskUi.opened # Nothing)
  /\ \A i \in 1 .. Len(deskLines) :
       Begins(deskLines[i]) /\ deskLines[i].view = deskView => deskProj[x] = 0 \/ deskLines[i].data # Nothing
  /\ Opening => deskCmd.data # Nothing

Current(x) ==
  /\ \A i \in 1 .. Len(deskLines) :
       LastShown(deskLines, i, deskView, x) => Content(deskLines[i], x) = deskProj[x]
  /\ NotShown(deskLines, deskView, x) => Displayed(x)

CurrentOK ==
  ~deskBroken /\ deskView \notin deskUntold => \A x \in Things \ deskOvertaken : ~Telling(x) => Current(x)

DeskInv == DeskTypes /\ ViewsOK /\ TokenOK /\ PagesOK /\ CurrentOK

(* The message an edit owes shows its thing as it is, unless a live event  *)
(* has overtaken it.                                                       *)
OwedOK == \A x \in Things \ deskOvertaken : Telling(x) => deskCmd.data[x] = deskProj[x]

-----------------------------------------------------------------------------
(* A message of the current view that begins none is sent. *)
Sends(m) ==
  /\ m \in Line /\ Sent(deskLines, m, deskLines') /\ m.view = deskView /\ ~Begins(m)
  /\ deskView' = deskView /\ deskUi' = deskUi /\ ~Opening /\ ~Opening'

(* The queue is a sequence of lines. *)
LEMMA QueueIsSeq == ASSUME DeskTypes PROVE deskLines \in Seq(Line) /\ Len(deskLines) \in Nat
BY DEF DeskTypes

(* What is queued after a message of the view was queued before it, or is it. *)
LEMMA SendsFrom ==
  ASSUME DeskTypes, NEW m, Sends(m), NEW i \in 1 .. Len(deskLines')
  PROVE  /\ deskLines'[i] \in Line
         /\ (deskLines'[i] = m) \/ \E j \in 1 .. Len(deskLines) : deskLines'[i] = deskLines[j]
<1>1. deskLines' \in Seq(Line)
  BY DEF Sends, Sent
<1> QED
  BY <1>1, SentFrom, QueueIsSeq DEF Sends

(* Such a message leaves the order of the views as it is. *)
LEMMA SendsViews ==
  ASSUME DeskTypes, ViewsOK, NEW m, Sends(m)
  PROVE  ViewsOK'
<1>1. deskLines \in Seq(Line) /\ m \in Line /\ Sent(deskLines, m, deskLines')
  BY QueueIsSeq DEF Sends
<1>2. Ordered(deskLines')
  BY <1>1, SentOrdered DEF Sends, ViewsOK
<1>3. ASSUME NEW i \in 1 .. Len(deskLines')
      PROVE  /\ deskUi.view <= deskLines'[i].view /\ deskLines'[i].view <= deskView
             /\ Begins(deskLines'[i]) => deskUi.view < deskLines'[i].view
  <2>1. CASE deskLines'[i] = m
    BY <2>1 DEF Sends, ViewsOK, DeskTypes
  <2>2. ASSUME NEW j \in 1 .. Len(deskLines), deskLines'[i] = deskLines[j]
        PROVE  /\ deskUi.view <= deskLines'[i].view /\ deskLines'[i].view <= deskView
               /\ Begins(deskLines'[i]) => deskUi.view < deskLines'[i].view
    BY <2>2 DEF ViewsOK
  <2> QED
    BY <2>1, <2>2, SendsFrom
<1>4. ASSUME NEW k \in 1 .. Len(deskLines), Begins(deskLines[k]), deskLines[k].view = deskView
      PROVE  \E i \in 1 .. Len(deskLines') : Begins(deskLines'[i]) /\ deskLines'[i].view = deskView
  <2>1. deskLines[k] \in Line
    BY <1>1
  <2>2. ~deskLines[k].preview
    BY <1>4, <2>1 DEF Line, Begins
  <2>3. PICK i \in 1 .. Len(deskLines') : deskLines'[i] = deskLines[k]
    BY <1>1, <2>2, SentKeeps
  <2> QED
    BY <1>4, <2>3
<1> QED
  BY <1>2, <1>3, <1>4 DEF ViewsOK, Sends

(* The messages that begin a view are the same. *)
LEMMA SendsBegins ==
  ASSUME DeskTypes, NEW m, Sends(m), NEW i \in 1 .. Len(deskLines'), Begins(deskLines'[i])
  PROVE  \E j \in 1 .. Len(deskLines) : deskLines'[i] = deskLines[j]
BY SendsFrom DEF Sends

(* It leaves what pages may be asked for as it is. *)
LEMMA SendsToken ==
  ASSUME DeskTypes, TokenOK, NEW m, Sends(m), deskProj' = deskProj, LiveActive' => LiveActive,
         deskToken' = deskToken, deskUntold \subseteq deskUntold', deskCmd.step # "tell"
  PROVE  TokenOK'
<1> SUFFICES ASSUME deskToken' # 0
             PROVE  /\ deskToken' = deskView' /\ ~LiveActive'
                    /\ deskView' \notin deskUntold' => OpenedWith(deskProj)'
  BY DEF TokenOK
<1>1. deskView' \notin deskUntold' => OpenedWith(deskProj)
  BY DEF TokenOK, Sends
<1>2. OpenedWith(deskProj) => OpenedWith(deskProj)'
  BY SendsBegins DEF OpenedWith, Sends
<1> QED
  BY <1>1, <1>2 DEF TokenOK, Sends

(* Pages agree with their view when the new one does. *)
LEMMA SendsPages ==
  ASSUME DeskTypes, PagesOK, NEW m, Sends(m), ~Paging', deskUntold \subseteq deskUntold',
         m.kind = "page" /\ deskView \notin deskUntold =>
           deskUi.view = deskView /\ m.data.content = deskUi.opened[m.data.thing]
           /\ \A j \in 1 .. Len(deskLines) : ~(Begins(deskLines[j]) /\ deskLines[j].view = deskView)
  PROVE  PagesOK'
<1>1. PagesAgree'
  BY DEF PagesAgree, PagesOK, Sends
<1>2. ASSUME NEW i \in 1 .. Len(deskLines'), deskLines'[i].kind = "page", deskLines'[i].view \notin deskUntold'
      PROVE  /\ deskUi.view = deskLines'[i].view =>
                  deskLines'[i].data.content = deskUi.opened[deskLines'[i].data.thing]
             /\ \A j \in 1 .. Len(deskLines') : Begins(deskLines'[j]) /\ deskLines'[j].view = deskLines'[i].view =>
                  deskLines'[i].data.content = deskLines'[j].data[deskLines'[i].data.thing]
  <2>1. CASE deskLines'[i] = m
    BY <1>2, <2>1, SendsBegins DEF Sends
  <2>2. ASSUME NEW k \in 1 .. Len(deskLines), deskLines'[i] = deskLines[k]
        PROVE  /\ deskUi.view = deskLines'[i].view =>
                    deskLines'[i].data.content = deskUi.opened[deskLines'[i].data.thing]
               /\ \A j \in 1 .. Len(deskLines') : Begins(deskLines'[j]) /\ deskLines'[j].view = deskLines'[i].view =>
                    deskLines'[i].data.content = deskLines'[j].data[deskLines'[i].data.thing]
    BY <1>2, <2>2, SendsBegins DEF PagesOK
  <2> QED
    BY <2>1, <2>2, SendsFrom
<1> QED
  BY <1>1, <1>2 DEF PagesOK, Sends

(* The message shows x as it is, or says nothing of it. *)
LEMMA SendsCurrent ==
  ASSUME DeskTypes, NEW m, Sends(m), NEW x \in Things,
         Shows(m, x) => Content(m, x) = deskProj'[x],
         ~Shows(m, x) => Current(x) /\ deskProj'[x] = deskProj[x]
  PROVE  Current(x)'
<1>1. deskLines \in Seq(Line) /\ m \in Line /\ Sent(deskLines, m, deskLines')
  BY QueueIsSeq DEF Sends
<1>2. ASSUME NEW i \in 1 .. Len(deskLines'), LastShown(deskLines', i, deskView, x)
      PROVE  Content(deskLines'[i], x) = deskProj'[x]
  <2>1. CASE deskLines'[i] = m /\ Shows(m, x)
    BY <2>1
  <2>2. ASSUME ~Shows(m, x), NEW k \in 1 .. Len(deskLines), deskLines'[i] = deskLines[k],
               LastShown(deskLines, k, deskView, x)
        PROVE  Content(deskLines'[i], x) = deskProj'[x]
    BY <2>2 DEF Current
  <2> QED
    BY <1>1, <1>2, <2>1, <2>2, SentLast
<1>3. ASSUME NotShown(deskLines', deskView, x)
      PROVE  Displayed(x)'
  <2>1. NotShown(deskLines, deskView, x) /\ ~Shows(m, x)
    BY <1>1, <1>3, SentNotShown DEF Sends
  <2>2. Displayed(x) /\ deskProj'[x] = deskProj[x]
    BY <2>1 DEF Current
  <2> QED
    BY <2>2, SendsBegins DEF Displayed, Sends
<1>4. deskView' = deskView
  BY DEF Sends
<1> QED
  BY <1>2, <1>3, <1>4 DEF Current

-----------------------------------------------------------------------------
(* Initially nothing is shown, queued or asked for. *)
LEMMA DeskInitInv == DeskInit => DeskInv
<1> SUFFICES ASSUME DeskInit PROVE DeskInv
  OBVIOUS
<1>1. Nothing \in Contents /\ NoCommand \in Commands /\ deskCmd = NoCommand
  BY DEF Nothing, Contents, NoCommand, Commands, DeskInit
<1>2. deskLines = <<>> /\ Len(deskLines) = 0 /\ deskLines \in Seq(Line)
  BY DEF DeskInit
<1>3. ~Opening /\ ~Paging
  BY <1>1 DEF Opening, Paging, NoCommand
<1>4. DeskTypes
  BY <1>1, <1>2 DEF DeskInit, DeskTypes, Nothing
<1>5. ViewsOK
  BY <1>2, <1>3 DEF DeskInit, ViewsOK, Ordered
<1>6. TokenOK
  BY DEF DeskInit, TokenOK
<1>7. PagesOK
  BY <1>2, <1>3 DEF DeskInit, PagesOK, PagesAgree
<1>8. CurrentOK
  BY <1>2, <1>3 DEF DeskInit, CurrentOK, Current, LastShown, NotShown, Displayed, Nothing
<1> QED
  BY <1>4, <1>5, <1>6, <1>7, <1>8 DEF DeskInv

(* With the queue empty, what will be shown is what is shown. *)
LEMMA InvGivesCurrent == DeskInv => UiCurrent
<1> SUFFICES ASSUME DeskInv PROVE UiCurrent
  OBVIOUS
<1>1. PagesAgree
  BY DEF DeskInv, PagesOK
<1>2. ASSUME deskLines = <<>>, BetweenCommands, ~deskBroken, deskView \notin deskUntold
      PROVE  /\ deskUi.view = deskView
             /\ \A x \in Things \ deskOvertaken : \/ deskUi.things[x] = deskProj[x]
                                                  \/ deskUi.things[x] = 0 /\ deskUi.opened # Nothing
  <2>1. Len(deskLines) = 0
    BY <1>2
  <2>2. ~Opening /\ \A x \in Things : ~Telling(x)
    BY <1>2 DEF Opening, Telling, BetweenCommands
  <2>3. deskUi.view = deskView
    BY <2>1, <2>2 DEF DeskInv, ViewsOK
  <2>4. \A x \in Things \ deskOvertaken : Current(x)
    BY <1>2, <2>2 DEF DeskInv, CurrentOK
  <2> QED
    BY <2>1, <2>3, <2>4 DEF Current, NotShown, Displayed
<1> QED
  BY <1>1, <1>2 DEF UiCurrent

-----------------------------------------------------------------------------
(* What the messages are. *)
(* Replies and notices show nothing. *)
LEMMA PlainLine ==
  ASSUME deskView \in Nat, NEW kind \in {"finished", "notice", "tail", "ok", "error"}, NEW data \in Contents, NEW m,
         m = [kind |-> kind, view |-> deskView, key |-> 0, preview |-> FALSE, data |-> data]
  PROVE  m \in Line /\ m.view = deskView /\ m.kind = kind /\ ~Begins(m) /\ \A x \in Things : ~Shows(m, x)
BY DEF Line, Kinds, Begins, Shows

(* A caption shows its thing. *)
LEMMA CaptionLine ==
  ASSUME deskView \in Nat, NEW thing \in Things, NEW preview \in BOOLEAN, NEW data \in Contents, NEW m,
         m = [kind |-> "caption", view |-> deskView, key |-> thing, preview |-> preview, data |-> data]
  PROVE  /\ m \in Line /\ m.view = deskView /\ m.kind = "caption" /\ ~Begins(m)
         /\ \A x \in Things : (Shows(m, x) <=> x = thing) /\ Content(m, x) = data[x]
BY DEF Line, Kinds, Begins, Shows, Content

(* A page shows its thing. *)
LEMMA PageLine ==
  ASSUME deskView \in Nat, NEW data \in Page, NEW m,
         m = [kind |-> "page", view |-> deskView, key |-> 0, preview |-> FALSE, data |-> data]
  PROVE  /\ m \in Line /\ m.view = deskView /\ m.kind = "page" /\ m.data = data /\ ~Begins(m)
         /\ \A x \in Things : (Shows(m, x) <=> x = data.thing) /\ Content(m, x) = data.content
BY DEF Line, Kinds, Begins, Shows, Content

(* A session or an opened archive begins a view and shows nothing. *)
LEMMA BeginLine ==
  ASSUME NEW view \in Nat, NEW kind \in {"session", "opened"}, NEW data \in Contents, NEW m,
         m = [kind |-> kind, view |-> view, key |-> 0, preview |-> FALSE, data |-> data]
  PROVE  /\ m \in Line /\ m.view = view /\ m.kind = kind /\ m.data = data /\ Begins(m)
         /\ \A x \in Things : ~Shows(m, x)
BY DEF Line, Kinds, Begins, Shows

(* While the live task runs, no archive is being opened or paged. *)
LEMMA LiveIsAlone ==
  ASSUME DeskInv, LiveActive
  PROVE  deskToken = 0 /\ ~Opening /\ ~Paging
BY DEF DeskInv, TokenOK, ViewsOK, PagesOK

-----------------------------------------------------------------------------
(* The live task *)

(* The live task sends a message that shows nothing. *)
LEMMA TaskTells ==
  ASSUME DeskInv, LiveActive, NEW m, m \in Line, m.view = deskView, ~Begins(m), m.kind # "page",
         \A x \in Things : ~Shows(m, x), deskLines' = Emit(deskLines, m),
         UNCHANGED <<deskView, deskProj, deskCmd, deskToken, deskUi, deskBroken, deskUntold, deskOvertaken>>
  PROVE  deskLines' \in Seq(Line) /\ ViewsOK' /\ TokenOK' /\ PagesOK' /\ CurrentOK'
<1>1. DeskTypes /\ ViewsOK /\ PagesOK /\ CurrentOK /\ deskLines \in Seq(Line)
  BY DEF DeskInv, DeskTypes
<1>2. deskToken = 0 /\ ~Opening /\ ~Paging /\ ~Opening' /\ ~Paging'
  BY LiveIsAlone DEF Opening, Paging
<1>3. Sent(deskLines, m, deskLines')
  BY <1>1, EmitSends
<1>4. Sends(m)
  BY <1>2, <1>3 DEF Sends
<1>5. ViewsOK'
  BY <1>1, <1>4, SendsViews
<1>6. TokenOK'
  BY <1>2 DEF TokenOK
<1>7. PagesOK'
  BY <1>1, <1>2, <1>4, SendsPages
<1>8. ASSUME NEW x \in Things \ deskOvertaken', ~Telling(x)', ~deskBroken', deskView' \notin deskUntold'
      PROVE  Current(x)'
  <2>1. Current(x)
    BY <1>1, <1>8 DEF CurrentOK, Telling
  <2> QED
    BY <1>1, <1>4, <2>1, SendsCurrent
<1> QED
  BY <1>3, <1>5, <1>6, <1>7, <1>8 DEF Sent, CurrentOK

(* An accepted event: the newest caption is sent, or the observer is broken. *)
LEMMA ObserveInv ==
  ASSUME DeskInv, NEW x \in Things, NEW preview \in BOOLEAN, ObserveEvent(x, preview)
  PROVE  DeskInv'
<1>1. DeskTypes /\ ViewsOK /\ PagesOK /\ CurrentOK /\ deskLines \in Seq(Line) /\ deskView \in Nat
  BY DEF DeskInv, DeskTypes
<1>2. LiveActive
  BY DEF ObserveEvent, LiveActive
<1>3. deskToken = 0 /\ ~Opening /\ ~Paging /\ ~Opening' /\ ~Paging'
  BY <1>2, LiveIsAlone DEF ObserveEvent, Opening, Paging
<1>4. /\ deskChange' \in Nat /\ deskProj' \in Contents /\ deskProj'[x] = deskChange + 1
      /\ \A y \in Things : y # x => deskProj'[y] = deskProj[y]
  BY DEF DeskInv, DeskTypes, Contents, ObserveEvent
<1>5. TokenOK'
  BY <1>3 DEF TokenOK, ObserveEvent
<1>6. CASE HasRoom(deskLines, x)
  <2>1. PICK m : m = [kind |-> "caption", view |-> deskView, key |-> x, preview |-> preview, data |-> deskProj']
    OBVIOUS
  <2>2. deskLines' = Emit(deskLines, m)
    BY <1>6, <2>1 DEF ObserveEvent, Message, MessageOf
  <2>3. /\ m \in Line /\ m.view = deskView /\ m.kind = "caption" /\ ~Begins(m)
        /\ \A y \in Things : (Shows(m, y) <=> y = x) /\ Content(m, y) = deskProj'[y]
    BY <1>1, <1>4, <2>1, CaptionLine
  <2>4. Sent(deskLines, m, deskLines')
    BY <1>1, <2>2, <2>3, EmitSends
  <2>5. Sends(m)
    BY <1>3, <2>3, <2>4 DEF Sends, ObserveEvent
  <2>6. ViewsOK'
    BY <1>1, <2>5, SendsViews
  <2>7. PagesOK'
    BY <1>1, <1>3, <2>3, <2>5, SendsPages DEF ObserveEvent
  <2>8. ASSUME NEW y \in Things \ deskOvertaken', ~Telling(y)', ~deskBroken', deskView' \notin deskUntold'
        PROVE  Current(y)'
    <3>1. y # x => Current(y) /\ deskProj'[y] = deskProj[y]
      BY <1>1, <1>4, <2>8 DEF CurrentOK, Telling, ObserveEvent
    <3> QED
      BY <1>1, <2>3, <2>5, <3>1, SendsCurrent
  <2>9. DeskTypes'
    BY <1>1, <1>4, <2>4 DEF DeskTypes, ObserveEvent, Sent
  <2> QED
    BY <1>5, <2>6, <2>7, <2>8, <2>9 DEF DeskInv, CurrentOK
<1>7. CASE ~HasRoom(deskLines, x)
  <2>1. deskBroken' /\ deskLines' = deskLines
    BY <1>7 DEF ObserveEvent
  <2>2. DeskTypes'
    BY <1>1, <1>4, <2>1 DEF DeskTypes, ObserveEvent
  <2>3. ViewsOK'
    BY <1>1, <1>3, <2>1 DEF ViewsOK, ObserveEvent
  <2>4. PagesOK'
    BY <1>1, <1>3, <2>1 DEF PagesOK, PagesAgree, ObserveEvent
  <2> QED
    BY <1>5, <2>1, <2>2, <2>3, <2>4 DEF DeskInv, CurrentOK
<1> QED
  BY <1>6, <1>7

(* run_live returns: the finished message is sent, or waits. *)
LEMMA LiveEndsInv ==
  ASSUME DeskInv, LiveEnds PROVE DeskInv'
<1>1. DeskTypes /\ ViewsOK /\ PagesOK /\ CurrentOK /\ deskLines \in Seq(Line) /\ deskView \in Nat
  BY DEF DeskInv, DeskTypes
<1>2. LiveActive
  BY DEF LiveEnds, LiveActive
<1>3. deskToken = 0 /\ ~Opening /\ ~Paging
  BY <1>2, LiveIsAlone
<1>4. deskDisk' \in [1 .. MaxViews -> Contents]
  BY <1>1 DEF LiveEnds, DeskTypes
<1>5. CASE HasRoom(deskLines, 0)
  <2>1. PICK m : m = [kind |-> "finished", view |-> deskView, key |-> 0, preview |-> FALSE, data |-> Nothing]
    OBVIOUS
  <2>2. deskLines' = Emit(deskLines, m)
    BY <1>5, <2>1 DEF LiveEnds, Message, MessageOf
  <2>3. Nothing \in Contents
    BY DEF Nothing, Contents
  <2>4. m \in Line /\ m.view = deskView /\ m.kind = "finished" /\ ~Begins(m) /\ \A x \in Things : ~Shows(m, x)
    BY <1>1, <2>1, <2>3, PlainLine
  <2>5. UNCHANGED <<deskView, deskProj, deskCmd, deskToken, deskUi, deskBroken, deskUntold, deskOvertaken>>
    BY DEF LiveEnds
  <2>6. deskLines' \in Seq(Line) /\ ViewsOK' /\ TokenOK' /\ PagesOK' /\ CurrentOK'
    BY <1>2, <2>2, <2>4, <2>5, TaskTells
  <2>7. DeskTypes'
    BY <1>1, <1>4, <2>6 DEF DeskTypes, LiveEnds
  <2> QED
    BY <2>6, <2>7 DEF DeskInv
<1>6. CASE ~HasRoom(deskLines, 0)
  <2>1. deskTask' = "tail" /\ deskLines' = deskLines
    BY <1>6 DEF LiveEnds
  <2>2. DeskTypes'
    BY <1>1, <1>4, <2>1 DEF DeskTypes, LiveEnds
  <2>3. ViewsOK'
    BY <1>1, <1>3, <2>1 DEF ViewsOK, LiveEnds, Opening
  <2>4. TokenOK'
    BY <1>3 DEF TokenOK, LiveEnds
  <2>5. PagesOK'
    BY <1>1, <1>3, <2>1 DEF PagesOK, PagesAgree, LiveEnds, Paging
  <2>6. CurrentOK'
    BY <1>1, <1>3, <2>1 DEF CurrentOK, Current, Displayed, LiveEnds, Telling, Opening
  <2> QED
    BY <2>2, <2>3, <2>4, <2>5, <2>6 DEF DeskInv
<1> QED
  BY <1>5, <1>6

(* The closing messages of the live task. *)
LEMMA TaskSendsInv ==
  ASSUME DeskInv, TaskSends PROVE DeskInv'
<1>1. DeskTypes /\ ViewsOK /\ PagesOK /\ CurrentOK /\ deskLines \in Seq(Line) /\ deskView \in Nat
  BY DEF DeskInv, DeskTypes
<1>2. LiveActive
  BY DEF TaskSends, LiveActive
<1>3. deskToken = 0 /\ ~Opening /\ ~Paging
  BY <1>2, LiveIsAlone
<1>4. CASE HasRoom(deskLines, 0) /\ deskLines' = Emit(deskLines, Message(deskTask, 0, FALSE, Nothing))
  <2>1. PICK m : m = [kind |-> deskTask, view |-> deskView, key |-> 0, preview |-> FALSE, data |-> Nothing]
    OBVIOUS
  <2>2. deskLines' = Emit(deskLines, m)
    BY <1>4, <2>1 DEF Message, MessageOf
  <2>3. Nothing \in Contents /\ deskTask \in {"finished", "notice", "tail", "ok", "error"}
    BY DEF Nothing, Contents, TaskSends
  <2>4. m \in Line /\ m.view = deskView /\ m.kind = deskTask /\ ~Begins(m) /\ \A x \in Things : ~Shows(m, x)
    BY <1>1, <2>1, <2>3, PlainLine
  <2>5. UNCHANGED <<deskView, deskProj, deskCmd, deskToken, deskUi, deskBroken, deskUntold, deskOvertaken>> /\ m.kind # "page"
    BY <2>3, <2>4 DEF TaskSends
  <2>6. deskLines' \in Seq(Line) /\ ViewsOK' /\ TokenOK' /\ PagesOK' /\ CurrentOK'
    BY <1>2, <2>2, <2>4, <2>5, TaskTells
  <2>7. DeskTypes'
    BY <1>1, <2>6 DEF DeskTypes, TaskSends
  <2> QED
    BY <2>6, <2>7 DEF DeskInv
<1>5. CASE deskTask' = "done" /\ deskLines' = deskLines
  <2>2. DeskTypes'
    BY <1>1, <1>5 DEF DeskTypes, TaskSends
  <2>3. ViewsOK'
    BY <1>1, <1>3, <1>5 DEF ViewsOK, TaskSends, Opening
  <2>4. TokenOK'
    BY <1>3 DEF TokenOK, TaskSends
  <2>5. PagesOK'
    BY <1>1, <1>3, <1>5 DEF PagesOK, PagesAgree, TaskSends, Paging
  <2>6. CurrentOK'
    BY <1>1, <1>3, <1>5 DEF CurrentOK, Current, Displayed, TaskSends, Telling, Opening
  <2> QED
    BY <2>2, <2>3, <2>4, <2>5, <2>6 DEF DeskInv
<1> QED
  BY <1>4, <1>5 DEF TaskSends

(* run_live raises. *)
LEMMA LiveRaisesInv ==
  ASSUME DeskInv, LiveRaises PROVE DeskInv'
<1>1. DeskTypes /\ ViewsOK /\ PagesOK /\ CurrentOK
  BY DEF DeskInv
<1>2. deskToken = 0 /\ ~Opening /\ ~Paging
  BY LiveIsAlone DEF LiveRaises, LiveActive
<1>3. DeskTypes'
  BY <1>1 DEF DeskTypes, LiveRaises
<1>4. ViewsOK'
  BY <1>1, <1>2 DEF ViewsOK, LiveRaises, Opening
<1>5. TokenOK'
  BY <1>2 DEF TokenOK, LiveRaises
<1>6. PagesOK'
  BY <1>1, <1>2 DEF PagesOK, PagesAgree, LiveRaises, Paging
<1>7. CurrentOK'
  BY <1>1, <1>2 DEF CurrentOK, Current, Displayed, LiveRaises, Telling, Opening
<1> QED
  BY <1>3, <1>4, <1>5, <1>6, <1>7 DEF DeskInv

(* The worker thread has written the snapshot. *)
LEMMA SnapshotSavedInv ==
  ASSUME DeskInv, SnapshotSaved PROVE DeskInv'
<1>1. DeskTypes /\ ViewsOK /\ PagesOK /\ CurrentOK
  BY DEF DeskInv
<1>2. deskToken = 0 /\ ~Opening /\ ~Paging
  BY LiveIsAlone DEF SnapshotSaved, LiveActive
<1>3. deskDisk' \in [1 .. MaxViews -> Contents]
  BY <1>1 DEF DeskTypes, SnapshotSaved
<1>4. DeskTypes'
  BY <1>1, <1>3 DEF DeskTypes, SnapshotSaved
<1>5. ViewsOK'
  BY <1>1, <1>2 DEF ViewsOK, SnapshotSaved, Opening
<1>6. TokenOK'
  BY <1>2 DEF TokenOK, SnapshotSaved
<1>7. PagesOK'
  BY <1>1, <1>2 DEF PagesOK, PagesAgree, SnapshotSaved, Paging
<1>8. CurrentOK'
  BY <1>1, <1>2 DEF CurrentOK, Current, Displayed, SnapshotSaved, Telling, Opening
<1> QED
  BY <1>4, <1>5, <1>6, <1>7, <1>8 DEF DeskInv

-----------------------------------------------------------------------------
(* Commands *)

(* The message of an edit of x is sent, with the data it has. *)
LEMMA EditTold ==
  ASSUME DeskInv, NEW x \in Things, NEW data \in Contents, deskProj' \in Contents, deskChange' \in Nat,
         deskCmd.step \in {"none", "tell"}, deskLines' = Emit(deskLines, Message("caption", x, FALSE, data)),
         Edited(deskProj'), UNCHANGED <<deskView, deskPending, deskDisk, deskUi, deskBroken, deskUntold>>,
         deskOvertaken \ {x} \subseteq deskOvertaken', x \notin deskOvertaken' => data[x] = deskProj'[x],
         \A y \in Things : y # x => ~Telling(y) /\ deskProj'[y] = deskProj[y]
  PROVE  DeskInv'
<1>1. DeskTypes /\ ViewsOK /\ TokenOK /\ PagesOK /\ CurrentOK /\ deskLines \in Seq(Line) /\ deskView \in Nat
  BY DEF DeskInv, DeskTypes
<1>2. ~Opening /\ ~Paging
  BY DEF Opening, Paging
<1>3. PICK m : m = [kind |-> "caption", view |-> deskView, key |-> x, preview |-> FALSE, data |-> data]
  OBVIOUS
<1>4. deskLines' = Emit(deskLines, m)
  BY <1>3 DEF Message, MessageOf
<1>5. /\ m \in Line /\ m.view = deskView /\ m.kind = "caption" /\ ~Begins(m)
      /\ \A y \in Things : (Shows(m, y) <=> y = x) /\ Content(m, y) = data[y]
  BY <1>1, <1>3 DEF Line, Kinds, Begins, Shows, Content
<1>6. Sent(deskLines, m, deskLines')
  BY <1>1, <1>4, <1>5, EmitSends
<1>7. /\ deskCmd' \in Commands
      /\ \/ deskCmd' = [step |-> "reply", thing |-> 0, data |-> Nothing, reply |-> "ok"]
         \/ deskCmd' = [step |-> "save", thing |-> 0, data |-> deskProj', reply |-> "none"]
  BY DEF Edited, Reply, NoCommand, Commands, Contents, Nothing
<1>8. ~Opening' /\ ~Paging' /\ deskToken' = 0
  BY <1>7 DEF Opening, Paging, Edited
<1>9. Sends(m)
  BY <1>2, <1>5, <1>6, <1>8 DEF Sends
<1>10. DeskTypes'
  BY <1>1, <1>6, <1>7, <1>8 DEF DeskTypes, Sent
<1>11. ViewsOK'
  BY <1>1, <1>9, SendsViews
<1>12. TokenOK'
  BY <1>8 DEF TokenOK
<1>13. PagesOK'
  BY <1>1, <1>5, <1>8, <1>9, SendsPages
<1>14. ASSUME NEW y \in Things \ deskOvertaken', ~deskBroken', deskView' \notin deskUntold' PROVE Current(y)'
  <2>1. y # x => Current(y) /\ deskProj'[y] = deskProj[y]
    BY <1>1, <1>14 DEF CurrentOK
  <2> QED
    BY <1>1, <1>5, <1>9, <1>14, <2>1, SendsCurrent
<1> QED
  BY <1>10, <1>11, <1>12, <1>13, <1>14 DEF DeskInv, CurrentOK

(* An edit: its message is sent, or owed. *)
LEMMA EditThingInv ==
  ASSUME DeskInv, NEW x \in Things, EditThing(x) PROVE DeskInv'
<1>1. DeskTypes /\ ViewsOK /\ TokenOK /\ PagesOK /\ CurrentOK
  BY DEF DeskInv
<1>2. ~Opening /\ ~Paging /\ deskCmd.step = "none" /\ \A y \in Things : ~Telling(y)
  BY DEF EditThing, BetweenCommands, Opening, Paging, Telling
<1>3. /\ deskChange' \in Nat /\ deskProj' \in Contents
      /\ \A y \in Things : y # x => deskProj'[y] = deskProj[y]
  BY <1>1 DEF DeskTypes, Contents, EditThing
<1>4. CASE deskLines' = Emit(deskLines, Message("caption", x, FALSE, deskProj')) /\ Edited(deskProj')
  <2>1. UNCHANGED <<deskView, deskPending, deskDisk, deskUi, deskBroken, deskUntold>>
        /\ deskOvertaken' = deskOvertaken \ {x}
    BY DEF EditThing
  <2> QED
    BY <1>2, <1>3, <1>4, <2>1, EditTold
<1>5. CASE /\ deskCmd' = [NoCommand EXCEPT !.step = "tell", !.thing = x, !.data = deskProj']
           /\ UNCHANGED <<deskLines, deskToken>>
  <2>1. /\ deskCmd' = [step |-> "tell", thing |-> x, data |-> deskProj', reply |-> "none"]
        /\ deskCmd' \in Commands
    BY <1>3, <1>5 DEF NoCommand, Commands
  <2>2. ~Opening' /\ ~Paging' /\ deskCmd'.step = "tell" /\ \A y \in Things : Telling(y)' <=> y = x
    BY <2>1 DEF Opening, Paging, Telling
  <2>3. DeskTypes'
    BY <1>1, <1>3, <1>5, <2>1 DEF DeskTypes, EditThing
  <2>4. ViewsOK'
    BY <1>1, <1>2, <1>5, <2>2 DEF ViewsOK, EditThing
  <2>5. TokenOK'
    BY <1>1, <1>5, <2>2 DEF TokenOK, EditThing, LiveActive
  <2>6. PagesOK'
    BY <1>1, <1>5, <2>2 DEF PagesOK, PagesAgree, EditThing
  <2>7. ASSUME NEW y \in Things \ deskOvertaken', ~Telling(y)', ~deskBroken', deskView' \notin deskUntold'
        PROVE  Current(y)'
    <3>1. y \in Things \ deskOvertaken /\ deskProj'[y] = deskProj[y]
      BY <1>3, <2>2, <2>7 DEF EditThing
    <3>2. Current(y)
      BY <1>1, <1>2, <2>7, <3>1 DEF CurrentOK, EditThing
    <3> QED
      BY <1>5, <2>2, <3>1, <3>2 DEF Current, Displayed, EditThing
  <2> QED
    BY <2>3, <2>4, <2>5, <2>6, <2>7 DEF DeskInv, CurrentOK
<1> QED
  BY <1>4, <1>5 DEF EditThing

(* An edit is kept. *)
LEMMA EditSavedInv ==
  ASSUME DeskInv, EditSaved PROVE DeskInv'
<1>1. DeskTypes /\ ViewsOK /\ TokenOK /\ PagesOK /\ CurrentOK
  BY DEF DeskInv
<1>2. deskCmd.step = "save" /\ deskCmd.data \in Contents
  BY <1>1 DEF EditSaved, DeskTypes, Commands
<1>3. ~Opening /\ ~Paging
  BY <1>2 DEF Opening, Paging
<1>4. /\ deskCmd' = [step |-> "reply", thing |-> 0, data |-> Nothing, reply |-> "ok"]
      /\ deskCmd' \in Commands
  BY DEF EditSaved, Reply, Commands, Contents, Nothing
<1>5. ~Opening' /\ ~Paging' /\ deskCmd'.step = "reply"
  BY <1>4 DEF Opening, Paging
<1>6. deskDisk' \in [1 .. MaxViews -> Contents]
  BY <1>1, <1>2 DEF DeskTypes, EditSaved
<1>7. DeskTypes'
  BY <1>1, <1>4, <1>6 DEF DeskTypes, EditSaved
<1>8. ViewsOK'
  BY <1>1, <1>3, <1>5 DEF ViewsOK, EditSaved
<1>9. TokenOK'
  BY <1>1, <1>2, <1>5 DEF TokenOK, EditSaved, LiveActive, OpenedWith
<1>10. PagesOK'
  BY <1>1, <1>5 DEF PagesOK, PagesAgree, EditSaved
<1>11. ASSUME NEW y \in Things \ deskOvertaken', ~deskBroken', deskView' \notin deskUntold' PROVE Current(y)'
  <2>1. Current(y)
    BY <1>1, <1>2, <1>11 DEF CurrentOK, EditSaved, Telling
  <2> QED
    BY <2>1, <1>5 DEF Current, Displayed, EditSaved
<1> QED
  BY <1>7, <1>8, <1>9, <1>10, <1>11 DEF DeskInv, CurrentOK

(* A page is asked for: it is cut while the projection is what was opened. *)
LEMMA HistoryPageInv ==
  ASSUME DeskInv, NEW x \in Things, HistoryPage(x) PROVE DeskInv'
<1>1. DeskTypes /\ ViewsOK /\ TokenOK /\ PagesOK /\ CurrentOK
  BY DEF DeskInv
<1>2. ~Opening /\ ~Paging /\ deskCmd.step = "none"
  BY DEF HistoryPage, BetweenCommands, Opening, Paging
<1>3. PICK d : d = [thing |-> x, content |-> deskProj[x]]
  OBVIOUS
<1>4. d \in Page /\ d.content = deskProj[d.thing]
  BY <1>1, <1>3 DEF Page, DeskTypes, Contents
<1>5. \/ deskCmd' = [step |-> "reply", thing |-> 0, data |-> Nothing, reply |-> "error"]
      \/ /\ deskCmd' = [step |-> "reply", thing |-> 0, data |-> d, reply |-> "page"]
         /\ deskToken # 0 /\ deskUi.view = deskToken
  BY <1>3 DEF HistoryPage, Reply
<1>6. deskCmd' \in Commands
  BY <1>4, <1>5 DEF Commands, Contents, Nothing
<1>7. ~Opening' /\ deskCmd'.step = "reply"
  BY <1>5 DEF Opening
<1>8. Paging' => deskToken # 0 /\ deskUi.view = deskView /\ deskCmd'.data.content = deskProj[deskCmd'.data.thing]
  BY <1>1, <1>4, <1>5 DEF Paging, TokenOK
<1>9. DeskTypes'
  BY <1>1, <1>6 DEF DeskTypes, HistoryPage
<1>10. ViewsOK'
  BY <1>1, <1>2, <1>7 DEF ViewsOK, HistoryPage
<1>11. TokenOK'
  BY <1>1, <1>2, <1>7 DEF TokenOK, HistoryPage, LiveActive, OpenedWith
<1>12. PagesOK'
  BY <1>1, <1>8 DEF PagesOK, PagesAgree, HistoryPage
<1>13. ASSUME NEW y \in Things \ deskOvertaken', ~deskBroken', deskView' \notin deskUntold' PROVE Current(y)'
  <2>1. Current(y)
    BY <1>1, <1>2, <1>13 DEF CurrentOK, HistoryPage, Telling
  <2> QED
    BY <2>1, <1>7 DEF Current, Displayed, HistoryPage
<1> QED
  BY <1>9, <1>10, <1>11, <1>12, <1>13 DEF DeskInv, CurrentOK

(* An archive is opened: its view is announced by the reply to come. *)
LEMMA OpenHistoryInv ==
  ASSUME DeskInv, NEW f \in 1 .. MaxViews, OpenHistory(f) PROVE DeskInv'
<1>1. DeskTypes /\ ViewsOK /\ PagesOK /\ CurrentOK
  BY DEF DeskInv
<1>2. deskProj' \in Contents /\ deskProj' # Nothing
  BY <1>1 DEF DeskTypes, OpenHistory
<1>3. /\ deskCmd' = [step |-> "reply", thing |-> 0, data |-> deskProj', reply |-> "opened"]
      /\ deskCmd' \in Commands
  BY <1>2 DEF OpenHistory, Reply, Commands
<1>4. Opening' /\ ~Paging' /\ deskCmd'.data = deskProj'
  BY <1>3 DEF Opening, Paging
<1>5. deskView' = deskView + 1 /\ deskToken' = deskView + 1 /\ deskView \in Nat
  BY <1>1 DEF OpenHistory, DeskTypes
<1>6. deskUi' = deskUi /\ deskLines' = deskLines /\ deskUi.view \in Nat /\ deskUntold' = deskUntold
  BY <1>1 DEF OpenHistory, DeskTypes
<1>7. ~LiveActive'
  BY DEF OpenHistory, LiveActive
<1>8. /\ deskUi.view < deskView'
      /\ \A i \in 1 .. Len(deskLines) : deskLines[i].view < deskView' /\ deskLines[i].view # deskView'
  <2>1. ASSUME NEW i \in 1 .. Len(deskLines) PROVE deskLines[i].view < deskView' /\ deskLines[i].view # deskView'
    <3>1. deskLines[i] \in Line
      BY QueueIsSeq, <1>1
    <3>2. deskLines[i].view \in Nat /\ deskLines[i].view <= deskView
      BY <1>1, <3>1 DEF ViewsOK, Line
    <3> QED
      BY <1>5, <3>2
  <2>2. deskUi.view <= deskView
    BY <1>1 DEF ViewsOK
  <2> QED
    BY <1>5, <1>6, <2>1, <2>2
<1>9. DeskTypes'
  BY <1>1, <1>2, <1>3, <1>5 DEF DeskTypes, OpenHistory
<1>10. ViewsOK'
  <2>1. ASSUME NEW i \in 1 .. Len(deskLines)
        PROVE  /\ deskUi.view <= deskLines[i].view /\ deskLines[i].view <= deskView'
               /\ Begins(deskLines[i]) => deskUi.view < deskLines[i].view
    <3>1. deskLines[i] \in Line
      BY QueueIsSeq, <1>1
    <3> QED
      BY <1>1, <1>5, <1>8, <3>1 DEF ViewsOK, Line
  <2>2. Ordered(deskLines)' /\ deskUi.view <= deskView'
    BY <1>1, <1>5, <1>6, <1>8 DEF ViewsOK, Ordered
  <2> QED
    BY <1>4, <1>6, <1>7, <1>8, <2>1, <2>2 DEF ViewsOK
<1>11. TokenOK'
  BY <1>4, <1>5, <1>6, <1>7, <1>8 DEF TokenOK, OpenedWith
<1>12. PagesOK'
  BY <1>1, <1>4, <1>6 DEF PagesOK, PagesAgree
<1>13. ASSUME NEW y \in Things PROVE Current(y)'
  BY <1>2, <1>4, <1>6, <1>8 DEF Current, LastShown, ShownAt, NotShown, Displayed
<1> QED
  BY <1>9, <1>10, <1>11, <1>12, <1>13 DEF DeskInv, CurrentOK

(* The message an edit owes is sent, or times out. *)
LEMMA TellEditInv ==
  ASSUME DeskInv, OwedOK, TellEdit PROVE DeskInv'
<1>1. DeskTypes /\ ViewsOK /\ TokenOK /\ PagesOK /\ CurrentOK /\ deskLines \in Seq(Line) /\ deskView \in Nat
  BY DEF DeskInv, DeskTypes
<1>2. deskCmd.step = "tell" /\ deskCmd.thing \in Things /\ deskCmd.data \in Contents /\ deskProj \in Contents
  BY <1>1 DEF TellEdit, DeskTypes, Commands
<1>3. PICK x \in Things : x = deskCmd.thing
  BY <1>2
<1>4. ~Opening /\ ~Paging
  BY <1>2 DEF Opening, Paging
<1>5. CASE /\ deskLines' = Emit(deskLines, Message("caption", x, FALSE, deskCmd.data)) /\ Edited(deskProj)
           /\ deskUntold' = deskUntold
  <2>1. /\ UNCHANGED <<deskView, deskPending, deskDisk, deskUi, deskBroken, deskUntold, deskOvertaken>>
        /\ deskProj' = deskProj /\ deskChange' = deskChange
    BY <1>5 DEF TellEdit
  <2>2. deskChange' \in Nat /\ deskProj' \in Contents /\ Edited(deskProj')
    BY <1>1, <1>2, <1>5, <2>1 DEF DeskTypes
  <2>3. x \notin deskOvertaken => deskCmd.data[x] = deskProj'[x]
    BY <1>2, <1>3, <2>1 DEF OwedOK, Telling
  <2>4. \A y \in Things : y # x => ~Telling(y)
    BY <1>3 DEF Telling
  <2> QED
    BY <1>2, <1>5, <2>1, <2>2, <2>3, <2>4, EditTold
<1>6. CASE deskUntold' = deskUntold \cup {deskView} /\ deskCmd' = Reply("error", Nothing)
           /\ deskLines' = deskLines /\ deskToken' = deskToken
  <2>1. /\ deskCmd' = [step |-> "reply", thing |-> 0, data |-> Nothing, reply |-> "error"]
        /\ deskCmd' \in Commands
    BY <1>6 DEF Reply, Commands, Contents, Nothing
  <2>2. ~Opening' /\ ~Paging'
    BY <2>1 DEF Opening, Paging
  <2>3. deskView' = deskView /\ deskUi' = deskUi /\ deskTask' = deskTask
    BY DEF TellEdit
  <2>4. DeskTypes'
    BY <1>1, <1>6, <2>1 DEF DeskTypes, TellEdit
  <2>5. ViewsOK'
    BY <1>1, <1>4, <1>6, <2>2, <2>3 DEF ViewsOK
  <2>6. TokenOK'
    BY <1>1, <1>6, <2>3 DEF TokenOK, LiveActive
  <2>7. PagesOK'
    BY <1>1, <1>6, <2>2, <2>3 DEF PagesOK, PagesAgree
  <2>8. CurrentOK'
    BY <1>6, <2>3 DEF CurrentOK
  <2> QED
    BY <2>4, <2>5, <2>6, <2>7, <2>8 DEF DeskInv
<1> QED
  BY <1>3, <1>5, <1>6 DEF TellEdit

(* What an edit owes is what it wrote until it is overtaken. *)
LEMMA OwedNext ==
  ASSUME DeskInv, OwedOK, [DeskNext]_deskVars PROVE OwedOK'
<1>1. CASE deskCmd' = deskCmd /\ deskProj' = deskProj /\ deskOvertaken' = deskOvertaken
  BY <1>1 DEF OwedOK, Telling
<1>2. CASE deskCmd'.step # "tell"
  BY <1>2 DEF OwedOK, Telling
<1>3. ASSUME NEW x \in Things, NEW preview \in BOOLEAN, ObserveEvent(x, preview) PROVE OwedOK'
  <2>1. deskProj \in Contents /\ deskCmd' = deskCmd
    BY <1>3 DEF DeskInv, DeskTypes, ObserveEvent
  <2>2. \A y \in Things : y # x => deskProj'[y] = deskProj[y] /\ (y \in deskOvertaken <=> y \in deskOvertaken')
    BY <1>3, <2>1 DEF ObserveEvent, Contents
  <2>3. Telling(x) => x \in deskOvertaken'
    BY <1>3 DEF ObserveEvent
  <2> QED
    BY <2>1, <2>2, <2>3 DEF OwedOK, Telling
<1>4. ASSUME NEW x \in Things, EditThing(x) PROVE OwedOK'
  <2>1. CASE Edited(deskProj')
    <3>1. deskCmd'.step # "tell"
      BY <2>1 DEF Edited, Reply, NoCommand
    <3> QED
      BY <3>1, <1>2
  <2>2. CASE deskCmd' = [NoCommand EXCEPT !.step = "tell", !.thing = x, !.data = deskProj']
    <3>1. deskCmd'.data = deskProj'
      BY <2>2 DEF NoCommand
    <3> QED
      BY <3>1 DEF OwedOK
  <2> QED
    BY <1>4, <2>1, <2>2 DEF EditThing
<1>5. CASE \/ StartSession \/ TellEdit \/ EditSaved \/ SendResult
           \/ \E x \in Things : HistoryPage(x)
           \/ \E f \in 1 .. MaxViews : OpenHistory(f)
  <2>1. \/ \E kind, data : deskCmd' = Reply(kind, data)
        \/ \E data : deskCmd' = [NoCommand EXCEPT !.step = "save", !.data = data]
        \/ deskCmd' = NoCommand
    BY <1>5 DEF StartSession, TellEdit, Edited, EditSaved, SendResult, HistoryPage, OpenHistory
  <2>2. \A kind, data : Reply(kind, data).step # "tell"
    BY DEF Reply
  <2>3. \A data : [NoCommand EXCEPT !.step = "save", !.data = data].step # "tell"
    BY DEF NoCommand
  <2>4. NoCommand.step # "tell"
    BY DEF NoCommand
  <2> QED
    BY <2>1, <2>2, <2>3, <2>4, <1>2
<1>6. CASE WriterSends \/ LiveEnds \/ LiveRaises \/ SnapshotSaved \/ TaskSends \/ UNCHANGED deskVars
  BY <1>1, <1>6 DEF WriterSends, LiveEnds, LiveRaises, SnapshotSaved, TaskSends, deskVars
<1> QED
  BY <1>3, <1>4, <1>5, <1>6 DEF DeskNext

(* A reply: a plain one, a page, or the one that begins an archive's view. *)
LEMMA SendResultInv ==
  ASSUME DeskInv, SendResult PROVE DeskInv'
<1>1. DeskTypes /\ ViewsOK /\ TokenOK /\ PagesOK /\ CurrentOK /\ deskLines \in Seq(Line) /\ deskView \in Nat
  BY DEF DeskInv, DeskTypes
<1>2. /\ deskCmd.step = "reply" /\ deskCmd.reply \in {"ok", "error", "opened", "page"}
      /\ deskCmd.reply = "page" => deskCmd.data \in Page
      /\ deskCmd.reply # "page" => deskCmd.data \in Contents
  BY <1>1 DEF SendResult, DeskTypes, Commands
<1>3. PICK m : m = [kind |-> deskCmd.reply, view |-> deskView, key |-> 0, preview |-> FALSE, data |-> deskCmd.data]
  OBVIOUS
<1>4. deskLines' = Emit(deskLines, m)
  BY <1>3 DEF SendResult, Message, MessageOf
<1>5. /\ deskCmd' = [step |-> "none", thing |-> 0, data |-> Nothing, reply |-> "none"]
      /\ deskCmd' \in Commands
  BY DEF SendResult, NoCommand, Commands, Contents, Nothing
<1>6. ~Opening' /\ ~Paging' /\ \A x \in Things : ~Telling(x)
  BY <1>2, <1>5 DEF Opening, Paging, Telling
<1>7. /\ deskView' = deskView /\ deskUi' = deskUi /\ deskProj' = deskProj /\ deskToken' = deskToken
      /\ deskBroken' = deskBroken /\ deskUntold' = deskUntold /\ deskTask' = deskTask
      /\ deskOvertaken' = deskOvertaken
  BY DEF SendResult
<1>8. ASSUME m \in Line PROVE Sent(deskLines, m, deskLines') /\ DeskTypes'
  <2>1. Sent(deskLines, m, deskLines')
    BY <1>1, <1>4, <1>8, EmitSends
  <2> QED
    BY <1>1, <1>5, <2>1 DEF DeskTypes, SendResult, Sent
<1>9. ASSUME NEW x \in Things \ deskOvertaken, ~deskBroken, deskView \notin deskUntold PROVE Current(x)
  BY <1>1, <1>6, <1>9 DEF CurrentOK
<1>10. CASE deskCmd.reply \in {"ok", "error"}
  <2>1. m \in Line /\ m.view = deskView /\ m.kind = deskCmd.reply /\ ~Begins(m) /\ \A x \in Things : ~Shows(m, x)
    BY <1>1, <1>2, <1>3, <1>10, PlainLine
  <2>2. ~Opening /\ ~Paging /\ m.kind # "page"
    BY <1>10, <2>1 DEF Opening, Paging
  <2>3. Sends(m)
    BY <1>6, <1>7, <1>8, <2>1, <2>2 DEF Sends
  <2>4. ViewsOK'
    BY <1>1, <2>3, SendsViews
  <2>5. TokenOK'
    BY <1>1, <1>2, <1>7, <2>3, SendsToken DEF LiveActive
  <2>6. PagesOK'
    BY <1>1, <1>6, <1>7, <2>2, <2>3, SendsPages
  <2>7. ASSUME NEW x \in Things \ deskOvertaken, ~deskBroken, deskView \notin deskUntold PROVE Current(x)'
    BY <1>1, <1>7, <1>9, <2>1, <2>3, <2>7, SendsCurrent
  <2> QED
    BY <1>7, <1>8, <2>1, <2>4, <2>5, <2>6, <2>7 DEF DeskInv, CurrentOK
<1>11. CASE deskCmd.reply = "page"
  <2>1. /\ m \in Line /\ m.view = deskView /\ m.kind = "page" /\ m.data = deskCmd.data /\ ~Begins(m)
        /\ \A x \in Things : (Shows(m, x) <=> x = deskCmd.data.thing) /\ Content(m, x) = deskCmd.data.content
    BY <1>1, <1>2, <1>3, <1>11, PageLine
  <2>2. ~Opening /\ Paging
    BY <1>2, <1>11 DEF Opening, Paging
  <2>3. Sends(m)
    BY <1>6, <1>7, <1>8, <2>1, <2>2 DEF Sends
  <2>4. deskToken # 0 /\ deskUi.view = deskView /\ deskCmd.data.content = deskProj[deskCmd.data.thing]
    BY <1>1, <2>2 DEF PagesOK
  <2>5. ViewsOK'
    BY <1>1, <2>3, SendsViews
  <2>6. TokenOK'
    BY <1>1, <1>2, <1>7, <2>3, SendsToken DEF LiveActive
  <2>7. \A j \in 1 .. Len(deskLines) : ~(Begins(deskLines[j]) /\ deskLines[j].view = deskView)
    BY <1>1, <2>4 DEF ViewsOK
  <2>8. deskView \notin deskUntold => deskUi.opened = deskProj
    BY <1>1, <1>2, <2>4 DEF TokenOK, OpenedWith
  <2>9. PagesOK'
    BY <1>1, <1>6, <1>7, <2>1, <2>3, <2>4, <2>7, <2>8, SendsPages
  <2>10. ASSUME NEW x \in Things \ deskOvertaken, ~deskBroken, deskView \notin deskUntold PROVE Current(x)'
    BY <1>1, <1>7, <1>9, <2>1, <2>3, <2>4, <2>10, SendsCurrent
  <2> QED
    BY <1>7, <1>8, <2>1, <2>5, <2>6, <2>9, <2>10 DEF DeskInv, CurrentOK
<1>12. CASE deskCmd.reply = "opened"
  <2>1. /\ m \in Line /\ m.view = deskView /\ m.kind = "opened" /\ m.data = deskCmd.data /\ Begins(m)
        /\ \A x \in Things : ~Shows(m, x)
    BY <1>1, <1>2, <1>3, <1>12, BeginLine
  <2>2. Opening /\ ~Paging
    BY <1>2, <1>12 DEF Opening, Paging
  <2>3. Sent(deskLines, m, deskLines') /\ DeskTypes'
    BY <1>8, <2>1
  <2>4. PICK n \in Nat : n = Len(deskLines') /\ n \in 1 .. n /\ deskLines'[n] = m
    BY <2>3 DEF Sent
  <2>5. /\ ~LiveActive /\ deskUi.view < deskView
        /\ \A i \in 1 .. Len(deskLines) : deskLines[i].view < deskView /\ deskLines[i].view # deskView
    <3>1. ASSUME NEW i \in 1 .. Len(deskLines) PROVE deskLines[i].view \in Nat
      <4>1. deskLines[i] \in Line
        BY <1>1
      <4> QED
        BY <4>1 DEF Line
    <3> QED
      BY <1>1, <2>2, <3>1 DEF ViewsOK
  <2>6. deskUi.view \in Nat /\ deskUi.view # deskView /\ deskUi.view <= deskView
    BY <1>1, <2>5 DEF DeskTypes
  <2>7. ASSUME NEW i \in 1 .. n PROVE deskLines'[i] = m \/ \E j \in 1 .. Len(deskLines) : deskLines'[i] = deskLines[j]
    BY <1>1, <2>1, <2>3, <2>4, SentFrom
  <2>8. ASSUME NEW i \in 1 .. n, deskLines'[i].view = deskView PROVE deskLines'[i] = m
    BY <2>5, <2>7, <2>8
  <2>9. ViewsOK'
    <3>1. Ordered(deskLines')
      <4>1. \A i \in 1 .. Len(deskLines) : deskLines[i].view <= m.view /\ (Begins(m) => deskLines[i].view < m.view)
        BY <1>1, <2>1, <2>5 DEF ViewsOK
      <4> QED
        BY <1>1, <2>1, <2>3, <4>1, SentOrdered DEF ViewsOK
    <3>2. ASSUME NEW i \in 1 .. n
          PROVE  /\ deskUi.view <= deskLines'[i].view /\ deskLines'[i].view <= deskView
                 /\ Begins(deskLines'[i]) => deskUi.view < deskLines'[i].view
      <4>1. CASE deskLines'[i] = m
        BY <1>1, <2>1, <2>5, <2>6, <4>1
      <4>2. ASSUME NEW j \in 1 .. Len(deskLines), deskLines'[i] = deskLines[j]
            PROVE  /\ deskUi.view <= deskLines'[i].view /\ deskLines'[i].view <= deskView
                   /\ Begins(deskLines'[i]) => deskUi.view < deskLines'[i].view
        BY <1>1, <4>2 DEF ViewsOK
      <4> QED
        BY <2>7, <4>1, <4>2
    <3>3. \E i \in 1 .. n : Begins(deskLines'[i]) /\ deskLines'[i].view = deskView
      BY <2>1, <2>4
    <3> QED
      BY <1>6, <1>7, <2>4, <2>6, <3>1, <3>2, <3>3 DEF ViewsOK
  <2>10. TokenOK'
    <3>1. deskToken # 0 /\ deskView \notin deskUntold => deskCmd.data = deskProj
      BY <1>1, <1>2, <2>2 DEF TokenOK, OpenedWith
    <3>2. deskToken # 0 /\ deskView \notin deskUntold => OpenedWith(deskProj)'
      BY <1>6, <1>7, <2>1, <2>4, <2>6, <2>8, <3>1 DEF OpenedWith
    <3> QED
      BY <1>1, <1>7, <3>2 DEF TokenOK, LiveActive
  <2>11. PagesOK'
    <3>1. ASSUME NEW i \in 1 .. n, deskLines'[i].kind = "page", deskLines'[i].view \notin deskUntold
          PROVE  /\ deskUi.view = deskLines'[i].view =>
                      deskLines'[i].data.content = deskUi.opened[deskLines'[i].data.thing]
                 /\ \A j \in 1 .. n : Begins(deskLines'[j]) /\ deskLines'[j].view = deskLines'[i].view =>
                      deskLines'[i].data.content = deskLines'[j].data[deskLines'[i].data.thing]
      <4>1. PICK k \in 1 .. Len(deskLines) : deskLines'[i] = deskLines[k]
        BY <2>1, <2>7, <3>1
      <4>2. ASSUME NEW j \in 1 .. n, deskLines'[j].view = deskLines'[i].view
            PROVE  \E l \in 1 .. Len(deskLines) : deskLines'[j] = deskLines[l]
        BY <2>1, <2>5, <2>7, <4>1, <4>2
      <4> QED
        BY <1>1, <3>1, <4>1, <4>2 DEF PagesOK
    <3>2. PagesAgree'
      BY <1>1, <1>7 DEF PagesOK, PagesAgree
    <3> QED
      BY <1>6, <1>7, <2>4, <3>1, <3>2 DEF PagesOK
  <2>12. ASSUME NEW x \in Things \ deskOvertaken, ~deskBroken, deskView \notin deskUntold PROVE Current(x)'
    <3>1. ASSUME NEW i \in 1 .. n, LastShown(deskLines', i, deskView, x) PROVE FALSE
      BY <2>1, <2>8, <3>1 DEF LastShown, ShownAt
    <3>2. Displayed(x)
      BY <1>9, <2>5, <2>12 DEF Current, NotShown, ShownAt
    <3>3. deskCmd.data # Nothing
      BY <2>2, <3>2 DEF Displayed
    <3>4. Displayed(x)'
      BY <1>6, <1>7, <2>1, <2>4, <2>6, <2>8, <3>3 DEF Displayed
    <3> QED
      BY <1>7, <2>4, <3>1, <3>4 DEF Current
  <2> QED
    BY <1>7, <2>3, <2>9, <2>10, <2>11, <2>12 DEF DeskInv, CurrentOK
<1> QED
  BY <1>2, <1>10, <1>11, <1>12

(* A session begins a view with nothing in it. *)
LEMMA StartSessionInv ==
  ASSUME DeskInv, StartSession PROVE DeskInv'
<1>1. DeskTypes /\ ViewsOK /\ PagesOK /\ deskLines \in Seq(Line) /\ deskView \in Nat /\ deskUi.view \in Nat
  BY DEF DeskInv, DeskTypes
<1>2. PICK m : m = [kind |-> "session", view |-> deskView + 1, key |-> 0, preview |-> FALSE, data |-> Nothing]
  OBVIOUS
<1>3. deskLines' = Emit(deskLines, m)
  BY <1>2 DEF StartSession, MessageOf
<1>4. Nothing \in Contents /\ deskView + 1 \in Nat
  BY <1>1 DEF Nothing, Contents
<1>5. /\ m \in Line /\ m.view = deskView + 1 /\ m.kind = "session" /\ m.data = Nothing /\ Begins(m)
      /\ \A x \in Things : ~Shows(m, x)
  BY <1>2, <1>4, BeginLine
<1>6. Sent(deskLines, m, deskLines')
  BY <1>1, <1>3, <1>5, EmitSends
<1>7. PICK n \in Nat : n = Len(deskLines') /\ n \in 1 .. n /\ deskLines'[n] = m
  BY <1>6 DEF Sent
<1>8. /\ deskCmd' = [step |-> "reply", thing |-> 0, data |-> Nothing, reply |-> "ok"]
      /\ deskCmd' \in Commands
  BY <1>4 DEF StartSession, Reply, Commands
<1>9. ~Opening' /\ ~Paging'
  BY <1>8 DEF Opening, Paging
<1>10. deskView' = deskView + 1 /\ deskUi' = deskUi /\ deskProj' = Nothing /\ deskToken' = 0 /\ deskUntold' = deskUntold
  BY DEF StartSession
<1>11. ASSUME NEW i \in 1 .. Len(deskLines)
       PROVE  /\ deskLines[i].view \in Nat /\ deskUi.view <= deskLines[i].view
              /\ deskLines[i].view < deskView + 1 /\ deskLines[i].view # deskView + 1
              /\ Begins(deskLines[i]) => deskUi.view < deskLines[i].view
  <2>1. deskLines[i] \in Line
    BY <1>1
  <2>2. deskLines[i].view \in Nat
    BY <2>1 DEF Line
  <2>3. /\ deskUi.view <= deskLines[i].view /\ deskLines[i].view <= deskView
        /\ Begins(deskLines[i]) => deskUi.view < deskLines[i].view
    BY <1>1 DEF ViewsOK
  <2> QED
    BY <1>1, <2>2, <2>3
<1>12. deskUi.view < deskView + 1 /\ deskUi.view # deskView + 1 /\ deskUi.view <= deskView + 1
  <2>1. deskUi.view <= deskView
    BY <1>1 DEF ViewsOK
  <2> QED
    BY <1>1, <2>1
<1>13. ASSUME NEW i \in 1 .. n PROVE deskLines'[i] = m \/ \E j \in 1 .. Len(deskLines) : deskLines'[i] = deskLines[j]
  BY <1>1, <1>5, <1>6, <1>7, SentFrom
<1>14. ASSUME NEW i \in 1 .. n, deskLines'[i].view = deskView + 1 PROVE deskLines'[i] = m
  BY <1>11, <1>13, <1>14
<1>15. DeskTypes'
  <2>1. deskChange' = deskChange /\ deskPending' = deskPending /\ deskDisk' = deskDisk
    BY DEF StartSession
  <2>2. deskLines' \in Seq(Line)
    BY <1>6 DEF Sent
  <2> QED
    BY <1>1, <1>4, <1>8, <1>10, <2>1, <2>2 DEF DeskTypes
<1>16. ViewsOK'
  <2>1. Ordered(deskLines')
    <3>1. \A i \in 1 .. Len(deskLines) : deskLines[i].view <= m.view /\ (Begins(m) => deskLines[i].view < m.view)
      BY <1>1, <1>5, <1>11
    <3> QED
      BY <1>1, <1>5, <1>6, <3>1, SentOrdered DEF ViewsOK
  <2>2. ASSUME NEW i \in 1 .. n
        PROVE  /\ deskUi.view <= deskLines'[i].view /\ deskLines'[i].view <= deskView + 1
               /\ Begins(deskLines'[i]) => deskUi.view < deskLines'[i].view
    <3>1. CASE deskLines'[i] = m
      BY <1>1, <1>5, <1>12, <3>1
    <3>2. ASSUME NEW j \in 1 .. Len(deskLines), deskLines'[i] = deskLines[j]
          PROVE  /\ deskUi.view <= deskLines'[i].view /\ deskLines'[i].view <= deskView + 1
                 /\ Begins(deskLines'[i]) => deskUi.view < deskLines'[i].view
      BY <1>1, <1>11, <3>2
    <3> QED
      BY <1>13, <3>1, <3>2
  <2>3. \E i \in 1 .. n : Begins(deskLines'[i]) /\ deskLines'[i].view = deskView + 1
    BY <1>5, <1>7
  <2> QED
    BY <1>7, <1>9, <1>10, <1>12, <2>1, <2>2, <2>3 DEF ViewsOK
<1>17. TokenOK'
  BY <1>10 DEF TokenOK
<1>18. PagesOK'
  <2>1. ASSUME NEW i \in 1 .. n, deskLines'[i].kind = "page", deskLines'[i].view \notin deskUntold
        PROVE  /\ deskUi.view = deskLines'[i].view =>
                    deskLines'[i].data.content = deskUi.opened[deskLines'[i].data.thing]
               /\ \A j \in 1 .. n : Begins(deskLines'[j]) /\ deskLines'[j].view = deskLines'[i].view =>
                    deskLines'[i].data.content = deskLines'[j].data[deskLines'[i].data.thing]
    <3>1. PICK k \in 1 .. Len(deskLines) : deskLines'[i] = deskLines[k]
      BY <1>5, <1>13, <2>1
    <3>2. ASSUME NEW j \in 1 .. n, deskLines'[j].view = deskLines'[i].view
          PROVE  \E l \in 1 .. Len(deskLines) : deskLines'[j] = deskLines[l]
      BY <1>5, <1>11, <1>13, <3>1, <3>2
    <3> QED
      BY <1>1, <2>1, <3>1, <3>2 DEF PagesOK
  <2>2. PagesAgree'
    BY <1>1, <1>10 DEF PagesOK, PagesAgree
  <2> QED
    BY <1>7, <1>9, <1>10, <2>1, <2>2 DEF PagesOK
<1>19. ASSUME NEW x \in Things PROVE Current(x)'
  <2>1. ASSUME NEW i \in 1 .. n, LastShown(deskLines', i, deskView + 1, x) PROVE FALSE
    BY <1>5, <1>14, <2>1 DEF LastShown, ShownAt
  <2>2. deskProj'[x] = 0
    BY <1>10 DEF Nothing
  <2>3. Displayed(x)'
    BY <1>9, <1>10, <1>12, <2>2 DEF Displayed
  <2> QED
    BY <1>7, <1>10, <2>1, <2>3 DEF Current
<1> QED
  BY <1>15, <1>16, <1>17, <1>18, <1>19 DEF DeskInv, CurrentOK

-----------------------------------------------------------------------------
(* A caption changes one thing on the screen. *)
LEMMA UiCaption ==
  ASSUME NEW ui, DOMAIN ui = {"view", "things", "paged", "opened"}, DOMAIN ui.things = Things,
         NEW x \in Things, NEW c, NEW r, r = [ui EXCEPT !.things[x] = c]
  PROVE  /\ DOMAIN r = {"view", "things", "paged", "opened"} /\ DOMAIN r.things = Things
         /\ r.view = ui.view /\ r.opened = ui.opened /\ r.paged = ui.paged
         /\ \A y \in Things : r.things[y] = IF y = x THEN c ELSE ui.things[y]
OBVIOUS

(* The writer hands over the first line. *)
LEMMA WriterSendsInv ==
  ASSUME DeskInv, WriterSends PROVE DeskInv'
<1>1. DeskTypes /\ ViewsOK /\ TokenOK /\ PagesOK /\ CurrentOK /\ deskView \in Nat /\ deskUi.view \in Nat
  BY DEF DeskInv, DeskTypes
<1>2. /\ deskView' = deskView /\ deskProj' = deskProj /\ deskToken' = deskToken /\ deskCmd' = deskCmd
      /\ deskBroken' = deskBroken /\ deskUntold' = deskUntold /\ deskTask' = deskTask
      /\ deskOvertaken' = deskOvertaken
  BY DEF WriterSends
<1>3. PICK n \in Nat : n = Len(deskLines')
  <2>1. deskLines \in Seq(Line) /\ deskLines # <<>> /\ deskLines' = Tail(deskLines)
    BY <1>1, QueueIsSeq DEF WriterSends
  <2>2. Len(deskLines') \in Nat
    BY <2>1
  <2> QED
    BY <2>2
<1>4. /\ deskLines' \in Seq(Line) /\ Len(deskLines) = n + 1 /\ deskLines[1] = Head(deskLines)
      /\ \A i \in 1 .. n : deskLines'[i] = deskLines[i + 1] /\ i + 1 \in 1 .. n + 1
  BY <1>1, <1>3, QueueIsSeq DEF WriterSends
<1>5. PICK h \in Line : h = deskLines[1] /\ 1 \in 1 .. n + 1
  BY <1>1, <1>4, QueueIsSeq
<1>6. /\ Begins(h) => deskUi' = [view |-> h.view, things |-> Nothing, paged |-> {}, opened |-> h.data]
      /\ h.kind = "caption" /\ h.view = deskUi.view => deskUi' = [deskUi EXCEPT !.things[h.key] = h.data[h.key]]
      /\ h.kind = "page" /\ h.view = deskUi.view =>
            deskUi' = [deskUi EXCEPT !.things[h.data.thing] = h.data.content, !.paged = @ \union {h.data}]
      /\ ~Begins(h) /\ ~(h.kind = "caption" /\ h.view = deskUi.view) /\ ~(h.kind = "page" /\ h.view = deskUi.view) =>
            deskUi' = deskUi
  BY <1>4, <1>5 DEF WriterSends, Begins
<1>7. /\ DOMAIN deskUi = {"view", "things", "paged", "opened"} /\ DOMAIN deskUi.things = Things
      /\ h.view \in Nat /\ (Begins(h) => h.data \in Contents)
      /\ h.kind = "caption" => h.key \in Things
      /\ h.kind = "page" => h.data \in Page
  BY <1>1 DEF DeskTypes, Line, Begins
<1>8. /\ Begins(h) => deskUi'.view = h.view /\ deskUi'.opened = h.data /\ deskUi'.paged = {}
                       /\ deskUi'.things = Nothing
      /\ ~Begins(h) => deskUi'.view = deskUi.view /\ deskUi'.opened = deskUi.opened
      /\ DOMAIN deskUi' = {"view", "things", "paged", "opened"} /\ DOMAIN deskUi'.things = Things
      /\ ~Begins(h) =>
           deskUi'.paged = IF h.kind = "page" /\ h.view = deskUi.view THEN deskUi.paged \cup {h.data} ELSE deskUi.paged
      /\ ~Begins(h) => \A x \in Things :
           deskUi'.things[x] = IF h.view = deskUi.view /\ Shows(h, x) THEN Content(h, x) ELSE deskUi.things[x]
  <2>1. CASE Begins(h)
    <3>1. deskUi' = [view |-> h.view, things |-> Nothing, paged |-> {}, opened |-> h.data]
      BY <1>6, <2>1
    <3> QED
      BY <2>1, <3>1 DEF Nothing
  <2>2. CASE h.kind = "caption" /\ h.view = deskUi.view
    <3>1. ~Begins(h) /\ h.kind # "page" /\ h.key \in Things
      BY <1>7, <2>2 DEF Begins
    <3>2. deskUi' = [deskUi EXCEPT !.things[h.key] = h.data[h.key]]
      BY <1>6, <2>2
    <3>3. /\ DOMAIN deskUi' = {"view", "things", "paged", "opened"} /\ DOMAIN deskUi'.things = Things
          /\ deskUi'.view = deskUi.view /\ deskUi'.opened = deskUi.opened /\ deskUi'.paged = deskUi.paged
          /\ \A y \in Things : deskUi'.things[y] = IF y = h.key THEN h.data[h.key] ELSE deskUi.things[y]
      BY <1>7, <3>1, <3>2, UiCaption
    <3>4. \A y \in Things : (Shows(h, y) <=> y = h.key) /\ Content(h, y) = h.data[y]
      BY <2>2 DEF Shows, Content
    <3> QED
      BY <2>2, <3>1, <3>3, <3>4
  <2>3. CASE h.kind = "page" /\ h.view = deskUi.view
    <3>1. ~Begins(h) /\ h.data.thing \in Things
      BY <1>7, <2>3 DEF Begins, Page
    <3>2. PICK d : d = h.data /\ d.thing \in Things
      BY <3>1
    <3>3. deskUi' = [deskUi EXCEPT !.things[d.thing] = d.content, !.paged = deskUi.paged \union {d}]
      BY <1>6, <2>3, <3>2
    <3>4. /\ DOMAIN deskUi' = {"view", "things", "paged", "opened"} /\ DOMAIN deskUi'.things = Things
          /\ deskUi'.view = deskUi.view /\ deskUi'.opened = deskUi.opened /\ deskUi'.paged = deskUi.paged \cup {d}
          /\ \A y \in Things : deskUi'.things[y] = IF y = d.thing THEN d.content ELSE deskUi.things[y]
      BY <1>7, <3>2, <3>3
    <3>5. \A y \in Things : (Shows(h, y) <=> y = h.data.thing) /\ Content(h, y) = h.data.content
      BY <2>3 DEF Shows, Content
    <3> QED
      BY <2>3, <3>1, <3>2, <3>4, <3>5
  <2>4. CASE ~Begins(h) /\ ~(h.kind = "caption" /\ h.view = deskUi.view) /\ ~(h.kind = "page" /\ h.view = deskUi.view)
    <3>1. deskUi' = deskUi
      BY <1>6, <2>4
    <3>2. \A y \in Things : ~(h.view = deskUi.view /\ Shows(h, y))
      BY <2>4 DEF Shows
    <3> QED
      BY <1>7, <2>4, <3>1, <3>2
  <2> QED
    BY <2>1, <2>2, <2>3, <2>4
<1>9. /\ ~Begins(h) /\ h.kind = "page" /\ h.view = deskUi.view => deskUi'.paged = deskUi.paged \cup {h.data}
      /\ ~Begins(h) /\ ~(h.kind = "page" /\ h.view = deskUi.view) => deskUi'.paged = deskUi.paged
  BY <1>8
<1>10. ASSUME NEW x \in Things, ~Begins(h)
       PROVE  deskUi'.things[x] = IF h.view = deskUi.view /\ Shows(h, x) THEN Content(h, x) ELSE deskUi.things[x]
  BY <1>8, <1>10
<1>11. /\ deskUi.view <= h.view /\ h.view <= deskView /\ (Begins(h) => deskUi.view < h.view)
       /\ \A i \in 1 .. n : h.view <= deskLines'[i].view /\ (Begins(deskLines'[i]) => h.view < deskLines'[i].view)
  <2>1. deskUi.view <= h.view /\ h.view <= deskView /\ (Begins(h) => deskUi.view < h.view)
    BY <1>1, <1>4, <1>5 DEF ViewsOK
  <2>2. ASSUME NEW i \in 1 .. n
        PROVE  h.view <= deskLines'[i].view /\ (Begins(deskLines'[i]) => h.view < deskLines'[i].view)
    <3>1. 1 < i + 1 /\ i + 1 \in 1 .. Len(deskLines) /\ 1 \in 1 .. Len(deskLines) /\ deskLines'[i] = deskLines[i + 1]
      BY <1>4, <1>5
    <3> QED
      BY <1>1, <1>5, <3>1 DEF ViewsOK, Ordered
  <2> QED
    BY <2>1, <2>2
<1>12. deskUi.view = deskView => ~Begins(h)
  BY <1>1, <1>7, <1>11
<1>13. ASSUME NEW i \in 1 .. n
       PROVE  /\ deskLines'[i] = deskLines[i + 1] /\ i + 1 \in 1 .. Len(deskLines)
              /\ deskUi.view <= deskLines'[i].view /\ deskLines'[i].view <= deskView
              /\ Begins(deskLines'[i]) => deskUi.view < deskLines'[i].view
  BY <1>1, <1>4 DEF ViewsOK
<1>14. ASSUME NEW k \in 1 .. Len(deskLines), k # 1
       PROVE  \E i \in 1 .. n : deskLines'[i] = deskLines[k]
  <2>1. k - 1 \in 1 .. n /\ (k - 1) + 1 = k
    BY <1>4, <1>14
  <2>2. deskLines'[k - 1] = deskLines[k]
    BY <1>4, <2>1
  <2> QED
    BY <2>1, <2>2
<1>15. DeskTypes'
  <2>1. deskUi'.view \in Nat
    BY <1>1, <1>7, <1>8
  <2> QED
    BY <1>1, <1>4, <1>8, <2>1 DEF DeskTypes, WriterSends
<1>16. Opening' <=> Opening
  BY <1>2 DEF Opening
<1>17. ViewsOK'
  <2>1. Ordered(deskLines')
    <3>1. ASSUME NEW i \in 1 .. n, NEW j \in 1 .. n, i < j
          PROVE  deskLines'[i].view <= deskLines'[j].view /\ (Begins(deskLines'[j]) => deskLines'[i].view < deskLines'[j].view)
      <4>1. i + 1 < j + 1
        BY <3>1
      <4> QED
        BY <1>1, <1>13, <4>1 DEF ViewsOK, Ordered
    <3> QED
      BY <1>3, <3>1 DEF Ordered
  <2>2. deskUi'.view <= deskView
    BY <1>8, <1>11, <1>1 DEF ViewsOK
  <2>3. ASSUME NEW i \in 1 .. n
        PROVE  /\ deskUi'.view <= deskLines'[i].view /\ deskLines'[i].view <= deskView
               /\ Begins(deskLines'[i]) => deskUi'.view < deskLines'[i].view
    BY <1>8, <1>11, <1>13
  <2>4. Opening => /\ ~LiveActive' /\ deskUi'.view < deskView
                   /\ \A i \in 1 .. n : deskLines'[i].view < deskView
    <3>1. Opening => deskUi.view < deskView /\ h.view < deskView /\ ~LiveActive
      BY <1>1, <1>4, <1>5 DEF ViewsOK
    <3>2. Opening => \A i \in 1 .. n : deskLines'[i].view < deskView
      BY <1>1, <1>13 DEF ViewsOK
    <3> QED
      BY <1>2, <1>8, <3>1, <3>2 DEF LiveActive
  <2>5. \/ deskUi'.view = deskView \/ Opening
        \/ \E i \in 1 .. n : Begins(deskLines'[i]) /\ deskLines'[i].view = deskView
    <3>1. CASE deskUi.view = deskView
      BY <1>8, <1>12, <3>1
    <3>2. ASSUME NEW k \in 1 .. Len(deskLines), Begins(deskLines[k]), deskLines[k].view = deskView
          PROVE  deskUi'.view = deskView \/ \E i \in 1 .. n : Begins(deskLines'[i]) /\ deskLines'[i].view = deskView
      BY <1>5, <1>8, <1>14, <3>2
    <3> QED
      BY <1>1, <3>1, <3>2 DEF ViewsOK
  <2> QED
    BY <1>2, <1>3, <1>16, <2>1, <2>2, <2>3, <2>4, <2>5 DEF ViewsOK
<1>18. TokenOK'
  <2>1. ASSUME OpenedWith(deskProj) PROVE OpenedWith(deskProj)'
    <3>1. deskUi'.view = deskView => deskUi'.opened = deskProj
      <4>1. Begins(h) /\ h.view = deskView => h.data = deskProj
        BY <1>4, <1>5, <2>1 DEF OpenedWith
      <4> QED
        BY <1>8, <2>1, <4>1 DEF OpenedWith
    <3>2. ASSUME NEW i \in 1 .. n, Begins(deskLines'[i]), deskLines'[i].view = deskView PROVE deskLines'[i].data = deskProj
      BY <1>13, <2>1, <3>2 DEF OpenedWith
    <3> QED
      BY <1>2, <1>3, <1>16, <2>1, <3>1, <3>2 DEF OpenedWith
  <2> QED
    BY <1>1, <1>2, <2>1 DEF TokenOK, LiveActive
<1>19. PagesOK'
  <2>1. PagesAgree'
    <3>1. CASE Begins(h)
      BY <1>8, <3>1 DEF PagesAgree
    <3>2. CASE ~Begins(h) /\ h.kind = "page" /\ h.view = deskUi.view
      <4>1. deskUi.view \notin deskUntold => h.data.content = deskUi.opened[h.data.thing]
        BY <1>1, <1>4, <1>5, <3>2 DEF PagesOK
      <4> QED
        BY <1>1, <1>2, <1>8, <1>9, <3>2, <4>1 DEF PagesAgree, PagesOK
    <3>3. CASE ~Begins(h) /\ ~(h.kind = "page" /\ h.view = deskUi.view)
      BY <1>1, <1>2, <1>8, <1>9, <3>3 DEF PagesAgree, PagesOK
    <3> QED
      BY <3>1, <3>2, <3>3
  <2>2. ASSUME NEW i \in 1 .. n, deskLines'[i].kind = "page", deskLines'[i].view \notin deskUntold
        PROVE  /\ deskUi'.view = deskLines'[i].view =>
                    deskLines'[i].data.content = deskUi'.opened[deskLines'[i].data.thing]
               /\ \A j \in 1 .. n : Begins(deskLines'[j]) /\ deskLines'[j].view = deskLines'[i].view =>
                    deskLines'[i].data.content = deskLines'[j].data[deskLines'[i].data.thing]
    <3>1. ASSUME NEW j \in 1 .. n, Begins(deskLines'[j]), deskLines'[j].view = deskLines'[i].view
          PROVE  deskLines'[i].data.content = deskLines'[j].data[deskLines'[i].data.thing]
      <4>1. PICK k \in 1 .. Len(deskLines) : deskLines'[i] = deskLines[k]
        BY <1>13
      <4>2. PICK l \in 1 .. Len(deskLines) : deskLines'[j] = deskLines[l]
        BY <1>13
      <4> QED
        BY <1>1, <2>2, <3>1, <4>1, <4>2 DEF PagesOK
    <3>2. Begins(h) /\ h.view = deskLines'[i].view =>
            deskLines'[i].data.content = h.data[deskLines'[i].data.thing]
      <4>1. PICK k \in 1 .. Len(deskLines) : deskLines'[i] = deskLines[k]
        BY <1>13
      <4>2. 1 \in 1 .. Len(deskLines) /\ h = deskLines[1]
        BY <1>4, <1>5
      <4> QED
        BY <1>1, <2>2, <4>1, <4>2 DEF PagesOK
    <3>3. deskUi.view = deskLines'[i].view =>
            deskLines'[i].data.content = deskUi.opened[deskLines'[i].data.thing]
      BY <1>1, <1>13, <2>2 DEF PagesOK
    <3> QED
      BY <1>8, <3>1, <3>2, <3>3
  <2>3. Paging => /\ deskToken # 0 /\ deskUi'.view = deskView
                  /\ deskCmd.data.content = deskProj[deskCmd.data.thing]
    BY <1>1, <1>8, <1>12 DEF PagesOK
  <2> QED
    BY <1>2, <1>3, <2>1, <2>2, <2>3 DEF PagesOK, Paging
<1>20. ASSUME NEW x \in Things, Current(x) PROVE Current(x)'
  <2>1. ASSUME NEW i \in 1 .. n, LastShown(deskLines', i, deskView, x)
        PROVE  Content(deskLines'[i], x) = deskProj[x]
    <3>1. ASSUME NEW j \in 1 .. Len(deskLines), j > i + 1, Shows(deskLines[j], x) PROVE FALSE
      <4>1. j - 1 \in 1 .. n /\ j - 1 > i /\ (j - 1) + 1 = j
        BY <1>4, <3>1
      <4> QED
        BY <1>3, <1>13, <2>1, <3>1, <4>1 DEF LastShown
    <3>2. LastShown(deskLines, i + 1, deskView, x)
      BY <1>13, <2>1, <3>1 DEF LastShown, ShownAt
    <3> QED
      BY <1>13, <1>20, <3>2 DEF Current
  <2>2. ASSUME NotShown(deskLines', deskView, x), ShownAt(deskLines, 1, deskView, x)
        PROVE  Displayed(x)'
    <3>1. h.view = deskView /\ Shows(h, x) /\ ~Begins(h)
      BY <1>5, <2>2 DEF ShownAt, Shows, Begins
    <3>2. ASSUME NEW j \in 1 .. Len(deskLines), j > 1, Shows(deskLines[j], x) PROVE FALSE
      <4>1. PICK i \in 1 .. n : deskLines'[i] = deskLines[j]
        BY <1>14, <3>2
      <4>2. deskLines'[i].view = deskView
        <5>1. deskLines'[i] \in Line
          BY <1>3, <1>4
        <5>2. deskLines'[i].view \in Nat /\ deskView <= deskLines'[i].view /\ deskLines'[i].view <= deskView
          BY <1>11, <1>13, <3>1, <5>1 DEF Line
        <5> QED
          BY <1>1, <5>2
      <4> QED
        BY <1>3, <2>2, <3>2, <4>1, <4>2 DEF NotShown, ShownAt
    <3>3. LastShown(deskLines, 1, deskView, x)
      BY <2>2, <3>2 DEF LastShown
    <3>4. Content(h, x) = deskProj[x]
      BY <1>4, <1>5, <1>20, <3>3 DEF Current
    <3>5. ~Opening
      BY <1>1, <1>4, <1>5, <3>1 DEF ViewsOK
    <3>6. \A i \in 1 .. n : ~(Begins(deskLines'[i]) /\ deskLines'[i].view = deskView)
      BY <1>1, <1>11, <3>1
    <3>7. deskUi.view = deskView
      <4>1. ASSUME NEW k \in 1 .. Len(deskLines), Begins(deskLines[k]), deskLines[k].view = deskView PROVE FALSE
        BY <1>5, <1>14, <3>1, <3>6, <4>1
      <4> QED
        BY <1>1, <3>5, <4>1 DEF ViewsOK
    <3>8. deskUi'.things[x] = deskProj[x]
      BY <1>10, <3>1, <3>4, <3>7
    <3> QED
      BY <1>2, <1>3, <1>16, <3>5, <3>6, <3>8 DEF Displayed
  <2>3. ASSUME NotShown(deskLines', deskView, x), ~ShownAt(deskLines, 1, deskView, x)
        PROVE  Displayed(x)'
    <3>1. NotShown(deskLines, deskView, x)
      <4>1. ASSUME NEW k \in 1 .. Len(deskLines), ShownAt(deskLines, k, deskView, x) PROVE FALSE
        BY <1>3, <1>14, <2>3, <4>1 DEF NotShown, ShownAt
      <4> QED
        BY <4>1 DEF NotShown
    <3>2. Displayed(x)
      BY <1>20, <3>1 DEF Current
    <3>3. ASSUME deskUi'.view = deskView
          PROVE  deskUi'.things[x] = deskProj[x] \/ (deskUi'.things[x] = 0 /\ deskUi'.opened # Nothing)
      <4>1. CASE Begins(h)
        <5>1. deskProj[x] = 0 \/ h.data # Nothing
          BY <1>4, <1>5, <1>8, <3>2, <3>3, <4>1 DEF Displayed
        <5>2. deskUi'.things[x] = 0 /\ deskUi'.opened = h.data
          BY <1>8, <4>1 DEF Nothing
        <5> QED
          BY <5>1, <5>2
      <4>2. CASE ~Begins(h)
        <5>1. deskUi.view = deskView /\ deskUi'.opened = deskUi.opened
          BY <1>8, <3>3, <4>2
        <5>2. ~(h.view = deskUi.view /\ Shows(h, x))
          BY <1>5, <2>3, <5>1 DEF ShownAt
        <5>3. deskUi'.things[x] = deskUi.things[x]
          BY <1>10, <4>2, <5>2
        <5> QED
          BY <3>2, <5>1, <5>3 DEF Displayed
      <4> QED
        BY <4>1, <4>2
    <3>4. ASSUME NEW i \in 1 .. n, Begins(deskLines'[i]), deskLines'[i].view = deskView
          PROVE  deskProj[x] = 0 \/ deskLines'[i].data # Nothing
      BY <1>13, <3>2, <3>4 DEF Displayed
    <3> QED
      BY <1>2, <1>3, <1>16, <3>2, <3>3, <3>4 DEF Displayed
  <2> QED
    BY <1>2, <1>3, <2>1, <2>2, <2>3 DEF Current
<1>21. CurrentOK'
  BY <1>1, <1>2, <1>20 DEF CurrentOK, Telling
<1> QED
  BY <1>15, <1>17, <1>18, <1>19, <1>21 DEF DeskInv

(* Stuttering. *)
LEMMA DeskStutter ==
  ASSUME DeskInv, UNCHANGED deskVars PROVE DeskInv'
<1>1. DeskTypes'
  BY DEF DeskInv, DeskTypes, deskVars
<1>2. ViewsOK'
  BY DEF DeskInv, ViewsOK, Opening, LiveActive, deskVars
<1>3. TokenOK'
  BY DEF DeskInv, TokenOK, OpenedWith, Opening, LiveActive, deskVars
<1>4. PagesOK'
  BY DEF DeskInv, PagesOK, PagesAgree, Paging, deskVars
<1>5. CurrentOK'
  BY DEF DeskInv, CurrentOK, Current, Displayed, Telling, Opening, deskVars
<1> QED
  BY <1>1, <1>2, <1>3, <1>4, <1>5 DEF DeskInv

(* Unless an edit's message was overtaken while it waited for room:         *)
(* however the live task's messages, the commands' and the replacement of   *)
(* previews interleave, the window that has been sent everything shows the  *)
(* current view as the projection has it, and pages of an archive are of    *)
(* the archive as it was opened.                                            *)
THEOREM WindowIsCurrent == DeskSpec => []UiCurrent
<1>1. DeskInv /\ OwedOK /\ [DeskNext]_deskVars => DeskInv'
  <2> SUFFICES ASSUME DeskInv, OwedOK, [DeskNext]_deskVars PROVE DeskInv'
    OBVIOUS
  <2>1. CASE WriterSends
    BY <2>1, WriterSendsInv
  <2>2. ASSUME NEW x \in Things, NEW preview \in BOOLEAN, ObserveEvent(x, preview) PROVE DeskInv'
    BY <2>2, ObserveInv
  <2>3. CASE LiveEnds
    BY <2>3, LiveEndsInv
  <2>4. CASE LiveRaises
    BY <2>4, LiveRaisesInv
  <2>5. CASE SnapshotSaved
    BY <2>5, SnapshotSavedInv
  <2>6. CASE TaskSends
    BY <2>6, TaskSendsInv
  <2>7. CASE StartSession
    BY <2>7, StartSessionInv
  <2>8. CASE TellEdit
    BY <2>8, TellEditInv
  <2>9. CASE EditSaved
    BY <2>9, EditSavedInv
  <2>10. CASE SendResult
    BY <2>10, SendResultInv
  <2>11. ASSUME NEW x \in Things, EditThing(x) PROVE DeskInv'
    BY <2>11, EditThingInv
  <2>12. ASSUME NEW x \in Things, HistoryPage(x) PROVE DeskInv'
    BY <2>12, HistoryPageInv
  <2>13. ASSUME NEW f \in 1 .. MaxViews, OpenHistory(f) PROVE DeskInv'
    BY <2>13, OpenHistoryInv
  <2>14. CASE UNCHANGED deskVars
    BY <2>14, DeskStutter
  <2> QED
    BY <2>1, <2>2, <2>3, <2>4, <2>5, <2>6, <2>7, <2>8, <2>9, <2>10, <2>11, <2>12, <2>13, <2>14 DEF DeskNext
<1>2. DeskInit => OwedOK
  BY DEF DeskInit, OwedOK, Telling, NoCommand
<1>3. DeskInv /\ OwedOK /\ [DeskNext]_deskVars => OwedOK'
  BY OwedNext
<1> QED
  BY <1>1, <1>2, <1>3, DeskInitInv, InvGivesCurrent, PTL DEF DeskSpec

-----------------------------------------------------------------------------
(* LiveClient: the packets that are still to be taken, and what was sent.  *)
PipeRecords == [kind : {"packet", "stopped"}, n : Int]
Records == PipeRecords \cup [kind : {"error", "end"}, n : Int]
Packet(m) == [kind |-> "packet", n |-> m]

LiveTypes ==
  /\ liveHelper \in [phase : {"run", "exited", "crashed"}, made : 0 .. MaxPackets, dropped : SUBSET Nat]
  /\ IsFiniteSet(liveHelper.dropped)
  /\ livePipe \in Seq(PipeRecords) /\ liveRecords \in Seq(Records) /\ Len(liveRecords) <= 1
  /\ liveLast \in 0 .. MaxPackets /\ liveLast <= liveHelper.made
  /\ liveQueue \in Seq(Nat) /\ liveWire \in Seq(Nat) /\ liveFailed \in BOOLEAN
  /\ liveSource \in {"open", "ending", "done", "dead"}
  /\ liveSender \in {"run", "done", "dead"}

(* What was read and what is in the pipe are packets in order, after the  *)
(* last one taken.                                                         *)
PacketsAhead ==
  /\ \A i \in DOMAIN liveRecords : liveRecords[i].kind = "packet" =>
       liveLast < liveRecords[i].n /\ liveRecords[i].n <= liveHelper.made
  /\ \A i \in DOMAIN livePipe : livePipe[i].kind = "packet" =>
       liveLast < livePipe[i].n /\ livePipe[i].n <= liveHelper.made
  /\ \A i \in DOMAIN liveRecords, j \in DOMAIN livePipe :
       liveRecords[i].kind = "packet" /\ livePipe[j].kind = "packet" => liveRecords[i].n < livePipe[j].n
  /\ \A i, j \in DOMAIN livePipe :
       i < j /\ livePipe[i].kind = "packet" /\ livePipe[j].kind = "packet" => livePipe[i].n < livePipe[j].n

(* A later packet is on its way or was dropped. *)
Kept(m) == \/ m \in liveHelper.dropped
           \/ \E i \in DOMAIN liveRecords : liveRecords[i] = Packet(m)
           \/ \E i \in DOMAIN livePipe : livePipe[i] = Packet(m)
OpenSource ==
  liveSource = "open" =>
    /\ ~liveFailed /\ PacketsAhead
    /\ \A m \in liveLast + 1 .. liveHelper.made : Kept(m)
    /\ \A i \in DOMAIN liveRecords :
         liveRecords[i].kind = "end" => livePipe = <<>> /\ liveHelper.phase # "run"

(* A source that ended without a failure has no packet left. *)
EndedSource ==
  liveSource \in {"ending", "done"} /\ ~liveFailed =>
    liveHelper.phase # "run" /\ liveLast + 1 .. liveHelper.made \subseteq liveHelper.dropped

(* The stream, sent and queued, without the mark of its end. *)
Stream(s) ==
  \/ liveSource \in {"open", "ending"} /\ liveSender = "run" /\ liveWire \o liveQueue = s
  \/ liveSource = "done" /\ liveSender = "run" /\ liveWire \o liveQueue = Append(s, End)
  \/ liveSource = "done" /\ liveSender = "done" /\ liveWire = Append(s, Finish) /\ liveQueue = <<>>
Following(i, k) == [j \in 1 .. (k - i + 1) |-> i + j - 1]
(* It is without a hole, or says where one is. *)
StreamTrue(s) ==
  \/ 0 \in ToSet(s)
  \/ \E i \in 1 .. liveLast + 1 : s = Following(i, liveLast) /\ 1 .. i - 1 \subseteq liveHelper.dropped
StreamKept ==
  ~liveFailed /\ liveSource # "dead" /\ liveSender # "dead" =>
    \E s \in Seq(0 .. MaxPackets) : Stream(s) /\ StreamTrue(s)

Ended == liveStatus = "completed" => liveMain = "saved" /\ liveHelper.phase # "run"

LiveInv == LiveTypes /\ OpenSource /\ EndedSource /\ StreamKept /\ Ended /\ CompletedIsHeard

(* The invariant holds initially. *)
LEMMA InitLive == LiveInit => LiveInv
<1> SUFFICES ASSUME LiveInit PROVE LiveInv
  OBVIOUS
<1>1. LiveTypes
  <2>1. liveHelper \in [phase : {"run", "exited", "crashed"}, made : 0 .. MaxPackets, dropped : SUBSET Nat]
    BY LiveAssumption DEF LiveInit
  <2>2. IsFiniteSet(liveHelper.dropped) /\ liveHelper.made = 0
    BY FS_EmptySet DEF LiveInit
  <2>3. liveLast \in 0 .. MaxPackets /\ liveLast <= liveHelper.made
    BY <2>2, LiveAssumption DEF LiveInit
  <2>4. /\ livePipe \in Seq(PipeRecords) /\ liveRecords \in Seq(Records) /\ Len(liveRecords) <= 1
        /\ liveQueue \in Seq(Nat) /\ liveWire \in Seq(Nat)
    BY DEF LiveInit
  <2>5. /\ liveFailed \in BOOLEAN /\ liveSource \in {"open", "ending", "done", "dead"}
        /\ liveSender \in {"run", "done", "dead"}
    BY DEF LiveInit
  <2> QED
    BY <2>1, <2>2, <2>3, <2>4, <2>5 DEF LiveTypes
<1>2. OpenSource /\ EndedSource
  BY DEF LiveInit, OpenSource, PacketsAhead, EndedSource
<1>3. Ended /\ CompletedIsHeard
  BY DEF LiveInit, Ended, CompletedIsHeard
<1>4. StreamKept
  <2>1. <<>> \in Seq(0 .. MaxPackets) /\ <<>> \o <<>> = <<>>
    OBVIOUS
  <2>2. Stream(<<>>)
    BY <2>1 DEF LiveInit, Stream
  <2>3. Following(1, 0) = <<>>
    BY DEF Following
  <2>4. StreamTrue(<<>>)
    BY <2>3 DEF LiveInit, StreamTrue
  <2> QED
    BY <2>1, <2>2, <2>4 DEF StreamKept
<1> QED
  BY <1>1, <1>2, <1>3, <1>4 DEF LiveInv

(* What records are. *)
LEMMA RecordsTyped ==
  ASSUME LiveTypes
  PROVE  /\ \A i \in DOMAIN livePipe :
               livePipe[i] \in PipeRecords /\ livePipe[i].n \in Int /\ livePipe[i].kind \in {"packet", "stopped"}
         /\ \A i \in DOMAIN liveRecords :
               liveRecords[i] \in Records /\ liveRecords[i].n \in Int
<1>1. livePipe \in Seq(PipeRecords) /\ liveRecords \in Seq(Records)
  BY DEF LiveTypes
<1>2. /\ \A i \in DOMAIN livePipe : livePipe[i] \in PipeRecords
      /\ \A i \in DOMAIN liveRecords : liveRecords[i] \in Records
  BY <1>1, ElementOfSeq, LenProperties
<1>3. \A x \in PipeRecords : x.n \in Int /\ x.kind \in {"packet", "stopped"}
  BY DEF PipeRecords
<1>4. \A x \in Records : x.n \in Int
  BY <1>3 DEF Records
<1> QED
  BY <1>2, <1>3, <1>4

(* What was reported as completed is over. *)
LEMMA ReportKept ==
  ASSUME LiveInv, liveStatus' = liveStatus,
         \/ liveMain = "run" \/ liveHelper.phase = "run"
         \/ UNCHANGED <<liveMain, liveHelper, liveWire>>
  PROVE  Ended' /\ CompletedIsHeard'
BY DEF LiveInv, Ended, CompletedIsHeard

(* The stream is not touched, and packets were dropped, if anything. *)
LEMMA StreamUntouched ==
  ASSUME LiveInv, UNCHANGED <<liveSource, liveSender, liveWire, liveQueue, liveLast, liveFailed>>,
         liveHelper.dropped \subseteq liveHelper'.dropped
  PROVE  StreamKept'
<1> SUFFICES ASSUME ~liveFailed, liveSource # "dead", liveSender # "dead"
             PROVE  \E s \in Seq(0 .. MaxPackets) : Stream(s)' /\ StreamTrue(s)'
  BY DEF StreamKept
<1>1. PICK s \in Seq(0 .. MaxPackets) : Stream(s) /\ StreamTrue(s)
  BY DEF LiveInv, StreamKept
<1>2. Stream(s)'
  BY <1>1 DEF Stream
<1>3. StreamTrue(s)'
  BY <1>1 DEF StreamTrue
<1> QED
  BY <1>2, <1>3

(* The helper makes a packet, and writes it or drops it. *)
LEMMA HelperRecordsKeeps ==
  ASSUME LiveInv, HelperRecords
  PROVE  LiveInv'
<1> DEFINE n == liveHelper.made + 1
<1>0. /\ LiveTypes /\ OpenSource /\ EndedSource
      /\ liveHelper.phase = "run"
      /\ UNCHANGED <<liveRecords, liveSource, liveSender, liveWire, liveQueue, liveLast, liveFailed,
                     liveMain, liveStatus>>
  BY DEF LiveInv, HelperRecords, reading, sending, ending
<1>1. /\ liveHelper.made \in 0 .. MaxPackets /\ n \in 0 .. MaxPackets
      /\ liveHelper.dropped \in SUBSET Nat /\ IsFiniteSet(liveHelper.dropped)
      /\ liveLast \in 0 .. MaxPackets /\ liveLast <= liveHelper.made
      /\ livePipe \in Seq(PipeRecords) /\ Len(livePipe) \in Nat
  BY <1>0, LiveAssumption DEF LiveTypes, HelperRecords
<1>2. /\ liveHelper'.phase = "run" /\ liveHelper'.made = n
      /\ \/ liveHelper'.dropped = liveHelper.dropped /\ livePipe' = Append(livePipe, Packet(n))
         \/ liveHelper'.dropped = liveHelper.dropped \cup {n} /\ livePipe' = livePipe
      /\ liveHelper' \in [phase : {"run", "exited", "crashed"}, made : 0 .. MaxPackets, dropped : SUBSET Nat]
  <2>1. liveHelper \in [phase : {"run", "exited", "crashed"}, made : 0 .. MaxPackets, dropped : SUBSET Nat]
    BY <1>0 DEF LiveTypes
  <2>2. CASE /\ liveHelper' = [liveHelper EXCEPT !.made = n]
             /\ livePipe' = Append(livePipe, [kind |-> "packet", n |-> n])
    BY <1>0, <1>1, <2>1, <2>2 DEF Packet
  <2>3. CASE /\ liveHelper' = [liveHelper EXCEPT !.made = n, !.dropped = @ \union {n}]
             /\ livePipe' = livePipe
    <3>1. liveHelper.dropped \union {n} \in SUBSET Nat
      BY <1>1
    <3> QED
      BY <1>0, <1>1, <2>1, <2>3, <3>1
  <2> QED
    BY <2>2, <2>3 DEF HelperRecords
<1>3. Packet(n) \in PipeRecords
  BY <1>1 DEF Packet, PipeRecords
<1>4. /\ livePipe' \in Seq(PipeRecords)
      /\ \A i \in DOMAIN livePipe : i \in DOMAIN livePipe' /\ livePipe'[i] = livePipe[i]
      /\ \A i \in DOMAIN livePipe' :
           \/ i \in DOMAIN livePipe /\ livePipe'[i] = livePipe[i]
           \/ i = Len(livePipe) + 1 /\ livePipe'[i] = Packet(n)
      /\ livePipe' # livePipe => \E i \in DOMAIN livePipe' : livePipe'[i] = Packet(n)
      /\ \A i \in DOMAIN livePipe : i \in Int /\ i < Len(livePipe) + 1
  <2>1. CASE livePipe' = livePipe
    <3>1. \A i \in DOMAIN livePipe : i \in Int /\ i < Len(livePipe) + 1
      BY <1>1
    <3> QED
      BY <1>1, <2>1, <3>1
  <2>2. CASE livePipe' = Append(livePipe, Packet(n))
    <3> DEFINE p == Packet(n)
    <3>1. p \in PipeRecords /\ livePipe' = Append(livePipe, p)
      BY <1>3, <2>2
    <3> HIDE DEF p
    <3>2. /\ livePipe' \in Seq(PipeRecords) /\ DOMAIN livePipe' = 1 .. Len(livePipe) + 1
          /\ DOMAIN livePipe = 1 .. Len(livePipe)
          /\ \A i \in 1 .. Len(livePipe) : livePipe'[i] = livePipe[i]
          /\ livePipe'[Len(livePipe) + 1] = p
      BY <1>1, <3>1
    <3>3. \A i \in 1 .. Len(livePipe) + 1 : i \in 1 .. Len(livePipe) \/ i = Len(livePipe) + 1
      BY <1>1
    <3>4. \A i \in 1 .. Len(livePipe) : i \in 1 .. Len(livePipe) + 1 /\ i < Len(livePipe) + 1
      BY <1>1
    <3>5. Len(livePipe) + 1 \in 1 .. Len(livePipe) + 1
      BY <1>1
    <3> QED
      BY <3>2, <3>3, <3>4, <3>5 DEF p
  <2> QED
    BY <1>2, <2>1, <2>2
<1>5. LiveTypes'
  <2>1. IsFiniteSet(liveHelper.dropped \cup {n})
    BY <1>1, FS_AddElement
  <2>2. IsFiniteSet(liveHelper'.dropped)
    BY <1>1, <1>2, <2>1
  <2> QED
    BY <1>0, <1>1, <1>2, <1>4, <2>2 DEF LiveTypes
<1>6. OpenSource'
  <2> SUFFICES ASSUME liveSource = "open"
               PROVE  /\ ~liveFailed /\ PacketsAhead'
                      /\ \A m \in liveLast + 1 .. n : Kept(m)'
                      /\ \A i \in DOMAIN liveRecords : liveRecords[i].kind # "end"
    BY <1>0, <1>2 DEF OpenSource
  <2>1. /\ ~liveFailed /\ PacketsAhead
        /\ \A m \in liveLast + 1 .. liveHelper.made : Kept(m)
        /\ \A i \in DOMAIN liveRecords : liveRecords[i].kind # "end"
    BY <1>0 DEF OpenSource
  <2>2. Packet(n).n = n /\ liveLast < n /\ liveHelper.made < n
    BY <1>1 DEF Packet
  <2>3. \A i \in DOMAIN liveRecords : liveRecords[i].kind = "packet" => liveRecords[i].n \in Int
    BY <1>0, RecordsTyped
  <2>4. \A i \in DOMAIN livePipe : livePipe[i].n \in Int
    BY <1>0, RecordsTyped
  <2>5. PacketsAhead'
    <3>1. \A i \in DOMAIN liveRecords' : liveRecords'[i].kind = "packet" =>
            liveLast' < liveRecords'[i].n /\ liveRecords'[i].n <= liveHelper'.made
      BY <1>0, <1>1, <1>2, <2>1, <2>3 DEF PacketsAhead
    <3>2. \A i \in DOMAIN livePipe' : livePipe'[i].kind = "packet" =>
            liveLast' < livePipe'[i].n /\ livePipe'[i].n <= liveHelper'.made
      BY <1>0, <1>1, <1>2, <1>4, <2>1, <2>2, <2>4 DEF PacketsAhead
    <3>3. \A i \in DOMAIN liveRecords', j \in DOMAIN livePipe' :
            liveRecords'[i].kind = "packet" /\ livePipe'[j].kind = "packet" =>
              liveRecords'[i].n < livePipe'[j].n
      BY <1>0, <1>1, <1>4, <2>1, <2>2, <2>3 DEF PacketsAhead
    <3>4. \A i, j \in DOMAIN livePipe' :
            i < j /\ livePipe'[i].kind = "packet" /\ livePipe'[j].kind = "packet" =>
              livePipe'[i].n < livePipe'[j].n
      <4> TAKE i, j \in DOMAIN livePipe'
      <4> HAVE i < j /\ livePipe'[i].kind = "packet" /\ livePipe'[j].kind = "packet"
      <4>1. i \in DOMAIN livePipe /\ livePipe'[i] = livePipe[i]
        BY <1>1, <1>4
      <4>2. livePipe[i].n <= liveHelper.made
        BY <2>1, <4>1 DEF PacketsAhead
      <4> QED
        BY <1>1, <1>4, <2>1, <2>2, <2>4, <4>1, <4>2 DEF PacketsAhead
    <3> QED
      BY <3>1, <3>2, <3>3, <3>4 DEF PacketsAhead
  <2>6. ASSUME NEW m \in liveLast + 1 .. n
        PROVE  Kept(m)'
    <3>1. CASE m = n
      BY <1>2, <1>4, <3>1 DEF Kept
    <3>2. CASE m # n
      <4>1. m \in liveLast + 1 .. liveHelper.made
        BY <1>1, <3>2
      <4>2. Kept(m)
        BY <2>1, <4>1
      <4> QED
        BY <1>0, <1>2, <1>4, <4>2 DEF Kept
    <3> QED
      BY <3>1, <3>2
  <2> QED
    BY <2>1, <2>5, <2>6
<1>7. EndedSource'
  BY <1>0 DEF EndedSource
<1>8. StreamKept' /\ Ended' /\ CompletedIsHeard'
  <2>1. liveHelper.dropped \subseteq liveHelper'.dropped
    BY <1>2
  <2> QED
    BY <1>0, <2>1, StreamUntouched, ReportKept
<1> QED
  BY <1>5, <1>6, <1>7, <1>8 DEF LiveInv

(* The helper exits or crashes. *)
LEMMA HelperStopsKeeps ==
  ASSUME LiveInv, HelperStops
  PROVE  LiveInv'
<1> DEFINE stop == [kind |-> "stopped", n |-> liveHelper.made - Cardinality(liveHelper.dropped)]
<1>0. /\ LiveTypes /\ OpenSource /\ EndedSource
      /\ liveHelper.phase = "run"
      /\ UNCHANGED <<liveRecords, liveSource, liveSender, liveWire, liveQueue, liveLast, liveFailed,
                     liveMain, liveStatus>>
  BY DEF LiveInv, HelperStops, reading, sending, ending
<1>1. /\ liveHelper'.made = liveHelper.made /\ liveHelper'.dropped = liveHelper.dropped
      /\ liveHelper'.phase \in {"exited", "crashed"}
      /\ liveHelper' \in [phase : {"run", "exited", "crashed"}, made : 0 .. MaxPackets, dropped : SUBSET Nat]
      /\ livePipe' = Append(livePipe, stop) \/ livePipe' = livePipe
  <2>1. liveHelper \in [phase : {"run", "exited", "crashed"}, made : 0 .. MaxPackets, dropped : SUBSET Nat]
    BY <1>0 DEF LiveTypes
  <2>2. CASE /\ liveHelper' = [liveHelper EXCEPT !.phase = "exited"] /\ livePipe' = Append(livePipe, stop)
    BY <2>1, <2>2
  <2>3. CASE /\ liveHelper' = [liveHelper EXCEPT !.phase = "crashed"] /\ livePipe' = livePipe
    BY <2>1, <2>3
  <2> QED
    BY <2>2, <2>3 DEF HelperStops
<1>2. stop \in PipeRecords /\ stop.kind = "stopped"
  <2>1. Cardinality(liveHelper.dropped) \in Nat
    BY <1>0, FS_CardinalityType DEF LiveTypes
  <2>2. liveHelper.made \in Int
    BY <1>0, LiveAssumption DEF LiveTypes
  <2> QED
    BY <2>1, <2>2 DEF PipeRecords
<1> HIDE DEF stop
<1>3. livePipe \in Seq(PipeRecords) /\ Len(livePipe) \in Nat
  BY <1>0 DEF LiveTypes
<1>4. /\ livePipe' \in Seq(PipeRecords)
      /\ \A i \in DOMAIN livePipe : i \in DOMAIN livePipe' /\ livePipe'[i] = livePipe[i]
      /\ \A i \in DOMAIN livePipe' : livePipe'[i].kind = "packet" =>
           i \in DOMAIN livePipe /\ livePipe'[i] = livePipe[i]
  <2>1. CASE livePipe' = livePipe
    BY <1>3, <2>1
  <2>2. CASE livePipe' = Append(livePipe, stop)
    <3>1. /\ livePipe' \in Seq(PipeRecords) /\ DOMAIN livePipe' = 1 .. Len(livePipe) + 1
          /\ DOMAIN livePipe = 1 .. Len(livePipe)
          /\ \A i \in 1 .. Len(livePipe) : livePipe'[i] = livePipe[i]
          /\ livePipe'[Len(livePipe) + 1] = stop
      BY <1>2, <1>3, <2>2
    <3>2. \A i \in 1 .. Len(livePipe) + 1 : i \in 1 .. Len(livePipe) \/ i = Len(livePipe) + 1
      BY <1>3
    <3>3. \A i \in 1 .. Len(livePipe) : i \in 1 .. Len(livePipe) + 1
      BY <1>3
    <3> QED
      BY <1>2, <3>1, <3>2, <3>3
  <2> QED
    BY <1>1, <2>1, <2>2
<1>5. LiveTypes'
  BY <1>0, <1>1, <1>4 DEF LiveTypes
<1>6. OpenSource'
  <2> SUFFICES ASSUME liveSource = "open"
               PROVE  /\ ~liveFailed /\ PacketsAhead'
                      /\ \A m \in liveLast + 1 .. liveHelper.made : Kept(m)'
                      /\ \A i \in DOMAIN liveRecords : liveRecords[i].kind # "end"
    BY <1>0, <1>1 DEF OpenSource
  <2>1. /\ ~liveFailed /\ PacketsAhead
        /\ \A m \in liveLast + 1 .. liveHelper.made : Kept(m)
        /\ \A i \in DOMAIN liveRecords : liveRecords[i].kind # "end"
    BY <1>0 DEF OpenSource
  <2>2. PacketsAhead'
    BY <1>0, <1>1, <1>4, <2>1 DEF PacketsAhead
  <2>3. \A m \in liveLast + 1 .. liveHelper.made : Kept(m)'
    BY <1>0, <1>1, <1>4, <2>1 DEF Kept
  <2> QED
    BY <2>1, <2>2, <2>3
<1>7. EndedSource'
  BY <1>0 DEF EndedSource
<1>8. StreamKept' /\ Ended' /\ CompletedIsHeard'
  <2>1. liveHelper.dropped \subseteq liveHelper'.dropped
    BY <1>1
  <2> QED
    BY <1>0, <2>1, StreamUntouched, ReportKept
<1> QED
  BY <1>5, <1>6, <1>7, <1>8 DEF LiveInv

(* The packet read leads the pipe. *)
LEMMA ReadRecordKeeps ==
  ASSUME LiveInv, ReadRecord
  PROVE  LiveInv'
<1>0. /\ LiveTypes /\ OpenSource /\ EndedSource
      /\ liveSource = "open" /\ liveRecords = <<>> /\ liveMain = "run"
      /\ UNCHANGED <<liveHelper, liveSource, liveSender, liveWire, liveQueue, liveLast, liveFailed,
                     liveMain, liveStatus>>
  BY DEF LiveInv, ReadRecord, sending, ending
<1>1. EndedSource' /\ StreamKept' /\ Ended' /\ CompletedIsHeard'
  BY <1>0, StreamUntouched, ReportKept DEF EndedSource
<1>2. /\ ~liveFailed /\ PacketsAhead /\ \A m \in liveLast + 1 .. liveHelper.made : Kept(m)
  BY <1>0 DEF OpenSource
<1>3. SUFFICES LiveTypes' /\ OpenSource'
  BY <1>1 DEF LiveInv
<1>4. ASSUME NEW r \in Records, liveRecords' = <<r>>, livePipe' \in Seq(PipeRecords)
      PROVE  LiveTypes' /\ DOMAIN liveRecords' = {1} /\ liveRecords'[1] = r
  <2>1. <<r>> \in Seq(Records) /\ Len(<<r>>) = 1 /\ DOMAIN <<r>> = {1} /\ <<r>>[1] = r
    BY <1>4
  <2> QED
    BY <1>0, <1>4, <2>1 DEF LiveTypes
<1>5. CASE livePipe # <<>> /\ livePipe' = Tail(livePipe)
           /\ liveRecords' = << IF Head(livePipe).kind = "packet" THEN Head(livePipe)
                                ELSE IF Head(livePipe).n = liveDecoder.received THEN Head(livePipe)
                                ELSE [kind |-> "error", n |-> 0] >>
  <2> DEFINE h == Head(livePipe)
             r == IF h.kind = "packet" THEN h
                  ELSE IF h.n = liveDecoder.received THEN h ELSE [kind |-> "error", n |-> 0]
  <2>1. livePipe \in Seq(PipeRecords) /\ Len(livePipe) \in Nat \ {0}
    BY <1>0, <1>5, EmptySeq DEF LiveTypes
  <2>2. /\ h = livePipe[1] /\ h \in PipeRecords /\ Tail(livePipe) \in Seq(PipeRecords)
        /\ DOMAIN livePipe' = 1 .. Len(livePipe) - 1 /\ DOMAIN livePipe = 1 .. Len(livePipe)
        /\ \A i \in 1 .. Len(livePipe) - 1 : livePipe'[i] = livePipe[i + 1]
    BY <1>5, <2>1
  <2>3. r \in Records /\ liveRecords' = <<r>> /\ r.kind # "end" /\ (r.kind = "packet" => r = h)
    BY <1>5, <2>2 DEF Records, PipeRecords
  <2>4. (h.kind = "packet" => r = h) /\ h.kind \in {"packet", "stopped"}
    BY <2>2 DEF PipeRecords
  <2> HIDE DEF h, r
  <2>5. LiveTypes' /\ DOMAIN liveRecords' = {1} /\ liveRecords'[1] = r
    BY <1>4, <1>5, <2>2, <2>3
  <2>6. /\ \A i \in 1 .. Len(livePipe) - 1 : i + 1 \in DOMAIN livePipe /\ 1 < i + 1
        /\ 1 \in DOMAIN livePipe
        /\ \A i, j \in 1 .. Len(livePipe) - 1 : i < j => i + 1 < j + 1
        /\ \A i \in DOMAIN livePipe : i = 1 \/ (i - 1 \in 1 .. Len(livePipe) - 1 /\ i = (i - 1) + 1)
    BY <2>1, <2>2
  <2>7. PacketsAhead'
    <3>1. \A i \in DOMAIN liveRecords' : liveRecords'[i].kind = "packet" =>
            liveLast' < liveRecords'[i].n /\ liveRecords'[i].n <= liveHelper'.made
      BY <1>0, <1>2, <2>2, <2>3, <2>5, <2>6 DEF PacketsAhead
    <3>2. \A i \in DOMAIN livePipe' : livePipe'[i].kind = "packet" =>
            liveLast' < livePipe'[i].n /\ livePipe'[i].n <= liveHelper'.made
      BY <1>0, <1>2, <2>2, <2>6 DEF PacketsAhead
    <3>3. \A i \in DOMAIN liveRecords', j \in DOMAIN livePipe' :
            liveRecords'[i].kind = "packet" /\ livePipe'[j].kind = "packet" =>
              liveRecords'[i].n < livePipe'[j].n
      <4>1. \A j \in DOMAIN livePipe' :
              /\ j + 1 \in DOMAIN livePipe /\ 1 \in DOMAIN livePipe /\ 1 < j + 1
              /\ livePipe'[j] = livePipe[j + 1]
        BY <2>2, <2>6
      <4>2. \A j \in DOMAIN livePipe' :
              h.kind = "packet" /\ livePipe'[j].kind = "packet" => h.n < livePipe'[j].n
        BY <1>2, <2>2, <4>1 DEF PacketsAhead
      <4> QED
        BY <2>3, <2>5, <4>2
    <3>4. \A i, j \in DOMAIN livePipe' :
            i < j /\ livePipe'[i].kind = "packet" /\ livePipe'[j].kind = "packet" =>
              livePipe'[i].n < livePipe'[j].n
      BY <1>2, <2>2, <2>6 DEF PacketsAhead
    <3> QED
      BY <3>1, <3>2, <3>3, <3>4 DEF PacketsAhead
  <2>8. ASSUME NEW m \in liveLast + 1 .. liveHelper.made
        PROVE  Kept(m)'
    <3>1. Kept(m) /\ DOMAIN liveRecords = {}
      BY <1>0, <1>2
    <3>2. CASE m \in liveHelper.dropped
      BY <1>0, <3>2 DEF Kept
    <3>3. CASE \E i \in DOMAIN livePipe : livePipe[i] = Packet(m)
      <4>1. PICK i \in DOMAIN livePipe : livePipe[i] = Packet(m)
        BY <3>3
      <4>2. CASE i = 1
        <5>1. h = Packet(m) /\ Packet(m).kind = "packet"
          BY <2>2, <4>1, <4>2 DEF Packet
        <5> QED
          BY <2>4, <2>5, <5>1 DEF Kept
      <4>3. CASE i # 1
        <5>1. i - 1 \in DOMAIN livePipe' /\ livePipe'[i - 1] = Packet(m)
          BY <2>2, <2>6, <4>1, <4>3
        <5> QED
          BY <5>1 DEF Kept
      <4> QED
        BY <4>2, <4>3
    <3> QED
      BY <3>1, <3>2, <3>3 DEF Kept
  <2>9. OpenSource'
    BY <1>0, <1>2, <2>3, <2>5, <2>7, <2>8 DEF OpenSource
  <2> QED
    BY <2>5, <2>9
<1>6. CASE /\ livePipe = <<>> /\ liveHelper.phase # "run" /\ livePipe' = livePipe
           /\ liveRecords' = << [kind |-> IF liveDecoder.stopped /\ liveHelper.phase = "exited" THEN "end" ELSE "error",
                                 n |-> 0] >>
  <2> DEFINE r == [kind |-> IF liveDecoder.stopped /\ liveHelper.phase = "exited" THEN "end" ELSE "error", n |-> 0]
  <2>1. r \in Records /\ r.kind # "packet" /\ liveRecords' = <<r>> /\ livePipe' \in Seq(PipeRecords)
    BY <1>0, <1>6 DEF Records, LiveTypes
  <2> HIDE DEF r
  <2>2. LiveTypes' /\ DOMAIN liveRecords' = {1} /\ liveRecords'[1] = r
    BY <1>4, <2>1
  <2>3. DOMAIN livePipe' = {} /\ DOMAIN livePipe = {} /\ DOMAIN liveRecords = {}
    BY <1>0, <1>6
  <2>4. PacketsAhead'
    BY <2>1, <2>2, <2>3 DEF PacketsAhead
  <2>5. \A m \in liveLast + 1 .. liveHelper.made : Kept(m)'
    BY <1>0, <1>2, <2>3 DEF Kept
  <2>6. OpenSource'
    BY <1>0, <1>2, <1>6, <2>4, <2>5 DEF OpenSource
  <2> QED
    BY <2>2, <2>6
<1> QED
  BY <1>5, <1>6 DEF ReadRecord

(* What goes in at the end of the stream. *)
LEMMA StreamOpen ==
  ASSUME LiveInv, liveSource \in {"open", "ending"}, ~liveFailed, liveSender # "dead"
  PROVE  /\ liveSender = "run" /\ liveWire \o liveQueue \in Seq(0 .. MaxPackets)
         /\ StreamTrue(liveWire \o liveQueue)
<1>1. PICK s \in Seq(0 .. MaxPackets) : Stream(s) /\ StreamTrue(s)
  BY DEF LiveInv, StreamKept
<1>2. liveSender = "run" /\ liveWire \o liveQueue = s
  BY <1>1 DEF Stream
<1> QED
  BY <1>1, <1>2

(* A run of packets grows at its end. *)
LEMMA FollowingGrows ==
  ASSUME NEW i \in Nat, NEW k \in Nat, i <= k + 1
  PROVE  /\ Following(i, k) \o <<k + 1>> = Following(i, k + 1)
         /\ Following(k + 1, k) = <<>> /\ Following(i, i) = <<i>>
<1> DEFINE s == Following(i, k)
           t == Following(i, k + 1)
<1>1. s \in Seq(Nat) /\ Len(s) = k - i + 1 /\ \A j \in 1 .. k - i + 1 : s[j] = i + j - 1
  BY DEF Following
<1>2. t \in Seq(Nat) /\ Len(t) = k - i + 2 /\ \A j \in 1 .. k - i + 2 : t[j] = i + j - 1
  BY DEF Following
<1> HIDE DEF s, t
<1>3. /\ s \o <<k + 1>> \in Seq(Nat) /\ Len(s \o <<k + 1>>) = k - i + 2
      /\ \A j \in 1 .. k - i + 1 : (s \o <<k + 1>>)[j] = s[j]
      /\ (s \o <<k + 1>>)[k - i + 2] = k + 1
  BY <1>1
<1>4. \A j \in 1 .. k - i + 2 : (s \o <<k + 1>>)[j] = t[j]
  <2> TAKE j \in 1 .. k - i + 2
  <2>1. CASE j \in 1 .. k - i + 1
    BY <1>1, <1>2, <1>3, <2>1
  <2>2. CASE j = k - i + 2
    BY <1>2, <1>3, <2>2
  <2>3. j \in 1 .. k - i + 1 \/ j = k - i + 2
    OBVIOUS
  <2> QED
    BY <2>1, <2>2, <2>3
<1>5. s \o <<k + 1>> = t
  BY <1>2, <1>3, <1>4, SeqEqual
<1>6. Following(k + 1, k) = <<>> /\ Following(i, i) = <<i>>
  BY DEF Following
<1> QED
  BY <1>5, <1>6 DEF s, t

(* The elements of two sequences one after the other. *)
LEMMA ToSetConcat ==
  ASSUME NEW S, NEW s \in Seq(S), NEW t \in Seq(S)
  PROVE  ToSet(s \o t) = ToSet(s) \cup ToSet(t)
<1>1. \A x : ToSet(x) = Range(x)
  BY DEF ToSet, Range
<1> QED
  BY <1>1, RangeConcatenation

(* Three sequences one after the other. *)
LEMMA ConcatThree ==
  \A x, y, z \in Seq(Nat) : (x \o y) \o z = x \o (y \o z)
<1> SUFFICES ASSUME NEW x \in Seq(Nat), NEW y \in Seq(Nat), NEW z \in Seq(Nat)
             PROVE  (x \o y) \o z = x \o (y \o z)
  OBVIOUS
<1> DEFINE S == Nat
<1>1. x \in Seq(S) /\ y \in Seq(S) /\ z \in Seq(S)
  OBVIOUS
<1> HIDE DEF S
<1> QED
  BY <1>1, ConcatAssociative, SMT

(* What put_nowait puts. *)
LEMMA PutsTyped ==
  ASSUME NEW items \in Seq(Nat), liveQueue \in Seq(Nat)
  PROVE  /\ Puts(items).queue \in Seq(Nat)
         /\ ~Puts(items).full => Puts(items).queue = liveQueue \o items
<1> DEFINE room == QueueFrames - Len(liveQueue)
           k == IF Len(items) < room THEN Len(items) ELSE room
<1>1. room \in Int /\ k \in Int /\ k <= Len(items) /\ Len(items) \in Nat
  BY LiveAssumption
<1>2. Puts(items).queue = liveQueue \o SubSeq(items, 1, k) /\ Puts(items).full = (Len(items) > room)
  BY DEF Puts
<1>3. \A i \in 1 .. k : i \in 1 .. Len(items) /\ items[i] \in Nat
  BY <1>1, ElementOfSeq
<1> HIDE DEF k
<1>4. SubSeq(items, 1, k) \in Seq(Nat)
  BY <1>1, <1>3, SubSeqProperties
<1>5. ASSUME ~(Len(items) > room)
      PROVE  SubSeq(items, 1, k) = items
  <2>1. k = Len(items)
    BY <1>1, <1>5 DEF k
  <2> QED
    BY <2>1, SubSeqFull
<1>6. liveQueue \o SubSeq(items, 1, k) \in Seq(Nat)
  BY <1>4
<1> QED
  BY <1>2, <1>5, <1>6

(* A packet is put: its frame follows the last one, or a gap before it says *)
(* that something is missing.                                              *)
LEMMA PacketTaken ==
  ASSUME LiveInv, TakeRecord, liveRecords[1].kind = "packet"
  PROVE  LiveInv'
<1>a. PICK m : m = liveRecords[1].n
  OBVIOUS
<1>b. PICK items : items = Items(m)
  OBVIOUS
<1>0. /\ LiveTypes /\ OpenSource
      /\ liveSource = "open" /\ liveMain = "run" /\ liveRecords # <<>> /\ liveRecords' = <<>>
      /\ UNCHANGED <<liveHelper, livePipe, liveSender, liveWire, liveMain, liveStatus>>
  BY DEF LiveInv, TakeRecord, capture, sending, ending
<1>1. /\ liveQueue' = Puts(items).queue /\ liveLast' = m
      /\ IF Puts(items).full THEN SourceEnds(TRUE)
         ELSE UNCHANGED <<liveSource, liveFailed, liveObserver>>
  BY <1>a, <1>b DEF TakeRecord
<1>2. /\ ~liveFailed /\ PacketsAhead
      /\ \A x \in liveLast + 1 .. liveHelper.made : Kept(x)
  BY <1>0 DEF OpenSource
<1>3. /\ liveLast \in 0 .. MaxPackets /\ liveHelper.made \in 0 .. MaxPackets
      /\ liveQueue \in Seq(Nat) /\ liveWire \in Seq(Nat)
      /\ Len(liveRecords) = 1 /\ DOMAIN liveRecords = {1}
  <2>1. Len(liveRecords) \in Nat \ {0} /\ DOMAIN liveRecords = 1 .. Len(liveRecords) /\ Len(liveRecords) <= 1
    BY <1>0, EmptySeq, LenProperties DEF LiveTypes
  <2>2. Len(liveRecords) = 1
    BY <2>1
  <2> QED
    BY <1>0, <2>1, <2>2 DEF LiveTypes
<1>4. m \in Int /\ liveLast < m /\ m <= liveHelper.made
  BY <1>a, <1>0, <1>2, <1>3, RecordsTyped DEF PacketsAhead
<1>5. m \in 1 .. MaxPackets
  BY <1>3, <1>4, LiveAssumption
<1>6. /\ items = IF liveLast # 0 /\ m # liveLast + 1 THEN <<0, m>> ELSE <<m>>
      /\ items \in Seq(Nat) /\ items \in Seq(0 .. MaxPackets)
  <2>1. items = IF liveLast # 0 /\ m # liveLast + 1 THEN <<0, m>> ELSE <<m>>
    BY <1>b DEF Items
  <2>2. 0 \in 0 .. MaxPackets /\ m \in 0 .. MaxPackets /\ 0 \in Nat /\ m \in Nat
    BY <1>5, LiveAssumption
  <2>3. <<0, m>> \in Seq(Nat) /\ <<0, m>> \in Seq(0 .. MaxPackets)
    BY <2>2
  <2>4. <<m>> \in Seq(Nat) /\ <<m>> \in Seq(0 .. MaxPackets)
    BY <2>2
  <2> QED
    BY <2>1, <2>3, <2>4
<1>7. Ended' /\ CompletedIsHeard'
  BY <1>0, ReportKept
<1>8. liveQueue' \in Seq(Nat) /\ (~Puts(items).full => liveQueue' = liveQueue \o items)
  BY <1>1, <1>3, <1>6, PutsTyped
<1>9. liveFailed' \in BOOLEAN /\ liveSource' \in {"open", "ending", "done", "dead"}
  <2>1. CASE SourceEnds(TRUE)
    BY <2>1 DEF SourceEnds
  <2>2. CASE UNCHANGED <<liveSource, liveFailed, liveObserver>>
    <3>1. liveFailed' \in BOOLEAN
      BY <1>0, <2>2 DEF LiveTypes
    <3>2. liveSource' = "open"
      BY <1>0, <2>2
    <3> QED
      BY <3>1, <3>2
  <2> QED
    BY <1>1, <2>1, <2>2
<1>10. LiveTypes'
  BY <1>0, <1>1, <1>4, <1>5, <1>8, <1>9 DEF LiveTypes
<1>11. \A i \in DOMAIN livePipe : livePipe[i].kind = "packet" => m < livePipe[i].n /\ livePipe[i].n <= liveHelper.made
  BY <1>a, <1>2, <1>3 DEF PacketsAhead
<1>12. \A x \in liveLast + 1 .. liveHelper.made :
         x # m => x \in liveHelper.dropped \/ \E i \in DOMAIN livePipe : livePipe[i] = Packet(x)
  BY <1>a, <1>2, <1>3 DEF Kept, Packet
<1>13. CASE Puts(items).full
  <2>1. liveFailed' /\ liveSource' # "open"
    BY <1>1, <1>13 DEF SourceEnds
  <2> QED
    BY <1>7, <1>10, <2>1 DEF LiveInv, OpenSource, EndedSource, StreamKept
<1>14. CASE ~Puts(items).full
  <2>1. /\ UNCHANGED <<liveSource, liveFailed>> /\ liveQueue' = liveQueue \o items
    BY <1>1, <1>8, <1>14
  <2>2. OpenSource'
    <3>1. DOMAIN liveRecords' = {}
      BY <1>0
    <3>2. PacketsAhead'
      BY <1>0, <1>1, <1>2, <1>11, <3>1 DEF PacketsAhead
    <3>3. ASSUME NEW x \in m + 1 .. liveHelper.made
          PROVE  Kept(x)'
      <4>1. x \in liveLast + 1 .. liveHelper.made /\ x # m
        BY <1>3, <1>4
      <4> QED
        BY <1>0, <1>12, <4>1 DEF Kept
    <3> QED
      BY <1>0, <1>1, <1>2, <2>1, <3>1, <3>2, <3>3 DEF OpenSource
  <2>3. EndedSource'
    BY <1>0, <2>1 DEF EndedSource
  <2>4. StreamKept'
    <3> SUFFICES ASSUME liveSender # "dead"
                 PROVE  \E s \in Seq(0 .. MaxPackets) : Stream(s)' /\ StreamTrue(s)'
      BY <1>0 DEF StreamKept
    <3>0. PICK s : s = liveWire \o liveQueue
      OBVIOUS
    <3>1. liveSender = "run" /\ s \in Seq(0 .. MaxPackets) /\ StreamTrue(s)
      BY <1>0, <1>2, <3>0, StreamOpen
    <3>2. liveWire' \o liveQueue' = s \o items
      <4>1. (liveWire \o liveQueue) \o items = liveWire \o (liveQueue \o items)
        <5>1. liveWire \in Seq(Nat) /\ liveQueue \in Seq(Nat) /\ items \in Seq(Nat)
          BY <1>3, <1>6
        <5> QED
          BY <5>1, ConcatThree, Zenon
      <4> QED
        BY <1>0, <2>1, <3>0, <4>1
    <3>3. s \o items \in Seq(0 .. MaxPackets)
      BY <1>6, <3>1
    <3>4. Stream(s \o items)'
      BY <1>0, <2>1, <3>1, <3>2 DEF Stream
    <3>5. StreamTrue(s \o items)'
      <4>1. ToSet(s \o items) = ToSet(s) \cup ToSet(items)
        BY <1>6, <3>1, ToSetConcat
      <4>2. CASE 0 \in ToSet(s) \/ 0 \in ToSet(items)
        BY <4>1, <4>2 DEF StreamTrue
      <4>3. CASE ~(0 \in ToSet(s) \/ 0 \in ToSet(items))
        <5>1. items = <<m>>
          <6>1. 0 \in ToSet(<<0, m>>)
            BY DEF ToSet
          <6> QED
            BY <1>6, <4>3, <6>1
        <5>2. PICK i \in 1 .. liveLast + 1 : s = Following(i, liveLast) /\ 1 .. i - 1 \subseteq liveHelper.dropped
          BY <3>1, <4>3 DEF StreamTrue
        <5>3. liveLast \in Nat /\ i \in Nat /\ i <= liveLast + 1
          BY <1>3, LiveAssumption
        <5>4. CASE m = liveLast + 1
          <6>1. s \o items = Following(i, m) /\ i \in 1 .. m + 1
            BY <5>1, <5>2, <5>3, <5>4, FollowingGrows
          <6> QED
            BY <1>0, <1>1, <5>2, <6>1 DEF StreamTrue
        <5>5. CASE m # liveLast + 1
          <6>1. liveLast = 0 /\ i = 1
            <7>1. 0 \in ToSet(<<0, m>>)
              BY DEF ToSet
            <7>2. liveLast = 0
              BY <1>6, <4>3, <5>5, <7>1
            <7> QED
              BY <5>3, <7>2
          <6>2. s = <<>>
            <7>1. Following(0 + 1, 0) = <<>>
              BY DEF Following
            <7> QED
              BY <5>2, <6>1, <7>1
          <6>3. s \o items = Following(m, m) /\ m \in 1 .. m + 1
            <7>1. m \in Nat /\ m <= m + 1 /\ m \in 1 .. m + 1
              BY <1>5, LiveAssumption
            <7>2. Following(m, m) = <<m>>
              BY <7>1, FollowingGrows
            <7> QED
              BY <5>1, <6>2, <7>1, <7>2
          <6>4. 1 .. m - 1 \subseteq liveHelper.dropped
            <7> SUFFICES ASSUME NEW x \in 1 .. m - 1 PROVE x \in liveHelper.dropped
              OBVIOUS
            <7>1. x \in liveLast + 1 .. liveHelper.made /\ x # m /\ x < m
              BY <1>3, <1>4, <6>1
            <7>2. ASSUME NEW j \in DOMAIN livePipe, livePipe[j] = Packet(x)
                  PROVE  FALSE
              <8>1. livePipe[j].kind = "packet" /\ livePipe[j].n = x
                BY <7>2 DEF Packet
              <8>2. m < x
                BY <1>11, <8>1
              <8> QED
                BY <1>4, <7>1, <8>2
            <7> QED
              BY <1>12, <7>1, <7>2
          <6> QED
            BY <1>0, <1>1, <6>3, <6>4 DEF StreamTrue
        <5> QED
          BY <5>4, <5>5
      <4> QED
        BY <4>2, <4>3
    <3> QED
      BY <3>3, <3>4, <3>5
  <2> QED
    BY <1>7, <1>10, <2>2, <2>3, <2>4 DEF LiveInv
<1> QED
  BY <1>13, <1>14

(* The rest of what is read: the terminal, the end of the pipe, an error.   *)
LEMMA TakeRecordKeeps ==
  ASSUME LiveInv, TakeRecord
  PROVE  LiveInv'
<1>1. CASE liveRecords[1].kind = "packet"
  BY <1>1, PacketTaken
<1>2. CASE liveRecords[1].kind # "packet"
  <2>0. /\ LiveTypes /\ OpenSource /\ liveSource = "open" /\ liveMain = "run"
        /\ liveRecords # <<>> /\ liveRecords' = <<>>
        /\ UNCHANGED <<liveHelper, livePipe, liveSender, liveWire, liveMain, liveStatus>>
    BY DEF LiveInv, TakeRecord, capture, sending, ending
  <2>1. /\ UNCHANGED <<liveQueue, liveLast>>
        /\ \/ UNCHANGED <<liveSource, liveFailed>>
           \/ liveRecords[1].kind = "end" /\ SourceEnds(FALSE)
           \/ SourceEnds(TRUE)
    <3>1. CASE liveRecords[1].kind = "stopped"
      BY <1>2, <3>1 DEF TakeRecord
    <3>2. CASE liveRecords[1].kind = "error"
      BY <1>2, <3>2 DEF TakeRecord
    <3>3. CASE liveRecords[1].kind = "end"
      BY <1>2, <3>3 DEF TakeRecord
    <3>4. liveRecords[1].kind \in {"packet", "stopped", "error", "end"}
      <4>1. 1 \in DOMAIN liveRecords
        BY <2>0, EmptySeq, LenProperties DEF LiveTypes
      <4>2. liveRecords[1] \in Records
        BY <2>0, <4>1, RecordsTyped
      <4> QED
        BY <4>2 DEF Records, PipeRecords
    <3> QED
      BY <1>2, <3>1, <3>2, <3>3, <3>4
  <2>2. ~liveFailed /\ PacketsAhead /\ DOMAIN liveRecords' = {}
        /\ \A m \in liveLast + 1 .. liveHelper.made :
             m \in liveHelper.dropped \/ \E i \in DOMAIN livePipe : livePipe[i] = Packet(m)
    <3>1. \A i \in DOMAIN liveRecords : i = 1
      <4>1. DOMAIN liveRecords = 1 .. Len(liveRecords) /\ Len(liveRecords) \in Nat /\ Len(liveRecords) <= 1
        BY <2>0, LenProperties DEF LiveTypes
      <4> QED
        BY <4>1
    <3>2. /\ ~liveFailed /\ PacketsAhead
          /\ \A m \in liveLast + 1 .. liveHelper.made : Kept(m)
      BY <2>0 DEF OpenSource
    <3> QED
      BY <1>2, <2>0, <3>1, <3>2 DEF Kept, Packet
  <2>3. Ended' /\ CompletedIsHeard'
    BY <2>0, ReportKept
  <2>4. liveFailed' \in BOOLEAN /\ liveSource' \in {"open", "ending", "done", "dead"}
    <3>1. CASE UNCHANGED <<liveSource, liveFailed>>
      <4>1. liveFailed' \in BOOLEAN
        BY <2>0, <3>1 DEF LiveTypes
      <4>2. liveSource' = "open"
        BY <2>0, <3>1
      <4> QED
        BY <4>1, <4>2
    <3>2. CASE SourceEnds(FALSE) \/ SourceEnds(TRUE)
      BY <3>2 DEF SourceEnds
    <3> QED
      BY <2>1, <3>1, <3>2
  <2>5. LiveTypes'
    BY <2>0, <2>1, <2>4 DEF LiveTypes
  <2>6. CASE UNCHANGED <<liveSource, liveFailed>>
    <3>1. StreamKept'
      BY <2>0, <2>1, <2>6, StreamUntouched
    <3>2. EndedSource'
      BY <2>0, <2>6 DEF EndedSource
    <3>3. PacketsAhead'
      BY <2>0, <2>1, <2>2 DEF PacketsAhead
    <3>4. \A m \in liveLast' + 1 .. liveHelper'.made : Kept(m)'
      BY <2>0, <2>1, <2>2 DEF Kept
    <3>5. OpenSource'
      BY <2>2, <2>6, <3>3, <3>4 DEF OpenSource
    <3> QED
      BY <2>3, <2>5, <3>1, <3>2, <3>5 DEF LiveInv
  <2>7. CASE SourceEnds(TRUE)
    <3>1. liveFailed' /\ liveSource' # "open"
      BY <2>7 DEF SourceEnds
    <3> QED
      BY <2>3, <2>5, <3>1 DEF LiveInv, OpenSource, EndedSource, StreamKept
  <2>8. CASE liveRecords[1].kind = "end" /\ SourceEnds(FALSE)
    <3>1. liveFailed' = FALSE /\ liveSource' = "ending"
      BY <2>8 DEF SourceEnds
    <3>2. livePipe = <<>> /\ liveHelper.phase # "run"
      <4>1. 1 \in DOMAIN liveRecords
        BY <2>0, EmptySeq, LenProperties DEF LiveTypes
      <4> QED
        BY <2>0, <2>8, <4>1 DEF OpenSource
    <3>3. EndedSource'
      BY <2>0, <2>1, <2>2, <3>1, <3>2 DEF EndedSource
    <3>4. StreamKept'
      <4> SUFFICES ASSUME liveSender # "dead"
                   PROVE  \E s \in Seq(0 .. MaxPackets) : Stream(s)' /\ StreamTrue(s)'
        BY <2>0 DEF StreamKept
      <4>1. PICK s : s = liveWire \o liveQueue
        OBVIOUS
      <4>2. liveSender = "run" /\ s \in Seq(0 .. MaxPackets) /\ StreamTrue(s)
        BY <2>0, <2>2, <4>1, StreamOpen
      <4>3. Stream(s)'
        BY <2>0, <2>1, <3>1, <4>1, <4>2 DEF Stream
      <4>4. StreamTrue(s)'
        BY <2>0, <2>1, <4>2 DEF StreamTrue
      <4> QED
        BY <4>2, <4>3, <4>4
    <3> QED
      BY <2>3, <2>5, <3>1, <3>3, <3>4 DEF LiveInv, OpenSource
  <2> QED
    BY <2>1, <2>6, <2>7, <2>8
<1> QED
  BY <1>1, <1>2

(* The end marker closes the stream. *)
LEMMA PutEndKeeps ==
  ASSUME LiveInv, PutEnd
  PROVE  LiveInv'
<1>0. /\ LiveTypes /\ EndedSource /\ liveSource = "ending" /\ liveMain = "run"
      /\ UNCHANGED <<liveHelper, livePipe, liveRecords, liveLast, liveSender, liveWire, liveFailed,
                     liveMain, liveStatus>>
      /\ \/ liveQueue' = Append(liveQueue, End) /\ liveSource' = "done"
         \/ liveSource' = "dead" /\ liveQueue' = liveQueue
  BY DEF LiveInv, PutEnd, capture, reading, sending, ending
<1>1. Ended' /\ CompletedIsHeard'
  BY <1>0, ReportKept
<1>2. LiveTypes'
  <2>1. End \in Nat /\ liveQueue \in Seq(Nat)
    BY <1>0, LiveAssumption DEF End, LiveTypes
  <2>2. liveQueue' \in Seq(Nat) /\ liveSource' \in {"open", "ending", "done", "dead"}
    BY <1>0, <2>1
  <2> QED
    BY <1>0, <2>2 DEF LiveTypes
<1>3. OpenSource' /\ EndedSource'
  BY <1>0 DEF OpenSource, EndedSource
<1>4. StreamKept'
  <2> SUFFICES ASSUME ~liveFailed, liveSource' # "dead", liveSender # "dead"
               PROVE  \E s \in Seq(0 .. MaxPackets) : Stream(s)' /\ StreamTrue(s)'
    BY <1>0 DEF StreamKept
  <2>1. PICK s : s = liveWire \o liveQueue
    OBVIOUS
  <2>2. liveSender = "run" /\ s \in Seq(0 .. MaxPackets) /\ StreamTrue(s)
    BY <1>0, <2>1, StreamOpen
  <2>3. liveWire \o Append(liveQueue, End) = Append(s, End)
    <3>1. liveWire \in Seq(Nat) /\ liveQueue \in Seq(Nat) /\ <<End>> \in Seq(Nat)
      BY <1>0, LiveAssumption DEF LiveTypes, End
    <3>2. (liveWire \o liveQueue) \o <<End>> = liveWire \o (liveQueue \o <<End>>)
      BY <3>1, ConcatThree, Zenon
    <3> QED
      BY <2>1, <2>2, <3>1, <3>2
  <2>4. Stream(s)'
    BY <1>0, <2>2, <2>3 DEF Stream
  <2>5. StreamTrue(s)'
    BY <1>0, <2>2 DEF StreamTrue
  <2> QED
    BY <2>2, <2>4, <2>5
<1> QED
  BY <1>1, <1>2, <1>3, <1>4 DEF LiveInv

(* Moving the head of a queue to the end of what was sent. *)
LEMMA HeadMoves ==
  ASSUME NEW S, NEW w \in Seq(S), NEW q \in Seq(S), q # <<>>
  PROVE  /\ Append(w, Head(q)) \o Tail(q) = w \o q
         /\ Head(q) \in S /\ Append(w, Head(q)) \in Seq(S) /\ Tail(q) \in Seq(S)
         /\ Len(w \o q) = Len(w) + Len(q) /\ (w \o q)[Len(w) + 1] = Head(q)
         /\ Len(w) \in Nat /\ Len(q) \in Nat \ {0}
<1>1. /\ Head(q) \in S /\ Tail(q) \in Seq(S) /\ q = <<Head(q)>> \o Tail(q)
      /\ Len(w) \in Nat /\ Len(q) \in Nat \ {0} /\ Head(q) = q[1]
  <2>1. Len(q) \in Nat \ {0} /\ Len(w) \in Nat
    BY EmptySeq, LenProperties
  <2>2. Head(q) \in S /\ Tail(q) \in Seq(S) /\ q = <<Head(q)>> \o Tail(q) /\ Head(q) = q[1]
    BY HeadTailProperties
  <2> QED
    BY <2>1, <2>2
<1>2. <<Head(q)>> \in Seq(S) /\ Append(w, Head(q)) = w \o <<Head(q)>>
  BY <1>1
<1>3. (w \o <<Head(q)>>) \o Tail(q) = w \o (<<Head(q)>> \o Tail(q))
  BY <1>1, <1>2, ConcatAssociative
<1>4. Append(w, Head(q)) \in Seq(S)
  BY <1>1
<1>5. Len(w \o q) = Len(w) + Len(q) /\ (w \o q)[Len(w) + 1] = q[1]
  BY <1>1
<1> QED
  BY <1>1, <1>2, <1>3, <1>4, <1>5

(* What leaves the queue arrives on the wire, the mark of the end last.     *)
LEMMA SendKeeps ==
  ASSUME LiveInv, Send
  PROVE  LiveInv'
<1> DEFINE h == Head(liveQueue)
<1>0. /\ LiveTypes /\ OpenSource /\ EndedSource /\ liveSender = "run" /\ liveMain = "run" /\ liveQueue # <<>>
      /\ UNCHANGED <<liveHelper, livePipe, liveRecords, liveLast, liveSource, liveFailed, liveMain, liveStatus>>
      /\ liveQueue' = Tail(liveQueue)
      /\ \/ /\ liveWire' = Append(liveWire, IF h = End THEN Finish ELSE h)
            /\ liveSender' = IF h = End THEN "done" ELSE "run"
         \/ liveSender' = "dead" /\ liveWire' = liveWire
  BY DEF LiveInv, Send, capture, reading, ending
<1>1. Ended' /\ CompletedIsHeard'
  BY <1>0, ReportKept
<1>2. /\ Append(liveWire, h) \o Tail(liveQueue) = liveWire \o liveQueue
      /\ h \in Nat /\ Append(liveWire, h) \in Seq(Nat) /\ Tail(liveQueue) \in Seq(Nat)
      /\ Len(liveWire \o liveQueue) = Len(liveWire) + Len(liveQueue)
      /\ (liveWire \o liveQueue)[Len(liveWire) + 1] = h
      /\ Len(liveWire) \in Nat /\ Len(liveQueue) \in Nat \ {0}
      /\ liveWire \in Seq(Nat) /\ liveQueue \in Seq(Nat)
  <2>1. liveWire \in Seq(Nat) /\ liveQueue \in Seq(Nat)
    BY <1>0 DEF LiveTypes
  <2>2. liveQueue # <<>>
    BY <1>0
  <2> QED
    BY <2>1, <2>2, HeadMoves
<1> HIDE DEF h
<1>3. LiveTypes'
  <2>1. liveWire' \in Seq(Nat) /\ liveQueue' \in Seq(Nat) /\ liveSender' \in {"run", "done", "dead"}
    <3>1. Finish \in Nat
      BY LiveAssumption DEF Finish
    <3>2. liveWire \in Seq(Nat) /\ h \in Nat /\ Tail(liveQueue) \in Seq(Nat)
      BY <1>2
    <3>3. Append(liveWire, Finish) \in Seq(Nat) /\ Append(liveWire, h) \in Seq(Nat)
      BY <3>1, <3>2
    <3> QED
      BY <1>0, <3>2, <3>3
  <2> QED
    BY <1>0, <2>1 DEF LiveTypes
<1>4. OpenSource' /\ EndedSource'
  BY <1>0 DEF OpenSource, EndedSource, PacketsAhead, Kept
<1>5. StreamKept'
  <2> SUFFICES ASSUME ~liveFailed, liveSource # "dead", liveSender' # "dead"
               PROVE  \E s \in Seq(0 .. MaxPackets) : Stream(s)' /\ StreamTrue(s)'
    BY <1>0 DEF StreamKept
  <2>1. PICK s \in Seq(0 .. MaxPackets) : Stream(s) /\ StreamTrue(s)
    BY <1>0 DEF LiveInv, StreamKept
  <2>2. StreamTrue(s)'
    BY <1>0, <2>1 DEF StreamTrue
  <2>3. /\ liveWire' = Append(liveWire, IF h = End THEN Finish ELSE h)
        /\ liveSender' = IF h = End THEN "done" ELSE "run"
    BY <1>0
  <2>4. Len(s) \in Nat /\ \A i \in 1 .. Len(s) : s[i] \in 0 .. MaxPackets
    BY <2>1, ElementOfSeq, LenProperties
  <2>5. End \in Nat /\ End \notin 0 .. MaxPackets
    BY LiveAssumption DEF End
  <2>6. CASE liveSource \in {"open", "ending"}
    <3>1. liveWire \o liveQueue = s
      BY <2>1, <2>6 DEF Stream
    <3>2. Len(liveWire) + 1 \in 1 .. Len(s)
      BY <1>2, <2>4, <3>1
    <3>3. h # End
      BY <1>2, <2>4, <2>5, <3>1, <3>2
    <3>4. liveWire' \o liveQueue' = s /\ liveSender' = "run"
      BY <1>0, <1>2, <2>3, <3>1, <3>3
    <3>5. Stream(s)'
      BY <1>0, <2>6, <3>4 DEF Stream
    <3> QED
      BY <2>2, <3>5
  <2>7. CASE liveSource = "done"
    <3>1. liveWire \o liveQueue = Append(s, End)
      BY <1>0, <2>1, <2>7 DEF Stream
    <3>2. /\ Len(Append(s, End)) = Len(s) + 1
          /\ \A i \in 1 .. Len(s) : Append(s, End)[i] = s[i]
          /\ Append(s, End)[Len(s) + 1] = End
      BY <2>1, <2>4
    <3>3. CASE h # End
      <4>1. liveWire' \o liveQueue' = Append(s, End) /\ liveSender' = "run"
        BY <1>0, <1>2, <2>3, <3>1, <3>3
      <4>2. Stream(s)'
        BY <1>0, <2>7, <4>1 DEF Stream
      <4> QED
        BY <2>2, <4>2
    <3>4. CASE h = End
      <4>1. Len(liveWire) + Len(liveQueue) = Len(s) + 1
        BY <1>2, <3>1, <3>2
      <4>2. Len(liveWire) + 1 = Len(s) + 1
        <5>1. Len(liveWire) + 1 \in 1 .. Len(s) + 1
          BY <1>2, <2>4, <4>1
        <5>2. Len(liveWire) + 1 \notin 1 .. Len(s)
          BY <1>2, <2>4, <2>5, <3>1, <3>2, <3>4
        <5> QED
          BY <2>4, <5>1, <5>2
      <4>3. Len(liveQueue) = 1 /\ Len(liveWire) = Len(s)
        <5>1. Len(liveWire) \in Nat /\ Len(liveQueue) \in Nat /\ Len(s) \in Nat
          BY <1>2, <2>4
        <5>2. \A a, b, c \in Nat : a + b = c + 1 /\ a + 1 = c + 1 => b = 1 /\ a = c
          OBVIOUS
        <5> QED
          BY <4>1, <4>2, <5>1, <5>2
      <4>4. liveQueue' = <<>>
        BY <1>0, <1>2, <4>3
      <4>5. liveWire = s
        <5>1. \A i \in 1 .. Len(liveWire) : (liveWire \o liveQueue)[i] = liveWire[i]
          BY <1>2
        <5>2. \A i \in 1 .. Len(s) : liveWire[i] = s[i]
          BY <3>1, <3>2, <4>3, <5>1
        <5>3. s \in Seq(Nat)
          <6>1. 0 .. MaxPackets \subseteq Nat
            BY LiveAssumption
          <6> QED
            BY <2>1, <6>1, SeqMonotonic
        <5> QED
          BY <1>2, <4>3, <5>2, <5>3, SeqEqual
      <4>6. Stream(s)'
        BY <1>0, <2>3, <2>7, <3>4, <4>4, <4>5 DEF Stream
      <4> QED
        BY <2>2, <4>6
    <3> QED
      BY <3>3, <3>4
  <2> QED
    BY <1>0, <2>6, <2>7 DEF LiveTypes
<1> QED
  BY <1>1, <1>3, <1>4, <1>5 DEF LiveInv

(* A session is reported as completed when everything was heard. *)
LEMMA MainEndsTruly ==
  ASSUME LiveInv, MainEnds
  PROVE  LiveInv'
<1>0. /\ LiveTypes /\ OpenSource /\ EndedSource
      /\ liveMain' = "saved"
      /\ liveStatus' = IF liveFailed \/ liveTerminal # "completed" \/ 0 \in ToSet(liveWire)
                       THEN "failed" ELSE "completed"
      /\ UNCHANGED <<liveHelper, livePipe, liveRecords, liveLast, liveQueue, liveSource, liveSender,
                     liveWire, liveFailed>>
  BY DEF LiveInv, MainEnds, capture, reading, sending
<1>1. liveSource = "done" /\ liveSender = "done"
  BY DEF MainEnds, Tasks
<1>2. LiveTypes' /\ OpenSource' /\ EndedSource' /\ StreamKept'
  <2>1. LiveTypes'
    BY <1>0 DEF LiveTypes
  <2>2. OpenSource' /\ EndedSource'
    BY <1>0, <1>1 DEF OpenSource, EndedSource
  <2>3. StreamKept'
    BY <1>0, StreamUntouched
  <2> QED
    BY <2>1, <2>2, <2>3
<1>3. Ended' /\ CompletedIsHeard'
  <2> SUFFICES ASSUME ~liveFailed, 0 \notin ToSet(liveWire)
               PROVE  /\ liveHelper.phase # "run"
                      /\ \E i \in 1..(liveHelper.made + 1), k \in 0..liveHelper.made :
                           /\ liveWire = [j \in 1..(k - i + 1) |-> i + j - 1] \o <<Finish>>
                           /\ (1..liveHelper.made) \ (i..k) \subseteq liveHelper.dropped
    <3>1. liveStatus' = "completed" => ~liveFailed /\ 0 \notin ToSet(liveWire)
      BY <1>0
    <3> QED
      BY <1>0, <3>1 DEF Ended, CompletedIsHeard
  <2>1. PICK s \in Seq(0 .. MaxPackets) : Stream(s) /\ StreamTrue(s)
    BY <1>1 DEF LiveInv, StreamKept
  <2>2. liveWire = Append(s, Finish)
    BY <1>1, <2>1 DEF Stream
  <2>3. liveWire = s \o <<Finish>>
    BY <2>1, <2>2
  <2>4. 0 \notin ToSet(s)
    <3>1. 0 .. MaxPackets \subseteq Nat /\ Finish \in Nat
      BY LiveAssumption DEF Finish
    <3>2. s \in Seq(Nat) /\ <<Finish>> \in Seq(Nat)
      <4>1. s \in Seq(Nat)
        BY <3>1, SeqMonotonic
      <4>2. <<Finish>> \in Seq(Nat)
        BY <3>1
      <4> QED
        BY <4>1, <4>2
    <3>3. ToSet(s \o <<Finish>>) = ToSet(s) \cup ToSet(<<Finish>>)
      <4>1. \A x, y \in Seq(Nat) : ToSet(x \o y) = ToSet(x) \cup ToSet(y)
        BY ToSetConcat
      <4> QED
        BY <3>2, <4>1, Zenon
    <3> QED
      BY <2>3, <3>3
  <2>5. PICK i \in 1 .. liveLast + 1 :
          s = Following(i, liveLast) /\ 1 .. i - 1 \subseteq liveHelper.dropped
    BY <2>1, <2>4 DEF StreamTrue
  <2>6. /\ liveHelper.phase # "run"
        /\ liveLast + 1 .. liveHelper.made \subseteq liveHelper.dropped
    BY <1>0, <1>1 DEF EndedSource
  <2>7. /\ liveLast \in Nat /\ liveHelper.made \in Nat /\ liveLast <= liveHelper.made /\ i \in Nat
    BY <1>0, LiveAssumption DEF LiveTypes
  <2>8. i \in 1 .. (liveHelper.made + 1) /\ liveLast \in 0 .. liveHelper.made
    BY <2>7
  <2>9. (1 .. liveHelper.made) \ (i .. liveLast) \subseteq liveHelper.dropped
    <3> SUFFICES ASSUME NEW x \in (1 .. liveHelper.made) \ (i .. liveLast)
                 PROVE  x \in liveHelper.dropped
      OBVIOUS
    <3>1. x \in 1 .. i - 1 \/ x \in liveLast + 1 .. liveHelper.made
      BY <2>7
    <3> QED
      BY <2>5, <2>6, <3>1
  <2>10. liveWire = [j \in 1 .. (liveLast - i + 1) |-> i + j - 1] \o <<Finish>>
    BY <2>3, <2>5 DEF Following
  <2> QED
    BY <2>6, <2>8, <2>9, <2>10
<1> QED
  BY <1>2, <1>3 DEF LiveInv

(* The other steps touch neither packets nor the stream. *)
LEMMA RestKeepsLive ==
  ASSUME LiveInv, StopDeadline \/ UserStops \/ AskHelper \/ ServerEnds \/ ReadResult \/ MainFails
                    \/ UNCHANGED liveVars
  PROVE  LiveInv'
<1>0. LiveTypes /\ OpenSource /\ EndedSource
  BY DEF LiveInv
<1>1. CASE StopDeadline
  <2>1. /\ liveFailed' = TRUE /\ liveSource' \in {"ending", "dead"} /\ liveMain = "run"
        /\ UNCHANGED <<liveHelper, livePipe, liveRecords, liveLast, liveQueue, liveSender, liveWire,
                       liveMain, liveStatus>>
    BY <1>1 DEF StopDeadline, SourceEnds, capture, reading, sending, ending
  <2>2. LiveTypes'
    BY <1>0, <2>1 DEF LiveTypes
  <2>3. Ended' /\ CompletedIsHeard'
    BY <2>1, ReportKept
  <2>4. OpenSource' /\ EndedSource' /\ StreamKept'
    BY <2>1 DEF OpenSource, EndedSource, StreamKept
  <2> QED
    BY <2>2, <2>3, <2>4 DEF LiveInv
<1>2. CASE UserStops \/ AskHelper \/ ServerEnds \/ ReadResult \/ MainFails \/ UNCHANGED liveVars
  <2>1. /\ UNCHANGED <<liveHelper, livePipe, liveRecords, liveLast, liveQueue, liveSource, liveSender,
                       liveWire, liveFailed>>
        /\ \/ UNCHANGED <<liveMain, liveStatus>>
           \/ liveMain = "run" /\ (liveStatus' = "failed" \/ liveStatus' = liveStatus)
    <3>1. CASE UserStops \/ AskHelper
      BY <3>1 DEF UserStops, AskHelper, capture, reading, sending, ending
    <3>2. CASE ServerEnds \/ ReadResult
      BY <3>2 DEF ServerEnds, ReadResult, capture, reading, sending, ending
    <3>3. CASE MainFails
      BY <3>3 DEF MainFails, capture, reading, sending
    <3>4. CASE UNCHANGED liveVars
      BY <3>4 DEF liveVars
    <3> QED
      BY <1>2, <3>1, <3>2, <3>3, <3>4
  <2>2. LiveTypes' /\ EndedSource'
    BY <1>0, <2>1 DEF LiveTypes, EndedSource
  <2>3. OpenSource'
    BY <1>0, <2>1 DEF OpenSource, PacketsAhead, Kept
  <2>4. StreamKept'
    BY <2>1, StreamUntouched
  <2>5. Ended' /\ CompletedIsHeard'
    <3>1. CASE UNCHANGED <<liveMain, liveStatus>>
      BY <2>1, <3>1, ReportKept
    <3>2. CASE liveMain = "run" /\ liveStatus' = "failed"
      BY <3>2 DEF Ended, CompletedIsHeard
    <3>3. CASE liveMain = "run" /\ liveStatus' = liveStatus
      BY <3>3, ReportKept
    <3> QED
      BY <2>1, <3>1, <3>2, <3>3
  <2> QED
    BY <2>2, <2>3, <2>4, <2>5 DEF LiveInv
<1> QED
  BY <1>1, <1>2

(* CompletedIsHeard, the safety part of StopEndsTruly: a session reported  *)
(* as completed sent every packet that was not dropped, in order, and      *)
(* finished the stream.                                                    *)
THEOREM CompletedWasHeard == LiveSpec => []CompletedIsHeard
<1>1. LiveInit => LiveInv
  BY InitLive
<1>2. LiveInv /\ [LiveNext]_liveVars => LiveInv'
  BY HelperRecordsKeeps, HelperStopsKeeps, ReadRecordKeeps, TakeRecordKeeps, PutEndKeeps, SendKeeps,
     MainEndsTruly, RestKeepsLive
  DEF LiveNext
<1>3. LiveInv => CompletedIsHeard
  BY DEF LiveInv
<1> QED
  BY <1>1, <1>2, <1>3, PTL DEF LiveSpec
=============================================================================
