----------------------------- MODULE XdgList_proofs -----------------------------
(***************************************************************************)
(* Proofs about XdgList, for any number of lists and items: the links of   *)
(* the lists agree whatever is inserted, swapped and removed, no list runs *)
(* in a circle, the loops never stand on a freed item, and what the links  *)
(* make of the lists is what ListSeq promises.                             *)
(***************************************************************************)
EXTENDS XdgList, TLAPS, FiniteSetTheorems, SequenceTheorems, WellFoundedInduction

-----------------------------------------------------------------------------
(* The inductive invariant *)

\* The types of what the links and the loops are made of; joint lists only read
\* them.
LinkTypes ==
  /\ live \subseteq Item
  /\ head \in [Lists -> Pointer] /\ tail \in [Lists -> Pointer]
  /\ owner \in [Item -> Lists]
  /\ prev \in [Item -> Pointer] /\ next \in [Item -> Pointer]
  /\ pc \in {"idle", "remove_if", "clear", "lookup", "walk"}
  /\ target \in Lists
  /\ cursor \in Pointer

\* LinksAgree, for an item and for a list.
ItemAgrees(i) ==
  /\ prev[i] # NULL => prev[i] \in live /\ next[prev[i]] = i /\ owner[prev[i]] = owner[i]
  /\ next[i] # NULL => next[i] \in live /\ prev[next[i]] = i /\ owner[next[i]] = owner[i]
  /\ prev[i] = NULL <=> head[owner[i]] = i
  /\ next[i] = NULL <=> tail[owner[i]] = i

ListAgrees(l) ==
  /\ head[l] = NULL <=> tail[l] = NULL
  /\ head[l] # NULL => /\ head[l] \in live /\ tail[l] \in live
                       /\ owner[head[l]] = l /\ owner[tail[l]] = l

\* What is left of LinksAgree for the items of the list that is being cleared: the
\* one before the cursor is gone.
LeftAgrees(i) ==
  /\ i = cursor => prev[i] \notin live
  /\ i # cursor => prev[i] \in live /\ next[prev[i]] = i /\ owner[prev[i]] = target
  /\ next[i] # NULL => next[i] \in live /\ prev[next[i]] = i /\ owner[next[i]] = target
  /\ next[i] = NULL <=> tail[target] = i

LoopInv ==
  /\ pc \in {"remove_if", "clear"} => cursor \in live /\ owner[cursor] = target
  /\ pc = "clear" => \A i \in live : owner[i] = target => LeftAgrees(i)

\* next leads upwards in some order of the items: no list runs in a circle.
Ascending(rank) == \A i \in live : next[i] # NULL => rank[i] < rank[next[i]]
Acyclic == \E rank \in [Item -> Int] : Ascending(rank)

LinksInv == LinkTypes /\ LinksAgree /\ LoopInv /\ Acyclic

\* The types of what lookups write.
JointTypes ==
  /\ jnext \in [Item -> Pointer]
  /\ joint \in [head : Pointer, tail : Pointer]
  /\ want \subseteq Lists
  /\ at \in 1 .. Len(List) + 1

\* The lists that were joined so far are chained: p leads to the tail of the first
\* of them after the list at place m and up to the one at place n, or there is none.
Wanted(n) == List[n] \in want
FirstAfter(m, n, p) ==
  \/ p = NULL /\ \A k \in m + 1 .. n : ~Wanted(k)
  \/ \E k \in m + 1 .. n : /\ Wanted(k) /\ p = tail[List[k]] /\ p # NULL
                           /\ \A i \in m + 1 .. k - 1 : ~Wanted(i)
LastIsTail ==
  joint.head # NULL => \E n \in 1 .. at - 1 : /\ Wanted(n) /\ joint.tail = tail[List[n]]
                                              /\ \A k \in n + 1 .. at - 1 : ~Wanted(k)

\* What a lookup has joined, and where a walk is.
JointInv ==
  /\ JointTypes
  /\ pc \in {"lookup", "walk"} =>
       /\ \A l \in want : head[l] # NULL
       /\ FirstAfter(0, at - 1, joint.head)
       /\ LastIsTail
       /\ \A m \in 1 .. at - 1 : Wanted(m) => FirstAfter(m, at - 1, jnext[tail[List[m]]])
  /\ pc = "walk" => at = Len(List) + 1 /\ cursor \in live /\ owner[cursor] \in want

-----------------------------------------------------------------------------
(* Lemmas about the parts *)

LEMMA AgreementByParts ==
  LinksAgree <=> /\ \A i \in live : owner[i] \in Linked => ItemAgrees(i)
                 /\ \A l \in Linked : ListAgrees(l)
  BY DEF LinksAgree, ItemAgrees, ListAgrees

\* Between two calls no list is being cleared.
LEMMA IdleAgreement ==
  ASSUME LinkTypes, LinksAgree, pc # "clear"
  PROVE  /\ Linked = Lists
         /\ \A i \in live : i \in Item /\ owner[i] \in Lists /\ ItemAgrees(i)
         /\ \A l \in Lists : ListAgrees(l)
<1>1. Linked = Lists
  BY DEF Linked
<1>2. \A i \in live : i \in Item /\ owner[i] \in Lists
  BY DEF LinkTypes
<1> QED BY <1>1, <1>2, AgreementByParts

\* So a call that is not a turn of clear is done with when each item and each list
\* agrees.
LEMMA AgreementSuffices ==
  ASSUME pc' # "clear", LinkTypes',
         \A i \in live' : ItemAgrees(i)', \A l \in Lists : ListAgrees(l)'
  PROVE  LinksAgree'
  BY AgreementByParts DEF Linked, LinkTypes, LinksAgree, ItemAgrees, ListAgrees

LEMMA NotAnItem == NULL \notin Item /\ List[1] \in Lists
<1>1. 1 \in DOMAIN List
  BY ListAssumption
<1> QED BY <1>1, ListAssumption DEF Lists, ToSet

-----------------------------------------------------------------------------
(* Inserting a new item *)

LEMMA PrependKeeps ==
  ASSUME LinksInv, NEW l \in Lists, NEW i \in Item, Prepend(l, i)
  PROVE  LinksInv'
<1> USE NotAnItem
<1> DEFINE h == head[l]
<1>1. LinkTypes /\ pc = "idle" /\ pc' = "idle" /\ i \notin live /\ h \in Pointer
  BY DEF LinksInv, Prepend, loopVars, LinkTypes
<1>2. /\ \A n \in live : n \in Item /\ owner[n] \in Lists /\ ItemAgrees(n)
      /\ \A m \in Lists : ListAgrees(m)
  BY <1>1, IdleAgreement DEF LinksInv
<1>3. /\ live' = live \union {i}
      /\ owner' = [owner EXCEPT ![i] = l]
      /\ next' = [next EXCEPT ![i] = h]
      /\ prev'[i] = NULL \/ h = i
      /\ h # NULL => prev'[h] = i
      /\ \A n \in Item \ {i, h} : prev'[n] = prev[n]
      /\ prev' \in [Item -> Pointer]
      /\ head' = [head EXCEPT ![l] = i]
      /\ tail' = [tail EXCEPT ![l] = IF h = NULL THEN i ELSE tail[l]]
      /\ UNCHANGED loopVars
  BY <1>1 DEF Prepend, LinkTypes, Pointer
<1> HIDE DEF h
<1>4. LinkTypes'
  BY <1>1, <1>3 DEF LinkTypes, Pointer, loopVars
<1>5. h # NULL => h \in live /\ owner[h] = l /\ prev[h] = NULL
  BY <1>1, <1>2 DEF ListAgrees, ItemAgrees, h
<1>6. ASSUME NEW n \in live' PROVE ItemAgrees(n)'
  BY <1>1, <1>2, <1>3, <1>5 DEF ItemAgrees, ListAgrees, LinkTypes, Pointer, h
<1>7. ASSUME NEW m \in Lists PROVE ListAgrees(m)'
  BY <1>1, <1>2, <1>3, <1>5 DEF ListAgrees, LinkTypes, Pointer, h
<1>8. LinksAgree'
  BY <1>1, <1>4, <1>6, <1>7, AgreementSuffices
<1>9. Acyclic'
  <2>1. PICK rank \in [Item -> Int] : Ascending(rank)
    BY DEF LinksInv, Acyclic
  <2> DEFINE new == [rank EXCEPT ![i] = IF h = NULL THEN 0 ELSE rank[h] - 1]
  <2>2. new \in [Item -> Int]
    BY <1>1 DEF Pointer
  <2>3. ASSUME NEW n \in live', next'[n] # NULL PROVE new[n] < new[next'[n]]
    <3>1. CASE n = i
      BY <1>1, <1>3, <1>5, <2>3, <3>1 DEF LinkTypes, Pointer
    <3>2. CASE n # i
      <4>1. n \in live /\ next'[n] = next[n] /\ next[n] \in live /\ rank[n] < rank[next[n]]
        BY <1>1, <1>2, <1>3, <2>1, <2>3, <3>2 DEF Ascending, ItemAgrees, LinkTypes
      <4> QED BY <1>1, <1>2, <3>2, <4>1
    <3> QED BY <3>1, <3>2
  <2> QED BY <2>2, <2>3 DEF Acyclic, Ascending
<1> QED BY <1>1, <1>4, <1>8, <1>9 DEF LinksInv, LoopInv

LEMMA AppedKeeps ==
  ASSUME LinksInv, NEW l \in Lists, NEW i \in Item, Apped(l, i)
  PROVE  LinksInv'
<1> USE NotAnItem
<1> DEFINE e == tail[l]
<1>1. LinkTypes /\ pc = "idle" /\ pc' = "idle" /\ i \notin live /\ e \in Pointer
  BY DEF LinksInv, Apped, loopVars, LinkTypes
<1>2. /\ \A n \in live : n \in Item /\ owner[n] \in Lists /\ ItemAgrees(n)
      /\ \A m \in Lists : ListAgrees(m)
  BY <1>1, IdleAgreement DEF LinksInv
<1>3. /\ head[l] = NULL <=> e = NULL
      /\ e # NULL => e \in live /\ owner[e] = l /\ next[e] = NULL
  BY <1>1, <1>2 DEF ListAgrees, ItemAgrees
<1>4. /\ live' = live \union {i}
      /\ owner' = [owner EXCEPT ![i] = l]
      /\ prev' = [prev EXCEPT ![i] = e]
      /\ next'[i] = NULL
      /\ e # NULL => next'[e] = i
      /\ \A n \in Item \ {i, e} : next'[n] = next[n]
      /\ next' \in [Item -> Pointer]
      /\ head' = [head EXCEPT ![l] = IF e = NULL THEN i ELSE head[l]]
      /\ tail' = [tail EXCEPT ![l] = i]
      /\ UNCHANGED loopVars
  BY <1>1, <1>3 DEF Apped, LinkTypes, Pointer
<1> HIDE DEF e
<1>5. LinkTypes'
  BY <1>1, <1>4 DEF LinkTypes, Pointer, loopVars
<1>6. ASSUME NEW n \in live' PROVE ItemAgrees(n)'
  BY <1>1, <1>2, <1>3, <1>4 DEF ItemAgrees, ListAgrees, LinkTypes, Pointer, e
<1>7. ASSUME NEW m \in Lists PROVE ListAgrees(m)'
  BY <1>1, <1>2, <1>3, <1>4 DEF ListAgrees, LinkTypes, Pointer, e
<1>8. LinksAgree'
  BY <1>1, <1>5, <1>6, <1>7, AgreementSuffices
<1>9. Acyclic'
  <2>1. PICK rank \in [Item -> Int] : Ascending(rank)
    BY DEF LinksInv, Acyclic
  <2> DEFINE new == [rank EXCEPT ![i] = IF e = NULL THEN 0 ELSE rank[e] + 1]
  <2>2. new \in [Item -> Int]
    BY <1>1 DEF Pointer
  <2>3. ASSUME NEW n \in live', next'[n] # NULL PROVE new[n] < new[next'[n]]
    <3>1. n \in live /\ n # i
      BY <1>4, <2>3
    <3>2. CASE n = e
      BY <1>1, <1>3, <1>4, <3>1, <3>2 DEF LinkTypes
    <3>3. CASE n # e
      <4>1. n \in Item /\ next'[n] = next[n] /\ next[n] \in live /\ rank[n] < rank[next[n]]
        BY <1>1, <1>2, <1>4, <2>1, <2>3, <3>1, <3>3 DEF Ascending, ItemAgrees, LinkTypes
      <4> QED BY <1>1, <1>2, <3>1, <4>1
    <3> QED BY <3>2, <3>3
  <2> QED BY <2>2, <2>3 DEF Acyclic, Ascending
<1> QED BY <1>1, <1>5, <1>8, <1>9 DEF LinksInv, LoopInv

-----------------------------------------------------------------------------
(* Swapping two items *)

\* What points to one of the two points to the other one, except between the two.
LEMMA SwappedLinks ==
  ASSUME LinksInv, NEW i \in Item, NEW j \in Item, Swap(i, j)
  PROVE  /\ prev' \in [Item -> Pointer]
         /\ prev'[j] = IF prev[i] = j THEN i ELSE prev[i]
         /\ prev'[i] = IF prev[j] = i THEN j ELSE prev[j]
         /\ \A n \in Item \ {i, j} : prev'[n] = IF n = next[i] THEN j
                                               ELSE IF n = next[j] THEN i ELSE prev[n]
         /\ next' \in [Item -> Pointer]
         /\ next'[j] = IF next[i] = j THEN i ELSE next[i]
         /\ next'[i] = IF next[j] = i THEN j ELSE next[j]
         /\ \A n \in Item \ {i, j} : next'[n] = IF n = prev[i] THEN j
                                               ELSE IF n = prev[j] THEN i ELSE next[n]
<1> USE NotAnItem
<1> DEFINE l == owner[i]
<1>1. /\ LinkTypes /\ pc = "idle"
      /\ i # j /\ i \in live /\ j \in live /\ l \in Lists /\ owner[j] = l
  BY DEF LinksInv, Swap, LinkTypes
<1>2. /\ \A n \in live : n \in Item /\ owner[n] \in Lists /\ ItemAgrees(n)
      /\ \A m \in Lists : ListAgrees(m)
  BY <1>1, IdleAgreement DEF LinksInv
<1>3. /\ prev' \in [Item -> Pointer]
      /\ prev'[j] = IF prev[i] = j THEN i ELSE prev[i]
      /\ prev'[i] = IF prev[j] = i THEN j ELSE prev[j]
      /\ \A n \in Item \ {i, j} : prev'[n] = IF n = next[i] THEN j
                                            ELSE IF n = next[j] THEN i ELSE prev[n]
  <2> DEFINE to(n) == CASE n = j -> Taken(j, i, prev[i])
                        [] n = i -> Taken(i, j, prev[j])
                        [] n \notin {i, j} /\ n = next[i] -> j
                        [] n \notin {i, j} /\ n = next[j] -> i
                        [] OTHER -> prev[n]
  <2>1. prev' = [n \in Item |-> to(n)]
    BY DEF Swap
  <2>2. to(j) = (IF prev[i] = j THEN i ELSE prev[i]) /\ to(i) = (IF prev[j] = i THEN j ELSE prev[j])
    BY <1>1 DEF Taken
  <2>3. ASSUME NEW n \in Item, n # i, n # j
        PROVE  to(n) = IF n = next[i] THEN j ELSE IF n = next[j] THEN i ELSE prev[n]
    BY <1>1, <1>2, <2>3 DEF ItemAgrees, LinkTypes, Pointer
  <2>4. \A n \in Item : to(n) \in Pointer
    BY <1>1, <2>2, <2>3 DEF LinkTypes, Pointer
  <2> HIDE DEF to
  <2> QED BY <2>1, <2>2, <2>3, <2>4
<1>4. /\ next' \in [Item -> Pointer]
      /\ next'[j] = IF next[i] = j THEN i ELSE next[i]
      /\ next'[i] = IF next[j] = i THEN j ELSE next[j]
      /\ \A n \in Item \ {i, j} : next'[n] = IF n = prev[i] THEN j
                                            ELSE IF n = prev[j] THEN i ELSE next[n]
  <2> DEFINE to(n) == CASE n = j -> Taken(j, i, next[i])
                        [] n = i -> Taken(i, j, next[j])
                        [] n \notin {i, j} /\ n = prev[i] -> j
                        [] n \notin {i, j} /\ n = prev[j] -> i
                        [] OTHER -> next[n]
  <2>1. next' = [n \in Item |-> to(n)]
    BY DEF Swap
  <2>2. to(j) = (IF next[i] = j THEN i ELSE next[i]) /\ to(i) = (IF next[j] = i THEN j ELSE next[j])
    BY <1>1 DEF Taken
  <2>3. ASSUME NEW n \in Item, n # i, n # j
        PROVE  to(n) = IF n = prev[i] THEN j ELSE IF n = prev[j] THEN i ELSE next[n]
    BY <1>1, <1>2, <2>3 DEF ItemAgrees, LinkTypes, Pointer
  <2>4. \A n \in Item : to(n) \in Pointer
    BY <1>1, <2>2, <2>3 DEF LinkTypes, Pointer
  <2> HIDE DEF to
  <2> QED BY <2>1, <2>2, <2>3, <2>4
<1> QED BY <1>3, <1>4

LEMMA SwapKeeps ==
  ASSUME LinksInv, NEW i \in Item, NEW j \in Item, Swap(i, j)
  PROVE  LinksInv'
<1> USE NotAnItem
<1> DEFINE l == owner[i]
<1>1. /\ LinkTypes /\ pc = "idle" /\ pc' = "idle" /\ UNCHANGED <<live, owner, loopVars>>
      /\ i # j /\ i \in live /\ j \in live /\ l \in Lists /\ owner[j] = l
  BY DEF LinksInv, Swap, loopVars, LinkTypes
<1>2. /\ \A n \in live : n \in Item /\ owner[n] \in Lists /\ ItemAgrees(n)
      /\ \A m \in Lists : ListAgrees(m)
  BY <1>1, IdleAgreement DEF LinksInv
<1>3. /\ prev' \in [Item -> Pointer]
      /\ prev'[j] = IF prev[i] = j THEN i ELSE prev[i]
      /\ prev'[i] = IF prev[j] = i THEN j ELSE prev[j]
      /\ \A n \in Item \ {i, j} : prev'[n] = IF n = next[i] THEN j
                                            ELSE IF n = next[j] THEN i ELSE prev[n]
  BY SwappedLinks
<1>4. /\ next' \in [Item -> Pointer]
      /\ next'[j] = IF next[i] = j THEN i ELSE next[i]
      /\ next'[i] = IF next[j] = i THEN j ELSE next[j]
      /\ \A n \in Item \ {i, j} : next'[n] = IF n = prev[i] THEN j
                                            ELSE IF n = prev[j] THEN i ELSE next[n]
  BY SwappedLinks
<1>5. /\ head' = [head EXCEPT ![l] = IF prev[i] = NULL THEN j
                                     ELSE IF prev[j] = NULL THEN i ELSE head[l]]
      /\ tail' = [tail EXCEPT ![l] = IF next[i] = NULL THEN j
                                     ELSE IF next[j] = NULL THEN i ELSE tail[l]]
  BY DEF Swap
<1> HIDE DEF l
<1>6. LinkTypes'
  BY <1>1, <1>3, <1>4, <1>5 DEF LinkTypes, Pointer, loopVars
<1>7. PICK rank \in [Item -> Int] : Ascending(rank)
  BY DEF LinksInv, Acyclic
<1>8. \A n \in live : next[n] # n /\ prev[n] # n
  BY <1>1, <1>2, <1>7 DEF Ascending, ItemAgrees, LinkTypes
<1>9. ASSUME NEW n \in live' PROVE ItemAgrees(n)'
  <2>1. CASE n = i
    BY <1>1, <1>2, <1>3, <1>4, <1>5, <1>8, <2>1 DEF ItemAgrees, ListAgrees, LinkTypes, Pointer, l
  <2>2. CASE n = j
    BY <1>1, <1>2, <1>3, <1>4, <1>5, <1>8, <2>2 DEF ItemAgrees, ListAgrees, LinkTypes, Pointer, l
  <2>3. CASE n # i /\ n # j
    BY <1>1, <1>2, <1>3, <1>4, <1>5, <1>8, <2>3 DEF ItemAgrees, ListAgrees, LinkTypes, Pointer, l
  <2> QED BY <2>1, <2>2, <2>3
<1>10. ASSUME NEW m \in Lists PROVE ListAgrees(m)'
  BY <1>1, <1>2, <1>5 DEF ListAgrees, ItemAgrees, LinkTypes, Pointer, l
<1>11. LinksAgree'
  BY <1>1, <1>6, <1>9, <1>10, AgreementSuffices
<1>12. Acyclic'
  <2> DEFINE new == [rank EXCEPT ![i] = rank[j], ![j] = rank[i]]
  <2>1. new \in [Item -> Int]
    OBVIOUS
  <2>2. ASSUME NEW n \in live, next'[n] # NULL PROVE new[n] < new[next'[n]]
    BY <1>1, <1>2, <1>3, <1>4, <1>7, <1>8, <2>2 DEF Ascending, ItemAgrees, LinkTypes, Pointer
  <2> QED BY <1>1, <2>1, <2>2 DEF Acyclic, Ascending
<1> QED BY <1>1, <1>6, <1>11, <1>12 DEF LinksInv, LoopInv

-----------------------------------------------------------------------------
(* Removing items *)

\* _xdg_list_remove closes the gap, at either end of a list and in it.
LEMMA UnlinkKeeps ==
  ASSUME LinksInv, pc # "clear", NEW i \in live, Unlink(i),
         pc' \in {"idle", "remove_if"}, target' \in Lists, cursor' \in Pointer
  PROVE  LinkTypes' /\ LinksAgree' /\ Acyclic'
<1> USE NotAnItem
<1> DEFINE p == prev[i]
           n == next[i]
           l == owner[i]
<1>1. LinkTypes /\ i \in Item /\ p \in Pointer /\ n \in Pointer /\ l \in Lists
  BY DEF LinksInv, LinkTypes
<1>2. /\ \A m \in live : m \in Item /\ owner[m] \in Lists /\ ItemAgrees(m)
      /\ \A m \in Lists : ListAgrees(m)
  BY <1>1, IdleAgreement DEF LinksInv
<1>3. PICK rank \in [Item -> Int] : Ascending(rank)
  BY DEF LinksInv, Acyclic
<1>4. /\ p # NULL => p \in live /\ next[p] = i /\ owner[p] = l
      /\ n # NULL => n \in live /\ prev[n] = i /\ owner[n] = l
      /\ p = NULL <=> head[l] = i
      /\ n = NULL <=> tail[l] = i
      /\ p # i /\ n # i
      /\ p # n \/ p = NULL
  <2>1. ItemAgrees(i) /\ (p # NULL => ItemAgrees(p)) /\ (n # NULL => ItemAgrees(n))
    BY <1>2 DEF ItemAgrees
  <2>2. n # NULL => rank[i] < rank[n]
    BY <1>3 DEF Ascending
  <2>3. p # NULL => rank[p] < rank[i]
    BY <1>1, <1>3, <2>1 DEF Ascending, ItemAgrees
  <2> QED BY <1>1, <1>3, <2>1, <2>2, <2>3 DEF ItemAgrees, Pointer
<1>5. /\ live' = live \ {i} /\ owner' = owner
      /\ next' \in [Item -> Pointer] /\ prev' \in [Item -> Pointer]
      /\ p # NULL => next'[p] = n
      /\ n # NULL => prev'[n] = p
      /\ \A m \in Item \ {i, p} : next'[m] = next[m]
      /\ \A m \in Item \ {i, n} : prev'[m] = prev[m]
      /\ head' = [head EXCEPT ![l] = IF p = NULL THEN n ELSE head[l]]
      /\ tail' = [tail EXCEPT ![l] = IF n = NULL THEN p ELSE tail[l]]
  BY <1>1, <1>4 DEF Unlink, Freed, LinkTypes, Pointer
<1> HIDE DEF p, n, l
<1>6. LinkTypes'
  BY <1>1, <1>5 DEF LinkTypes, Pointer
<1>7. ASSUME NEW m \in live' PROVE ItemAgrees(m)'
  BY <1>1, <1>2, <1>4, <1>5 DEF ItemAgrees, ListAgrees, LinkTypes, Pointer, p, n, l
<1>8. ASSUME NEW m \in Lists PROVE ListAgrees(m)'
  BY <1>1, <1>2, <1>4, <1>5 DEF ItemAgrees, ListAgrees, LinkTypes, Pointer, p, n, l
<1>9. LinksAgree'
  BY <1>6, <1>7, <1>8, AgreementSuffices
<1>10. ASSUME NEW m \in live', next'[m] # NULL PROVE rank[m] < rank[next'[m]]
  <2>1. CASE m = p
    <3>1. next'[m] = n /\ rank[p] < rank[i] /\ rank[i] < rank[n]
      BY <1>1, <1>2, <1>3, <1>4, <1>5, <1>10, <2>1 DEF Ascending, p, n, Pointer
    <3> QED BY <1>1, <1>2, <1>3, <1>4, <1>5, <1>10, <2>1, <3>1
  <2>2. CASE m # p
    BY <1>2, <1>3, <1>5, <1>10, <2>2 DEF Ascending
  <2> QED BY <2>1, <2>2
<1>11. Acyclic'
  BY <1>10 DEF Acyclic, Ascending
<1> QED BY <1>6, <1>9, <1>11

LEMMA RemoveItemKeeps ==
  ASSUME LinksInv, NEW i \in Item, RemoveItem(i)
  PROVE  LinksInv'
<1>1. pc = "idle" /\ pc' = "idle" /\ i \in live /\ Unlink(i) /\ UNCHANGED loopVars
  BY DEF RemoveItem, loopVars
<1>2. target' \in Lists /\ cursor' \in Pointer
  BY <1>1 DEF LinksInv, LinkTypes, loopVars
<1> QED BY <1>1, <1>2, UnlinkKeeps DEF LinksInv, LoopInv

\* remove_if and clear start at an item that has none before it.
LEMMA StartLoopKeeps ==
  ASSUME LinksInv, NEW loop \in {"remove_if", "clear"}, NEW l \in Lists, NEW m,
         StartLoop(loop, l, m)
  PROVE  LinksInv'
<1> USE NotAnItem
<1>1. /\ pc = "idle" /\ pc' = loop /\ target' = l /\ cursor' = head[l] /\ head[l] # NULL
      /\ UNCHANGED <<live, head, tail, owner, prev, next>>
  BY DEF StartLoop, linkVars
<1>2. /\ LinkTypes
      /\ \A n \in live : n \in Item /\ owner[n] \in Lists /\ ItemAgrees(n)
      /\ \A n \in Lists : ListAgrees(n)
  BY <1>1, IdleAgreement DEF LinksInv
<1>3. LinkTypes'
  BY <1>1, <1>2 DEF LinkTypes
<1>4. LinksAgree'
  BY <1>1 DEF LinksInv, LinksAgree, Linked
<1>5. Acyclic'
  BY <1>1 DEF LinksInv, Acyclic, Ascending
<1>6. head[l] \in live /\ owner[head[l]] = l
  BY <1>1, <1>2 DEF ListAgrees
<1>7. ASSUME NEW i \in live, owner[i] = l PROVE LeftAgrees(i)'
  BY <1>1, <1>2, <1>6, <1>7 DEF LeftAgrees, ItemAgrees, LinkTypes
<1> QED BY <1>1, <1>3, <1>4, <1>5, <1>6, <1>7 DEF LinksInv, LoopInv

\* The item remove_if goes on to is not the one it has freed: next leads upwards.
LEMMA RemoveIfTurnKeeps ==
  ASSUME LinksInv, RemoveIfTurn
  PROVE  LinksInv'
<1> USE NotAnItem
<1>1. /\ pc = "remove_if" /\ cursor' = next[cursor] /\ target' = target
      /\ pc' = IF next[cursor] = NULL THEN "idle" ELSE "remove_if"
  BY DEF RemoveIfTurn, Advance
<1>2. LinkTypes /\ cursor \in live /\ owner[cursor] = target /\ ItemAgrees(cursor)
  BY <1>1, IdleAgreement DEF LinksInv, LoopInv
<1>3. /\ pc' \in {"idle", "remove_if"} /\ target' \in Lists /\ cursor' \in Pointer
      /\ cursor \in Item
  BY <1>1, <1>2 DEF LinkTypes
<1>4. pc' # "idle" => cursor' \in live /\ owner[cursor'] = target' /\ cursor' # cursor
  BY <1>1, <1>2, <1>3 DEF ItemAgrees, LinksInv, Acyclic, Ascending
<1>5. CASE cursor \in match
  <2>1. Unlink(cursor) /\ live' = live \ {cursor} /\ owner' = owner
    BY <1>1, <1>5 DEF RemoveIfTurn, Unlink
  <2>2. LinkTypes' /\ LinksAgree' /\ Acyclic'
    BY <1>1, <1>2, <1>3, <2>1, UnlinkKeeps
  <2>3. LoopInv'
    BY <1>3, <1>4, <2>1 DEF LoopInv
  <2> QED BY <2>2, <2>3 DEF LinksInv
<1>6. CASE cursor \notin match
  <2>1. UNCHANGED <<live, head, tail, owner, prev, next>>
    BY <1>1, <1>6 DEF RemoveIfTurn, linkVars
  <2>2. LinkTypes'
    BY <1>2, <1>3, <2>1 DEF LinkTypes
  <2>3. LinksAgree'
    BY <1>1, <2>1 DEF LinksInv, LinksAgree, Linked
  <2>4. Acyclic' /\ LoopInv'
    BY <1>3, <1>4, <2>1 DEF LinksInv, LoopInv, Acyclic, Ascending
  <2> QED BY <2>2, <2>3, <2>4 DEF LinksInv
<1> QED BY <1>5, <1>6

\* When clear has freed the last item of its list, no item is left before it, and
\* the list that is reset agrees with the others.
LEMMA ClearTurnKeeps ==
  ASSUME LinksInv, ClearTurn
  PROVE  LinksInv'
<1> USE NotAnItem
<1> DEFINE n == next[cursor]
<1>1. /\ pc = "clear" /\ live' = live \ {cursor} /\ owner' = owner
      /\ prev' = [prev EXCEPT ![cursor] = NULL] /\ next' = [next EXCEPT ![cursor] = NULL]
      /\ cursor' = n /\ target' = target
      /\ n = NULL => /\ pc' = "idle"
                     /\ head' = [head EXCEPT ![target] = NULL]
                     /\ tail' = [tail EXCEPT ![target] = NULL]
      /\ n # NULL => pc' = "clear" /\ UNCHANGED <<head, tail>>
  BY DEF ClearTurn, Advance, Freed
<1>2. /\ LinkTypes /\ cursor \in live /\ cursor \in Item /\ owner[cursor] = target
      /\ \A i \in live : i \in Item /\ (owner[i] = target => LeftAgrees(i))
      /\ \A i \in live : owner[i] # target => ItemAgrees(i)
      /\ \A l \in Lists : l # target => ListAgrees(l)
  <2>1. LinkTypes /\ LoopInv /\ Linked = Lists \ {target}
    BY <1>1 DEF LinksInv, Linked
  <2>2. \A i \in live : i \in Item /\ owner[i] \in Lists
    BY <2>1 DEF LinkTypes
  <2> QED BY <1>1, <2>1, <2>2, AgreementByParts DEF LinksInv, LoopInv
<1> HIDE DEF n
<1>3. LinkTypes'
  BY <1>1, <1>2 DEF LinkTypes, Pointer, n
<1>4. ASSUME NEW i \in live', owner[i] # target PROVE ItemAgrees(i)'
  BY <1>1, <1>2, <1>4 DEF ItemAgrees, LinkTypes
<1>5. ASSUME NEW l \in Lists, l # target PROVE ListAgrees(l)'
  BY <1>1, <1>2, <1>5 DEF ListAgrees, LinkTypes
<1>6. Acyclic'
  BY <1>1, <1>2 DEF LinksInv, Acyclic, Ascending, LinkTypes
<1>7. CASE n = NULL
  <2>1. ASSUME NEW i \in live', owner[i] = target PROVE ItemAgrees(i)'
    BY <1>1, <1>2, <1>7, <2>1 DEF LeftAgrees, ItemAgrees, LinkTypes, n
  <2>2. ListAgrees(target)'
    BY <1>1, <1>2, <1>7 DEF ListAgrees, LinkTypes
  <2>3. LinksAgree'
    BY <1>1, <1>3, <1>4, <1>5, <1>7, <2>1, <2>2, AgreementSuffices
  <2> QED BY <1>1, <1>3, <1>6, <1>7, <2>3 DEF LinksInv, LoopInv
<1>8. CASE n # NULL
  <2>1. n \in live /\ n # cursor /\ owner[n] = target /\ prev[n] = cursor
    BY <1>1, <1>2, <1>8 DEF LeftAgrees, n, LinksInv, Acyclic, Ascending
  <2>2. LinksAgree'
    BY <1>1, <1>2, <1>4, <1>5, <1>8 DEF LinksAgree, ItemAgrees, ListAgrees, Linked, LinkTypes
  <2>3. ASSUME NEW i \in live', owner[i] = target PROVE LeftAgrees(i)'
    BY <1>1, <1>2, <1>8, <2>1, <2>3 DEF LeftAgrees, LinkTypes, n
  <2> QED BY <1>1, <1>3, <1>6, <1>8, <2>1, <2>2, <2>3 DEF LinksInv, LoopInv
<1> QED BY <1>7, <1>8

-----------------------------------------------------------------------------
(* Runs of the lists *)

LEMMA InitLinks == Init => LinksInv
<1> SUFFICES ASSUME Init PROVE LinksInv
  OBVIOUS
<1>1. LinkTypes
  BY NotAnItem DEF Init, LinkTypes, Pointer
<1>2. LinksAgree /\ LoopInv
  BY DEF Init, LinksAgree, Linked, LoopInv
<1>3. Acyclic
  <2>1. [i \in Item |-> 0] \in [Item -> Int] /\ Ascending([i \in Item |-> 0])
    BY DEF Init, Ascending
  <2> QED BY <2>1 DEF Acyclic
<1> QED BY <1>1, <1>2, <1>3 DEF LinksInv

\* A lookup and a walk only read the links.
LEMMA LinksUntouched ==
  ASSUME LinksInv, UNCHANGED <<live, linkVars, target>>, pc # "clear",
         pc' \in {"idle", "lookup", "walk"} \/ UNCHANGED <<pc, cursor>>, cursor' \in Pointer
  PROVE  LinksInv'
<1> USE DEF linkVars
<1>1. LinkTypes'
  BY DEF LinksInv, LinkTypes
<1>2. LinksAgree' /\ LoopInv'
  BY DEF LinksInv, LinksAgree, Linked, LoopInv, LeftAgrees
<1>3. Acyclic'
  BY DEF LinksInv, Acyclic, Ascending
<1> QED BY <1>1, <1>2, <1>3 DEF LinksInv

LEMMA LookupsKeepLinks ==
  ASSUME LinksInv, JointInv,
         LookupTurn \/ EndLookup \/ WalkTurn \/ \E ls \in SUBSET Lists : StartLookup(ls)
  PROVE  LinksInv'
<1> USE NotAnItem
<1>1. /\ LinkTypes /\ UNCHANGED <<live, linkVars, target>>
      /\ pc # "clear" /\ pc' \in {"idle", "lookup", "walk"}
  BY DEF LinksInv, LookupTurn, EndLookup, WalkTurn, StartLookup, loopVars
<1>2. cursor' \in Pointer
  <2>1. CASE LookupTurn \/ \E ls \in SUBSET Lists : StartLookup(ls)
    BY <1>1, <2>1 DEF LinkTypes, LookupTurn, StartLookup, loopVars
  <2>2. CASE EndLookup
    BY <1>1, <2>2 DEF LinkTypes, EndLookup, JointInv, JointTypes, Pointer
  <2>3. CASE WalkTurn
    BY <1>1, <2>3 DEF LinkTypes, WalkTurn, JointNext, JointInv, JointTypes, Pointer
  <2> QED BY <2>1, <2>2, <2>3
<1> QED BY <1>1, <1>2, LinksUntouched

LEMMA LinksInvariant ==
  ASSUME LinksInv, JointInv, [Next]_vars
  PROVE  LinksInv'
<1>1. ASSUME NEW l \in Lists, NEW i \in Item, Prepend(l, i) \/ Apped(l, i) PROVE LinksInv'
  BY <1>1, PrependKeeps, AppedKeeps
<1>2. ASSUME NEW l \in Lists, NEW m \in SUBSET Item, StartLoop("remove_if", l, m) PROVE LinksInv'
  BY <1>2, StartLoopKeeps
<1>3. ASSUME NEW l \in Lists, StartLoop("clear", l, {}) PROVE LinksInv'
  BY <1>3, StartLoopKeeps
<1>4. ASSUME NEW i \in Item, NEW j \in Item, Swap(i, j) PROVE LinksInv'
  BY <1>4, SwapKeeps
<1>5. ASSUME NEW i \in Item, RemoveItem(i) PROVE LinksInv'
  BY <1>5, RemoveItemKeeps
<1>6. CASE RemoveIfTurn \/ ClearTurn
  BY <1>6, RemoveIfTurnKeeps, ClearTurnKeeps
<1>7. CASE LookupTurn \/ EndLookup \/ WalkTurn \/ \E ls \in SUBSET Lists : StartLookup(ls)
  BY <1>7, LookupsKeepLinks
<1>8. CASE UNCHANGED vars
  <2>1. LinkTypes'
    BY <1>8 DEF LinksInv, LinkTypes, vars
  <2>2. LinksAgree' /\ LoopInv'
    BY <1>8 DEF LinksInv, LinksAgree, Linked, LoopInv, LeftAgrees, vars
  <2>3. Acyclic'
    BY <1>8 DEF LinksInv, Acyclic, Ascending, vars
  <2> QED BY <2>1, <2>2, <2>3 DEF LinksInv
<1> QED BY <1>1, <1>2, <1>3, <1>4, <1>5, <1>6, <1>7, <1>8 DEF Next, LoopTurn

-----------------------------------------------------------------------------
(* Joint lists *)

\* A list is at one place of List.
LEMMA Places ==
  /\ Len(List) \in Nat \ {0} /\ DOMAIN List = 1 .. Len(List)
  /\ \A n \in DOMAIN List : List[n] \in Lists
  /\ \A l \in Lists : \E n \in DOMAIN List : l = List[n]
  /\ \A m, n \in DOMAIN List : List[m] = List[n] => m = n
  BY ListAssumption DEF Lists, ToSet, IsInjective

\* The tails of the lists that are joined tell them apart.
LEMMA TailsDiffer ==
  ASSUME LinksInv, JointInv, pc = "lookup" \/ pc = "walk"
  PROVE  /\ \A n \in DOMAIN List : Wanted(n) =>
              /\ tail[List[n]] \in live /\ tail[List[n]] # NULL
              /\ owner[tail[List[n]]] = List[n]
              /\ head[List[n]] \in live /\ head[List[n]] # NULL
              /\ owner[head[List[n]]] = List[n]
         /\ \A m, n \in DOMAIN List :
              Wanted(m) /\ Wanted(n) /\ tail[List[m]] = tail[List[n]] => m = n
<1>1. LinkTypes /\ \A l \in Lists : ListAgrees(l)
  BY IdleAgreement DEF LinksInv
<1>2. \A n \in DOMAIN List : Wanted(n) => List[n] \in Lists /\ head[List[n]] # NULL
  BY Places DEF JointInv, Wanted
<1> QED BY <1>1, <1>2, Places, NotAnItem DEF ListAgrees, LinkTypes

LEMMA JointIdle ==
  ASSUME pc' \notin {"lookup", "walk"}, JointTypes'
  PROVE  JointInv'
  BY DEF JointInv

LEMMA StartLookupKeeps ==
  ASSUME LinksInv, JointInv, NEW ls \in SUBSET Lists, StartLookup(ls)
  PROVE  JointInv'
<1>1. /\ pc' = "lookup" /\ want' = ls /\ at' = 1 /\ joint' = Empty
      /\ UNCHANGED <<head, tail, live, owner, jnext>>
      /\ \A l \in ls : head[l] # NULL
  BY DEF StartLookup, linkVars
<1>2. JointTypes'
  BY <1>1, Places DEF JointInv, JointTypes, Empty, Pointer
<1>3. FirstAfter(0, at - 1, joint.head)' /\ LastIsTail'
  BY <1>1 DEF FirstAfter, LastIsTail, Empty
<1> QED BY <1>1, <1>2, <1>3, Places DEF JointInv

\* The first one after m stays the first one when a list is looked at after it.
LEMMA StaysFirst ==
  ASSUME NEW m \in Nat, NEW n \in Nat, NEW p, FirstAfter(m, n, p), p # NULL \/ ~Wanted(n + 1)
  PROVE  FirstAfter(m, n + 1, p)
<1>1. CASE p = NULL
  <2>1. ASSUME NEW k \in m + 1 .. n + 1 PROVE ~Wanted(k)
    BY <1>1, <2>1 DEF FirstAfter
  <2> QED BY <1>1, <2>1 DEF FirstAfter
<1>2. CASE p # NULL
  <2>1. PICK k \in m + 1 .. n : /\ Wanted(k) /\ p = tail[List[k]]
                                /\ \A i \in m + 1 .. k - 1 : ~Wanted(i)
    BY <1>2 DEF FirstAfter
  <2>2. k \in m + 1 .. n + 1
    OBVIOUS
  <2> QED BY <1>2, <2>1, <2>2 DEF FirstAfter
<1> QED BY <1>1, <1>2

\* The lists looked at do not change; a turn looks at one more.
LEMMA OneMore ==
  ASSUME at \in Nat, UNCHANGED <<tail, want>>, at' = at + 1, NEW m \in Nat
  PROVE  /\ FirstAfter(0, at, joint'.head) => FirstAfter(0, at - 1, joint.head)'
         /\ FirstAfter(m, at, jnext'[tail[List[m]]]) => FirstAfter(m, at - 1, jnext[tail[List[m]]])'
<1>1. at' - 1 = at
  OBVIOUS
<1> QED BY <1>1 DEF FirstAfter, Wanted

LEMMA LookupTurnKeeps ==
  ASSUME LinksInv, JointInv, LookupTurn
  PROVE  JointInv'
<1> USE NotAnItem
<1>1. /\ pc = "lookup" /\ pc' = "lookup" /\ at \in DOMAIN List /\ at' = at + 1 /\ at \in Nat \ {0}
      /\ UNCHANGED <<head, tail, live, owner, want>>
      /\ IF Wanted(at) THEN JointApped(tail[List[at]]) ELSE UNCHANGED <<jnext, joint>>
      /\ LinkTypes /\ JointTypes
      /\ \A l \in want : head[l] # NULL
      /\ FirstAfter(0, at - 1, joint.head) /\ LastIsTail
      /\ \A m \in 1 .. at - 1 : Wanted(m) => FirstAfter(m, at - 1, jnext[tail[List[m]]])
  BY Places DEF LookupTurn, linkVars, loopVars, JointInv, JointTypes, Wanted, LinksInv
<1>2. /\ at' - 1 = at /\ at - 1 \in Nat /\ at - 1 + 1 = at /\ at + 1 \in 1 .. Len(List) + 1
      /\ want \subseteq Lists
      /\ \A m \in Int : Wanted(m)' = Wanted(m)
  BY <1>1, Places DEF Wanted, JointTypes
<1>3. CASE ~Wanted(at)
  <2>1. UNCHANGED <<jnext, joint>>
    BY <1>1, <1>3
  <2>2. JointTypes'
    BY <1>1, <1>2, <2>1 DEF JointTypes
  <2>3. FirstAfter(0, at - 1, joint.head)'
    BY <1>1, <1>2, <1>3, <2>1, StaysFirst, OneMore
  <2>4. LastIsTail'
    <3>1. ASSUME joint.head # NULL
          PROVE  \E n \in 1 .. at : /\ Wanted(n) /\ joint.tail = tail[List[n]]
                                    /\ \A k \in n + 1 .. at : ~Wanted(k)
      <4>1. PICK n \in 1 .. at - 1 : /\ Wanted(n) /\ joint.tail = tail[List[n]]
                                     /\ \A k \in n + 1 .. at - 1 : ~Wanted(k)
        BY <1>1, <3>1 DEF LastIsTail
      <4>2. n \in 1 .. at /\ \A k \in n + 1 .. at : k \in n + 1 .. at - 1 \/ k = at
        BY <1>1
      <4> QED BY <1>3, <4>1, <4>2
    <3> QED BY <1>1, <1>2, <2>1, <3>1 DEF LastIsTail, Wanted
  <2>5. ASSUME NEW m \in 1 .. at' - 1, Wanted(m)'
        PROVE  FirstAfter(m, at - 1, jnext[tail[List[m]]])'
    <3>1. m \in 1 .. at - 1 /\ m \in Nat /\ Wanted(m)
      BY <1>1, <1>2, <1>3, <2>5
    <3>2. FirstAfter(m, at, jnext'[tail[List[m]]])
      BY <1>1, <1>2, <1>3, <2>1, <3>1, StaysFirst
    <3> QED BY <1>1, <3>1, <3>2, OneMore
  <2> QED BY <1>1, <2>2, <2>3, <2>4, <2>5 DEF JointInv
<1>4. CASE Wanted(at)
  <2> DEFINE t == tail[List[at]]
  <2>1. /\ t \in live /\ t \in Item /\ t # NULL
        /\ \A m \in DOMAIN List : Wanted(m) /\ m # at => tail[List[m]] # t /\ tail[List[m]] \in Item
    BY <1>1, <1>4, TailsDiffer DEF LinkTypes
  <2>2. /\ joint' = [head |-> IF joint.head = NULL THEN t ELSE joint.head, tail |-> t]
        /\ jnext' = IF joint.head = NULL THEN [jnext EXCEPT ![t] = NULL]
                    ELSE [jnext EXCEPT ![t] = NULL, ![joint.tail] = t]
    BY <1>1, <1>4 DEF JointApped
  <2> HIDE DEF t
  <2>3. JointTypes'
    <3>1. jnext' \in [Item -> Pointer] /\ joint' \in [head : Pointer, tail : Pointer]
      BY <1>1, <2>1, <2>2 DEF JointTypes, Pointer
    <3> QED BY <1>1, <1>2, <3>1 DEF JointTypes
  <2>4. LastIsTail'
    <3>1. at \in 1 .. at /\ \A k \in at + 1 .. at : FALSE
      BY <1>1
    <3> QED BY <1>1, <1>2, <1>4, <2>2, <3>1 DEF LastIsTail, Wanted, t
  <2>5. FirstAfter(0, at - 1, joint.head)'
    <3>1. FirstAfter(0, at, joint'.head)
      <4>1. CASE joint.head # NULL
        <5>1. joint'.head = joint.head
          BY <2>2, <4>1
        <5> QED BY <1>1, <1>2, <4>1, <5>1, StaysFirst
      <4>2. CASE joint.head = NULL
        <5>1. joint'.head = t /\ \A k \in 0 + 1 .. at - 1 : ~Wanted(k)
          BY <1>1, <2>1, <2>2, <4>2 DEF FirstAfter
        <5> QED BY <1>1, <1>4, <2>1, <5>1 DEF FirstAfter, t
      <4> QED BY <4>1, <4>2
    <3> QED BY <1>1, <3>1, OneMore
  <2>6. ASSUME NEW m \in 1 .. at' - 1, Wanted(m)'
        PROVE  FirstAfter(m, at - 1, jnext[tail[List[m]]])'
    <3>1. m \in DOMAIN List /\ Wanted(m) /\ m \in Nat /\ m <= at
      BY <1>1, <1>2, <2>6, Places
    <3>2. CASE m = at
      <4>1. jnext'[t] = NULL
        <5>1. joint.head # NULL => joint.tail # t
          BY <1>1, <2>1, Places DEF LastIsTail
        <5> QED BY <1>1, <2>1, <2>2, <5>1 DEF JointTypes
      <4>2. FirstAfter(m, at, jnext'[tail[List[m]]])
        BY <1>1, <3>2, <4>1 DEF FirstAfter, t
      <4> QED BY <1>1, <3>1, <4>2, OneMore
    <3>3. CASE m # at
      <4>1. m \in 1 .. at - 1 /\ FirstAfter(m, at - 1, jnext[tail[List[m]]]) /\ joint.head # NULL
        BY <1>1, <1>2, <3>1, <3>3, SMTT(30) DEF FirstAfter
      <4>2. PICK n \in 1 .. at - 1 : /\ Wanted(n) /\ joint.tail = tail[List[n]]
                                     /\ \A k \in n + 1 .. at - 1 : ~Wanted(k)
        BY <1>1, <4>1 DEF LastIsTail
      <4>3. CASE m = n
        <5>1. jnext'[tail[List[m]]] = t
          BY <1>1, <2>1, <2>2, <3>1, <3>3, <4>1, <4>2, <4>3 DEF JointTypes
        <5>2. FirstAfter(m, at, t)
          BY <1>1, <1>4, <2>1, <4>1, <4>2, <4>3 DEF FirstAfter, t
        <5> QED BY <1>1, <3>1, <5>1, <5>2, OneMore
      <4>4. CASE m # n
        <5>1. tail[List[m]] # tail[List[n]] /\ tail[List[m]] # t
          BY <1>1, <2>1, <3>1, <3>3, <4>2, <4>4, TailsDiffer, Places
        <5>2. jnext'[tail[List[m]]] = jnext[tail[List[m]]]
          BY <1>1, <2>1, <2>2, <3>1, <3>3, <4>1, <4>2, <5>1 DEF JointTypes
        <5>3. m < n
          BY <1>1, <3>1, <4>1, <4>2, <4>4
        <5>4. jnext[tail[List[m]]] # NULL
          BY <4>1, <4>2, <5>3 DEF FirstAfter
        <5>5. FirstAfter(m, at, jnext'[tail[List[m]]])
          BY <1>2, <3>1, <4>1, <5>2, <5>4, StaysFirst
        <5> QED BY <1>1, <3>1, <5>5, OneMore
      <4> QED BY <4>3, <4>4
    <3> QED BY <3>2, <3>3
  <2> QED BY <1>1, <2>3, <2>4, <2>5, <2>6 DEF JointInv
<1> QED BY <1>3, <1>4

\* The walk starts at the first item of the first list that is joined.
LEMMA EndLookupKeeps ==
  ASSUME LinksInv, JointInv, EndLookup
  PROVE  JointInv'
<1>1. /\ pc = "lookup" /\ at = Len(List) + 1
      /\ pc' = (IF joint.head = NULL THEN "idle" ELSE "walk")
      /\ joint.head # NULL => cursor' = head[owner[joint.head]]
      /\ UNCHANGED <<head, tail, live, owner, want, at, jnext, joint>>
      /\ JointTypes /\ FirstAfter(0, at - 1, joint.head)
  BY Places DEF EndLookup, linkVars, jointVars, JointInv, JointTypes
<1>2. joint.head # NULL => \E n \in DOMAIN List : Wanted(n) /\ joint.head = tail[List[n]]
  BY <1>1, Places DEF FirstAfter
<1>3. joint.head # NULL => cursor' \in live /\ owner[cursor'] \in want
  BY <1>1, <1>2, TailsDiffer DEF Wanted
<1>4. JointTypes'
  BY <1>1 DEF JointTypes
<1> QED BY <1>1, <1>3, <1>4 DEF JointInv, LastIsTail, FirstAfter, Wanted

\* What the walk goes on to after the last item of a list.
LEMMA WalkGoesOn ==
  ASSUME LinksInv, JointInv, pc = "walk"
  PROVE  \E n \in DOMAIN List :
           /\ Wanted(n) /\ owner[cursor] = List[n]
           /\ IF next[cursor] # NULL
              THEN JointNext(cursor) = next[cursor]
              ELSE \/ /\ JointNext(cursor) = NULL
                      /\ \A k \in n + 1 .. Len(List) : ~Wanted(k)
                   \/ \E m \in n + 1 .. Len(List) :
                        /\ Wanted(m) /\ JointNext(cursor) = head[List[m]]
                        /\ \A k \in n + 1 .. m - 1 : ~Wanted(k)
<1>1. /\ cursor \in live /\ owner[cursor] \in want /\ want \subseteq Lists /\ at = Len(List) + 1
      /\ \A m \in 1 .. at - 1 : Wanted(m) => FirstAfter(m, at - 1, jnext[tail[List[m]]])
  BY DEF JointInv, JointTypes
<1>2. ItemAgrees(cursor)
  BY <1>1, IdleAgreement DEF LinksInv
<1>3. PICK n \in DOMAIN List : Wanted(n) /\ owner[cursor] = List[n]
  BY <1>1, Places DEF Wanted
<1>4. CASE next[cursor] # NULL
  BY <1>3, <1>4 DEF JointNext
<1>5. CASE next[cursor] = NULL
  <2>1. cursor = tail[List[n]] /\ FirstAfter(n, Len(List), jnext[cursor])
    BY <1>1, <1>2, <1>3, <1>5, Places DEF ItemAgrees
  <2>2. CASE jnext[cursor] = NULL
    <3>1. \A k \in n + 1 .. Len(List) : ~Wanted(k)
      BY <1>1, <2>1, <2>2, TailsDiffer, Places DEF FirstAfter
    <3> QED BY <1>3, <1>5, <2>2, <3>1 DEF JointNext
  <2>3. CASE jnext[cursor] # NULL
    <3>1. PICK m \in n + 1 .. Len(List) : /\ Wanted(m) /\ jnext[cursor] = tail[List[m]]
                                          /\ \A k \in n + 1 .. m - 1 : ~Wanted(k)
      BY <1>1, <2>1, <2>3 DEF FirstAfter
    <3>2. JointNext(cursor) = head[List[m]]
      BY <1>5, <2>3, <3>1, TailsDiffer, Places DEF JointNext
    <3> QED BY <1>3, <1>5, <3>1, <3>2
  <2> QED BY <2>2, <2>3
<1> QED BY <1>3, <1>4, <1>5

LEMMA WalkTurnKeeps ==
  ASSUME LinksInv, JointInv, WalkTurn
  PROVE  JointInv'
<1>1. /\ pc = "walk" /\ cursor' = JointNext(cursor)
      /\ pc' = IF cursor' = NULL THEN "idle" ELSE "walk"
      /\ UNCHANGED <<head, tail, live, owner, want, at, jnext, joint>>
  BY DEF WalkTurn, linkVars, jointVars
<1>2. JointTypes /\ JointTypes'
  BY <1>1 DEF JointInv, JointTypes
<1>3. cursor' # NULL => cursor' \in live /\ owner[cursor'] \in want
  <2>1. PICK n \in DOMAIN List :
          /\ Wanted(n) /\ owner[cursor] = List[n]
          /\ IF next[cursor] # NULL
             THEN JointNext(cursor) = next[cursor]
             ELSE \/ JointNext(cursor) = NULL
                  \/ \E m \in n + 1 .. Len(List) : Wanted(m) /\ JointNext(cursor) = head[List[m]]
    BY <1>1, WalkGoesOn
  <2>2. next[cursor] # NULL => next[cursor] \in live /\ owner[next[cursor]] = List[n]
    BY <1>1, <2>1, IdleAgreement DEF LinksInv, JointInv, ItemAgrees
  <2> QED BY <1>1, <2>1, <2>2, TailsDiffer, Places DEF Wanted
<1> QED BY <1>1, <1>2, <1>3 DEF JointInv, LastIsTail, FirstAfter, Wanted

LEMMA JointInvariant ==
  ASSUME LinksInv, JointInv, [Next]_vars
  PROVE  JointInv'
<1>1. CASE \E ls \in SUBSET Lists : StartLookup(ls)
  BY <1>1, StartLookupKeeps
<1>2. CASE LookupTurn \/ EndLookup \/ WalkTurn
  BY <1>2, LookupTurnKeeps, EndLookupKeeps, WalkTurnKeeps
<1>3. ASSUME UNCHANGED jointVars, pc' \notin {"lookup", "walk"}
      PROVE  JointInv'
  <2>1. JointTypes'
    BY <1>3 DEF JointInv, JointTypes, jointVars
  <2> QED BY <1>3, <2>1, JointIdle
<1>4. CASE \E l \in Lists, i \in Item : Prepend(l, i) \/ Apped(l, i)
  BY <1>3, <1>4 DEF Prepend, Apped, loopVars
<1>5. CASE \E i, j \in Item : Swap(i, j) \/ RemoveItem(i)
  BY <1>3, <1>5 DEF Swap, RemoveItem, loopVars
<1>6. CASE \E l \in Lists : \/ StartLoop("clear", l, {})
                            \/ \E m \in SUBSET Item : StartLoop("remove_if", l, m)
  BY <1>3, <1>6 DEF StartLoop
<1>7. CASE RemoveIfTurn \/ ClearTurn
  BY <1>3, <1>7 DEF RemoveIfTurn, ClearTurn, Advance
<1>8. CASE UNCHANGED vars
  <2>1. JointTypes'
    BY <1>8 DEF JointInv, JointTypes, vars
  <2> QED BY <1>8, <2>1 DEF JointInv, LastIsTail, FirstAfter, Wanted, vars
<1> QED BY <1>1, <1>2, <1>4, <1>5, <1>6, <1>7, <1>8 DEF Next, LoopTurn

-----------------------------------------------------------------------------
(* The theorems *)

IInv == LinksInv /\ JointInv

LEMMA Invariant == Spec => []IInv
<1>1. Init => IInv
  <2>1. Init => JointInv
    BY Places DEF Init, JointInv, JointTypes, Empty, Pointer
  <2> QED BY <2>1, InitLinks DEF IInv
<1>2. IInv /\ [Next]_vars => IInv'
  BY LinksInvariant, JointInvariant DEF IInv
<1> QED BY <1>1, <1>2, PTL DEF Spec

\* The links, the loops and what they are made of keep their types, with any number
\* of lists and items.
THEOREM LinkTypesCorrect == Spec => []LinkTypes
<1>1. IInv => LinkTypes
  BY DEF IInv, LinksInv
<1> QED BY <1>1, Invariant, PTL

\* Whatever is inserted at either end, swapped and removed, both directions of every
\* list tell the same story, and a list that is cleared agrees again when it is done.
THEOREM LinksAlwaysAgree == Spec => []LinksAgree
<1>1. IInv => LinksAgree
  BY DEF IInv, LinksInv
<1> QED BY <1>1, Invariant, PTL

\* No list runs in a circle: there is an order of the items in which every next
\* pointer leads upwards.
THEOREM NoListIsACircle == Spec => []Acyclic
<1>1. IInv => Acyclic
  BY DEF IInv, LinksInv
<1> QED BY <1>1, Invariant, PTL

\* The item a loop of remove_if or clear stands on is never one that is freed, also
\* after the turn that frees the one before.
THEOREM CursorAlwaysLive == Spec => []CursorIsLive
<1>1. IInv => CursorIsLive
  BY DEF IInv, LinksInv, LoopInv, JointInv, CursorIsLive
<1> QED BY <1>1, Invariant, PTL

\* No item is on two lists or twice on one: what an item in use is the next or the
\* previous of is one item.
THEOREM OnePlaceEach ==
  Spec => [](pc = "idle" =>
               \A i, j \in live : /\ next[i] = next[j] /\ next[i] # NULL => i = j
                                  /\ prev[i] = prev[j] /\ prev[i] # NULL => i = j)
<1>1. IInv => (pc = "idle" =>
                 \A i, j \in live : /\ next[i] = next[j] /\ next[i] # NULL => i = j
                                    /\ prev[i] = prev[j] /\ prev[i] # NULL => i = j)
  BY IdleAgreement DEF IInv, LinksInv, ItemAgrees
<1> QED BY <1>1, Invariant, PTL

-----------------------------------------------------------------------------
(***************************************************************************)
(* XdgList implements ListSeq, for any number of lists and items: what the *)
(* operations of src/src/containers/xdglist.c do to the links is what they *)
(* promise to do to sequences, and a walk over a joint list visits the     *)
(* lists it joins one after the other.                                     *)
(***************************************************************************)

(* Paths along next *)

LEMMA LeastNatural ==
  ASSUME NEW T, T \subseteq Nat, T # {}
  PROVE  \E x \in T : \A y \in T : x <= y
<1> DEFINE Below(x) == 0 .. x - 1
           U == {Below(x) : x \in T}
<1>1. \A x \in T : Below(x) \in SUBSET Nat /\ IsFiniteSet(Below(x))
  BY FS_Interval
<1> HIDE DEF Below
<1>2. U \subseteq FiniteSubsetsOf(Nat) /\ U # {}
  BY <1>1 DEF FiniteSubsetsOf
<1>3. PICK b \in U : \A c \in U : ~(<<c, b>> \in StrictSubsetOrdering(Nat))
  <2> HIDE DEF U
  <2> QED BY <1>2, WFMin, FS_StrictSubsetOrderingWellFounded
<1>4. PICK x \in T : b = Below(x)
  OBVIOUS
<1>5. ASSUME NEW y \in T, y < x PROVE FALSE
  <2>1. Below(y) \subseteq Below(x) /\ y \in Below(x) /\ y \notin Below(y)
    BY <1>5 DEF Below
  <2>2. <<Below(y), Below(x)>> \in StrictSubsetOrdering(Nat)
    BY <1>1, <2>1 DEF StrictSubsetOrdering
  <2> QED BY <1>3, <1>4, <2>2
<1> QED BY <1>5

\* Two sequences that next leads through from one item are the same up to where the
\* first one ends.
LEMMA SamePath ==
  ASSUME NEW n, NEW i, NEW s \in Seq(Item), NEW t \in Seq(Item), Spells(s, i, n), Spells(t, i, n)
  PROVE  \A k \in DOMAIN s : k \in DOMAIN t /\ s[k] = t[k]
<1> USE NotAnItem
<1> DEFINE T == {k \in DOMAIN s : ~(k \in DOMAIN t /\ s[k] = t[k])}
<1> SUFFICES ASSUME T # {} PROVE FALSE
  OBVIOUS
<1>1. /\ DOMAIN s = 1 .. Len(s) /\ Len(s) \in Nat /\ DOMAIN t = 1 .. Len(t) /\ Len(t) \in Nat
      /\ \A k \in DOMAIN s : s[k] \in Item
      /\ \A k \in DOMAIN t : t[k] \in Item
      /\ s = <<>> <=> Len(s) = 0
      /\ t = <<>> <=> Len(t) = 0
  OBVIOUS
<1>2. T \subseteq Nat
  BY <1>1
<1>3. PICK k \in T : \A y \in T : k <= y
  BY <1>2, LeastNatural
<1>4. CASE k = 1
  BY <1>1, <1>3, <1>4 DEF Spells
<1>5. CASE k # 1
  <2>1. k - 1 \in DOMAIN s /\ k - 1 \notin T /\ k = k - 1 + 1
    BY <1>1, <1>3, <1>5
  <2>2. k - 1 \in DOMAIN t /\ s[k - 1] = t[k - 1]
    BY <2>1
  <2>3. n[s[k - 1]] = s[k] /\ s[k] \in Item
    BY <1>1, <1>3, <2>1 DEF Spells
  <2>4. n[t[k - 1]] = IF k - 1 = Len(t) THEN NULL ELSE t[k]
    BY <2>1, <2>2 DEF Spells
  <2>5. k \in DOMAIN t /\ s[k] = t[k]
    BY <1>1, <2>1, <2>2, <2>3, <2>4
  <2> QED BY <2>5
<1> QED BY <1>4, <1>5

\* A path without an item twice is the one.
LEMMA PathIs ==
  ASSUME NEW n, NEW i, NEW s \in Seq(Item), IsInjective(s), Spells(s, i, n)
  PROVE  Path(i, n) = s
<1>1. s \in SeqOf(Item, Cardinality(Item))
  <2>1. s \in Injection(1 .. Len(s), Item) /\ Len(s) \in Nat
    <3>1. s \in [1 .. Len(s) -> Item] /\ Len(s) \in Nat
      OBVIOUS
    <3> QED BY <3>1 DEF Injection
  <2>2. Cardinality(1 .. Len(s)) <= Cardinality(Item)
    BY <2>1, FS_Injection, ListAssumption
  <2>3. Cardinality(1 .. Len(s)) = Len(s) /\ Cardinality(Item) \in Nat
    <3>1. 1 \in Int /\ Len(s) \in Int /\ Cardinality(Item) \in Nat
      BY FS_CardinalityType, ListAssumption
    <3>2. Cardinality(1 .. Len(s)) = IF 1 > Len(s) THEN 0 ELSE Len(s) - 1 + 1
      BY <3>1, FS_Interval
    <3> QED BY <2>1, <3>1, <3>2
  <2>4. Len(s) \in 0 .. Cardinality(Item) /\ s \in [1 .. Len(s) -> Item]
    BY <2>1, <2>2, <2>3 DEF Injection
  <2> QED BY <2>4 DEF SeqOf
<1> DEFINE t == Path(i, n)
<1>2. t \in SeqOf(Item, Cardinality(Item)) /\ Spells(t, i, n)
  BY <1>1 DEF Path
<1> HIDE DEF t
<1>3. t \in Seq(Item)
  BY <1>2, FS_CardinalityType, ListAssumption DEF SeqOf
<1>4. /\ \A k \in DOMAIN s : k \in DOMAIN t /\ s[k] = t[k]
      /\ \A k \in DOMAIN t : k \in DOMAIN s
  BY <1>2, <1>3, SamePath
<1> QED BY <1>3, <1>4 DEF t

\* s is the items X, from i on along n.
Chain(s, i, n, X) ==
  s \in Seq(Item) /\ IsInjective(s) /\ ToSet(s) = X /\ Spells(s, i, n)

LEMMA ChainFacts ==
  ASSUME NEW s, NEW i, NEW n, NEW X, Chain(s, i, n, X)
  PROVE  /\ s \in Seq(Item) /\ Len(s) \in Nat /\ DOMAIN s = 1 .. Len(s)
         /\ \A k \in DOMAIN s : s[k] \in X /\ s[k] \in Item /\ s[k] # NULL
         /\ \A k \in DOMAIN s : n[s[k]] = IF k = Len(s) THEN NULL ELSE s[k + 1]
         /\ \A j, k \in DOMAIN s : s[j] = s[k] => j = k
         /\ \A x \in X : \E k \in DOMAIN s : s[k] = x
         /\ i = NULL <=> Len(s) = 0
         /\ i # NULL => s[1] = i
         /\ s = <<>> <=> Len(s) = 0
<1> USE NotAnItem
<1>1. s \in Seq(Item) /\ Len(s) \in Nat /\ DOMAIN s = 1 .. Len(s)
  BY DEF Chain
<1>2. s = <<>> <=> Len(s) = 0
  BY <1>1
<1>3. /\ \A k \in DOMAIN s : s[k] \in X /\ s[k] \in Item /\ s[k] # NULL
      /\ \A x \in X : \E k \in DOMAIN s : s[k] = x
  BY <1>1 DEF Chain, ToSet
<1>4. i = (IF s = <<>> THEN NULL ELSE s[1])
      /\ \A k \in DOMAIN s : n[s[k]] = IF k = Len(s) THEN NULL ELSE s[k + 1]
  BY DEF Chain, Spells
<1>5. \A j, k \in DOMAIN s : s[j] = s[k] => j = k
  BY DEF Chain, IsInjective
<1> QED BY <1>1, <1>2, <1>3, <1>4, <1>5

LEMMA ChainBy ==
  ASSUME NEW s, NEW i, NEW n, NEW X, NEW len \in Nat,
         s \in [1 .. len -> Item],
         \A k \in 1 .. len : s[k] \in X,
         \A k \in 1 .. len : n[s[k]] = IF k = len THEN NULL ELSE s[k + 1],
         \A j, k \in 1 .. len : s[j] = s[k] => j = k,
         \A x \in X : \E k \in 1 .. len : s[k] = x,
         i = IF len = 0 THEN NULL ELSE s[1]
  PROVE  Chain(s, i, n, X)
<1>1. s \in Seq(Item) /\ Len(s) = len /\ DOMAIN s = 1 .. len
  OBVIOUS
<1>2. s = <<>> <=> len = 0
  BY <1>1
<1>3. ToSet(s) = X
  BY <1>1 DEF ToSet
<1>4. IsInjective(s)
  BY <1>1 DEF IsInjective
<1>5. Spells(s, i, n)
  BY <1>1, <1>2 DEF Spells
<1> QED BY <1>1, <1>3, <1>4, <1>5 DEF Chain

\* A list is what it was where its links are.
LEMMA ChainSame ==
  ASSUME NEW s, NEW i, NEW n, NEW X, Chain(s, i, n, X), NEW o, \A x \in X : o[x] = n[x]
  PROVE  Chain(s, i, o, X)
<1>1. Spells(s, i, o)
  BY ChainFacts DEF Chain, Spells
<1> QED BY <1>1 DEF Chain

\* Without the item at place k.
LEMMA Removed ==
  ASSUME NEW s \in Seq(Item), NEW k \in DOMAIN s
  PROVE  /\ RemoveAt(s, k) \in [1 .. Len(s) - 1 -> Item]
         /\ \A j \in 1 .. Len(s) - 1 : RemoveAt(s, k)[j] = IF j < k THEN s[j] ELSE s[j + 1]
<1> DEFINE a == SubSeq(s, 1, k - 1)
           b == SubSeq(s, k + 1, Len(s))
<1>1. Len(s) \in Nat /\ k \in 1 .. Len(s) /\ \A j \in 1 .. Len(s) : s[j] \in Item
  OBVIOUS
<1>2. a \in Seq(Item) /\ Len(a) = k - 1 /\ \A j \in 1 .. k - 1 : a[j] = s[j]
  <2>1. \A j \in 1 .. k - 1 : s[j] \in Item
    BY <1>1
  <2>2. /\ a \in Seq(Item) /\ Len(a) = IF 1 <= k - 1 THEN k - 1 - 1 + 1 ELSE 0
        /\ \A j \in 1 .. k - 1 - 1 + 1 : a[j] = s[1 + j - 1]
    BY <1>1, <2>1, SubSeqProperties
  <2> HIDE DEF a
  <2> QED BY <1>1, <2>2
<1>3. b \in Seq(Item) /\ Len(b) = Len(s) - k /\ \A j \in 1 .. Len(s) - k : b[j] = s[k + j]
  <2>1. \A j \in k + 1 .. Len(s) : s[j] \in Item
    BY <1>1
  <2>2. /\ b \in Seq(Item) /\ Len(b) = IF k + 1 <= Len(s) THEN Len(s) - (k + 1) + 1 ELSE 0
        /\ \A j \in 1 .. Len(s) - (k + 1) + 1 : b[j] = s[k + 1 + j - 1]
    BY <1>1, <2>1, SubSeqProperties
  <2> HIDE DEF b
  <2> QED BY <1>1, <2>2
<1> DEFINE c == a \o b
<1>4. /\ c \in Seq(Item) /\ Len(c) = Len(a) + Len(b)
      /\ \A j \in 1 .. Len(a) + Len(b) : c[j] = IF j <= Len(a) THEN a[j] ELSE b[j - Len(a)]
  BY <1>2, <1>3, ConcatProperties
<1>5. RemoveAt(s, k) = c
  BY DEF RemoveAt
<1> HIDE DEF a, b, c
<1>6. Len(c) = Len(s) - 1 /\ c \in [1 .. Len(s) - 1 -> Item]
  <2>1. Len(c) = Len(s) - 1
    BY <1>1, <1>2, <1>3, <1>4
  <2>2. c \in [1 .. Len(c) -> Item]
    BY <1>4
  <2> QED BY <2>1, <2>2
<1>7. ASSUME NEW j \in 1 .. Len(s) - 1 PROVE c[j] = IF j < k THEN s[j] ELSE s[j + 1]
  <2>1. CASE j < k
    <3>1. j \in 1 .. Len(a) + Len(b) /\ j <= Len(a) /\ j \in 1 .. k - 1
      BY <1>1, <1>2, <1>3, <2>1
    <3>2. c[j] = a[j]
      BY <1>4, <3>1
    <3>3. a[j] = s[j]
      BY <1>2, <3>1
    <3> QED BY <2>1, <3>2, <3>3
  <2>2. CASE ~(j < k)
    <3>1. c[j] = b[j - (k - 1)] /\ j - (k - 1) \in 1 .. Len(s) - k
      <4>1. j \in 1 .. Len(a) + Len(b) /\ ~(j <= Len(a)) /\ j - Len(a) = j - (k - 1)
        BY <1>1, <1>2, <1>3, <2>2
      <4>2. c[j] = b[j - Len(a)]
        BY <1>4, <4>1
      <4> QED BY <1>1, <2>2, <4>1, <4>2
    <3>2. b[j - (k - 1)] = s[k + (j - (k - 1))] /\ k + (j - (k - 1)) = j + 1
      BY <1>1, <1>3, <3>1
    <3> QED BY <2>2, <3>1, <3>2
  <2> QED BY <2>1, <2>2
<1> QED BY <1>5, <1>6, <1>7

LEMMA Prepended ==
  ASSUME NEW s \in Seq(Item), NEW i \in Item
  PROVE  /\ <<i>> \o s \in [1 .. Len(s) + 1 -> Item] /\ (<<i>> \o s)[1] = i
         /\ \A k \in 1 .. Len(s) : (<<i>> \o s)[k + 1] = s[k]
<1> DEFINE t == <<i>> \o s
<1>1. <<i>> \in Seq(Item) /\ Len(<<i>>) = 1 /\ Len(s) \in Nat
  OBVIOUS
<1>2. /\ t \in Seq(Item) /\ Len(t) = 1 + Len(s)
      /\ \A k \in 1 .. 1 + Len(s) : t[k] = IF k <= 1 THEN <<i>>[k] ELSE s[k - 1]
  BY <1>1, ConcatProperties
<1> HIDE DEF t
<1>3. t \in [1 .. Len(s) + 1 -> Item] /\ t[1] = i
  BY <1>1, <1>2
<1>4. ASSUME NEW k \in 1 .. Len(s) PROVE t[k + 1] = s[k]
  <2>1. k + 1 \in 1 .. 1 + Len(s) /\ ~(k + 1 <= 1) /\ k + 1 - 1 = k
    BY <1>1
  <2>2. t[k + 1] = s[k + 1 - 1]
    BY <1>2, <2>1
  <2> QED BY <2>1, <2>2
<1> QED BY <1>3, <1>4 DEF t

LEMMA Appended ==
  ASSUME NEW s \in Seq(Item), NEW i \in Item
  PROVE  /\ Append(s, i) \in [1 .. Len(s) + 1 -> Item] /\ Append(s, i)[Len(s) + 1] = i
         /\ \A k \in 1 .. Len(s) : Append(s, i)[k] = s[k]
<1> DEFINE t == Append(s, i)
<1>1. /\ t \in Seq(Item) /\ Len(t) = Len(s) + 1 /\ t[Len(s) + 1] = i
      /\ \A k \in 1 .. Len(s) : t[k] = s[k]
  OBVIOUS
<1> HIDE DEF t
<1>2. t \in [1 .. Len(t) -> Item]
  BY <1>1
<1> QED BY <1>1, <1>2 DEF t

-----------------------------------------------------------------------------
(* The sequences the links make *)

Line(l) == {i \in live : owner[i] = l}

\* sq[l] is the items of list l, one after the other.
Lined(sq) ==
  /\ sq \in [Lists -> Seq(Item)]
  /\ \A l \in Lists : Chain(sq[l], First(l), next, Line(l))

Mapped == [l \in Lists |-> Forward(l)]

LEMMA MappedIs ==
  ASSUME NEW sq
  PROVE  /\ Lined(sq) => Mapped = sq
         /\ Lined(sq)' => Mapped' = sq
<1>1. Lined(sq) => \A l \in Lists : Forward(l) = sq[l]
  BY PathIs DEF Lined, Chain, Forward
<1>2. Lined(sq)' => \A l \in Lists : Forward(l)' = sq[l]
  BY PathIs DEF Lined, Chain, Forward
<1> QED BY <1>1, <1>2 DEF Mapped, Lined

\* A call that changes one list.
LEMMA OneList ==
  ASSUME NEW sq, Lined(sq), NEW l \in Lists, NEW s,
         Chain(s, First(l), next, Line(l))',
         \A m \in Lists \ {l} : /\ First(m)' = First(m) /\ Line(m)' = Line(m)
                                /\ \A x \in Line(m) : next'[x] = next[x]
  PROVE  Lined([sq EXCEPT ![l] = s])'
<1> DEFINE new == [sq EXCEPT ![l] = s]
<1>1. new \in [Lists -> Seq(Item)]
  BY DEF Lined, Chain
<1>2. ASSUME NEW m \in Lists PROVE Chain(new[m], First(m), next, Line(m))'
  <2>1. CASE m = l
    BY <2>1 DEF Lined
  <2>2. CASE m # l
    <3>1. new[m] = sq[m] /\ Chain(sq[m], First(m), next, Line(m))
      BY <2>2 DEF Lined
    <3>2. Chain(sq[m], First(m), next', Line(m))
      BY <2>2, <3>1, ChainSame
    <3> QED BY <2>2, <3>1, <3>2
  <2> QED BY <2>1, <2>2
<1> HIDE DEF new
<1>3. Lined(new)'
  BY <1>1, <1>2 DEF Lined
<1> QED BY <1>3 DEF new

LEMMA PrependSeq ==
  ASSUME LinksInv, NEW sq, Lined(sq), NEW l \in Lists, NEW i \in Item, Prepend(l, i)
  PROVE  Lined([sq EXCEPT ![l] = <<i>> \o @])'
<1> USE NotAnItem
<1> DEFINE s == sq[l]
           t == <<i>> \o s
<1>1. /\ pc = "idle" /\ pc' = "idle" /\ i \notin live /\ live' = live \union {i} /\ LinkTypes
      /\ owner' = [owner EXCEPT ![i] = l] /\ next' = [next EXCEPT ![i] = head[l]]
      /\ head' = [head EXCEPT ![l] = i]
  BY DEF Prepend, LinksInv, loopVars
<1>2. /\ \A m \in Lists : First(m) = head[m] /\ First(m)' = head'[m]
      /\ Line(l)' = Line(l) \union {i}
      /\ \A m \in Lists \ {l} : Line(m)' = Line(m)
      /\ i \notin Line(l)
  BY <1>1 DEF First, Linked, Line, LinkTypes
<1>3. Chain(s, head[l], next, Line(l)) /\ s \in Seq(Item)
  BY <1>2 DEF Lined
<1> HIDE DEF s
<1> DEFINE n == Len(s)
<1>4. /\ n \in Nat /\ DOMAIN s = 1 .. n
      /\ \A k \in 1 .. n : s[k] \in Line(l) /\ s[k] \in Item
      /\ \A k \in 1 .. n : next[s[k]] = IF k = n THEN NULL ELSE s[k + 1]
      /\ \A j, k \in 1 .. n : s[j] = s[k] => j = k
      /\ \A x \in Line(l) : \E k \in 1 .. n : s[k] = x
      /\ head[l] = IF n = 0 THEN NULL ELSE s[1]
  BY <1>3, ChainFacts
<1>5. t \in [1 .. n + 1 -> Item] /\ t[1] = i /\ \A k \in 1 .. n : t[k + 1] = s[k]
  BY <1>3, Prepended
<1> HIDE DEF t, n
<1>6. \A k \in 1 .. n + 1 : k = 1 \/ (k - 1 \in 1 .. n /\ k = k - 1 + 1)
  BY <1>4
<1>7. /\ \A k \in 1 .. n + 1 : t[k] \in Line(l)'
      /\ \A j, k \in 1 .. n + 1 : t[j] = t[k] => j = k
      /\ \A x \in Line(l)' : \E k \in 1 .. n + 1 : t[k] = x
      /\ head'[l] = IF n + 1 = 0 THEN NULL ELSE t[1]
  <2>1. \A k \in 1 .. n + 1 : k = 1 \/ (t[k] = s[k - 1] /\ k - 1 \in 1 .. n)
    BY <1>5, <1>6
  <2>2. \A x \in Line(l)' : \E k \in 1 .. n + 1 : t[k] = x
    <3>1. ASSUME NEW k \in 1 .. n PROVE k + 1 \in 1 .. n + 1
      BY <1>4
    <3>2. 1 \in 1 .. n + 1
      BY <1>4
    <3>3. ASSUME NEW x \in Line(l) PROVE \E k \in 1 .. n + 1 : t[k] = x
      <4>1. PICK k \in 1 .. n : s[k] = x
        BY <1>4
      <4> QED BY <1>5, <3>1, <4>1
    <3> QED BY <1>2, <1>5, <3>2, <3>3
  <2>3. \A j, k \in 1 .. n + 1 : t[j] = t[k] => j = k
    <3>1. \A k \in 1 .. n + 1 : t[k] = i => k = 1
      BY <1>2, <1>4, <2>1
    <3> QED BY <1>4, <1>5, <2>1, <3>1
  <2> QED BY <1>1, <1>2, <1>4, <1>5, <2>1, <2>2, <2>3 DEF LinkTypes
<1>8. ASSUME NEW k \in 1 .. n + 1 PROVE next'[t[k]] = IF k = n + 1 THEN NULL ELSE t[k + 1]
  <2>1. CASE k = 1
    <3>1. next'[i] = head[l]
      BY <1>1 DEF LinkTypes
    <3> QED BY <1>4, <1>5, <2>1, <3>1
  <2>2. CASE k # 1
    <3>1. k - 1 \in 1 .. n /\ t[k] = s[k - 1] /\ s[k - 1] # i
      BY <1>2, <1>4, <1>5, <1>6, <2>2
    <3>2. next'[t[k]] = next[s[k - 1]] /\ next[s[k - 1]] = IF k - 1 = n THEN NULL ELSE s[k]
      BY <1>1, <1>4, <3>1 DEF LinkTypes
    <3>3. k # n + 1 => k \in 1 .. n
      BY <1>4
    <3> QED BY <1>4, <1>5, <3>1, <3>2, <3>3
  <2> QED BY <2>1, <2>2
<1>9. Chain(t, head[l], next, Line(l))'
  <2>1. n + 1 \in Nat
    BY <1>4
  <2> QED BY <1>5, <1>7, <1>8, <2>1, ChainBy
<1>10. \A m \in Lists \ {l} : /\ First(m)' = First(m) /\ Line(m)' = Line(m)
                              /\ \A x \in Line(m) : next'[x] = next[x]
  BY <1>1, <1>2 DEF Line, LinkTypes
<1>11. Lined([sq EXCEPT ![l] = t])'
  BY <1>2, <1>9, <1>10, OneList
<1> QED BY <1>11 DEF t, s

LEMMA AppedSeq ==
  ASSUME LinksInv, NEW sq, Lined(sq), NEW l \in Lists, NEW i \in Item, Apped(l, i)
  PROVE  Lined([sq EXCEPT ![l] = Append(@, i)])'
<1> USE NotAnItem
<1> DEFINE s == sq[l]
           t == Append(s, i)
<1>1. /\ pc = "idle" /\ pc' = "idle" /\ i \notin live /\ live' = live \union {i} /\ LinkTypes
      /\ owner' = [owner EXCEPT ![i] = l]
      /\ head' = [head EXCEPT ![l] = IF head[l] = NULL THEN i ELSE head[l]]
      /\ next' = IF head[l] = NULL THEN [next EXCEPT ![i] = NULL]
                 ELSE [next EXCEPT ![i] = NULL, ![tail[l]] = i]
  BY DEF Apped, LinksInv, loopVars, LinkTypes
<1>2. /\ \A m \in Lists : First(m) = head[m] /\ First(m)' = head'[m]
      /\ Line(l)' = Line(l) \union {i}
      /\ \A m \in Lists \ {l} : Line(m)' = Line(m)
      /\ i \notin Line(l)
  BY <1>1 DEF First, Linked, Line, LinkTypes
<1>3. Chain(s, head[l], next, Line(l)) /\ s \in Seq(Item)
  BY <1>2 DEF Lined
<1>4. head[l] # NULL => /\ tail[l] \in Line(l) /\ next[tail[l]] = NULL
                        /\ tail[l] \in Item
  BY <1>1, IdleAgreement DEF LinksInv, ListAgrees, ItemAgrees, Line, LinkTypes
<1> HIDE DEF s
<1> DEFINE n == Len(s)
<1>5. /\ n \in Nat /\ DOMAIN s = 1 .. n
      /\ \A k \in 1 .. n : s[k] \in Line(l) /\ s[k] \in Item
      /\ \A k \in 1 .. n : next[s[k]] = IF k = n THEN NULL ELSE s[k + 1]
      /\ \A j, k \in 1 .. n : s[j] = s[k] => j = k
      /\ \A x \in Line(l) : \E k \in 1 .. n : s[k] = x
      /\ head[l] = IF n = 0 THEN NULL ELSE s[1]
      /\ \A k \in 1 .. n : s[k] # NULL
  BY <1>3, ChainFacts
<1>6. t \in [1 .. n + 1 -> Item] /\ t[n + 1] = i /\ \A k \in 1 .. n : t[k] = s[k]
  BY <1>3, Appended
<1> HIDE DEF t, n
<1>7. n # 0 => n \in 1 .. n /\ s[n] = tail[l]
  <2>1. ASSUME n # 0 PROVE s[n] = tail[l]
    <3>1. head[l] # NULL /\ 1 \in 1 .. n
      BY <1>5, <2>1
    <3>2. PICK k \in 1 .. n : s[k] = tail[l]
      BY <1>4, <1>5, <3>1
    <3>3. k = n
      <4>1. k # n => k + 1 \in 1 .. n
        BY <1>5
      <4> QED BY <1>4, <1>5, <3>1, <3>2, <4>1
    <3> QED BY <3>2, <3>3
  <2> QED BY <1>5, <2>1
<1>8. /\ \A k \in 1 .. n + 1 : t[k] \in Line(l)'
      /\ \A j, k \in 1 .. n + 1 : t[j] = t[k] => j = k
      /\ \A x \in Line(l)' : \E k \in 1 .. n + 1 : t[k] = x
      /\ head'[l] = IF n + 1 = 0 THEN NULL ELSE t[1]
  <2>1. \A k \in 1 .. n + 1 : k = n + 1 \/ (t[k] = s[k] /\ k \in 1 .. n)
    BY <1>5, <1>6
  <2>2. n + 1 \in 1 .. n + 1 /\ 1 .. n \subseteq 1 .. n + 1
    BY <1>5
  <2>3. \A j, k \in 1 .. n + 1 : t[j] = t[k] => j = k
    BY <1>2, <1>5, <1>6, <2>1
  <2>4. head'[l] = t[1]
    <3>1. CASE n = 0
      BY <1>1, <1>5, <1>6, <3>1 DEF LinkTypes
    <3>2. CASE n # 0
      <4>1. 1 \in 1 .. n /\ t[1] = s[1] /\ s[1] # NULL
        BY <1>5, <1>6, <3>2
      <4> QED BY <1>1, <1>5, <3>2, <4>1 DEF LinkTypes
    <3> QED BY <3>1, <3>2
  <2> QED BY <1>2, <1>5, <1>6, <2>1, <2>2, <2>3, <2>4
<1>9. ASSUME NEW k \in 1 .. n + 1 PROVE next'[t[k]] = IF k = n + 1 THEN NULL ELSE t[k + 1]
  <2>1. CASE k = n + 1
    BY <1>1, <1>2, <1>4, <1>6, <2>1 DEF LinkTypes
  <2>2. CASE k = n
    <3>1. t[k] = tail[l] /\ n \in 1 .. n /\ tail[l] # i /\ head[l] # NULL
      BY <1>2, <1>4, <1>5, <1>6, <1>7, <2>2
    <3>2. next'[tail[l]] = i
      BY <1>1, <1>4, <3>1 DEF LinkTypes
    <3> QED BY <1>5, <1>6, <2>2, <3>1, <3>2
  <2>3. CASE k # n + 1 /\ k # n
    <3>1. k \in 1 .. n /\ k + 1 \in 1 .. n /\ n \in 1 .. n /\ t[k] = s[k] /\ t[k + 1] = s[k + 1]
      BY <1>5, <1>6, <2>3
    <3>2. s[k] # i /\ s[k] # tail[l] /\ next[s[k]] = s[k + 1] /\ s[k] \in Item
      BY <1>2, <1>5, <1>7, <2>3, <3>1
    <3>3. next'[s[k]] = next[s[k]]
      BY <1>1, <3>2 DEF LinkTypes
    <3> QED BY <2>3, <3>1, <3>2, <3>3
  <2> QED BY <2>1, <2>2, <2>3
<1>10. Chain(t, head[l], next, Line(l))'
  <2>1. n + 1 \in Nat
    BY <1>5
  <2> QED BY <1>6, <1>8, <1>9, <2>1, ChainBy
<1>11. \A m \in Lists \ {l} : /\ First(m)' = First(m) /\ Line(m)' = Line(m)
                              /\ \A x \in Line(m) : next'[x] = next[x]
  BY <1>1, <1>2, <1>4 DEF Line, LinkTypes
<1>12. Lined([sq EXCEPT ![l] = t])'
  BY <1>2, <1>10, <1>11, OneList
<1> QED BY <1>12 DEF t, s

\* The one before an item is the one at the place before.
LEMMA OneBefore ==
  ASSUME LinksInv, pc # "clear", NEW l \in Lists, NEW s, Chain(s, head[l], next, Line(l))
  PROVE  \A k \in DOMAIN s : prev[s[k]] = IF k = 1 THEN NULL ELSE s[k - 1]
<1> USE NotAnItem
<1>1. \A n \in Line(l) : n \in Item /\ ItemAgrees(n) /\ owner[n] = l
  BY IdleAgreement DEF LinksInv, Line
<1> DEFINE n == Len(s)
<1>2. /\ n \in Nat /\ DOMAIN s = 1 .. n
      /\ \A k \in 1 .. n : s[k] \in Line(l) /\ s[k] # NULL
      /\ \A k \in 1 .. n : next[s[k]] = IF k = n THEN NULL ELSE s[k + 1]
      /\ head[l] = IF n = 0 THEN NULL ELSE s[1]
  BY ChainFacts
<1> HIDE DEF n
<1>3. ASSUME NEW k \in 1 .. n PROVE prev[s[k]] = IF k = 1 THEN NULL ELSE s[k - 1]
  <2>1. CASE k = 1
    BY <1>1, <1>2, <2>1 DEF ItemAgrees
  <2>2. CASE k # 1
    <3>1. k - 1 \in 1 .. n /\ k - 1 # n /\ k - 1 + 1 = k
      BY <1>2, <2>2
    <3>2. next[s[k - 1]] = s[k] /\ s[k] # NULL
      BY <1>2, <3>1
    <3>3. ItemAgrees(s[k - 1])
      BY <1>1, <1>2, <3>1
    <3> QED BY <2>2, <3>2, <3>3 DEF ItemAgrees
  <2> QED BY <2>1, <2>2
<1> QED BY <1>2, <1>3

LEMMA SwapSeq ==
  ASSUME LinksInv, NEW sq, Lined(sq), NEW i \in Item, NEW j \in Item, Swap(i, j)
  PROVE  \E l \in Lists : \E x, y \in DOMAIN sq[l] :
           /\ x # y
           /\ Lined([sq EXCEPT ![l] = [@ EXCEPT ![x] = sq[l][y], ![y] = sq[l][x]]])'
<1> USE NotAnItem
<1>0. PICK l \in Lists : l = owner[i]
  BY DEF LinksInv, LinkTypes
<1> DEFINE s == sq[l]
<1>1. /\ pc = "idle" /\ pc' = "idle" /\ live' = live /\ owner' = owner /\ LinkTypes
      /\ i # j /\ i \in live /\ j \in live /\ l \in Lists /\ owner[j] = l
      /\ head' = [head EXCEPT ![l] = IF prev[i] = NULL THEN j
                                     ELSE IF prev[j] = NULL THEN i ELSE head[l]]
  BY <1>0 DEF Swap, LinksInv, loopVars, LinkTypes
<1>2. /\ \A m \in Lists : First(m) = head[m] /\ First(m)' = head'[m]
      /\ \A m \in Lists : Line(m)' = Line(m)
      /\ Line(l)' = Line(l)
      /\ i \in Line(l) /\ j \in Line(l)
  BY <1>0, <1>1 DEF First, Linked, Line
<1>3. Chain(s, head[l], next, Line(l)) /\ s \in Seq(Item)
  BY <1>1, <1>2 DEF Lined
<1>4. \A n \in Line(l) : n \in Item /\ ItemAgrees(n) /\ owner[n] = l
  BY <1>1, IdleAgreement DEF LinksInv, Line
<1>5. /\ next'[j] = IF next[i] = j THEN i ELSE next[i]
      /\ next'[i] = IF next[j] = i THEN j ELSE next[j]
      /\ \A n \in Item \ {i, j} : next'[n] = IF n = prev[i] THEN j
                                            ELSE IF n = prev[j] THEN i ELSE next[n]
  BY SwappedLinks
<1> HIDE DEF s
<1> DEFINE n == Len(s)
<1>6. /\ n \in Nat /\ DOMAIN s = 1 .. n
      /\ \A k \in 1 .. n : s[k] \in Line(l) /\ s[k] \in Item /\ s[k] # NULL
      /\ \A k \in 1 .. n : next[s[k]] = IF k = n THEN NULL ELSE s[k + 1]
      /\ \A a, b \in 1 .. n : s[a] = s[b] => a = b
      /\ \A z \in Line(l) : \E k \in 1 .. n : s[k] = z
      /\ head[l] = IF n = 0 THEN NULL ELSE s[1]
  BY <1>3, ChainFacts
<1>7. /\ \E k \in 1 .. n : s[k] = i
      /\ \E k \in 1 .. n : s[k] = j
  BY <1>2, <1>6
<1>8. PICK x \in 1 .. n : s[x] = i
  BY <1>7
<1>9. PICK y \in 1 .. n : s[y] = j
  BY <1>7
<1> HIDE DEF n
<1> DEFINE t == [s EXCEPT ![x] = j, ![y] = i]
<1>10. x # y
  BY <1>1, <1>8, <1>9
<1>11. /\ t \in [1 .. n -> Item]
       /\ \A k \in 1 .. n : t[k] = IF k = x THEN j ELSE IF k = y THEN i ELSE s[k]
  BY <1>3, <1>6, <1>8, <1>9, <1>10
<1> HIDE DEF t
<1>12. \A k \in 1 .. n : prev[s[k]] = IF k = 1 THEN NULL ELSE s[k - 1]
  BY <1>1, <1>3, <1>6, OneBefore
<1>13. \A k \in 1 .. n : (k = 1 \/ k - 1 \in 1 .. n) /\ (k = n \/ k + 1 \in 1 .. n)
  BY <1>6
<1>14. head'[l] = IF n = 0 THEN NULL ELSE t[1]
  <2>1. 1 \in 1 .. n /\ n # 0 /\ head[l] = s[1]
    BY <1>6, <1>8, <1>9
  <2>2. prev[i] = NULL <=> x = 1
    BY <1>6, <1>8, <1>9, <1>12, <1>13
  <2>3. prev[j] = NULL <=> y = 1
    BY <1>6, <1>8, <1>9, <1>12, <1>13
  <2>4. head'[l] = IF x = 1 THEN j ELSE IF y = 1 THEN i ELSE s[1]
    BY <1>1, <2>1, <2>2, <2>3 DEF LinkTypes
  <2> QED BY <1>11, <2>1, <2>4
<1>15. ASSUME NEW k \in 1 .. n PROVE next'[t[k]] = IF k = n THEN NULL ELSE t[k + 1]
  <2>1. \A a \in 1 .. n : s[a] = i <=> a = x
    BY <1>6, <1>8, <1>9
  <2>2. \A a \in 1 .. n : s[a] = j <=> a = y
    BY <1>6, <1>8, <1>9
  <2>3. k # n => k + 1 \in 1 .. n
    BY <1>13
  <2>4. CASE k = x
    <3>1. t[k] = j /\ next'[j] = (IF next[i] = j THEN i ELSE next[i])
      BY <1>5, <1>11, <2>4
    <3>2. next[i] = IF k = n THEN NULL ELSE s[k + 1]
      BY <1>6, <1>8, <1>9, <2>4
    <3>3. CASE k = n
      BY <3>1, <3>2, <3>3
    <3>4. CASE k # n
      <4>1. t[k + 1] = (IF k + 1 = y THEN i ELSE s[k + 1]) /\ k + 1 \in 1 .. n
        BY <1>6, <1>11, <2>3, <2>4, <3>4
      <4>2. s[k + 1] = j <=> k + 1 = y
        BY <2>2, <4>1
      <4> QED BY <3>1, <3>2, <3>4, <4>1, <4>2
    <3> QED BY <3>3, <3>4
  <2>5. CASE k = y
    <3>1. t[k] = i /\ next'[i] = (IF next[j] = i THEN j ELSE next[j])
      BY <1>5, <1>10, <1>11, <2>5
    <3>2. next[j] = IF k = n THEN NULL ELSE s[k + 1]
      BY <1>6, <1>8, <1>9, <2>5
    <3>3. CASE k = n
      BY <3>1, <3>2, <3>3
    <3>4. CASE k # n
      <4>1. t[k + 1] = (IF k + 1 = x THEN j ELSE s[k + 1]) /\ k + 1 \in 1 .. n
        BY <1>6, <1>11, <2>3, <2>5, <3>4
      <4>2. s[k + 1] = i <=> k + 1 = x
        BY <2>1, <4>1
      <4> QED BY <3>1, <3>2, <3>4, <4>1, <4>2
    <3> QED BY <3>3, <3>4
  <2>6. CASE k # x /\ k # y
    <3>1. /\ t[k] = s[k] /\ s[k] \in Item \ {i, j}
          /\ next'[s[k]] = IF s[k] = prev[i] THEN j ELSE IF s[k] = prev[j] THEN i ELSE next[s[k]]
      BY <1>5, <1>6, <1>11, <2>1, <2>2, <2>6
    <3>2. s[k] = prev[i] <=> k + 1 = x
      <4>1. prev[i] = IF x = 1 THEN NULL ELSE s[x - 1]
        BY <1>8, <1>9, <1>12
      <4>2. x # 1 => x - 1 \in 1 .. n /\ x - 1 + 1 = x
        BY <1>13
      <4>3. CASE x = 1
        BY <1>6, <4>1, <4>3
      <4>4. CASE x # 1
        <5>1. s[k] = s[x - 1] <=> k = x - 1
          BY <1>6, <4>2, <4>4
        <5> QED BY <4>1, <4>2, <4>4, <5>1
      <4> QED BY <4>3, <4>4
    <3>3. s[k] = prev[j] <=> k + 1 = y
      <4>1. prev[j] = IF y = 1 THEN NULL ELSE s[y - 1]
        BY <1>8, <1>9, <1>12
      <4>2. y # 1 => y - 1 \in 1 .. n /\ y - 1 + 1 = y
        BY <1>13
      <4>3. CASE y = 1
        BY <1>6, <4>1, <4>3
      <4>4. CASE y # 1
        <5>1. s[k] = s[y - 1] <=> k = y - 1
          BY <1>6, <4>2, <4>4
        <5> QED BY <4>1, <4>2, <4>4, <5>1
      <4> QED BY <4>3, <4>4
    <3>4. next[s[k]] = IF k = n THEN NULL ELSE s[k + 1]
      BY <1>6
    <3>5. k # n => t[k + 1] = IF k + 1 = x THEN j ELSE IF k + 1 = y THEN i ELSE s[k + 1]
      BY <1>11, <2>3
    <3>6. k = n => k + 1 # x /\ k + 1 # y
      BY <1>6
    <3> QED BY <3>1, <3>2, <3>3, <3>4, <3>5, <3>6
  <2> QED BY <2>4, <2>5, <2>6
<1>16. /\ \A k \in 1 .. n : t[k] \in Line(l)'
       /\ \A a, b \in 1 .. n : t[a] = t[b] => a = b
       /\ \A z \in Line(l)' : \E k \in 1 .. n : t[k] = z
  <2>1. ASSUME NEW k \in 1 .. n PROVE t[k] \in Line(l)'
    <3>1. t[k] \in {i, j, s[k]}
      BY <1>11
    <3>2. s[k] \in Line(l)
      BY <1>6
    <3> QED BY <1>2, <3>1, <3>2
  <2>2. \A a, b \in 1 .. n : t[a] = t[b] => a = b
    <3>1. \A a \in 1 .. n : s[a] = i <=> a = x
      BY <1>6, <1>8
    <3>2. \A a \in 1 .. n : s[a] = j <=> a = y
      BY <1>6, <1>9
    <3> SUFFICES ASSUME NEW a \in 1 .. n, NEW b \in 1 .. n, t[a] = t[b] PROVE a = b
      OBVIOUS
    <3>3. CASE a = x
      BY <1>1, <1>10, <1>11, <3>1, <3>2, <3>3
    <3>4. CASE a = y
      BY <1>1, <1>10, <1>11, <3>1, <3>2, <3>4
    <3>5. CASE a # x /\ a # y
      BY <1>6, <1>11, <3>1, <3>2, <3>5
    <3> QED BY <3>3, <3>4, <3>5
  <2>3. ASSUME NEW z \in Line(l)' PROVE \E k \in 1 .. n : t[k] = z
    <3>1. PICK k \in 1 .. n : s[k] = z
      BY <1>1, <1>2, <1>6
    <3>2. t[IF k = x THEN y ELSE IF k = y THEN x ELSE k] = z
      BY <1>8, <1>9, <1>10, <1>11, <3>1
    <3> QED BY <3>2
  <2> QED BY <2>1, <2>2, <2>3
<1>17. Chain(t, head[l], next, Line(l))'
  <2>1. n \in Nat
    BY <1>6
  <2>2. \A k \in 1 .. n : next'[t[k]] = IF k = n THEN NULL ELSE t[k + 1]
    BY <1>15
  <2>3. t \in [1 .. n -> Item]
    BY <1>11
  <2> QED BY <1>14, <1>16, <2>1, <2>2, <2>3, ChainBy
<1>18. \A m \in Lists \ {l} : /\ First(m)' = First(m) /\ Line(m)' = Line(m)
                              /\ \A z \in Line(m) : next'[z] = next[z]
  <2>1. ASSUME NEW m \in Lists \ {l}, NEW z \in Line(m) PROVE next'[z] = next[z]
    <3>1. z \in Item /\ owner[z] # l /\ ItemAgrees(i) /\ ItemAgrees(j)
      BY <1>2, <1>4 DEF Line, LinksInv, LinkTypes
    <3>2. z \notin {i, j} /\ z # prev[i] /\ z # prev[j]
      BY <1>1, <1>4, <1>2, <3>1 DEF ItemAgrees
    <3> QED BY <1>5, <3>1, <3>2
  <2> QED BY <1>1, <1>2, <2>1 DEF LinkTypes
<1>19. Lined([sq EXCEPT ![l] = t])'
  <2>1. Chain(t, First(l), next, Line(l))'
    BY <1>1, <1>2, <1>17
  <2> QED BY <1>1, <1>18, <2>1, OneList
<1>20. l \in Lists /\ x \in DOMAIN sq[l] /\ y \in DOMAIN sq[l] /\ x # y
       /\ t = [sq[l] EXCEPT ![x] = sq[l][y], ![y] = sq[l][x]]
  BY <1>1, <1>6, <1>8, <1>9, <1>10 DEF t, s, n
<1> QED BY <1>19, <1>20

LEMMA UnlinkSeq ==
  ASSUME LinksInv, pc # "clear", pc' # "clear", NEW sq, Lined(sq), NEW i \in live, Unlink(i)
  PROVE  \E l \in Lists : \E x \in DOMAIN sq[l] : Lined([sq EXCEPT ![l] = RemoveAt(@, x)])'
<1> USE NotAnItem
<1>0. PICK l \in Lists : l = owner[i]
  BY DEF LinksInv, LinkTypes
<1> DEFINE s == sq[l]
           p == prev[i]
<1>1. /\ live' = live \ {i} /\ owner' = owner /\ LinkTypes /\ i \in Item
      /\ head' = [head EXCEPT ![l] = IF p = NULL THEN next[i] ELSE head[l]]
      /\ next' = [IF p = NULL THEN next ELSE [next EXCEPT ![p] = next[i]] EXCEPT ![i] = NULL]
      /\ p \in Pointer
  BY <1>0 DEF Unlink, Freed, LinksInv, LinkTypes
<1>2. /\ \A m \in Lists : First(m) = head[m] /\ First(m)' = head'[m]
      /\ \A m \in Lists \ {l} : Line(m)' = Line(m)
      /\ Line(l)' = Line(l) \ {i}
      /\ i \in Line(l)
  BY <1>0, <1>1 DEF First, Linked, Line
<1>3. Chain(s, head[l], next, Line(l)) /\ s \in Seq(Item)
  BY <1>1, <1>2 DEF Lined
<1>4. \A k \in DOMAIN s : prev[s[k]] = IF k = 1 THEN NULL ELSE s[k - 1]
  BY <1>3, OneBefore
<1>5. p # NULL => p \in Line(l)
  BY <1>0, <1>1, IdleAgreement DEF LinksInv, ItemAgrees, Line
<1> HIDE DEF s
<1> DEFINE n == Len(s)
<1>6. /\ n \in Nat /\ DOMAIN s = 1 .. n
      /\ \A k \in 1 .. n : s[k] \in Line(l) /\ s[k] \in Item /\ s[k] # NULL
      /\ \A k \in 1 .. n : next[s[k]] = IF k = n THEN NULL ELSE s[k + 1]
      /\ \A a, b \in 1 .. n : s[a] = s[b] => a = b
      /\ \A z \in Line(l) : \E k \in 1 .. n : s[k] = z
      /\ head[l] = IF n = 0 THEN NULL ELSE s[1]
  BY <1>3, ChainFacts
<1>7. PICK x \in 1 .. n : s[x] = i
  BY <1>2, <1>6
<1> DEFINE t == RemoveAt(s, x)
           len == n - 1
<1>8. /\ t \in [1 .. len -> Item]
      /\ \A k \in 1 .. len : t[k] = IF k < x THEN s[k] ELSE s[k + 1]
  BY <1>3, <1>6, Removed
<1> HIDE DEF t, n
<1>9. /\ len \in Nat /\ n = len + 1 /\ x \in 1 .. len + 1
      /\ \A k \in 1 .. len : k \in 1 .. n /\ k + 1 \in 1 .. n
  BY <1>6, <1>7
<1> HIDE DEF len
<1>10. p = (IF x = 1 THEN NULL ELSE s[x - 1]) /\ next[i] = (IF x = n THEN NULL ELSE s[x + 1])
  BY <1>4, <1>6, <1>7
<1>11. \A k \in 1 .. n : s[k] = i <=> k = x
  <2>1. \A k \in 1 .. n : s[k] = s[x] => k = x
    BY <1>6
  <2> QED BY <1>7, <2>1
<1>12. \A k \in 1 .. n : s[k] = p <=> k + 1 = x
  <2>1. CASE x = 1
    BY <1>6, <1>10, <2>1
  <2>2. CASE x # 1
    <3>1. x - 1 \in 1 .. n /\ x - 1 + 1 = x /\ p = s[x - 1]
      BY <1>6, <1>10, <2>2
    <3>2. \A k \in 1 .. n : s[k] = s[x - 1] <=> k = x - 1
      BY <1>6, <3>1
    <3> QED BY <3>1, <3>2
  <2> QED BY <2>1, <2>2
<1>13. head'[l] = IF len = 0 THEN NULL ELSE t[1]
  <2>1. head'[l] = IF p = NULL THEN next[i] ELSE s[1]
    BY <1>1, <1>6, <1>7 DEF LinkTypes
  <2>2. CASE x = 1
    <3>1. head'[l] = IF n = 1 THEN NULL ELSE s[2]
      BY <1>10, <2>1, <2>2
    <3> QED BY <1>8, <1>9, <2>2, <3>1
  <2>3. CASE x # 1
    <3>1. p # NULL /\ 1 \in 1 .. len
      BY <1>6, <1>9, <1>10, <2>3
    <3> QED BY <1>8, <1>9, <2>1, <2>3, <3>1
  <2> QED BY <2>2, <2>3
<1>14. ASSUME NEW k \in 1 .. len PROVE next'[t[k]] = IF k = len THEN NULL ELSE t[k + 1]
  <2>0. \A z \in Item : z # i => next'[z] = IF z = p THEN next[i] ELSE next[z]
    BY <1>1 DEF LinkTypes, Pointer
  <2>1. k # len => k + 1 \in 1 .. len
    BY <1>9
  <2>2. CASE k < x
    <3>1. t[k] = s[k] /\ s[k] # i /\ s[k] \in Item
      BY <1>6, <1>8, <1>9, <1>11, <2>2
    <3>2. CASE k + 1 = x
      <4>1. next'[t[k]] = next[i] /\ (x = n <=> k = len)
        BY <1>9, <1>12, <2>0, <3>1, <3>2
      <4>2. k # len => t[k + 1] = s[x + 1]
        BY <1>8, <2>1, <3>2
      <4> QED BY <1>10, <4>1, <4>2
    <3>3. CASE k + 1 # x
      <4>1. next'[t[k]] = next[s[k]] /\ k # len /\ k + 1 < x
        BY <1>9, <1>12, <2>0, <2>2, <3>1, <3>3
      <4>2. next[s[k]] = s[k + 1] /\ t[k + 1] = s[k + 1]
        BY <1>6, <1>8, <1>9, <2>1, <4>1
      <4> QED BY <4>1, <4>2
    <3> QED BY <3>2, <3>3
  <2>3. CASE ~(k < x)
    <3>1. t[k] = s[k + 1] /\ k + 1 \in 1 .. n /\ s[k + 1] # i /\ s[k + 1] # p /\ s[k + 1] \in Item
      BY <1>6, <1>8, <1>9, <1>11, <1>12, <2>3
    <3>2. next'[t[k]] = IF k + 1 = n THEN NULL ELSE s[k + 1 + 1]
      BY <1>6, <2>0, <3>1
    <3>3. k # len => t[k + 1] = s[k + 1 + 1]
      BY <1>8, <1>9, <2>1, <2>3
    <3> QED BY <1>9, <3>2, <3>3
  <2> QED BY <1>9, <2>2, <2>3
<1>15. \A k \in 1 .. len : t[k] \in Line(l)'
  BY <1>2, <1>6, <1>8, <1>9, <1>11
<1>16. \A a, b \in 1 .. len : t[a] = t[b] => a = b
  <2> SUFFICES ASSUME NEW a \in 1 .. len, NEW b \in 1 .. len, t[a] = t[b] PROVE a = b
    OBVIOUS
  <2>1. s[IF a < x THEN a ELSE a + 1] = s[IF b < x THEN b ELSE b + 1]
    BY <1>8
  <2>2. (IF a < x THEN a ELSE a + 1) = (IF b < x THEN b ELSE b + 1)
    BY <1>6, <1>9, <2>1
  <2> QED BY <1>9, <2>2
<1>17. ASSUME NEW z \in Line(l)' PROVE \E k \in 1 .. len : t[k] = z
  <2>1. PICK k \in 1 .. n : s[k] = z /\ k # x
    BY <1>2, <1>6, <1>7
  <2>2. CASE k < x
    BY <1>8, <1>9, <2>1, <2>2
  <2>3. CASE ~(k < x)
    <3>1. k - 1 \in 1 .. len /\ ~(k - 1 < x) /\ k - 1 + 1 = k
      BY <1>9, <2>1, <2>3
    <3>2. t[k - 1] = s[k]
      BY <1>8, <3>1
    <3> QED BY <2>1, <3>1, <3>2
  <2> QED BY <2>2, <2>3
<1>18. Chain(t, First(l), next, Line(l))'
  <2>1. Chain(t, head[l], next, Line(l))'
    BY <1>8, <1>9, <1>13, <1>14, <1>15, <1>16, <1>17, ChainBy
  <2> QED BY <1>2, <2>1
<1>19. \A m \in Lists \ {l} : /\ First(m)' = First(m) /\ Line(m)' = Line(m)
                              /\ \A z \in Line(m) : next'[z] = next[z]
  <2>1. ASSUME NEW m \in Lists \ {l}, NEW z \in Line(m) PROVE next'[z] = next[z]
    <3>1. z \in Item /\ z # i /\ z # p
      BY <1>0, <1>1, <1>5 DEF Line, LinkTypes
    <3> QED BY <1>1, <3>1 DEF LinkTypes, Pointer
  <2> QED BY <1>1, <1>2, <2>1 DEF LinkTypes
<1>20. Lined([sq EXCEPT ![l] = t])'
  BY <1>18, <1>19, OneList
<1> QED BY <1>6, <1>7, <1>20 DEF t, s, n

LEMMA StartLoopSeq ==
  ASSUME LinksInv, NEW sq, Lined(sq), NEW loop \in {"remove_if", "clear"}, NEW l \in Lists,
         NEW m, StartLoop(loop, l, m)
  PROVE  Lined(sq)'
<1>1. /\ pc = "idle" /\ target' = l /\ cursor' = head[l]
      /\ UNCHANGED <<live, head, tail, owner, prev, next>>
  BY DEF StartLoop, linkVars
<1>2. \A n \in Lists : First(n)' = First(n) /\ Line(n)' = Line(n)
  BY <1>1 DEF First, Linked, Line
<1>3. ASSUME NEW n \in Lists PROVE Chain(sq[n], First(n), next, Line(n))'
  <2>1. Chain(sq[n], First(n), next, Line(n))
    BY DEF Lined
  <2> QED BY <1>1, <1>2, <2>1
<1> QED BY <1>3 DEF Lined

\* A turn of clear takes the first item that is left.
LEMMA ClearTurnSeq ==
  ASSUME LinksInv, NEW sq, Lined(sq), ClearTurn
  PROVE  \E l \in Lists : \E x \in DOMAIN sq[l] : Lined([sq EXCEPT ![l] = RemoveAt(@, x)])'
<1> USE NotAnItem
<1>0. PICK l \in Lists : l = target
  BY DEF LinksInv, LinkTypes
<1> DEFINE s == sq[l]
<1>1. /\ pc = "clear" /\ live' = live \ {cursor} /\ owner' = owner /\ LinkTypes
      /\ next' = [next EXCEPT ![cursor] = NULL]
      /\ cursor' = next[cursor] /\ target' = l
      /\ cursor \in live /\ cursor \in Item /\ owner[cursor] = l
      /\ pc' = (IF next[cursor] = NULL THEN "idle" ELSE "clear")
      /\ head' = IF next[cursor] = NULL THEN [head EXCEPT ![l] = NULL] ELSE head
  BY <1>0 DEF ClearTurn, Advance, Freed, LinksInv, LoopInv, LinkTypes
<1>2. /\ First(l) = cursor /\ First(l)' = next[cursor]
      /\ \A m \in Lists \ {l} : First(m) = head[m] /\ First(m)' = head[m]
      /\ \A m \in Lists \ {l} : Line(m)' = Line(m)
      /\ Line(l)' = Line(l) \ {cursor}
      /\ cursor \in Line(l)
  BY <1>0, <1>1 DEF First, Linked, Line, LinkTypes
<1>3. Chain(s, cursor, next, Line(l)) /\ s \in Seq(Item)
  BY <1>2 DEF Lined
<1> HIDE DEF s
<1> DEFINE n == Len(s)
<1>4. /\ n \in Nat /\ DOMAIN s = 1 .. n
      /\ \A k \in 1 .. n : s[k] \in Line(l) /\ s[k] \in Item /\ s[k] # NULL
      /\ \A k \in 1 .. n : next[s[k]] = IF k = n THEN NULL ELSE s[k + 1]
      /\ \A a, b \in 1 .. n : s[a] = s[b] => a = b
      /\ \A z \in Line(l) : \E k \in 1 .. n : s[k] = z
      /\ cursor = IF n = 0 THEN NULL ELSE s[1]
  BY <1>3, ChainFacts
<1> HIDE DEF n
<1>5. 1 \in 1 .. n /\ s[1] = cursor
  BY <1>1, <1>4
<1> DEFINE t == RemoveAt(s, 1)
           len == n - 1
<1>6. /\ len \in Nat /\ n = len + 1
      /\ \A k \in 1 .. len : k \in 1 .. n /\ k + 1 \in 1 .. n /\ k + 1 # 1 /\ ~(k < 1)
  BY <1>4, <1>5
<1>7. t \in [1 .. len -> Item] /\ \A k \in 1 .. len : t[k] = s[k + 1]
  <2>1. 1 \in DOMAIN s
    BY <1>4, <1>5
  <2>2. /\ t \in [1 .. len -> Item]
        /\ \A k \in 1 .. len : t[k] = IF k < 1 THEN s[k] ELSE s[k + 1]
    BY <1>3, <2>1, Removed DEF n
  <2> HIDE DEF t, len
  <2> QED BY <1>6, <2>2
<1> HIDE DEF t, len
<1>8. \A k \in 1 .. n : s[k] = cursor <=> k = 1
  <2>1. \A k \in 1 .. n : s[k] = s[1] => k = 1
    BY <1>4, <1>5
  <2> QED BY <1>5, <2>1
<1>9. next[cursor] = IF len = 0 THEN NULL ELSE t[1]
  <2>1. next[cursor] = IF n = 1 THEN NULL ELSE s[1 + 1]
    BY <1>4, <1>5
  <2>2. len # 0 => 1 \in 1 .. len
    BY <1>6
  <2> QED BY <1>7, <1>6, <2>1, <2>2
<1>10. ASSUME NEW k \in 1 .. len PROVE next'[t[k]] = IF k = len THEN NULL ELSE t[k + 1]
  <2>1. t[k] = s[k + 1] /\ s[k + 1] # cursor /\ s[k + 1] \in Item
    BY <1>4, <1>7, <1>6, <1>8
  <2>2. next'[t[k]] = next[s[k + 1]]
    BY <1>1, <2>1 DEF LinkTypes
  <2>3. next[s[k + 1]] = IF k + 1 = n THEN NULL ELSE s[k + 1 + 1]
    BY <1>4, <1>6
  <2>4. k # len => t[k + 1] = s[k + 1 + 1]
    BY <1>7, <1>6
  <2> QED BY <1>6, <2>2, <2>3, <2>4
<1>11. \A k \in 1 .. len : t[k] \in Line(l)'
  BY <1>2, <1>4, <1>7, <1>6, <1>8
<1>12. \A a, b \in 1 .. len : t[a] = t[b] => a = b
  <2> SUFFICES ASSUME NEW a \in 1 .. len, NEW b \in 1 .. len, t[a] = t[b] PROVE a = b
    OBVIOUS
  <2>1. s[a + 1] = s[b + 1] /\ a + 1 \in 1 .. n /\ b + 1 \in 1 .. n
    BY <1>7, <1>6
  <2>2. a + 1 = b + 1
    BY <1>4, <2>1
  <2> QED BY <2>2
<1>13. ASSUME NEW z \in Line(l)' PROVE \E k \in 1 .. len : t[k] = z
  <2>1. PICK k \in 1 .. n : s[k] = z /\ k # 1
    BY <1>2, <1>4, <1>5
  <2>2. k - 1 \in 1 .. len /\ k - 1 + 1 = k
    BY <1>6, <2>1
  <2> QED BY <1>7, <2>1, <2>2
<1>14. Chain(t, First(l), next, Line(l))'
  <2>1. Chain(t, next[cursor], next', Line(l)')
    <3>1. len \in Nat
      BY <1>6
    <3> QED BY <1>7, <1>9, <1>10, <1>11, <1>12, <1>13, <3>1, ChainBy
  <2> QED BY <1>2, <2>1
<1>15. \A m \in Lists \ {l} : /\ First(m)' = First(m) /\ Line(m)' = Line(m)
                              /\ \A z \in Line(m) : next'[z] = next[z]
  BY <1>1, <1>2 DEF Line, LinkTypes
<1>16. Lined([sq EXCEPT ![l] = t])'
  BY <1>14, <1>15, OneList
<1> QED BY <1>4, <1>5, <1>16 DEF t, s, n

-----------------------------------------------------------------------------
(* Walks over joint lists *)

\* Place x of the list at place m of List comes before place y of the one at n.
Earlier(m, x, n, y) == m < n \/ (m = n /\ x < y)

Precedes(sq, i, j) ==
  \E m, n \in DOMAIN List :
    \E x \in DOMAIN sq[List[m]], y \in DOMAIN sq[List[n]] :
      i = sq[List[m]][x] /\ j = sq[List[n]][y] /\ Earlier(m, x, n, y)

\* w is the items of the lists ls before place x of the list at place n, in order.
Visited(sq, ls, w, n, x) ==
  /\ w \in Seq(Item)
  /\ \A p \in DOMAIN w : \E m \in DOMAIN List : \E y \in DOMAIN sq[List[m]] :
       List[m] \in ls /\ w[p] = sq[List[m]][y] /\ Earlier(m, y, n, x)
  /\ \A m \in DOMAIN List : \A y \in DOMAIN sq[List[m]] :
       List[m] \in ls /\ Earlier(m, y, n, x) => \E p \in DOMAIN w : w[p] = sq[List[m]][y]
  /\ \A p, q \in DOMAIN w : p < q => Precedes(sq, w[p], w[q])

\* What has been joined while a loop runs, and where a walk is.
WalkInv(sq) ==
  /\ pc \in {"remove_if", "clear", "lookup"} => joined = <<>>
  /\ pc = "walk" => \E n \in DOMAIN List : \E x \in DOMAIN sq[List[n]] :
                      /\ List[n] \in want /\ cursor = sq[List[n]][x]
                      /\ Visited(sq, want, joined, n, x)

SeqInv(sq) == Lined(sq) /\ WalkInv(sq)

\* The item at place x of the list at place n is visited; the next one is at the
\* place after it, or the first one of the next list that is joined.
LEMMA VisitNext ==
  ASSUME NEW sq \in [Lists -> Seq(Item)], NEW ls, NEW w,
         NEW n \in DOMAIN List, NEW x \in DOMAIN sq[List[n]], List[n] \in ls,
         Visited(sq, ls, w, n, x),
         NEW o \in 1 .. Len(List) + 1, NEW y \in Nat,
         \/ o = n /\ y = x + 1
         \/ /\ n < o /\ x = Len(sq[List[n]]) /\ y = 1
            /\ \A k \in n + 1 .. o - 1 : List[k] \notin ls
  PROVE  Visited(sq, ls, Append(w, sq[List[n]][x]), o, y)
<1> DEFINE i == sq[List[n]][x]
           v == Append(w, i)
           c == Len(w)
<1>1. /\ \A m \in DOMAIN List : /\ sq[List[m]] \in Seq(Item)
                                /\ DOMAIN sq[List[m]] = 1 .. Len(sq[List[m]])
                                /\ Len(sq[List[m]]) \in Nat
      /\ DOMAIN List = 1 .. Len(List) /\ Len(List) \in Nat
  BY Places
<1>2. i \in Item /\ w \in Seq(Item) /\ x \in Nat /\ n \in Nat
  BY <1>1 DEF Visited
<1>3. /\ v \in Seq(Item) /\ c \in Nat /\ DOMAIN w = 1 .. c /\ DOMAIN v = 1 .. c + 1
      /\ v[c + 1] = i /\ \A p \in 1 .. c : v[p] = w[p]
  BY <1>2
<1> HIDE DEF v, c
<1>4. \A p \in 1 .. c + 1 : p \in 1 .. c \/ p = c + 1
  BY <1>3
\* The places before the new one are those before the old one, and the old one.
<1>5. ASSUME NEW m \in DOMAIN List, List[m] \in ls, NEW z \in DOMAIN sq[List[m]]
      PROVE  Earlier(m, z, o, y) <=> Earlier(m, z, n, x) \/ (m = n /\ z = x)
  <2>1. m \in Nat /\ z \in Nat /\ z >= 1 /\ z <= Len(sq[List[m]])
    BY <1>1, <1>5, SMTT(30)
  <2>2. CASE o = n /\ y = x + 1
    BY <1>1, <1>2, <2>1, <2>2 DEF Earlier
  <2>3. CASE /\ n < o /\ x = Len(sq[List[n]]) /\ y = 1
             /\ \A k \in n + 1 .. o - 1 : List[k] \notin ls
    <3>1. m <= n \/ o <= m
      BY <1>1, <1>2, <1>5, <2>1, <2>3
    <3> QED BY <1>1, <1>2, <2>1, <2>3, <3>1 DEF Earlier
  <2> QED BY <2>2, <2>3
<1>6. ASSUME NEW p \in 1 .. c + 1
      PROVE  \E m \in DOMAIN List : \E z \in DOMAIN sq[List[m]] :
               List[m] \in ls /\ v[p] = sq[List[m]][z] /\ Earlier(m, z, o, y)
  <2>1. CASE p = c + 1
    BY <1>3, <1>5, <2>1
  <2>2. CASE p \in 1 .. c
    <3>1. PICK m \in DOMAIN List : \E z \in DOMAIN sq[List[m]] :
            List[m] \in ls /\ w[p] = sq[List[m]][z] /\ Earlier(m, z, n, x)
      BY <1>3, <2>2 DEF Visited
    <3> QED BY <1>3, <1>5, <2>2, <3>1
  <2> QED BY <1>4, <2>1, <2>2
<1>7. ASSUME NEW m \in DOMAIN List, NEW z \in DOMAIN sq[List[m]],
             List[m] \in ls, Earlier(m, z, o, y)
      PROVE  \E p \in 1 .. c + 1 : v[p] = sq[List[m]][z]
  <2>1. CASE m = n /\ z = x
    <3>1. c + 1 \in 1 .. c + 1
      BY <1>3
    <3> QED BY <1>3, <2>1, <3>1
  <2>2. CASE Earlier(m, z, n, x)
    <3>1. PICK p \in 1 .. c : w[p] = sq[List[m]][z]
      BY <1>3, <1>7, <2>2 DEF Visited
    <3>2. p \in 1 .. c + 1
      BY <1>3
    <3> QED BY <1>3, <3>1, <3>2
  <2> QED BY <1>5, <1>7, <2>1, <2>2
<1>8. ASSUME NEW p \in 1 .. c + 1, NEW q \in 1 .. c + 1, p < q
      PROVE  Precedes(sq, v[p], v[q])
  <2>1. p \in 1 .. c /\ v[p] = w[p]
    BY <1>3, <1>8
  <2>2. CASE q \in 1 .. c
    BY <1>3, <1>8, <2>1, <2>2 DEF Visited
  <2>3. CASE q = c + 1
    <3>1. PICK m \in DOMAIN List : \E z \in DOMAIN sq[List[m]] :
            w[p] = sq[List[m]][z] /\ Earlier(m, z, n, x)
      BY <1>3, <2>1 DEF Visited
    <3> QED BY <1>3, <2>1, <2>3, <3>1 DEF Precedes
  <2> QED BY <1>4, <2>2, <2>3
<1>9. Visited(sq, ls, v, o, y)
  <2> DEFINE d == 1 .. c + 1
  <2>1. /\ \A p \in d : \E m \in DOMAIN List : \E z \in DOMAIN sq[List[m]] :
             List[m] \in ls /\ v[p] = sq[List[m]][z] /\ Earlier(m, z, o, y)
        /\ \A m \in DOMAIN List : \A z \in DOMAIN sq[List[m]] :
             List[m] \in ls /\ Earlier(m, z, o, y) => \E p \in d : v[p] = sq[List[m]][z]
        /\ \A p, q \in d : p < q => Precedes(sq, v[p], v[q])
    BY <1>6, <1>7, <1>8
  <2>2. v \in Seq(Item) /\ DOMAIN v = d
    BY <1>3
  <2> HIDE DEF d
  <2> QED BY <2>1, <2>2 DEF Visited
<1> QED BY <1>9 DEF v

LEMMA VisitNone ==
  ASSUME NEW sq \in [Lists -> Seq(Item)], NEW ls, NEW n \in DOMAIN List,
         \A k \in 1 .. n - 1 : List[k] \notin ls
  PROVE  Visited(sq, ls, <<>>, n, 1)
<1>1. ASSUME NEW m \in DOMAIN List, NEW y \in DOMAIN sq[List[m]], List[m] \in ls
      PROVE  ~Earlier(m, y, n, 1)
  <2>1. /\ m \in Nat /\ n \in Nat /\ y \in Nat /\ y >= 1 /\ m >= 1
    BY Places
  <2> QED BY <1>1, <2>1 DEF Earlier
<1> QED BY <1>1 DEF Visited

LEMMA EndLookupSeq ==
  ASSUME LinksInv, JointInv, NEW sq, SeqInv(sq), EndLookup
  PROVE  SeqInv(sq)'
<1>1. /\ pc = "lookup" /\ at = Len(List) + 1 /\ joined = <<>> /\ joined' = joined
      /\ pc' = (IF joint.head = NULL THEN "idle" ELSE "walk")
      /\ joint.head # NULL => cursor' = head[owner[joint.head]]
      /\ UNCHANGED <<live, head, tail, owner, prev, next, want, target>>
      /\ FirstAfter(0, Len(List), joint.head)
  BY Places DEF EndLookup, linkVars, jointVars, JointInv, JointTypes, SeqInv, WalkInv
<1>2. \A l \in Lists : First(l) = head[l] /\ First(l)' = First(l) /\ Line(l)' = Line(l)
  BY <1>1 DEF First, Linked, Line
<1>3. Lined(sq)'
  <2>1. ASSUME NEW l \in Lists PROVE Chain(sq[l], First(l), next, Line(l))'
    <3>1. Chain(sq[l], First(l), next, Line(l))
      BY DEF SeqInv, Lined
    <3> QED BY <1>1, <1>2, <3>1
  <2> QED BY <2>1 DEF SeqInv, Lined
<1>4. CASE joint.head = NULL
  BY <1>1, <1>3, <1>4 DEF SeqInv, WalkInv
<1>5. CASE joint.head # NULL
  <2>1. PICK n \in 1 .. Len(List) : /\ Wanted(n) /\ joint.head = tail[List[n]]
                                    /\ \A k \in 1 .. n - 1 : ~Wanted(k)
    BY <1>1, <1>5 DEF FirstAfter
  <2>2. /\ n \in DOMAIN List /\ List[n] \in Lists /\ cursor' = head[List[n]]
        /\ head[List[n]] # NULL
    BY <1>1, <1>5, <2>1, TailsDiffer, Places
  <2>3. 1 \in DOMAIN sq[List[n]] /\ sq[List[n]][1] = head[List[n]]
    <3>1. Chain(sq[List[n]], head[List[n]], next, Line(List[n]))
      BY <1>2, <2>2 DEF SeqInv, Lined
    <3>2. /\ Len(sq[List[n]]) \in Nat /\ DOMAIN sq[List[n]] = 1 .. Len(sq[List[n]])
          /\ Len(sq[List[n]]) # 0 /\ sq[List[n]][1] = head[List[n]]
      BY <2>2, <3>1, ChainFacts
    <3> QED BY <3>2
  <2>4. Visited(sq, want, <<>>, n, 1)
    BY <2>1, <2>2, VisitNone DEF Wanted, SeqInv, Lined
  <2>5. WalkInv(sq)'
    BY <1>1, <1>5, <2>1, <2>2, <2>3, <2>4 DEF WalkInv, Wanted
  <2> QED BY <1>3, <2>5 DEF SeqInv
<1> QED BY <1>4, <1>5

LEMMA WalkTurnSeq ==
  ASSUME LinksInv, JointInv, NEW sq, SeqInv(sq), WalkTurn
  PROVE  /\ SeqInv(sq)'
         /\ pc' = "idle" \/ pc' = "walk"
         /\ pc' = "idle" => Visited(sq, want, joined', Len(List) + 1, 1)
<1>1. /\ pc = "walk" /\ cursor' = JointNext(cursor) /\ joined' = Append(joined, cursor)
      /\ pc' = IF cursor' = NULL THEN "idle" ELSE "walk"
      /\ UNCHANGED <<live, head, tail, owner, prev, next, want, target>>
  BY DEF WalkTurn, linkVars, jointVars
<1>2. \A l \in Lists : First(l) = head[l] /\ First(l)' = First(l) /\ Line(l)' = Line(l)
  BY <1>1 DEF First, Linked, Line
<1>3. Lined(sq) /\ Lined(sq)' /\ sq \in [Lists -> Seq(Item)]
  <2>1. ASSUME NEW l \in Lists PROVE Chain(sq[l], First(l), next, Line(l))'
    <3>1. Chain(sq[l], First(l), next, Line(l))
      BY DEF SeqInv, Lined
    <3> QED BY <1>1, <1>2, <3>1
  <2> QED BY <2>1 DEF SeqInv, Lined
<1>4. PICK n \in DOMAIN List : \E x \in DOMAIN sq[List[n]] :
        /\ List[n] \in want /\ cursor = sq[List[n]][x]
        /\ Visited(sq, want, joined, n, x)
  BY <1>1 DEF SeqInv, WalkInv
<1>5. PICK x \in DOMAIN sq[List[n]] :
        /\ List[n] \in want /\ cursor = sq[List[n]][x]
        /\ Visited(sq, want, joined, n, x)
  BY <1>4
<1> DEFINE s == sq[List[n]]
<1>6. \A m \in DOMAIN List : Chain(sq[List[m]], head[List[m]], next, Line(List[m]))
  BY <1>2, <1>3, Places DEF Lined
<1>7. /\ Len(s) \in Nat /\ DOMAIN s = 1 .. Len(s) /\ cursor \in Line(List[n])
      /\ next[cursor] = IF x = Len(s) THEN NULL ELSE s[x + 1]
      /\ \A k \in DOMAIN s : s[k] # NULL
  BY <1>5, <1>6, ChainFacts
<1>8. PICK m \in DOMAIN List :
        /\ Wanted(m) /\ owner[cursor] = List[m]
        /\ IF next[cursor] # NULL
           THEN JointNext(cursor) = next[cursor]
           ELSE \/ /\ JointNext(cursor) = NULL
                   /\ \A k \in m + 1 .. Len(List) : ~Wanted(k)
                \/ \E o \in m + 1 .. Len(List) :
                     /\ Wanted(o) /\ JointNext(cursor) = head[List[o]]
                     /\ \A k \in m + 1 .. o - 1 : ~Wanted(k)
  BY <1>1, WalkGoesOn
<1>9. m = n
  BY <1>7, <1>8, Places DEF Line
<1>10. n \in 1 .. Len(List) /\ Len(List) \in Nat /\ x \in Nat
  BY <1>5, <1>7, Places
<1>11. CASE next[cursor] # NULL
  <2>1. x # Len(s) /\ x + 1 \in DOMAIN s /\ x + 1 \in Nat /\ cursor' = s[x + 1] /\ s[x + 1] # NULL
    BY <1>1, <1>5, <1>7, <1>8, <1>11
  <2>2. n \in 1 .. Len(List) + 1
    BY <1>10
  <2>3. Visited(sq, want, joined', n, x + 1)
    BY <1>1, <1>3, <1>5, <2>1, <2>2, VisitNext
  <2>4. WalkInv(sq)'
    BY <1>1, <1>5, <2>1, <2>3 DEF WalkInv
  <2> QED BY <1>1, <1>3, <2>1, <2>4 DEF SeqInv
<1>12. CASE next[cursor] = NULL /\ JointNext(cursor) = NULL
  <2>1. x = Len(s)
    <3>1. x # Len(s) => x + 1 \in DOMAIN s
      BY <1>5, <1>7
    <3> QED BY <1>7, <1>12, <3>1
  <2>2. \A k \in n + 1 .. Len(List) + 1 - 1 : List[k] \notin want
    <3>1. \A k \in n + 1 .. Len(List) : ~Wanted(k)
      BY <1>8, <1>9, <1>10, <1>12, TailsDiffer, <1>1, Places
    <3>2. Len(List) + 1 - 1 = Len(List)
      BY <1>10
    <3> QED BY <3>1, <3>2 DEF Wanted
  <2>3. n < Len(List) + 1 /\ Len(List) + 1 \in 1 .. Len(List) + 1 /\ 1 \in Nat
    BY <1>10
  <2>4. Visited(sq, want, joined', Len(List) + 1, 1)
    BY <1>1, <1>3, <1>5, <2>1, <2>2, <2>3, VisitNext
  <2>5. pc' = "idle"
    BY <1>1, <1>12
  <2> QED BY <1>3, <2>4, <2>5 DEF SeqInv, WalkInv
<1>13. CASE next[cursor] = NULL /\ JointNext(cursor) # NULL
  <2>1. x = Len(s)
    <3>1. x # Len(s) => x + 1 \in DOMAIN s
      BY <1>5, <1>7
    <3> QED BY <1>7, <1>13, <3>1
  <2>2. PICK o \in n + 1 .. Len(List) : /\ Wanted(o) /\ JointNext(cursor) = head[List[o]]
                                        /\ \A k \in n + 1 .. o - 1 : ~Wanted(k)
    BY <1>8, <1>9, <1>13
  <2>3. n < o /\ o \in 1 .. Len(List) + 1 /\ o \in DOMAIN List /\ 1 \in Nat
    BY <1>10, Places
  <2>4. Visited(sq, want, joined', o, 1)
    BY <1>1, <1>3, <1>5, <2>1, <2>2, <2>3, VisitNext DEF Wanted
  <2>5. 1 \in DOMAIN sq[List[o]] /\ sq[List[o]][1] = head[List[o]]
    <3>1. Chain(sq[List[o]], head[List[o]], next, Line(List[o])) /\ head[List[o]] # NULL
      BY <1>6, <1>13, <2>2, <2>3
    <3>2. /\ Len(sq[List[o]]) \in Nat /\ DOMAIN sq[List[o]] = 1 .. Len(sq[List[o]])
          /\ Len(sq[List[o]]) # 0 /\ sq[List[o]][1] = head[List[o]]
      BY <3>1, ChainFacts
    <3> QED BY <3>2
  <2>6. WalkInv(sq)'
    BY <1>1, <1>13, <2>2, <2>3, <2>4, <2>5 DEF WalkInv, Wanted
  <2> QED BY <1>1, <1>3, <1>13, <2>6 DEF SeqInv
<1> QED BY <1>11, <1>12, <1>13

-----------------------------------------------------------------------------
(* Each step is a step of ListSeq, or none *)

\* The items joined that ListSeq sees.
Walked == IF pc = "walk" THEN <<>> ELSE joined

LEMMA Views ==
  ASSUME NEW sq, Lined(sq)
  PROVE  /\ [l \in Lists |-> Forward(l)] = sq
         /\ \A l \in Lists : sq[l] \in Seq(Item) /\ ToSet(sq[l]) = Line(l)
         /\ sq \in [Lists -> Seq(Item)]
  BY MappedIs DEF Mapped, Lined, Chain

LEMMA ViewsAfter ==
  ASSUME NEW sq, Lined(sq)'
  PROVE  [l \in Lists |-> Forward(l)]' = sq
  BY MappedIs DEF Mapped

LEMMA StutterStep ==
  ASSUME NEW sq, Lined(sq), Lined(sq)', Walked' = Walked
  PROVE  UNCHANGED Sequence!vars
  BY Views, ViewsAfter DEF Sequence!vars, Walked

LEMMA StartStep ==
  ASSUME NEW sq, Lined(sq), Lined(sq)', Walked' = <<>>
  PROVE  Sequence!Next
  BY Views, ViewsAfter DEF Sequence!Next, Sequence!Start, Walked

LEMMA InsertStep ==
  ASSUME LinksInv, NEW sq, Lined(sq), NEW l \in Lists, NEW i \in Item, i \notin live,
         NEW t, t = [sq EXCEPT ![l] = Append(@, i)] \/ t = [sq EXCEPT ![l] = <<i>> \o @],
         Lined(t)', Walked' = <<>>
  PROVE  Sequence!Next
<1>1. [m \in Lists |-> Forward(m)] = sq /\ [m \in Lists |-> Forward(m)]' = t
  BY Views, ViewsAfter
<1>2. \A m \in Lists : i \notin ToSet(sq[m])
  BY Views DEF Line
<1>3. Sequence!Insert(l, i)
  <2>1. \A m \in Lists : i \notin Sequence!ToSet([n \in Lists |-> Forward(n)][m])
    <3>1. \A m \in Lists : i \notin Sequence!ToSet(sq[m])
      BY <1>2 DEF Sequence!ToSet, ToSet
    <3> QED BY <1>1, <3>1
  <2>2. i \in Item \ Sequence!Listed
    BY <2>1 DEF Sequence!Listed, Sequence!Lists, Sequence!ToSet, Lists, ToSet
  <2> QED BY <1>1, <2>2 DEF Sequence!Insert, Walked
<1> QED BY <1>3 DEF Sequence!Next, Sequence!Lists, Sequence!ToSet, Lists, ToSet

LEMMA TakeStep ==
  ASSUME NEW sq, Lined(sq), NEW l \in Lists, NEW k \in DOMAIN sq[l],
         Lined([sq EXCEPT ![l] = RemoveAt(@, k)])', Walked' = <<>>
  PROVE  Sequence!Next
<1>1. /\ [m \in Lists |-> Forward(m)] = sq
      /\ [m \in Lists |-> Forward(m)]' = [sq EXCEPT ![l] = RemoveAt(@, k)]
  BY Views, ViewsAfter
<1>2. Sequence!Take(l, k)
  BY <1>1 DEF Sequence!Take, Sequence!RemoveAt, RemoveAt, Walked
<1> QED BY <1>1, <1>2 DEF Sequence!Next, Sequence!Lists, Sequence!ToSet, Lists, ToSet

LEMMA SwapStep ==
  ASSUME NEW sq, Lined(sq), NEW l \in Lists, NEW x \in DOMAIN sq[l], NEW y \in DOMAIN sq[l],
         x < y, Lined([sq EXCEPT ![l] = [@ EXCEPT ![x] = sq[l][y], ![y] = sq[l][x]]])',
         Walked' = <<>>
  PROVE  Sequence!Next
<1>1. /\ [m \in Lists |-> Forward(m)] = sq
      /\ [m \in Lists |-> Forward(m)]'
            = [sq EXCEPT ![l] = [@ EXCEPT ![x] = sq[l][y], ![y] = sq[l][x]]]
  BY Views, ViewsAfter
<1>2. Sequence!Swap(l, x, y)
  BY <1>1 DEF Sequence!Swap, Walked
<1> QED BY <1>1, <1>2 DEF Sequence!Next, Sequence!Lists, Sequence!ToSet, Lists, ToSet

\* The end of a walk shows the lists that were joined.
LEMMA JoinStep ==
  ASSUME LinksInv, JointInv, NEW sq, Lined(sq), Lined(sq)', pc = "walk", pc' = "idle",
         Visited(sq, want, joined', Len(List) + 1, 1)
  PROVE  Sequence!Next
<1>1. /\ [m \in Lists |-> Forward(m)] = sq /\ [m \in Lists |-> Forward(m)]' = sq
      /\ \A l \in Lists : sq[l] \in Seq(Item) /\ DOMAIN sq[l] = 1 .. Len(sq[l])
  BY Views, ViewsAfter
<1>2. want \subseteq Lists /\ \A l \in want : sq[l] # <<>>
  <2>1. want \subseteq Lists /\ \A l \in want : head[l] # NULL
    BY DEF JointInv, JointTypes
  <2>2. ASSUME NEW l \in want PROVE sq[l] # <<>>
    <3>1. Chain(sq[l], head[l], next, Line(l))
      BY <2>1 DEF Lined, First, Linked
    <3> QED BY <2>1, <3>1, ChainFacts
  <2> QED BY <2>1, <2>2
<1>3. /\ joined' \in Seq(Item)
      /\ \A p, q \in DOMAIN joined' : p < q => Precedes(sq, joined'[p], joined'[q])
  BY DEF Visited
<1>4. ToSet(joined') = UNION {ToSet(sq[l]) : l \in want}
  <2>1. ASSUME NEW p \in DOMAIN joined'
        PROVE  \E l \in want : joined'[p] \in ToSet(sq[l])
    <3>1. PICK m \in DOMAIN List : \E y \in DOMAIN sq[List[m]] :
            List[m] \in want /\ joined'[p] = sq[List[m]][y]
      BY DEF Visited
    <3> QED BY <3>1 DEF ToSet
  <2>2. ASSUME NEW l \in want, NEW y \in DOMAIN sq[l]
        PROVE  \E p \in DOMAIN joined' : joined'[p] = sq[l][y]
    <3>1. PICK m \in DOMAIN List : l = List[m]
      BY <1>2, Places
    <3>2. Earlier(m, y, Len(List) + 1, 1)
      BY Places DEF Earlier
    <3> QED BY <3>1, <3>2 DEF Visited
  <2> QED BY <2>1, <2>2 DEF ToSet
<1>5. ASSUME NEW i, NEW j, Precedes(sq, i, j) PROVE Sequence!Before(i, j)
  <2> DEFINE f == [m \in Lists |-> Forward(m)]
  <2>1. f = sq
    BY <1>1
  <2> HIDE DEF f
  <2>2. PICK m \in DOMAIN List, n \in DOMAIN List :
          \E x \in DOMAIN sq[List[m]], y \in DOMAIN sq[List[n]] :
            i = sq[List[m]][x] /\ j = sq[List[n]][y] /\ Earlier(m, x, n, y)
    BY <1>5 DEF Precedes
  <2>3. \E x \in DOMAIN f[List[m]], y \in DOMAIN f[List[n]] :
          /\ i = f[List[m]][x] /\ j = f[List[n]][y]
          /\ m < n \/ (m = n /\ x < y)
    BY <2>1, <2>2 DEF Earlier
  <2> QED BY <2>3 DEF Sequence!Before, f
<1>6. Sequence!Join(want)
  <2> DEFINE w == IF pc' = "walk" THEN <<>> ELSE joined'
  <2>1. w = joined'
    OBVIOUS
  <2> HIDE DEF w
  <2>2. /\ \A l \in want : [m \in Lists |-> Forward(m)][l] # <<>>
        /\ w \in Seq(Item)
        /\ Sequence!ToSet(w) = UNION {Sequence!ToSet([m \in Lists |-> Forward(m)][l]) : l \in want}
        /\ \A p, q \in DOMAIN w : p < q => Sequence!Before(w[p], w[q])
        /\ [m \in Lists |-> Forward(m)]' = [m \in Lists |-> Forward(m)]
    <3>1. Sequence!ToSet(w) = UNION {Sequence!ToSet(sq[l]) : l \in want}
      BY <1>4, <2>1 DEF Sequence!ToSet, ToSet
    <3> QED BY <1>1, <1>2, <1>3, <1>5, <2>1, <3>1
  <2> QED BY <2>2 DEF Sequence!Join, w
<1> QED BY <1>2, <1>6 DEF Sequence!Next, Sequence!Lists, Sequence!ToSet, Lists, ToSet

\* A loop keeps the items joined as they are before it: none.
LEMMA NoneJoined ==
  ASSUME NEW sq, WalkInv(sq), pc \in {"remove_if", "clear", "lookup"},
         joined' = joined, pc' # "walk",
         NEW t
  PROVE  Walked = <<>> /\ Walked' = <<>> /\ WalkInv(t)'
  BY DEF WalkInv, Walked

LEMMA JoinedReset ==
  ASSUME joined' = <<>>, pc' # "walk", NEW t
  PROVE  Walked' = <<>> /\ WalkInv(t)'
  BY DEF WalkInv, Walked

LEMMA StepRefines ==
  ASSUME LinksInv, JointInv, NEW sq, SeqInv(sq), [Next]_vars
  PROVE  (\E t : SeqInv(t)') /\ [Sequence!Next]_(Sequence!vars)
<1> DEFINE Goal == (\E t : SeqInv(t)') /\ [Sequence!Next]_(Sequence!vars)
<1>0. Lined(sq) /\ WalkInv(sq)
  BY DEF SeqInv
<1>1. ASSUME NEW l \in Lists, NEW i \in Item, Prepend(l, i) PROVE Goal
  <2>1. joined' = <<>> /\ pc' # "walk" /\ i \notin live
    BY <1>1 DEF Prepend, loopVars
  <2> DEFINE t == [sq EXCEPT ![l] = <<i>> \o @]
  <2>2. Lined(t)'
    BY <1>0, <1>1, PrependSeq
  <2> HIDE DEF t
  <2>3. WalkInv(t)' /\ Walked' = <<>>
    BY <2>1, JoinedReset
  <2>4. Sequence!Next
    BY <1>0, <2>1, <2>2, <2>3, InsertStep DEF t
  <2> QED BY <2>2, <2>3, <2>4 DEF SeqInv
<1>2. ASSUME NEW l \in Lists, NEW i \in Item, Apped(l, i) PROVE Goal
  <2>1. joined' = <<>> /\ pc' # "walk" /\ i \notin live
    BY <1>2 DEF Apped, loopVars
  <2> DEFINE t == [sq EXCEPT ![l] = Append(@, i)]
  <2>2. Lined(t)'
    BY <1>0, <1>2, AppedSeq
  <2> HIDE DEF t
  <2>3. WalkInv(t)' /\ Walked' = <<>>
    BY <2>1, JoinedReset
  <2>4. Sequence!Next
    BY <1>0, <2>1, <2>2, <2>3, InsertStep DEF t
  <2> QED BY <2>2, <2>3, <2>4 DEF SeqInv
<1>3. ASSUME NEW i \in Item, NEW j \in Item, Swap(i, j) PROVE Goal
  <2>1. joined' = <<>> /\ pc' # "walk"
    BY <1>3 DEF Swap, loopVars
  <2>2. PICK l \in Lists : \E x, y \in DOMAIN sq[l] :
          /\ x # y
          /\ Lined([sq EXCEPT ![l] = [@ EXCEPT ![x] = sq[l][y], ![y] = sq[l][x]]])'
    BY <1>0, <1>3, SwapSeq
  <2>3. PICK x \in DOMAIN sq[l], y \in DOMAIN sq[l] :
          /\ x # y
          /\ Lined([sq EXCEPT ![l] = [@ EXCEPT ![x] = sq[l][y], ![y] = sq[l][x]]])'
    BY <2>2
  <2>4. DOMAIN sq[l] = 1 .. Len(sq[l]) /\ sq[l] \in [DOMAIN sq[l] -> Item]
    BY <1>0, Views
  <2>5. [sq[l] EXCEPT ![x] = sq[l][y], ![y] = sq[l][x]]
          = [sq[l] EXCEPT ![y] = sq[l][x], ![x] = sq[l][y]]
    BY <2>3, <2>4
  <2>6. Lined([sq EXCEPT ![l] = [@ EXCEPT ![y] = sq[l][x], ![x] = sq[l][y]]])'
    BY <2>3, <2>5
  <2>7. Walked' = <<>> /\ \E t : SeqInv(t)'
    BY <2>1, <2>3, JoinedReset DEF SeqInv
  <2>8. Sequence!Next
    <3>1. CASE x < y
      BY <1>0, <2>3, <2>7, <3>1, SwapStep
    <3>2. CASE y < x
      BY <1>0, <2>6, <2>7, <3>2, SwapStep
    <3> QED BY <2>3, <2>4, <3>1, <3>2
  <2> QED BY <2>7, <2>8
\* An item is unlinked, by a call or by a turn of a loop.
<1>4. ASSUME NEW l \in Lists, NEW x \in DOMAIN sq[l], Lined([sq EXCEPT ![l] = RemoveAt(@, x)])',
             Walked' = <<>>, \A t : WalkInv(t)'
      PROVE  Goal
  <2>1. Sequence!Next
    BY <1>0, <1>4, TakeStep
  <2> QED BY <1>4, <2>1 DEF SeqInv
<1>5. ASSUME NEW i \in Item, RemoveItem(i) PROVE Goal
  <2>1. joined' = <<>> /\ pc = "idle" /\ pc' = "idle" /\ i \in live /\ Unlink(i)
    BY <1>5 DEF RemoveItem, loopVars
  <2>2. Walked' = <<>> /\ \A t : WalkInv(t)'
    BY <2>1, JoinedReset
  <2>3. PICK l \in Lists : \E x \in DOMAIN sq[l] : Lined([sq EXCEPT ![l] = RemoveAt(@, x)])'
    BY <1>0, <2>1, UnlinkSeq
  <2> QED BY <1>4, <2>2, <2>3
<1>6. CASE RemoveIfTurn
  <2>1. /\ joined' = joined /\ pc = "remove_if" /\ pc' \in {"idle", "remove_if"} /\ cursor \in live
        /\ IF cursor \in match THEN Unlink(cursor) ELSE UNCHANGED <<live, linkVars>>
    BY <1>6 DEF RemoveIfTurn, Advance, LinksInv, LoopInv
  <2>2. Walked = <<>> /\ Walked' = <<>> /\ \A t : WalkInv(t)'
    BY <1>0, <2>1, NoneJoined
  <2>3. CASE cursor \in match
    <3>1. PICK l \in Lists : \E x \in DOMAIN sq[l] : Lined([sq EXCEPT ![l] = RemoveAt(@, x)])'
      BY <1>0, <2>1, <2>3, UnlinkSeq
    <3> QED BY <1>4, <2>2, <3>1
  <2>4. CASE cursor \notin match
    <3>1. \A l \in Lists : First(l)' = First(l) /\ Line(l)' = Line(l) /\ next' = next
      BY <2>1, <2>4 DEF First, Linked, Line, linkVars
    <3>2. Lined(sq)'
      BY <1>0, <3>1 DEF Lined
    <3> QED BY <1>0, <2>2, <3>2, StutterStep DEF SeqInv
  <2> QED BY <2>3, <2>4
<1>7. CASE ClearTurn
  <2>1. joined' = joined /\ pc = "clear" /\ pc' \in {"idle", "clear"}
    BY <1>7 DEF ClearTurn, Advance
  <2>2. Walked' = <<>> /\ \A t : WalkInv(t)'
    BY <1>0, <2>1, NoneJoined
  <2>3. PICK l \in Lists : \E x \in DOMAIN sq[l] : Lined([sq EXCEPT ![l] = RemoveAt(@, x)])'
    BY <1>0, <1>7, ClearTurnSeq
  <2> QED BY <1>4, <2>2, <2>3
<1>8. ASSUME NEW loop \in {"remove_if", "clear"}, NEW l \in Lists, NEW m, StartLoop(loop, l, m)
      PROVE  Goal
  <2>1. joined' = <<>> /\ pc' # "walk"
    BY <1>8 DEF StartLoop
  <2>2. Lined(sq)'
    BY <1>0, <1>8, StartLoopSeq
  <2>3. Walked' = <<>> /\ WalkInv(sq)'
    BY <2>1, JoinedReset
  <2> QED BY <1>0, <2>2, <2>3, StartStep DEF SeqInv
\* A lookup and a walk leave the links alone.
<1>9. ASSUME UNCHANGED <<live, linkVars>>, pc # "clear", pc' # "clear" PROVE Lined(sq)'
  <2>1. \A l \in Lists : First(l)' = First(l) /\ Line(l)' = Line(l) /\ next' = next
    BY <1>9 DEF First, Linked, Line, linkVars
  <2> QED BY <1>0, <2>1 DEF Lined
<1>10. ASSUME NEW ls \in SUBSET Lists, StartLookup(ls) PROVE Goal
  <2>1. joined' = <<>> /\ pc = "idle" /\ pc' = "lookup" /\ UNCHANGED <<live, linkVars>>
    BY <1>10 DEF StartLookup
  <2>2. Walked' = <<>> /\ WalkInv(sq)' /\ Lined(sq)'
    BY <1>9, <2>1, JoinedReset
  <2> QED BY <1>0, <2>2, StartStep DEF SeqInv
<1>11. CASE LookupTurn
  <2>1. joined' = joined /\ pc = "lookup" /\ pc' = "lookup" /\ UNCHANGED <<live, linkVars>>
    BY <1>11 DEF LookupTurn, loopVars
  <2>2. Walked = <<>> /\ Walked' = <<>> /\ WalkInv(sq)' /\ Lined(sq)'
    BY <1>0, <1>9, <2>1, NoneJoined
  <2> QED BY <1>0, <2>2, StutterStep DEF SeqInv
<1>12. CASE EndLookup
  <2>1. joined' = joined /\ pc = "lookup" /\ joined = <<>>
    BY <1>0, <1>12 DEF EndLookup, WalkInv
  <2>2. Walked' = Walked
    BY <2>1 DEF Walked
  <2>3. SeqInv(sq)'
    BY <1>12, EndLookupSeq
  <2> QED BY <1>0, <2>2, <2>3, StutterStep DEF SeqInv
<1>13. CASE WalkTurn
  <2>1. /\ SeqInv(sq)' /\ pc = "walk" /\ pc' \in {"idle", "walk"}
        /\ pc' = "idle" => Visited(sq, want, joined', Len(List) + 1, 1)
    BY <1>13, WalkTurnSeq DEF WalkTurn
  <2>2. CASE pc' = "idle"
    <3>1. Sequence!Next
      BY <1>0, <2>1, <2>2, JoinStep DEF SeqInv
    <3> QED BY <2>1, <3>1
  <2>3. CASE pc' = "walk"
    <3>1. Walked' = Walked
      BY <2>1, <2>3 DEF Walked
    <3> QED BY <1>0, <2>1, <3>1, StutterStep DEF SeqInv
  <2> QED BY <2>1, <2>2, <2>3
<1>14. CASE UNCHANGED vars
  <2>1. Lined(sq)'
    BY <1>0, <1>14 DEF Lined, First, Linked, Line, vars
  <2>2. WalkInv(sq)' /\ Walked' = Walked
    BY <1>0, <1>14 DEF WalkInv, Walked, vars
  <2> QED BY <1>0, <2>1, <2>2, StutterStep DEF SeqInv
<1> QED
  BY <1>1, <1>2, <1>3, <1>5, <1>6, <1>7, <1>8, <1>10, <1>11, <1>12, <1>13, <1>14
  DEF Next, LoopTurn

LEMMA InitRefines ==
  ASSUME Init
  PROVE  (\E sq : SeqInv(sq)) /\ Sequence!Init
<1> USE NotAnItem
<1> DEFINE none == [l \in Lists |-> <<>>]
<1>1. ASSUME NEW l \in Lists PROVE Chain(<<>>, First(l), next, Line(l))
  <2>1. First(l) = NULL /\ Line(l) = {}
    BY DEF Init, First, Linked, Line
  <2> QED BY <2>1 DEF Chain, IsInjective, ToSet, Spells
<1>2. Lined(none)
  BY <1>1 DEF Lined
<1>3. WalkInv(none)
  BY DEF Init, WalkInv
<1>4. [l \in Lists |-> Forward(l)] = none
  BY <1>2, Views
<1>5. Sequence!Init
  BY <1>4 DEF Init, Sequence!Init, Sequence!Lists, Sequence!ToSet, Lists, ToSet
<1> QED BY <1>2, <1>3, <1>5 DEF SeqInv

-----------------------------------------------------------------------------
(* The theorems *)

SInv == IInv /\ \E sq : SeqInv(sq)

LEMMA SequencesInvariant == Spec => []SInv
<1>1. Init => \E sq : SeqInv(sq)
  BY InitRefines
<1>2. IInv /\ (\E sq : SeqInv(sq)) /\ [Next]_vars => \E sq : SeqInv(sq)'
  BY StepRefines DEF IInv
<1>3. IInv /\ (\E sq : SeqInv(sq)) /\ [Next]_vars => (\E sq : SeqInv(sq))'
  BY <1>2
<1> QED BY <1>1, <1>3, Invariant, PTL DEF Spec, SInv

\* The lists behave as sequences, for any number of lists and items: what an operation
\* does to the links is what it promises to do to a sequence, and a walk over a joint
\* list visits the lists that were joined one after the other, once each.
THEOREM ListsAreSequences == Spec => ImplementsSequences
<1>1. Init => Sequence!Init
  BY InitRefines
<1>2. SInv /\ [Next]_vars => [Sequence!Next]_(Sequence!vars)
  BY StepRefines DEF SInv, IInv
<1> QED BY <1>1, <1>2, SequencesInvariant, PTL DEF Spec, ImplementsSequences, Sequence!Spec

\* From the head of a list on, next leads through the items of that list, all of them
\* and each once, and then ends.
THEOREM ListsAreWhole ==
  Spec => [](pc # "clear" =>
               \A l \in Lists : Chain(Forward(l), head[l], next, {i \in live : owner[i] = l}))
<1>1. SInv => (pc # "clear" =>
                 \A l \in Lists : Chain(Forward(l), head[l], next, {i \in live : owner[i] = l}))
  <2> SUFFICES ASSUME NEW sq, Lined(sq), pc # "clear", NEW l \in Lists
               PROVE  Chain(Forward(l), head[l], next, {i \in live : owner[i] = l})
    BY DEF SInv, SeqInv
  <2>1. Forward(l) = sq[l]
    BY Views
  <2> QED BY <2>1 DEF Lined, First, Linked, Line
<1> QED BY <1>1, SequencesInvariant, PTL
=============================================================================
