-------------------------------- MODULE XdgList --------------------------------
(***************************************************************************)
(* The lists of src/src/containers/xdglist.c: items linked in both direc-  *)
(* tions that also point to their list, and joint lists, which chain the   *)
(* tails of several lists so that one walk visits them all.                *)
(*                                                                         *)
(* An item is a piece of memory that is used again after it was freed: its *)
(* links are lost then, but what its joint link was is still there.  The   *)
(* loops of _xdg_list_remove_if, _xdg_list_clear and xdg_known_apps_lookup *)
(* and the walk over what was looked up take one step a turn, everything   *)
(* else is one call.                                                       *)
(***************************************************************************)
EXTENDS Integers, Sequences, FiniteSets, SequencesExt

CONSTANTS List,    \* the lists, in the order in which they are joined
          Item,
          NULL

ASSUME ListAssumption ==
  /\ List \in Seq(ToSet(List)) /\ List # <<>> /\ IsInjective(List)
  /\ IsFiniteSet(Item) /\ NULL \notin Item

Lists == ToSet(List)
Pointer == Item \union {NULL}

VARIABLES
  live,        \* the items in use
  head, tail,  \* of a list
  owner,       \* item->list
  prev, next,  \* of an item
  jnext,       \* XdgJointListItem.next of an item
  joint,       \* the XdgJointList of the running lookup
  want, at,    \* the lists it finds, and the place in List it is at
  joined,      \* the items visited so far from the joint list looked up last;
               \* it is not used after a list changes
  pc,          \* "idle" or the running loop: "remove_if", "clear", "lookup"
               \* or "walk"
  target,      \* the list remove_if or clear is about
  cursor,      \* the item a loop is at
  match        \* the items its match function accepts

linkVars == <<head, tail, owner, prev, next>>
loopVars == <<pc, target, cursor, match>>
jointVars == <<jnext, joint, want, at>>
vars == <<live, head, tail, owner, prev, next, jnext, joint, want, at, joined,
          pc, target, cursor, match>>

Empty == [head |-> NULL, tail |-> NULL]

Init ==
  /\ live = {}
  /\ head = [l \in Lists |-> NULL]
  /\ tail = [l \in Lists |-> NULL]
  /\ owner = [i \in Item |-> List[1]]
  /\ prev = [i \in Item |-> NULL]
  /\ next = [i \in Item |-> NULL]
  /\ jnext = [i \in Item |-> NULL]
  /\ joint = Empty /\ want = {} /\ at = 1
  /\ joined = <<>>
  /\ pc = "idle"
  /\ target = List[1]
  /\ cursor = NULL
  /\ match = {}

-----------------------------------------------------------------------------
(* Inserting a new item *)

\* _xdg_list_prepend
Prepend(l, i) ==
  /\ pc = "idle"
  /\ i \notin live
  /\ live' = live \union {i}
  /\ owner' = [owner EXCEPT ![i] = l]
  /\ next' = [next EXCEPT ![i] = head[l]]
  /\ prev' = IF head[l] = NULL THEN [prev EXCEPT ![i] = NULL]
             ELSE [prev EXCEPT ![i] = NULL, ![head[l]] = i]
  /\ head' = [head EXCEPT ![l] = i]
  /\ tail' = IF head[l] = NULL THEN [tail EXCEPT ![l] = i] ELSE tail
  /\ joined' = <<>>
  /\ UNCHANGED <<jointVars, loopVars>>

\* _xdg_list_apped
Apped(l, i) ==
  /\ pc = "idle"
  /\ i \notin live
  /\ live' = live \union {i}
  /\ owner' = [owner EXCEPT ![i] = l]
  /\ IF head[l] = NULL
     THEN /\ head' = [head EXCEPT ![l] = i]
          /\ prev' = [prev EXCEPT ![i] = NULL]
          /\ next' = [next EXCEPT ![i] = NULL]
     ELSE /\ prev' = [prev EXCEPT ![i] = tail[l]]
          /\ next' = [next EXCEPT ![i] = NULL, ![tail[l]] = i]
          /\ UNCHANGED head
  /\ tail' = [tail EXCEPT ![l] = i]
  /\ joined' = <<>>
  /\ UNCHANGED <<jointVars, loopVars>>

-----------------------------------------------------------------------------
(* Swapping two items *)

\* Mutant of Taken: xdg_list_swap without its case of adjacent items.
TakenAsIs(i, j, n) == n

\* Where a pointer of i leads after i and j changed places: a pointer to i
\* itself, which an item next to j had, becomes one to j.
Taken(i, j, n) == IF n = i THEN j ELSE n

\* xdg_list_swap, under its assertion.
Swap(i, j) ==
  LET l == owner[i] IN
  /\ pc = "idle"
  /\ i # j /\ {i, j} \subseteq live /\ owner[i] = owner[j]
  /\ prev' = [n \in Item |-> CASE n = j -> Taken(j, i, prev[i])
                               [] n = i -> Taken(i, j, prev[j])
                               [] n \notin {i, j} /\ n = next[i] -> j
                               [] n \notin {i, j} /\ n = next[j] -> i
                               [] OTHER -> prev[n]]
  /\ next' = [n \in Item |-> CASE n = j -> Taken(j, i, next[i])
                               [] n = i -> Taken(i, j, next[j])
                               [] n \notin {i, j} /\ n = prev[i] -> j
                               [] n \notin {i, j} /\ n = prev[j] -> i
                               [] OTHER -> next[n]]
  /\ head' = [head EXCEPT ![l] = IF prev[i] = NULL THEN j
                                 ELSE IF prev[j] = NULL THEN i ELSE @]
  /\ tail' = [tail EXCEPT ![l] = IF next[i] = NULL THEN j
                                 ELSE IF next[j] = NULL THEN i ELSE @]
  /\ joined' = <<>>
  /\ UNCHANGED <<live, owner, jointVars, loopVars>>

-----------------------------------------------------------------------------
(* Removing items *)

\* free: the links of i are gone.
Freed(f, i) == [f EXCEPT ![i] = NULL]

\* _xdg_list_remove
Unlink(i) ==
  LET p == prev[i]
      n == next[i]
  IN /\ next' = Freed(IF p = NULL THEN next ELSE [next EXCEPT ![p] = n], i)
     /\ head' = IF p = NULL THEN [head EXCEPT ![owner[i]] = n] ELSE head
     /\ prev' = Freed(IF n = NULL THEN prev ELSE [prev EXCEPT ![n] = p], i)
     /\ tail' = IF n = NULL THEN [tail EXCEPT ![owner[i]] = p] ELSE tail
     /\ live' = live \ {i}
     /\ UNCHANGED owner

RemoveItem(i) ==
  /\ pc = "idle"
  /\ i \in live
  /\ Unlink(i)
  /\ joined' = <<>>
  /\ UNCHANGED <<jointVars, loopVars>>

\* Mutant of StartLoop: no test for a first item.
StartLoopAnyway(loop, l, m) ==
  /\ pc = "idle"
  /\ pc' = loop
  /\ target' = l
  /\ cursor' = head[l]
  /\ match' = m
  /\ joined' = <<>>
  /\ UNCHANGED <<live, linkVars, jointVars>>

\* _xdg_list_remove_if and _xdg_list_clear start at the head, if there is one.
StartLoop(loop, l, m) ==
  /\ pc = "idle"
  /\ head[l] # NULL
  /\ pc' = loop
  /\ target' = l
  /\ cursor' = head[l]
  /\ match' = m
  /\ joined' = <<>>
  /\ UNCHANGED <<live, linkVars, jointVars>>

\* Mutant of Advance: each turn starts from the head again.
AdvanceFromHead ==
  /\ cursor' = head[target]
  /\ pc' = IF next[cursor] = NULL THEN "idle" ELSE pc
  /\ match' = IF next[cursor] = NULL THEN {} ELSE match
  /\ UNCHANGED <<target, jointVars, joined>>

\* A turn goes on to the next item; without one it is the last.
Advance ==
  /\ cursor' = next[cursor]
  /\ pc' = IF next[cursor] = NULL THEN "idle" ELSE pc
  /\ match' = IF next[cursor] = NULL THEN {} ELSE match
  /\ UNCHANGED <<target, jointVars, joined>>

RemoveIfTurn ==
  /\ pc = "remove_if"
  /\ IF cursor \in match THEN Unlink(cursor) ELSE UNCHANGED <<live, linkVars>>
  /\ Advance

\* _xdg_list_clear does not keep the links up: it resets the list at the end.
ClearTurn ==
  /\ pc = "clear"
  /\ live' = live \ {cursor}
  /\ IF next[cursor] = NULL
     THEN head' = [head EXCEPT ![target] = NULL] /\ tail' = [tail EXCEPT ![target] = NULL]
     ELSE UNCHANGED <<head, tail>>
  /\ prev' = Freed(prev, cursor)
  /\ next' = Freed(next, cursor)
  /\ UNCHANGED owner
  /\ Advance

-----------------------------------------------------------------------------
(* Joint lists *)

\* _xdg_joint_list_apped
JointApped(i) ==
  /\ jnext' = IF joint.head = NULL THEN [jnext EXCEPT ![i] = NULL]
              ELSE [jnext EXCEPT ![i] = NULL, ![joint.tail] = i]
  /\ joint' = [head |-> IF joint.head = NULL THEN i ELSE joint.head, tail |-> i]

\* xdg_known_apps_lookup finds the lists ls, none of which is empty.
StartLookup(ls) ==
  /\ pc = "idle"
  /\ \A l \in ls : head[l] # NULL
  /\ pc' = "lookup"
  /\ want' = ls
  /\ at' = 1
  /\ joint' = Empty
  /\ joined' = <<>>
  /\ UNCHANGED <<live, linkVars, jnext, target, cursor, match>>

\* It joins the tails of the lists it finds, in their order.
LookupTurn ==
  /\ pc = "lookup"
  /\ at <= Len(List)
  /\ at' = at + 1
  /\ IF List[at] \in want THEN JointApped(tail[List[at]]) ELSE UNCHANGED <<jnext, joint>>
  /\ UNCHANGED <<live, linkVars, want, joined, loopVars>>

\* It gives the first item of the first one, where a walk starts.
EndLookup ==
  /\ pc = "lookup"
  /\ at > Len(List)
  /\ pc' = IF joint.head = NULL THEN "idle" ELSE "walk"
  /\ cursor' = IF joint.head = NULL THEN NULL ELSE head[owner[joint.head]]
  /\ UNCHANGED <<live, linkVars, jointVars, joined, target, match>>

\* Mutant of JointNext: goes on with the tail of the next list, not its head.
JointNextTail(i) == IF next[i] # NULL THEN next[i] ELSE jnext[i]

\* xdg_joint_list_next
JointNext(i) ==
  IF next[i] # NULL THEN next[i]
  ELSE IF jnext[i] # NULL THEN head[owner[jnext[i]]] ELSE NULL

\* A caller visits an item and goes on to the next one.
WalkTurn ==
  /\ pc = "walk"
  /\ joined' = Append(joined, cursor)
  /\ cursor' = JointNext(cursor)
  /\ pc' = IF cursor' = NULL THEN "idle" ELSE "walk"
  /\ UNCHANGED <<live, linkVars, jointVars, target, match>>

-----------------------------------------------------------------------------
LoopTurn == RemoveIfTurn \/ ClearTurn \/ LookupTurn \/ EndLookup \/ WalkTurn

Next ==
  \/ \E l \in Lists : \/ \E i \in Item : Prepend(l, i) \/ Apped(l, i)
                      \/ \E m \in SUBSET Item : StartLoop("remove_if", l, m)
                      \/ StartLoop("clear", l, {})
  \/ \E i, j \in Item : Swap(i, j)
  \/ \E i \in Item : RemoveItem(i)
  \/ \E ls \in SUBSET Lists : StartLookup(ls)
  \/ LoopTurn

\* A loop runs to its end on the thread that called it.
Spec == Init /\ [][Next]_vars /\ WF_vars(LoopTurn)

-----------------------------------------------------------------------------
(* Properties *)

\* Type invariant.
TypeOK ==
  /\ live \subseteq Item
  /\ head \in [Lists -> Pointer] /\ tail \in [Lists -> Pointer]
  /\ owner \in [Item -> Lists]
  /\ prev \in [Item -> Pointer] /\ next \in [Item -> Pointer]
  /\ jnext \in [Item -> Pointer]
  /\ joint \in [head : Pointer, tail : Pointer]
  /\ want \subseteq Lists
  /\ at \in 1 .. Len(List) + 1
  /\ joined \in Seq(Item)
  /\ pc \in {"idle", "remove_if", "clear", "lookup", "walk"}
  /\ target \in Lists
  /\ cursor \in Pointer
  /\ match \subseteq Item

\* The lists whose links are kept up: not the one _xdg_list_clear is at.
Linked == IF pc = "clear" THEN Lists \ {target} ELSE Lists

\* Both directions tell the same story: the neighbours of a live item point
\* back to it, its list points to it where it has no neighbour, and the ends of
\* a list are items of that list.  No live item or list points to a freed item.
LinksAgree ==
  /\ \A i \in live : owner[i] \in Linked =>
       /\ prev[i] # NULL => /\ prev[i] \in live
                            /\ next[prev[i]] = i
                            /\ owner[prev[i]] = owner[i]
       /\ next[i] # NULL => /\ next[i] \in live
                            /\ prev[next[i]] = i
                            /\ owner[next[i]] = owner[i]
       /\ prev[i] = NULL <=> head[owner[i]] = i
       /\ next[i] = NULL <=> tail[owner[i]] = i
  /\ \A l \in Linked :
       /\ head[l] = NULL <=> tail[l] = NULL
       /\ head[l] # NULL => /\ {head[l], tail[l]} \subseteq live
                            /\ owner[head[l]] = l /\ owner[tail[l]] = l

\* The loops read the links of an item that is not freed, also where what led to
\* it is a joint link of an earlier lookup.
CursorIsLive == pc \in {"remove_if", "clear", "walk"} => cursor \in live

\* s is what next leads through from item i on.
Spells(s, i, n) ==
  /\ i = IF s = <<>> THEN NULL ELSE s[1]
  /\ \A k \in DOMAIN s : n[s[k]] = IF k = Len(s) THEN NULL ELSE s[k + 1]

Path(i, n) == CHOOSE s \in SeqOf(Item, Cardinality(Item)) : Spells(s, i, n)

\* The items of a list from its head on; of one that is being cleared, those
\* that are left.
First(l) == IF l \in Linked THEN head[l] ELSE cursor
Forward(l) == Path(First(l), next)

Sequence == INSTANCE ListSeq WITH seq <- [l \in Lists |-> Forward(l)],
                                  joined <- IF pc = "walk" THEN <<>> ELSE joined

\* The lists behave as sequences: inserting, swapping and removing items moves
\* what a walk over next visits as it should, and after a lookup a walk over a
\* joint list visits the lists it joins one after the other, once each
\* (xdglist.c, all of it).
ImplementsSequences == Sequence!Spec
=============================================================================
