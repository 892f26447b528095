---------------------------- MODULE AvlTreeDelete ----------------------------
(***************************************************************************)
(* AvlTree with delete_node, which avltree.h offers but no caller in the   *)
(* library uses.  The node is unlinked in one step (the assignments at the *)
(* top of rebalance_shrunk); one step is then one turn of its loop.  A     *)
(* behaviour ends where the code would follow a null pointer or a pointer  *)
(* to the freed node: what the program does from there is undefined.       *)
(***************************************************************************)
EXTENDS AvlTree, FiniteSets

VARIABLE freed    \* the keys of the freed nodes, which are not added again:
                  \* a new node is never taken for the one that was freed

\* A call of delete_node walks the tree with the same search.
CallDelete(k) == Call([kind |-> "delete", key |-> k])

\* delete_node does nothing when the key is missing.
DeleteMissing ==
  /\ pc = "search"
  /\ request.kind = "delete"
  /\ Slot = NULL
  /\ pc' = "idle"
  /\ UNCHANGED <<treeVars, request, at, side, prev, result, fresh>>

\* The rightmost node under n.
Rightmost(n) ==
  LET R[m \in Key] == IF child["right"][m] = NULL THEN m ELSE R[child["right"][m]]
  IN R[n]

\* The node that takes the place of r: its predecessor under its left child,
\* else its right child, else none.
Heir(r) == IF child["left"][r] # NULL THEN Rightmost(child["left"][r])
                                      ELSE child["right"][r]

\* The heir gets the links and the mark of r and its old place gets one of its
\* old children.  The children of r keep their parent pointer, which is r.
Unlink ==
  LET r    == request.key
      h    == Heir(r)
      top  == IF h = NULL THEN parent[r]
              ELSE IF parent[h] = r THEN h ELSE parent[h]
      gone == IF h = NULL THEN r ELSE h
      moved(c) == [s \in Side |-> [n \in Key |->
                     IF h # NULL /\ n = h THEN child[s][r]
                     ELSE IF h # NULL /\ n = parent[r] /\ c[s][n] = r THEN h
                     ELSE c[s][n]]]
      s    == IF moved(child)["left"][top] = gone THEN "left" ELSE "right"
  IN /\ pc = "search"
     /\ request.kind = "delete"
     /\ Slot = r
     /\ root' = IF top = NULL THEN NULL
                ELSE IF h # NULL /\ parent[r] = NULL THEN h ELSE root
     /\ parent' = IF h = NULL THEN parent ELSE [parent EXCEPT ![h] = parent[r]]
     /\ balance' = IF h = NULL THEN balance ELSE [balance EXCEPT ![h] = balance[r]]
     /\ child' = IF top = NULL THEN child
                 ELSE [moved(child) EXCEPT
                         ![s][top] = IF h = NULL THEN NULL ELSE child[s][h]]
     /\ at' = top
     /\ side' = IF top = NULL THEN side ELSE s
     /\ pc' = "shrunk"
     /\ UNCHANGED <<nodes, under, request, prev, result, fresh>>

\* The next turn: top heads the subtree that was rebalanced at this_node.
GoUp(top) ==
  /\ prev' = top
  /\ at' = parent[at]
  /\ side' = IF parent[at] # NULL /\ child'["left"][parent[at]] = top
             THEN "left" ELSE "right"

\* The subtree on this side shrank; heavy becomes balanced, balanced leans over.
\* Either way the loop goes on to the root.
ShrunkMark ==
  /\ pc = "shrunk"
  /\ at \in nodes
  /\ balance[at] # Other(side)
  /\ balance' = [balance EXCEPT ![at] = IF @ = side THEN "balanced" ELSE Other(side)]
  /\ child' = child
  /\ GoUp(at)
  /\ UNCHANGED <<nodes, root, parent, under, pc, request, result, fresh>>

\* The other side was heavy already: rotate its child up.
ShrunkRotate ==
  LET o == Other(side)
      c == child[o][at]
      g == child[side][c]
  IN /\ pc = "shrunk"
     /\ at \in nodes
     /\ balance[at] = o
     /\ c \in nodes
     /\ IF balance[c] = o
        THEN SingleRotation(at, c, o) /\ GoUp(c)
        ELSE g \in nodes /\ DoubleRotation(at, c, g, o) /\ GoUp(g)
     /\ UNCHANGED <<pc, request, result, fresh>>

\* free_avl_node, at the end of delete_node.
Freed ==
  /\ pc = "shrunk"
  /\ at = NULL
  /\ nodes' = nodes \ {request.key}
  /\ freed' = freed \union {request.key}
  /\ pc' = "idle"
  /\ UNCHANGED <<root, child, parent, balance, under, request, at, side, prev,
                 result, fresh>>

CallSteps ==
  \/ request.kind # "delete" /\ at \in nodes \union {NULL} /\ Step
  \/ request.kind = "delete" /\ Descend
  \/ DeleteMissing \/ Unlink \/ ShrunkMark \/ ShrunkRotate
  \/ \E k \in Key \ freed : Call([kind |-> "create", key |-> k]) \/ CallDelete(k)

DeleteNext == Freed \/ (CallSteps /\ UNCHANGED freed)

DeleteSpec == Init /\ freed = {} /\ [][DeleteNext]_<<vars, freed>>

-----------------------------------------------------------------------------
\* What a search for k finds in at most as many turns as there are keys.
Find(k) ==
  LET F[i \in 0 .. Cardinality(Key), n \in Pointer] ==
        IF n = NULL \/ n = k \/ i = 0 THEN n
        ELSE F[i - 1, child[IF n < k THEN "right" ELSE "left"][n]]
  IN F[Cardinality(Key), root]

\* avltree.h:183 says that delete_node "Searches value for a given key and
\* removes it from tree": between calls every other key can still be found.
DeleteKeepsOtherKeys == pc = "idle" => \A k \in nodes : Find(k) = k
=============================================================================
