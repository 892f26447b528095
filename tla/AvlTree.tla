------------------------------- MODULE AvlTree -------------------------------
(***************************************************************************)
(* The AVL tree of src/src/containers/avltree.c as the library uses it:    *)
(* search_node and search_or_create_node.  Every map of the library (the   *)
(* applications, the MIME types and sub types, the groups, the entries and *)
(* their translations, the mimeapps lists) is such a tree.                 *)
(*                                                                         *)
(* The heap is modelled as it is: a root pointer and, for every node, two  *)
(* child pointers, a parent pointer and a balance mark.  A node is named   *)
(* by its key: keys are distinct, and neither a rotation nor a search      *)
(* changes the key of a node.  One step is one iteration of the loop of    *)
(* search_routine or of rebalance_grew.                                    *)
(***************************************************************************)
EXTENDS Integers

CONSTANTS Key,    \* the keys, in the order of compareKeys
          NULL    \* the null pointer

ASSUME KeyAssumption == Key \subseteq Int /\ NULL \notin Key

Side == {"left", "right"}
Other(s) == IF s = "left" THEN "right" ELSE "left"

\* The balance marks: LEFT_IS_HEAVY and RIGHT_IS_HEAVY are named by their side.
Balance == Side \union {"balanced"}

VARIABLES
  nodes,     \* the keys whose node is allocated
  root,      \* tree->tree_root
  child,     \* child[s][n]: links.left or links.right of node n
  parent,    \* links.parent
  balance,   \* node->balance
  pc,        \* which loop runs: "idle", "search" or "grew"
  request,   \* the call that runs: which function, with which key
  at,        \* parent_node of search_routine, this_node of rebalance_grew
  side,      \* the slot this_node_pointer points to: child[side][at]
  prev,      \* previous_node of rebalance_grew
  result,    \* the node the last call returned the value of
  fresh,     \* the last call created that node
  under      \* history: the keys of the subtree of a node (no guard reads it)

treeVars == <<nodes, root, child, parent, balance, under>>
callVars == <<pc, request, at, side, prev, result, fresh>>
vars == <<nodes, root, child, parent, balance, pc, request, at, side, prev,
          result, fresh, under>>

Pointer == Key \union {NULL}
Requests == [kind: {"search", "create"}, key: Key]

Init ==
  /\ nodes = {}
  /\ root = NULL
  /\ child = [s \in Side |-> [n \in Key |-> NULL]]
  /\ parent = [n \in Key |-> NULL]
  /\ balance = [n \in Key |-> "balanced"]
  /\ under = [n \in Key |-> {}]
  /\ pc = "idle"
  /\ request \in Requests
  /\ at = NULL
  /\ side = "left"
  /\ prev = NULL
  /\ result = NULL
  /\ fresh = FALSE

Under(n) == IF n = NULL THEN {} ELSE under[n]

-----------------------------------------------------------------------------
(* search_routine, search_node and search_or_create_node *)

\* A call starts at the root: parent_node is 0 and the slot is tree_root.
Call(r) ==
  /\ pc = "idle"
  /\ pc' = "search"
  /\ request' = r
  /\ at' = NULL
  /\ UNCHANGED <<treeVars, side, prev, result, fresh>>

\* The node in the slot the search has reached.
Slot == IF at = NULL THEN root ELSE child[side][at]

\* Mutants of Descend: the comparison the wrong way round; no way forward.
DescendSwapped ==
  /\ pc = "search"
  /\ Slot # NULL
  /\ Slot # request.key
  /\ at' = Slot
  /\ side' = IF request.key < Slot THEN "right" ELSE "left"
  /\ UNCHANGED <<treeVars, pc, request, prev, result, fresh>>

DescendNowhere ==
  /\ pc = "search"
  /\ Slot # NULL
  /\ Slot # request.key
  /\ side' = IF Slot < request.key THEN "right" ELSE "left"
  /\ UNCHANGED <<treeVars, pc, request, at, prev, result, fresh>>

\* One iteration of the loop: compareKeys picks the side.
Descend ==
  /\ pc = "search"
  /\ Slot # NULL
  /\ Slot # request.key
  /\ at' = Slot
  /\ side' = IF Slot < request.key THEN "right" ELSE "left"
  /\ UNCHANGED <<treeVars, pc, request, prev, result, fresh>>

\* The loop ends at a node with the key, or search_node ends at an empty slot.
Return ==
  /\ pc = "search"
  /\ Slot = request.key \/ (Slot = NULL /\ request.kind = "search")
  /\ pc' = "idle"
  /\ result' = Slot
  /\ fresh' = FALSE
  /\ UNCHANGED <<treeVars, request, at, side, prev>>

\* search_or_create_node puts a new leaf in the empty slot and rebalances.
Create ==
  LET k == request.key IN
  /\ pc = "search"
  /\ Slot = NULL
  /\ request.kind = "create"
  /\ nodes' = nodes \union {k}
  /\ child' = [s \in Side |-> [n \in Key |->
                 IF n = k THEN NULL
                 ELSE IF n = at /\ s = side THEN k ELSE child[s][n]]]
  /\ root' = IF at = NULL THEN k ELSE root
  /\ parent' = [parent EXCEPT ![k] = at]
  /\ balance' = [balance EXCEPT ![k] = "balanced"]
  /\ under' = [n \in Key |->
                 IF n = k THEN {k}
                 ELSE IF n \in nodes /\ at \in under[n] THEN under[n] \union {k}
                 ELSE under[n]]
  /\ pc' = "grew"
  /\ prev' = k
  /\ UNCHANGED <<request, at, side, result, fresh>>

-----------------------------------------------------------------------------
(* rebalance_grew: this_node is at, previous_node is prev *)

\* The subtree that grew: the code tests left first, anything else is right.
Grown == IF child["left"][at] = prev THEN "left" ELSE "right"

\* The loop ends, and search_or_create_node returns the value of the new node.
Finish ==
  /\ pc' = "idle"
  /\ result' = request.key
  /\ fresh' = TRUE
  /\ UNCHANGED <<request, at, side, prev>>

\* The loop ran past the root.
GrewPastRoot ==
  /\ pc = "grew"
  /\ at = NULL
  /\ Finish
  /\ UNCHANGED treeVars

\* Mutant of Absorb: the mark is erased rather than set to balanced.
AbsorbErased ==
  /\ pc = "grew"
  /\ at # NULL
  /\ balance[at] = Other(Grown)
  /\ balance' = [balance EXCEPT ![at] = NULL]
  /\ Finish
  /\ UNCHANGED <<nodes, root, child, parent, under>>

\* The other side was heavy: the node absorbs the growth.
Absorb ==
  /\ pc = "grew"
  /\ at # NULL
  /\ balance[at] = Other(Grown)
  /\ balance' = [balance EXCEPT ![at] = "balanced"]
  /\ Finish
  /\ UNCHANGED <<nodes, root, child, parent, under>>

\* Mutant of Climb: the mark names the side that did not grow.
ClimbOtherSide ==
  /\ pc = "grew"
  /\ at # NULL
  /\ balance[at] = "balanced"
  /\ balance' = [balance EXCEPT ![at] = Other(Grown)]
  /\ prev' = at
  /\ at' = parent[at]
  /\ UNCHANGED <<nodes, root, child, parent, under, pc, request, side, result,
                 fresh>>

\* The node was balanced: it is heavy on that side now, and has grown itself.
Climb ==
  /\ pc = "grew"
  /\ at # NULL
  /\ balance[at] = "balanced"
  /\ balance' = [balance EXCEPT ![at] = Grown]
  /\ prev' = at
  /\ at' = parent[at]
  /\ UNCHANGED <<nodes, root, child, parent, under, pc, request, side, result,
                 fresh>>

\* Mutants: the place of p is taken to be the left one; a new root is not
\* recorded; the subtree that changes sides keeps its old parent pointer.
ReplacedLeft(p, c) ==
  LET up == parent[p]
  IN IF up = NULL THEN child ELSE [child EXCEPT !["left"][up] = c]

RootKept(p, c) == root

ParentKept(f, n, p) == f

\* The slot of its parent (or tree_root) that holds p now holds c.
Replaced(p, c) ==
  LET up == parent[p]
      s  == IF child["left"][up] = p THEN "left" ELSE "right"
  IN IF up = NULL THEN child ELSE [child EXCEPT ![s][up] = c]

RootAfter(p, c) == IF parent[p] = NULL THEN c ELSE root

\* Children that are not null get their new parent.
WithParent(f, n, p) == IF n = NULL THEN f ELSE [f EXCEPT ![n] = p]

\* right_right_rotation (s = "left") and left_left_rotation (s = "right"):
\* c, the child of p on side s, takes the place of p.
SingleRotation(p, c, s) ==
  LET o     == Other(s)
      inner == child[o][c]
  IN /\ balance' = [balance EXCEPT ![p] = "balanced", ![c] = "balanced"]
     /\ root' = RootAfter(p, c)
     /\ child' = [Replaced(p, c) EXCEPT ![s][p] = inner, ![o][c] = p]
     /\ parent' = WithParent([parent EXCEPT ![c] = parent[p], ![p] = c],
                             inner, p)
     /\ under' = [under EXCEPT
                    ![p] = {p} \union Under(child[o][p]) \union Under(inner),
                    ![c] = under[p]]
     /\ UNCHANGED nodes

\* left_right_rotation (s = "left") and right_left_rotation (s = "right"):
\* g, the inner child of c, takes the place of p.
DoubleRotation(p, c, g, s) ==
  LET o     == Other(s)
      outer == child[o][g]
      inner == child[s][g]
  IN /\ balance' = [balance EXCEPT ![p] = "balanced", ![c] = "balanced",
                                   ![g] = "balanced"]
     /\ root' = RootAfter(p, g)
     /\ child' = [Replaced(p, g) EXCEPT ![s][p] = outer, ![o][c] = inner,
                                        ![o][g] = p, ![s][g] = c]
     /\ parent' = WithParent(
                    WithParent([parent EXCEPT ![g] = parent[p], ![p] = g,
                                              ![c] = g],
                               outer, p),
                    inner, c)
     /\ under' = [under EXCEPT
                    ![p] = {p} \union Under(child[o][p]) \union Under(outer),
                    ![c] = {c} \union Under(child[s][c]) \union Under(inner),
                    ![g] = under[p]]
     /\ UNCHANGED nodes

\* The node was already heavy on that side.  One rotation ends the loop.
RotateSingle ==
  /\ pc = "grew"
  /\ at # NULL
  /\ balance[at] = Grown
  /\ balance[prev] = Grown
  /\ SingleRotation(at, prev, Grown)
  /\ Finish

RotateDouble ==
  /\ pc = "grew"
  /\ at # NULL
  /\ balance[at] = Grown
  /\ balance[prev] # Grown
  /\ DoubleRotation(at, prev, child[Other(Grown)][prev], Grown)
  /\ Finish

-----------------------------------------------------------------------------
Step == \/ Descend \/ Return \/ Create
        \/ GrewPastRoot \/ Absorb \/ Climb \/ RotateSingle \/ RotateDouble

Next == Step \/ \E r \in Requests : Call(r)

\* A call runs to its end on the thread that made it.
Spec == Init /\ [][Next]_vars /\ WF_vars(Step)

-----------------------------------------------------------------------------
(* Properties *)

\* Type invariant.
TypeOK ==
  /\ nodes \in SUBSET Key
  /\ root \in Pointer
  /\ child \in [Side -> [Key -> Pointer]]
  /\ parent \in [Key -> Pointer]
  /\ balance \in [Key -> Balance]
  /\ under \in [Key -> SUBSET Key]
  /\ pc \in {"idle", "search", "grew"}
  /\ request \in Requests
  /\ at \in Pointer
  /\ side \in Side
  /\ prev \in Pointer
  /\ result \in Pointer
  /\ fresh \in BOOLEAN

\* Child and parent pointers agree after every rotation: a child points back
\* to its parent, a node with a parent is one of its children, only the root
\* has no parent, and no pointer leads to a node that was never allocated.
LinksAgree ==
  /\ root = NULL <=> nodes = {}
  /\ root # NULL => root \in nodes /\ parent[root] = NULL
  /\ \A n \in nodes :
       /\ \A s \in Side : child[s][n] # NULL =>
            child[s][n] \in nodes /\ parent[child[s][n]] = n
       /\ child["left"][n] # NULL => child["left"][n] # child["right"][n]
       /\ parent[n] # NULL =>
            parent[n] \in nodes /\ \E s \in Side : child[s][parent[n]] = n
       /\ parent[n] = NULL => n = root

\* rebalance_grew follows pointers without testing them: a mark always names
\* a side that has a child, and the grandchild a double rotation lifts exists.
MarksHaveChild ==
  \A n \in nodes : balance[n] \in Side => child[balance[n]][n] # NULL

NoNullDereference ==
  /\ MarksHaveChild
  /\ (pc = "grew" /\ at # NULL /\ balance[at] = Grown /\ balance[prev] # Grown)
       => child[Other(Grown)][prev] # NULL

\* The tree stays a search tree that holds every key ever added: the subtree
\* of a node is the node, what is under its left child, all smaller, and what
\* is under its right child, all greater; everything is under the root.
SearchTree ==
  /\ Under(root) = nodes
  /\ \A n \in nodes :
       /\ under[n] = {n} \union Under(child["left"][n])
                         \union Under(child["right"][n])
       /\ \A m \in Under(child["left"][n]) : m < n
       /\ \A m \in Under(child["right"][n]) : n < m

\* The search has taken the side of the key at every node above its slot, so
\* a key of the tree is under that slot.
SearchOnTrack ==
  pc = "search" =>
    /\ at # NULL =>
         /\ at \in nodes
         /\ side = "left" => request.key < at
         /\ side = "right" => at < request.key
         /\ \A n \in nodes :
              /\ at \in Under(child["left"][n]) => request.key < n
              /\ at \in Under(child["right"][n]) => n < request.key
    /\ request.key \in nodes => request.key \in Under(Slot)

\* rebalance_grew has climbed from a leaf: a previous_node that is still
\* balanced is that leaf, and its parent was not heavy on that side before.
GrewOnTrack ==
  pc = "grew" =>
    /\ prev \in nodes
    /\ at = parent[prev]
    /\ request.kind = "create" /\ request.key \in nodes
    /\ at # NULL /\ balance[prev] = "balanced" => balance[at] # Grown

\* A subtree is closed: it holds the children of its nodes, and the parents of
\* all but its own root.
SubtreesClosed ==
  \A n \in nodes : \A m \in under[n] :
    /\ m \in nodes
    /\ m # n => parent[m] \in under[n]
    /\ \A s \in Side : child[s][m] # NULL => child[s][m] \in under[n]

\* What the loops of avltree.c rely on between their turns.
LoopsOnTrack == SearchOnTrack /\ GrewOnTrack /\ SubtreesClosed

\* The keys of the dictionary: a key counts as added when its call returns.
Added == IF pc = "grew" THEN nodes \ {request.key} ELSE nodes

Dict == INSTANCE AvlDict WITH
          dict  <- Added,
          busy  <- pc # "idle",
          found <- (result # NULL /\ ~fresh)

=============================================================================
