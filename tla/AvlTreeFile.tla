------------------------------ MODULE AvlTreeFile ------------------------------
(***************************************************************************)
(* The loops over a whole tree of src/src/containers/avltree.c:            *)
(* depth_first_search, destroy_subtree_and_values, and the pair            *)
(* write_to_file / map_from_memory, by which a map gets into the cache     *)
(* file of an applications folder and out of it.  The values are the lists *)
(* of applications of a map of MIME sub types (write_mime_group_sub_type   *)
(* and read_mime_group_sub_type of src/src/desktop/xdgappcache.c); the     *)
(* other lists of the cache are written and read the same way.             *)
(*                                                                         *)
(* None of the loops has a stack: they find their way by parent pointers   *)
(* and by the marks in node->visit.  A mapped file is used where it lies:  *)
(* nodes are written as they are in memory, and the reader replaces their  *)
(* pointers.  A cell of the file is a struct or a string; a pointer in a   *)
(* mapped file is the position of a cell, or Stale while it is the one of  *)
(* the program that wrote it.                                              *)
(***************************************************************************)
EXTENDS Integers, Sequences, SequencesExt, FiniteSets

CONSTANTS Key,        \* keys, in the order of compareKeys
          AppsOf,     \* AppsOf[k]: the names in the list that is the value of k
          Known,      \* the names that app_files_map has an application for
          NULL, Stale

ASSUME KeyAssumption == Key \subseteq Int /\ IsFiniteSet(Key) /\ NULL \notin Int
ASSUME AppsAssumption == \A k \in Key : AppsOf[k] \in Seq(ToSet(AppsOf[k]))
ASSUME StaleAssumption == Stale # NULL

Side == {"left", "right"}
Other(s) == IF s = "left" THEN "right" ELSE "left"

VARIABLES
  nodes, root, child, parent,  \* the tree in memory, as in AvlTree
  visit,    \* node->visit: the sides whose LEFT_IS_VISITED or RIGHT_IS_VISITED is set
  pc,       \* "idle", the loop that runs: "walk", "destroy", "write" or "map", or "done"
  this,     \* this_node; in "map" a position
  called,   \* the keys that depth_first_search has called back with
  freed,    \* the nodes that destroy_subtree has freed
  memory,   \* the cells of the file, and of the mapping of it
  at        \* *memory of the reader, the position of the next cell

treeVars == <<nodes, root, child, parent>>
vars == <<nodes, root, child, parent, visit, pc, this, called, freed, memory, at>>

\* Any search tree: the keys come in some order, and a key hangs from the later one
\* of its neighbours among those before it.
Rank(order, n) == CHOOSE i \in DOMAIN order : order[i] = n
Before(order, k) == {n \in ToSet(order) : Rank(order, n) < Rank(order, k)}

Neighbours(order, k) ==
  LET before == Before(order, k)
  IN  {n \in before : n < k /\ \A m \in before : m < k => m <= n}
      \union {n \in before : k < n /\ \A m \in before : k < m => n <= m}

ParentIn(order, k) ==
  LET around == Neighbours(order, k)
  IN  IF around = {} THEN NULL
      ELSE CHOOSE n \in around : \A m \in around : Rank(order, m) <= Rank(order, n)

ChildIn(order, s, n) ==
  LET children == {k \in ToSet(order) :
        ParentIn(order, k) = n /\ (IF s = "left" THEN k < n ELSE n < k)}
  IN  IF children = {} THEN NULL ELSE CHOOSE k \in children : TRUE

\* What an earlier loop left in visit is whatever it was.
Init ==
  /\ \E S \in SUBSET Key : \E order \in Bijection(1 .. Cardinality(S), S) :
       /\ nodes = S
       /\ root = IF S = {} THEN NULL ELSE order[1]
       /\ parent = [k \in S |-> ParentIn(order, k)]
       /\ child = [s \in Side |-> [k \in S |-> ChildIn(order, s, k)]]
  /\ visit \in [nodes -> {{}, Side}]
  /\ pc = "idle"
  /\ this = NULL
  /\ called = <<>>
  /\ freed = {}
  /\ memory = <<>>
  /\ at = 0

-----------------------------------------------------------------------------
(* The way of the loops *)

\* The side that the loop looks at next.
NextSide(seen) == IF "left" \notin seen THEN "left" ELSE "right"

\* Mutants of Enter: the marks of the child are not reset; a side without a child
\* is not marked.
EnterSeen(s) ==
  LET c == child[s][this]
  IN  /\ this' = IF c = NULL THEN this ELSE c
      /\ visit' = [visit EXCEPT ![this] = @ \union {s}]

EnterUnmarked(s) ==
  LET c == child[s][this]
  IN  /\ c # NULL
      /\ this' = c
      /\ visit' = [visit EXCEPT ![this] = @ \union {s}, ![c] = {}]

\* The side is marked; if there is a node, it is next, with no marks.
Enter(s) ==
  LET c == child[s][this]
  IN  /\ this' = IF c = NULL THEN this ELSE c
      /\ visit' = [n \in nodes |-> IF n = this THEN visit[n] \union {s}
                                   ELSE IF n = c THEN {} ELSE visit[n]]

Up == /\ this' = parent[this]
      /\ pc' = IF parent[this] = NULL THEN "done" ELSE pc
      /\ UNCHANGED visit

\* A loop starts at the root, or has nothing to do.
Begin(loop) ==
  /\ pc = "idle"
  /\ this' = root
  /\ pc' = IF root = NULL THEN "done" ELSE loop
  /\ visit' = [n \in nodes |-> IF n = root /\ loop # "destroy" THEN {} ELSE visit[n]]
  /\ UNCHANGED treeVars

-----------------------------------------------------------------------------
(* depth_first_search *)

BeginWalk == Begin("walk") /\ UNCHANGED <<called, freed, memory, at>>

Walk ==
  /\ pc = "walk"
  /\ \/ /\ visit[this] # Side
        /\ Enter(NextSide(visit[this]))
        /\ UNCHANGED <<pc, called>>
     \/ /\ visit[this] = Side
        /\ called' = Append(called, this)
        /\ Up
  /\ UNCHANGED <<treeVars, freed, memory, at>>

-----------------------------------------------------------------------------
(* destroy_subtree, destroy_subtree_and_values *)

BeginDestroy == Begin("destroy") /\ UNCHANGED <<called, freed, memory, at>>

DestroyDown ==
  /\ pc = "destroy"
  /\ LET c == IF child["right"][this] # NULL THEN child["right"][this] ELSE child["left"][this]
     IN  c # NULL /\ this' = c
  /\ UNCHANGED <<treeVars, visit, pc, called, freed, memory, at>>

\* Mutant of Detached: the parent keeps its pointer to the freed node.
Attached(n) == child

\* The parent's pointer to a node that is freed.
Detached(n) ==
  LET up == parent[n]
      s == IF n = child["right"][up] THEN "right" ELSE "left"
  IN  [child EXCEPT ![s][up] = NULL]

DestroyLeaf ==
  /\ pc = "destroy"
  /\ \A s \in Side : child[s][this] = NULL
  /\ freed' = freed \union {this}
  /\ this' = parent[this]
  /\ \/ /\ this = root \/ this' = NULL
        /\ pc' = "done"
        /\ root' = NULL
        /\ UNCHANGED child
     \/ /\ this # root /\ this' # NULL
        /\ child' = Detached(this)
        /\ UNCHANGED <<pc, root>>
  /\ UNCHANGED <<nodes, parent, visit, called, memory, at>>

-----------------------------------------------------------------------------
(* write_to_file *)

\* A pointer as it is written: no position of the file.
Raw(p) == IF p = NULL THEN NULL ELSE Stale

TreeCell == [cell |-> "tree", root |-> Stale]

EmptyNode ==
  [cell |-> "node", visit |-> {}, left |-> NULL, right |-> NULL, parent |-> NULL,
   key |-> NULL, value |-> NULL]

NodeCell(n) ==
  [cell |-> "node", visit |-> Side, left |-> Raw(child["left"][n]),
   right |-> Raw(child["right"][n]), parent |-> Raw(parent[n]), key |-> Stale, value |-> Stale]

KeyCell(n) == [cell |-> "key", name |-> n]

\* write_mime_group_sub_type: the head of a list and its items.
ListCells(names) ==
  LET end == IF names = <<>> THEN NULL ELSE Stale
  IN  <<[cell |-> "list", head |-> end, tail |-> end]>>
      \o [i \in DOMAIN names |->
            [cell |-> "item", name |-> names[i], app |-> Stale, list |-> Stale,
             prev |-> IF i = 1 THEN NULL ELSE Stale,
             next |-> IF i = Len(names) THEN NULL ELSE Stale]]

\* write_node_to_file: the node, its key and its value.
Written(n) == <<NodeCell(n), KeyCell(n)>> \o ListCells(AppsOf[n])

BeginWrite ==
  /\ Begin("write")
  /\ memory' = <<TreeCell>> \o (IF root = NULL THEN <<EmptyNode>> ELSE Written(root))
  /\ UNCHANGED <<called, freed, at>>

Write ==
  /\ pc = "write"
  /\ \/ /\ visit[this] # Side
        /\ LET s == NextSide(visit[this])
           IN  /\ Enter(s)
               /\ memory' = memory \o (IF child[s][this] = NULL THEN <<EmptyNode>>
                                       ELSE Written(child[s][this]))
        /\ UNCHANGED pc
     \/ /\ visit[this] = Side
        /\ Up
        /\ UNCHANGED memory
  /\ UNCHANGED <<treeVars, called, freed, at>>

-----------------------------------------------------------------------------
(* map_from_memory *)

\* The items that follow the list at position l: up to one without a next.
ItemCount(m, l) ==
  IF m[l].head = NULL THEN 0
  ELSE CHOOSE k \in 1 .. Len(m) - l :
         m[l + k].next = NULL /\ \A j \in 1 .. k - 1 : m[l + j].next # NULL

\* The first cell behind the node at position n, its key and its value.
Behind(m, n) == n + 3 + ItemCount(m, n + 2)

\* Mutant of ReadItem: the back pointer is not replaced.
ReadItemForward(m, l, k, i) ==
  [m[i] EXCEPT !.next = IF i = l + k THEN @ ELSE i + 1,
               !.list = l,
               !.app = IF m[i].name \in Known THEN m[i].name ELSE NULL]

\* An item of the list of k items at position l: its neighbours, its list and
\* the application of its name, if there is one.
ReadItem(m, l, k, i) ==
  [m[i] EXCEPT !.prev = IF i = l + 1 THEN @ ELSE i - 1,
               !.next = IF i = l + k THEN @ ELSE i + 1,
               !.list = l,
               !.app = IF m[i].name \in Known THEN m[i].name ELSE NULL]

\* readKey and readValue (read_app_key, read_mime_group_sub_type) for the node
\* at position n, whose marks are reset.
ReadNode(m, n) ==
  LET l == n + 2
      k == ItemCount(m, l)
  IN  [i \in DOMAIN m |->
        IF i = n THEN [m[n] EXCEPT !.key = n + 1, !.value = l, !.visit = {}]
        ELSE IF i = l /\ k > 0 THEN [m[l] EXCEPT !.head = l + 1, !.tail = l + k]
        ELSE IF i \in l + 1 .. l + k THEN ReadItem(m, l, k, i)
        ELSE m[i]]

\* init_avl_tree forgets the root that was written; a first node with marks is
\* the root.
BeginMap ==
  /\ pc = "done" /\ memory # <<>> /\ at = 0
  /\ IF memory[2].visit = {}
     THEN /\ memory' = [memory EXCEPT ![1].root = NULL]
          /\ at' = 3
          /\ UNCHANGED <<pc, this>>
     ELSE /\ memory' = ReadNode([memory EXCEPT ![1].root = 2], 2)
          /\ at' = Behind(memory, 2)
          /\ this' = 2
          /\ pc' = "map"
  /\ UNCHANGED <<treeVars, visit, called, freed>>

\* The node in the next cell becomes the child on side s, ...
Linked(m, s) ==
  LET below == [m EXCEPT ![at].parent = this, ![this].visit = @ \union {s}]
  IN  IF s = "left" THEN [below EXCEPT ![this].left = at] ELSE [below EXCEPT ![this].right = at]

MapChild ==
  /\ pc = "map"
  /\ memory[this].visit # Side
  /\ memory[at].visit # {}
  /\ memory' = ReadNode(Linked(memory, NextSide(memory[this].visit)), at)
  /\ at' = Behind(memory, at)
  /\ this' = at
  /\ UNCHANGED <<treeVars, visit, pc, called, freed>>

\* ... an empty one is skipped: the child is the null pointer that was written.
MapEmpty ==
  /\ pc = "map"
  /\ memory[this].visit # Side
  /\ memory[at].visit = {}
  /\ memory' = [memory EXCEPT ![this].visit = @ \union {NextSide(@)}]
  /\ at' = at + 1
  /\ UNCHANGED <<treeVars, visit, pc, this, called, freed>>

MapUp ==
  /\ pc = "map"
  /\ memory[this].visit = Side
  /\ this' = memory[this].parent
  /\ pc' = IF this' = NULL THEN "done" ELSE pc
  /\ UNCHANGED <<treeVars, visit, called, freed, memory, at>>

Loop == Walk \/ DestroyDown \/ DestroyLeaf \/ Write \/ BeginMap \/ MapChild \/ MapEmpty \/ MapUp

Next == BeginWalk \/ BeginDestroy \/ BeginWrite \/ Loop

\* A loop that has begun goes on.
Spec == Init /\ [][Next]_vars /\ WF_vars(Loop)

-----------------------------------------------------------------------------
(* Properties *)

\* depth_first_search, which the user's lists are saved with, calls back once
\* with every key, whatever marks an earlier loop has left, and with a node after
\* all of its children and their subtrees, left before right.
WalkIsPostorder ==
  called # <<>> /\ pc = "done" =>
    LET Turn(n) == CHOOSE i \in DOMAIN called : called[i] = n
    IN  /\ Len(called) = Cardinality(nodes)
        /\ ToSet(called) = nodes
        /\ \A n \in nodes : parent[n] # NULL => Turn(n) < Turn(parent[n])
        /\ \A m, n \in nodes : m < n /\ parent[m] = parent[n] => Turn(m) < Turn(n)

\* Destroying a tree frees every node once and reads none that is freed.
FreesEachOnce ==
  /\ pc = "destroy" => this \notin freed /\ root \notin freed
  /\ freed # {} /\ pc = "done" => freed = nodes

\* Following the items of the list at position l.
NamesAt(l) ==
  LET k == ItemCount(memory, l)
      items == [j \in 1 .. k |-> memory[l + j]]
  IN  IF /\ memory[l].head = (IF k = 0 THEN NULL ELSE l + 1)
         /\ memory[l].tail = (IF k = 0 THEN NULL ELSE l + k)
         /\ \A j \in 1 .. k :
              /\ items[j].list = l
              /\ items[j].prev = IF j = 1 THEN NULL ELSE l + j - 1
              /\ items[j].next = IF j = k THEN NULL ELSE l + j + 1
              /\ items[j].app = IF items[j].name \in Known THEN items[j].name ELSE NULL
      THEN [j \in 1 .. k |-> items[j].name]
      ELSE <<NULL>>

\* A map that was written and mapped again is the map: there is one node for each
\* key, linked to the nodes of the same keys as before and with the list it had,
\* no pointer of the writer is left, and the reader stops right behind the last
\* cell of the tree, where the next map begins.
MappedIsWritten ==
  pc = "done" /\ at # 0 =>
    LET cells == {i \in DOMAIN memory : memory[i].cell = "node" /\ memory[i].key # NULL}
        keyAt == [i \in cells |-> memory[memory[i].key].name]
        Names(p) == IF p = NULL THEN NULL ELSE keyAt[p]
    IN  /\ at = Len(memory) + 1
        /\ Cardinality(cells) = Cardinality(nodes)
        /\ nodes = {keyAt[i] : i \in cells}
        /\ Names(memory[1].root) = root
        /\ \A i \in cells :
             LET k == keyAt[i]
             IN  /\ Names(memory[i].parent) = parent[k]
                 /\ Names(memory[i].left) = child["left"][k]
                 /\ Names(memory[i].right) = child["right"][k]
                 /\ NamesAt(memory[i].value) = AppsOf[k]

\* Every loop ends.
LoopsEnd == pc # "idle" ~> pc = "done"
=============================================================================
