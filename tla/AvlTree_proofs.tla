---------------------------- MODULE AvlTree_proofs ----------------------------
(***************************************************************************)
(* Proofs about AvlTree for every set of keys.                             *)
(***************************************************************************)
EXTENDS AvlTree, TLAPS

\* The invariants of the tree itself, whatever loop runs.
TreeInv == TypeOK /\ LinksAgree /\ MarksHaveChild /\ SearchTree /\ SubtreesClosed

\* The inductive invariant.
Inv == TreeInv /\ SearchOnTrack /\ GrewOnTrack

-----------------------------------------------------------------------------
(* The tree around one node *)

LEMMA OtherSide == \A s \in Side : Other(s) \in Side /\ Other(s) # s /\ Other(Other(s)) = s
BY DEF Side, Other

\* A child is a node of its parent's subtree, its own subtree lies within it,
\* and its parent is outside its own subtree.
LEMMA ChildFacts ==
  ASSUME TreeInv, NEW n \in nodes, NEW s \in Side, child[s][n] # NULL
  PROVE  /\ child[s][n] \in nodes
         /\ parent[child[s][n]] = n
         /\ child[s][n] # n
         /\ child[s][n] \in under[child[s][n]]
         /\ under[child[s][n]] \subseteq under[n]
         /\ n \notin under[child[s][n]]
         /\ n \in under[n]
         /\ child[Other(s)][n] # child[s][n]
<1> DEFINE c == child[s][n]
<1>1. s = "left" \/ s = "right"
  BY DEF Side
<1>2. c \in nodes /\ parent[c] = n
  BY DEF TreeInv, LinksAgree
<1>3. c \in Key /\ n \in Key /\ n \in Int /\ c \in Int
  BY <1>2, KeyAssumption DEF TreeInv, TypeOK
<1>4. c \in under[c] /\ n \in under[n] /\ under[c] \subseteq under[n]
  BY <1>1, <1>2 DEF TreeInv, SearchTree, Under
<1>5. n \notin under[c]
  <2>1. CASE s = "left"
    <3>1. \A m \in under[c] : m < n
      BY <2>1 DEF TreeInv, SearchTree, Under
    <3> QED BY <3>1, <1>3
  <2>2. CASE s = "right"
    <3>1. \A m \in under[c] : n < m
      BY <2>2 DEF TreeInv, SearchTree, Under
    <3> QED BY <3>1, <1>3
  <2> QED BY <2>1, <2>2, <1>1
<1>6. child[Other(s)][n] # c
  BY <1>1 DEF TreeInv, LinksAgree, Other, Side
<1> QED BY <1>2, <1>4, <1>5, <1>6

\* The node rebalance_grew looks at is the parent of the one it came from, on
\* the side it works out.
LEMMA GrownSide ==
  ASSUME Inv, pc = "grew", at # NULL
  PROVE  /\ at \in nodes /\ prev \in nodes
         /\ Grown \in Side
         /\ child[Grown][at] = prev
<1>1. prev \in nodes /\ at = parent[prev]
  BY DEF Inv, GrewOnTrack
<1>2. at \in nodes /\ \E s \in Side : child[s][at] = prev
  BY <1>1 DEF Inv, TreeInv, LinksAgree
<1> QED BY <1>1, <1>2 DEF Grown, Side

\* The two sides of a node's subtree have no key in common.
LEMMA SidesDisjoint ==
  ASSUME TreeInv, NEW n \in nodes, NEW s \in Side,
         NEW x \in Under(child[s][n])
  PROVE  x \notin Under(child[Other(s)][n]) /\ x # n /\ x \in nodes
<1>1. s = "left" \/ s = "right"
  BY DEF Side
<1>2. x \in under[n]
  BY <1>1 DEF TreeInv, SearchTree
<1>3. x \in nodes /\ x \in Int /\ n \in Int
  BY <1>2, KeyAssumption DEF TreeInv, SubtreesClosed, TypeOK
<1>4. CASE s = "left"
  <2>1. x < n /\ \A m \in Under(child["right"][n]) : n < m
    BY <1>4 DEF TreeInv, SearchTree
  <2> QED BY <1>3, <2>1, <1>4 DEF Other
<1>5. CASE s = "right"
  <2>1. n < x /\ \A m \in Under(child["left"][n]) : m < n
    BY <1>5 DEF TreeInv, SearchTree
  <2> QED BY <1>3, <2>1, <1>5 DEF Other
<1> QED BY <1>1, <1>4, <1>5

\* a comes before b when side s counts as the side of the smaller keys.
Before(s, a, b) == IF s = "left" THEN a < b ELSE b < a

LEMMA SidesInOrder ==
  ASSUME TreeInv, NEW n \in nodes, NEW s \in Side
  PROVE  /\ under[n] = {n} \union Under(child[s][n]) \union Under(child[Other(s)][n])
         /\ \A m \in Under(child[s][n]) : Before(s, m, n)
         /\ \A m \in Under(child[Other(s)][n]) : Before(s, n, m)
         /\ \A m \in under[n] : m \in Int
<1>1. /\ under[n] = {n} \union Under(child["left"][n]) \union Under(child["right"][n])
      /\ \A m \in Under(child["left"][n]) : m < n
      /\ \A m \in Under(child["right"][n]) : n < m
  BY DEF TreeInv, SearchTree
<1>2. \A m \in under[n] : m \in Int
  BY KeyAssumption DEF TreeInv, SubtreesClosed, TypeOK
<1>3. CASE s = "left"
  BY <1>1, <1>2, <1>3 DEF Other, Before
<1>4. CASE s = "right"
  BY <1>1, <1>2, <1>4 DEF Other, Before
<1> QED BY <1>3, <1>4 DEF Side

-----------------------------------------------------------------------------
(* A new leaf *)

LEMMA CreateStep == ASSUME Inv, Create PROVE Inv'
<1> DEFINE k == request.key
<1> USE DEF Side
<1>0. /\ TypeOK /\ pc = "search" /\ Slot = NULL /\ request.kind = "create"
      /\ k \in Key /\ k # NULL /\ side \in Side
      /\ pc' = "grew" /\ prev' = k /\ nodes' = nodes \union {k}
      /\ request' = request /\ at' = at /\ side' = side
      /\ root' = IF at = NULL THEN k ELSE root
  BY KeyAssumption DEF Create, Inv, TreeInv, TypeOK, Requests
<1>1. /\ k \notin nodes
      /\ at # NULL => at \in nodes
      /\ at = NULL => nodes = {} /\ root = NULL
      /\ at # NULL => child[side][at] = NULL /\ at # k
  BY <1>0 DEF Inv, TreeInv, SearchOnTrack, Slot, Under, LinksAgree
<1>2. \A s \in Side : \A n \in Key :
        child'[s][n] = IF n = k THEN NULL
                       ELSE IF n = at /\ s = side THEN k ELSE child[s][n]
  BY DEF Create
<1>3. \A n \in Key : parent'[n] = IF n = k THEN at ELSE parent[n]
  BY DEF Create, Inv, TreeInv, TypeOK
<1>4. \A n \in Key : balance'[n] = IF n = k THEN "balanced" ELSE balance[n]
  BY DEF Create, Inv, TreeInv, TypeOK
<1>5. \A n \in Key :
        under'[n] = IF n = k THEN {k}
                    ELSE IF n \in nodes /\ at \in under[n] THEN under[n] \union {k}
                    ELSE under[n]
  BY DEF Create
<1>6. nodes \subseteq Key /\ NULL \notin Key
  BY <1>0, KeyAssumption DEF TypeOK
<1>7. TypeOK'
  <2>1. child' \in [Side -> [Key -> Pointer]]
    <3>1. child' = [s \in Side |-> [n \in Key |->
                     IF n = k THEN NULL
                     ELSE IF n = at /\ s = side THEN k ELSE child[s][n]]]
      BY DEF Create
    <3>2. \A s \in Side : \A n \in Key : child[s][n] \in Pointer
      BY <1>0 DEF TypeOK
    <3> QED BY <3>1, <3>2, <1>0 DEF Pointer
  <2>2. under' \in [Key -> SUBSET Key]
    <3>1. \A n \in Key : under'[n] \in SUBSET Key
      BY <1>5, <1>0, ZenonT(40) DEF TypeOK
    <3>2. under' = [n \in Key |-> under'[n]]
      BY DEF Create
    <3> QED BY <3>1, <3>2
  <2>3. parent' \in [Key -> Pointer] /\ balance' \in [Key -> Balance]
    BY <1>0 DEF Create, TypeOK, Pointer, Balance
  <2> QED BY <2>1, <2>2, <2>3, <1>0, <1>6 DEF Create, TypeOK, Pointer
<1>8. LinksAgree'
  BY <1>0, <1>1, <1>2, <1>3, <1>6 DEF Inv, TreeInv, LinksAgree
<1>9. MarksHaveChild'
  BY <1>0, <1>1, <1>2, <1>4, <1>6 DEF Inv, TreeInv, MarksHaveChild
<1>10. \A n \in nodes : \A s \in Side :
         Under(child[s][n])' = IF (n = at /\ s = side) \/ at \in Under(child[s][n])
                               THEN Under(child[s][n]) \union {k}
                               ELSE Under(child[s][n])
  <2> SUFFICES ASSUME NEW n \in nodes, NEW s \in Side
               PROVE  Under(child[s][n])' =
                        IF (n = at /\ s = side) \/ at \in Under(child[s][n])
                        THEN Under(child[s][n]) \union {k}
                        ELSE Under(child[s][n])
    OBVIOUS
  <2>1. n \in Key /\ n # k
    BY <1>1, <1>6
  <2>2. CASE n = at /\ s = side
    <3>1. child'[s][n] = k /\ child[s][n] = NULL
      BY <2>1, <2>2, <1>2, <1>1, <1>6
    <3> QED BY <3>1, <2>2, <1>0, <1>5 DEF Under
  <2>3. CASE ~(n = at /\ s = side)
    <3>1. child'[s][n] = child[s][n]
      BY <2>1, <2>3, <1>2
    <3>2. child[s][n] # NULL => child[s][n] \in nodes
      BY DEF Inv, TreeInv, LinksAgree
    <3> QED BY <3>1, <3>2, <2>3, <1>1, <1>5, <1>6 DEF Under
  <2> QED BY <2>2, <2>3
<1>11. \A n \in nodes : under'[n] = IF at \in under[n] THEN under[n] \union {k}
                                                      ELSE under[n]
  BY <1>1, <1>5, <1>6
<1>12. \A s \in Side : Under(child[s][k])' = {}
  BY <1>0, <1>2 DEF Under
<1>13. SearchTree'
  <2>1. Under(root)' = nodes'
    <3>1. CASE at = NULL
      BY <3>1, <1>0, <1>1, <1>5 DEF Under
    <3>2. CASE at # NULL
      BY <3>2, <1>0, <1>1, <1>6, <1>11 DEF Under, Inv, TreeInv, SearchTree, LinksAgree
    <3> QED BY <3>1, <3>2
  <2>2. ASSUME NEW n \in nodes
        PROVE  /\ under'[n] = {n} \union Under(child["left"][n])'
                                 \union Under(child["right"][n])'
               /\ \A m \in Under(child["left"][n])' : m < n
               /\ \A m \in Under(child["right"][n])' : n < m
    <3>1. /\ under[n] = {n} \union Under(child["left"][n])
                          \union Under(child["right"][n])
          /\ \A m \in Under(child["left"][n]) : m < n
          /\ \A m \in Under(child["right"][n]) : n < m
      BY DEF Inv, TreeInv, SearchTree
    <3>2. at \in Under(child["left"][n]) => at # NULL /\ k < n
      BY <1>0, <1>1, <1>6 DEF Inv, SearchOnTrack, Under, TypeOK
    <3>3. at \in Under(child["right"][n]) => at # NULL /\ n < k
      BY <1>0, <1>1, <1>6 DEF Inv, SearchOnTrack, Under, TypeOK
    <3>4. n = at => (side = "left" => k < n) /\ (side = "right" => n < k)
      BY <1>0, <1>6 DEF Inv, SearchOnTrack
    <3> QED BY <3>1, <3>2, <3>3, <3>4, <1>0, <1>10, <1>11
  <2>3. under'[k] = {k}
    BY <1>0, <1>5
  <2> QED BY <2>1, <2>2, <2>3, <1>0, <1>12 DEF SearchTree
<1>14. SubtreesClosed'
  <2>1. ASSUME NEW n \in nodes, NEW m \in under'[n]
        PROVE  /\ m \in nodes'
               /\ m # n => parent'[m] \in under'[n]
               /\ \A s \in Side : child'[s][m] # NULL => child'[s][m] \in under'[n]
    <3>1. CASE m = k
      <4>1. k \notin under[n]
        BY <1>1 DEF Inv, TreeInv, SubtreesClosed
      <4>2. at \in under[n] /\ under'[n] = under[n] \union {k}
        BY <4>1, <3>1, <1>11
      <4>3. parent'[k] = at /\ \A s \in Side : child'[s][k] = NULL
        BY <1>0, <1>2, <1>3
      <4> QED BY <3>1, <4>2, <4>3, <1>0
    <3>2. CASE m # k
      <4>1. m \in under[n] /\ m \in nodes /\ m \in Key
        BY <3>2, <1>11, <1>6 DEF Inv, TreeInv, SubtreesClosed
      <4>2. m # n => parent'[m] \in under'[n]
        BY <4>1, <3>2, <1>3, <1>11 DEF Inv, TreeInv, SubtreesClosed
      <4>3. ASSUME NEW s \in Side, child'[s][m] # NULL PROVE child'[s][m] \in under'[n]
        <5>1. CASE m = at /\ s = side
          BY <5>1, <4>1, <3>2, <1>2, <1>11
        <5>2. CASE ~(m = at /\ s = side)
          <6>1. child'[s][m] = child[s][m]
            BY <5>2, <4>1, <3>2, <1>2
          <6> QED BY <6>1, <4>3, <4>1, <1>11 DEF Inv, TreeInv, SubtreesClosed
        <5> QED BY <5>1, <5>2
      <4> QED BY <4>1, <4>2, <4>3, <1>0
    <3> QED BY <3>1, <3>2
  <2>2. under'[k] = {k} /\ \A s \in Side : child'[s][k] = NULL
    BY <1>0, <1>2, <1>5
  <2> QED BY <2>1, <2>2, <1>0 DEF SubtreesClosed
<1>15. SearchOnTrack'
  BY <1>0 DEF SearchOnTrack
<1>16. GrewOnTrack'
  <2>1. parent'[k] = at
    BY <1>0, <1>3
  <2>2. at # NULL => balance'[at] # Grown'
    <3> SUFFICES ASSUME at # NULL PROVE balance'[at] # Grown'
      OBVIOUS
    <3>1. at \in nodes /\ at \in Key /\ at # k /\ child[side][at] = NULL
      BY <1>1, <1>6
    <3>2. child'[side][at] = k /\ child'[Other(side)][at] = child[Other(side)][at]
      BY <3>1, <1>0, <1>2, OtherSide
    <3>3. child[Other(side)][at] # k
      BY <3>1, <1>1, <1>0, OtherSide DEF Inv, TreeInv, LinksAgree
    <3>4. Grown' = side
      BY <3>2, <3>3, <1>0 DEF Grown, Other
    <3>5. balance'[at] = balance[at] /\ balance[at] # side
      BY <3>1, <1>0, <1>4 DEF Inv, TreeInv, MarksHaveChild
    <3> QED BY <3>4, <3>5
  <2> QED BY <2>1, <2>2, <1>0 DEF GrewOnTrack
<1> QED BY <1>7, <1>8, <1>9, <1>13, <1>14, <1>15, <1>16 DEF Inv, TreeInv

-----------------------------------------------------------------------------
(* The rotations *)

\* The part of the type invariant that is about the tree.
TreeType ==
  /\ nodes \in SUBSET Key
  /\ root \in Pointer
  /\ child \in [Side -> [Key -> Pointer]]
  /\ parent \in [Key -> Pointer]
  /\ balance \in [Key -> Balance]
  /\ under \in [Key -> SUBSET Key]

\* What is above a node p: nothing of it is in the subtree of p.
LEMMA AboveFacts ==
  ASSUME TreeInv, NEW p \in nodes, parent[p] # NULL
  PROVE  /\ parent[p] \in nodes
         /\ parent[p] \notin under[p]
         /\ \E t \in Side : child[t][parent[p]] = p
<1>1. parent[p] \in nodes /\ \E t \in Side : child[t][parent[p]] = p
  BY DEF TreeInv, LinksAgree
<1>2. PICK t \in Side : child[t][parent[p]] = p
  BY <1>1
<1>3. p # NULL
  BY KeyAssumption DEF TreeInv, TypeOK
<1> QED BY <1>1, <1>2, <1>3, ChildFacts

\* The child map after p has been replaced by x in the slot that held it.
LEMMA ReplacedFacts ==
  ASSUME TreeInv, NEW p \in nodes, NEW x \in Key
  PROVE  /\ Replaced(p, x) \in [Side -> [Key -> Pointer]]
         /\ \A d \in Side : \A n \in Key :
              Replaced(p, x)[d][n] = IF n = parent[p] /\ child[d][n] = p THEN x
                                     ELSE child[d][n]
<1> USE DEF Side
<1>1. /\ child \in [Side -> [Key -> Pointer]] /\ x \in Pointer
      /\ NULL \notin Key /\ nodes \subseteq Key
  BY KeyAssumption DEF TreeInv, TypeOK, Pointer
<1>2. CASE parent[p] = NULL
  BY <1>1, <1>2 DEF Replaced
<1>3. CASE parent[p] # NULL
  <2> DEFINE up == parent[p]
             t == IF child["left"][up] = p THEN "left" ELSE "right"
  <2>1. up \in nodes /\ up \in Key /\ t \in Side
    BY <1>1, <1>3, AboveFacts
  <2>2. p # NULL /\ p \in Key
    BY <1>1
  <2>3. \A d \in Side : child[d][up] = p <=> d = t
    BY <2>1, <2>2, <1>3, AboveFacts DEF TreeInv, LinksAgree
  <2>4. Replaced(p, x) = [child EXCEPT ![t][up] = x]
    BY <1>3 DEF Replaced
  <2> QED BY <1>1, <2>1, <2>3, <2>4
<1> QED BY <1>2, <1>3

LEMMA SingleRotationStep ==
  ASSUME TreeInv, NEW p \in nodes, NEW s \in Side, NEW c, NEW o, NEW i, NEW q,
         c = child[s][p], c # NULL, o = Other(s), i = child[o][c], q = parent[p],
         SingleRotation(p, c, s)
  PROVE  TreeType' /\ LinksAgree' /\ MarksHaveChild' /\ SearchTree' /\ SubtreesClosed'
<1>1. /\ TypeOK /\ NULL \notin Key /\ nodes \subseteq Key /\ nodes \subseteq Int
      /\ o \in Side /\ o # s /\ Other(o) = s /\ \A t \in Side : t = s \/ t = o
      /\ nodes' = nodes /\ p # NULL /\ root \in Pointer
  BY KeyAssumption, OtherSide DEF TreeInv, TypeOK, Side, Other, SingleRotation
<1>2. /\ c \in nodes /\ c # NULL /\ c # p /\ parent[c] = p
      /\ c \in under[c] /\ p \in under[p]
      /\ under[c] \subseteq under[p] /\ p \notin under[c]
      /\ child[o][p] # c
  BY <1>1, ChildFacts
<1>3. i # NULL => /\ i \in nodes /\ parent[i] = c /\ i # c /\ i # p
                  /\ i \in under[c] /\ i \in under[i]
                  /\ under[i] \subseteq under[c] /\ c \notin under[i]
  <2> SUFFICES ASSUME i # NULL
               PROVE  /\ i \in nodes /\ parent[i] = c /\ i # c /\ i # p
                      /\ i \in under[c] /\ i \in under[i]
                      /\ under[i] \subseteq under[c] /\ c \notin under[i]
    OBVIOUS
  <2> QED BY <1>1, <1>2, ChildFacts
<1>4. q # NULL => /\ q \in nodes /\ q # p /\ q # c /\ q # i
                  /\ q \notin under[p]
                  /\ \E t \in Side : child[t][q] = p
  <2> SUFFICES ASSUME q # NULL
               PROVE  /\ q \in nodes /\ q # p /\ q # c /\ q # i
                      /\ q \notin under[p]
                      /\ \E t \in Side : child[t][q] = p
    OBVIOUS
  <2> QED BY <1>2, <1>3, AboveFacts
<1>5. child' \in [Side -> [Key -> Pointer]]
  <2>1. Replaced(p, c) \in [Side -> [Key -> Pointer]]
    BY <1>1, <1>2, ReplacedFacts
  <2>2. child' = [Replaced(p, c) EXCEPT ![s][p] = i, ![o][c] = p]
    BY DEF SingleRotation
  <2>3. i \in Pointer /\ p \in Pointer
    BY <1>1, <1>3 DEF Pointer
  <2> QED BY <2>1, <2>2, <2>3
<1>6. \A d \in Side : \A n \in Key :
        child'[d][n] = IF n = c /\ d = o THEN p
                       ELSE IF n = p /\ d = s THEN i
                       ELSE IF n = q /\ child[d][n] = p THEN c
                       ELSE child[d][n]
  <2>1. /\ Replaced(p, c) \in [Side -> [Key -> Pointer]]
        /\ \A d \in Side : \A n \in Key :
             Replaced(p, c)[d][n] = IF n = q /\ child[d][n] = p THEN c ELSE child[d][n]
    BY <1>1, <1>2, ReplacedFacts
  <2>2. child' = [Replaced(p, c) EXCEPT ![s][p] = i, ![o][c] = p]
    BY DEF SingleRotation
  <2> QED BY <2>1, <2>2, <1>1, <1>2
<1>7. /\ parent' \in [Key -> Pointer]
      /\ \A n \in Key : parent'[n] = IF n = i THEN p ELSE IF n = p THEN c
                                     ELSE IF n = c THEN q ELSE parent[n]
  BY <1>1, <1>2, <1>3 DEF SingleRotation, WithParent, TypeOK, Pointer
<1>8. /\ balance' \in [Key -> Balance]
      /\ \A n \in Key : balance'[n] = IF n = p \/ n = c THEN "balanced" ELSE balance[n]
  BY <1>1 DEF SingleRotation, TypeOK, Balance
<1>9. /\ under' \in [Key -> SUBSET Key]
      /\ \A n \in Key :
           under'[n] = IF n = c THEN under[p]
                       ELSE IF n = p THEN {p} \union Under(child[o][p]) \union Under(i)
                       ELSE under[n]
  <2>1. \A n \in Pointer : Under(n) \subseteq Key
    BY <1>1 DEF Under, TypeOK, Pointer
  <2>2. child[o][p] \in Pointer /\ i \in Pointer
    BY <1>1, <1>2 DEF TypeOK
  <2>3. under' = [under EXCEPT ![p] = {p} \union Under(child[o][p]) \union Under(i),
                              ![c] = under[p]]
    BY DEF SingleRotation
  <2> DEFINE below == {p} \union Under(child[o][p]) \union Under(i)
  <2>4. below \in SUBSET Key /\ under[p] \in SUBSET Key
    BY <1>1, <2>1, <2>2 DEF TypeOK
  <2>5. under' = [under EXCEPT ![p] = below, ![c] = under[p]]
    BY <2>3
  <2> HIDE DEF below
  <2>6. under \in [Key -> SUBSET Key] /\ p \in Key /\ c \in Key /\ p # c
    BY <1>1, <1>2 DEF TypeOK
  <2>7. /\ under' \in [Key -> SUBSET Key]
        /\ \A n \in Key : under'[n] = IF n = c THEN under[p]
                                      ELSE IF n = p THEN below ELSE under[n]
    BY <2>4, <2>5, <2>6
  <2> QED BY <2>7 DEF below
<1>10. root' = (IF q = NULL THEN c ELSE root)
  BY DEF SingleRotation, RootAfter
<1>11. TreeType'
  BY <1>1, <1>2, <1>5, <1>7, <1>8, <1>9, <1>10 DEF TreeType, Pointer
<1>12. LinksAgree'
  <2>1. root' # NULL /\ root' \in nodes' /\ parent'[root'] = NULL
    BY <1>1, <1>2, <1>3, <1>4, <1>7, <1>10 DEF TreeInv, LinksAgree
  <2>2. ASSUME NEW n \in nodes, NEW d \in Side, child'[d][n] # NULL
        PROVE  child'[d][n] \in nodes /\ parent'[child'[d][n]] = n
    <3> DEFINE m == child[d][n]
    <3>1. n \in Key /\ (m # NULL => m \in nodes /\ m \in Key /\ parent[m] = n)
      BY <1>1 DEF TreeInv, LinksAgree
    <3>2. CASE n = c /\ d = o
      BY <3>1, <3>2, <1>1, <1>2, <1>3, <1>6, <1>7
    <3>3. CASE n = p /\ d = s
      BY <2>2, <3>1, <3>3, <1>1, <1>2, <1>3, <1>6, <1>7
    <3>4. CASE n = q /\ m = p
      BY <2>2, <3>1, <3>4, <1>1, <1>2, <1>3, <1>4, <1>6, <1>7
    <3>5. CASE ~(n = c /\ d = o) /\ ~(n = p /\ d = s) /\ ~(n = q /\ m = p)
      <4>1. child'[d][n] = m /\ m # NULL /\ m # p
        BY <2>2, <3>1, <3>5, <1>6
      <4>2. m # c
        BY <4>1, <3>1, <3>5, <1>1, <1>2 DEF TreeInv, LinksAgree, Side
      <4>3. m # i
        BY <4>1, <3>1, <3>5, <1>1, <1>3 DEF TreeInv, LinksAgree, Side
      <4>4. parent'[m] = parent[m]
        BY <4>1, <4>2, <4>3, <3>1, <1>7
      <4> QED BY <4>1, <4>4, <3>1
    <3> QED BY <3>2, <3>3, <3>4, <3>5
  <2>3. ASSUME NEW n \in nodes, child'["left"][n] # NULL
        PROVE  child'["left"][n] # child'["right"][n]
    BY <2>3, <1>1, <1>2, <1>3, <1>4, <1>6 DEF TreeInv, LinksAgree, Side
  <2>4. ASSUME NEW n \in nodes, parent'[n] # NULL
        PROVE  parent'[n] \in nodes /\ \E d \in Side : child'[d][parent'[n]] = n
    <3>1. n \in Key /\ (parent[n] # NULL => parent[n] \in nodes
                                          /\ \E d \in Side : child[d][parent[n]] = n)
      BY <1>1 DEF TreeInv, LinksAgree
    <3>2. CASE n = i
      BY <3>1, <3>2, <1>1, <1>2, <1>3, <1>6, <1>7
    <3>3. CASE n = p
      BY <3>1, <3>3, <1>1, <1>2, <1>3, <1>6, <1>7
    <3>4. CASE n = c
      <4>1. parent'[c] = q /\ q # NULL
        BY <2>4, <3>4, <1>1, <1>2, <1>3, <1>7
      <4>2. PICK t \in Side : child[t][q] = p
        BY <4>1, <1>4
      <4>3. child'[t][q] = c
        BY <4>1, <4>2, <1>1, <1>4, <1>6
      <4> QED BY <4>1, <4>3, <3>4, <1>4
    <3>5. CASE n # i /\ n # p /\ n # c
      <4>1. parent'[n] = parent[n] /\ parent[n] \in nodes
        BY <2>4, <3>1, <3>5, <1>7
      <4>2. PICK d \in Side : child[d][parent[n]] = n
        BY <3>1, <4>1, <2>4
      <4>3. child'[d][parent[n]] = n
        BY <4>1, <4>2, <3>1, <3>5, <1>1, <1>6
      <4> QED BY <4>1, <4>3
    <3> QED BY <3>2, <3>3, <3>4, <3>5
  <2>5. ASSUME NEW n \in nodes, parent'[n] = NULL PROVE n = root'
    BY <2>5, <1>1, <1>2, <1>3, <1>4, <1>7, <1>10 DEF TreeInv, LinksAgree
  <2> QED BY <1>1, <2>1, <2>2, <2>3, <2>4, <2>5 DEF LinksAgree
<1>13. MarksHaveChild'
  BY <1>1, <1>2, <1>6, <1>8 DEF TreeInv, MarksHaveChild, Side
<1>14. child[o][p] # NULL => /\ child[o][p] \in nodes /\ parent[child[o][p]] = p
                             /\ child[o][p] \in under[child[o][p]]
                             /\ under[child[o][p]] \subseteq under[p]
                             /\ p \notin under[child[o][p]] /\ c \notin under[child[o][p]]
  <2> SUFFICES ASSUME child[o][p] # NULL
               PROVE  /\ child[o][p] \in nodes /\ parent[child[o][p]] = p
                      /\ child[o][p] \in under[child[o][p]]
                      /\ under[child[o][p]] \subseteq under[p]
                      /\ p \notin under[child[o][p]] /\ c \notin under[child[o][p]]
    OBVIOUS
  <2>1. c \in Under(child[s][p])
    BY <1>2 DEF Under
  <2>2. c \notin Under(child[o][p])
    BY <2>1, <1>1, SidesDisjoint
  <2> QED BY <2>2, <1>1, ChildFacts DEF Under
<1>15. SearchTree'
  <2>1. Under(root)' = nodes'
    BY <1>1, <1>2, <1>4, <1>9, <1>10 DEF TreeInv, SearchTree, LinksAgree, Under
  <2>2. ASSUME NEW n \in nodes, n # p, n # c, NEW d \in Side
        PROVE  Under(child[d][n])' = Under(child[d][n])
    <3>1. n \in Key /\ (child[d][n] # NULL =>
                        child[d][n] \in nodes /\ child[d][n] \in Key
                        /\ parent[child[d][n]] = n)
      BY <1>1 DEF TreeInv, LinksAgree
    <3>2. child[d][n] # c
      BY <3>1, <2>2, <1>2
    <3>3. CASE child[d][n] = p
      <4>1. n = q
        BY <3>1, <3>3, <1>1
      <4>2. child'[d][n] = c
        BY <4>1, <3>1, <3>3, <2>2, <1>6
      <4> QED BY <4>2, <3>3, <1>1, <1>2, <1>9 DEF Under
    <3>4. CASE child[d][n] # p
      <4>1. child'[d][n] = child[d][n]
        BY <3>1, <3>4, <2>2, <1>6
      <4> QED BY <4>1, <3>1, <3>2, <3>4, <1>9 DEF Under
    <3> QED BY <3>3, <3>4
  <2>3. Under(child[s][p])' = Under(i)
    <3>1. i = child'[s][p]
      BY <1>1, <1>2, <1>6
    <3>2. i # NULL => under'[i] = under[i]
      BY <1>1, <1>3, <1>9
    <3> QED BY <3>1, <3>2 DEF Under
  <2>4. Under(child[o][p])' = Under(child[o][p])
    <3>1. child'[o][p] = child[o][p]
      BY <1>1, <1>2, <1>4, <1>6
    <3>2. child[o][p] # NULL => under'[child[o][p]] = under[child[o][p]]
      BY <1>1, <1>2, <1>9, <1>14
    <3> QED BY <3>1, <3>2 DEF Under
  <2>5. Under(child[s][c])' = Under(child[s][c])
    <3>1. child'[s][c] = child[s][c]
      BY <1>1, <1>2, <1>4, <1>6
    <3>2. child[s][c] # NULL => child[s][c] \in nodes /\ child[s][c] # c /\ child[s][c] # p
      BY <1>1, <1>2, ChildFacts
    <3> QED BY <3>1, <3>2, <1>1, <1>9 DEF Under
  <2>6. Under(child[o][c])' = {p} \union Under(child[o][p]) \union Under(i)
    <3>1. child'[o][c] = p
      BY <1>1, <1>2, <1>6
    <3>2. under'[p] = {p} \union Under(child[o][p]) \union Under(i)
      BY <1>1, <1>2, <1>9
    <3>3. Under(child[o][c])' = under'[p]
      BY <3>1, <1>1 DEF Under
    <3> QED BY <3>2, <3>3
  <2>7. /\ under'[c] = under[p]
        /\ under'[p] = {p} \union Under(child[o][p]) \union Under(i)
    BY <1>1, <1>2, <1>9
  <2>8. \A n \in nodes : /\ under[n] = {n} \union Under(child["left"][n])
                                          \union Under(child["right"][n])
                         /\ \A m \in Under(child["left"][n]) : m < n
                         /\ \A m \in Under(child["right"][n]) : n < m
    BY DEF TreeInv, SearchTree
  <2>9. Under(c) = under[c] /\ \A m \in under[p] : m \in Int
    BY <1>1, <1>2, KeyAssumption DEF Under, TypeOK
  <2>10. ASSUME NEW n \in nodes
         PROVE  /\ under'[n] = {n} \union Under(child["left"][n])'
                                  \union Under(child["right"][n])'
                /\ \A m \in Under(child["left"][n])' : m < n
                /\ \A m \in Under(child["right"][n])' : n < m
    <3>1. CASE n # p /\ n # c
      BY <3>1, <2>2, <2>8, <1>1, <1>9 DEF Side
    <3>2. CASE n = p
      <4>1. Under(child[s][p])' = Under(i) /\ Under(child[o][p])' = Under(child[o][p])
        BY <2>3, <2>4
      <4>2. \A m \in Under(i) : m \in Under(c)
        BY <1>1, <1>2, <1>3, <2>9 DEF Under
      <4>3. CASE s = "left" /\ o = "right"
        BY <3>2, <4>1, <4>2, <4>3, <2>7, <2>8
      <4>4. CASE s = "right" /\ o = "left"
        BY <3>2, <4>1, <4>2, <4>4, <2>7, <2>8
      <4> QED BY <4>3, <4>4, <1>1 DEF Side, Other
    <3>3. CASE n = c
      <4>1. c \in Under(c) /\ c \in Int /\ p \in Int
        BY <1>1, <1>2, <2>9
      <4>2. \A m \in Under(child[o][p]) : m \in Int
        BY <1>14, <2>9 DEF Under
      <4>3. CASE s = "left" /\ o = "right"
        BY <3>3, <4>1, <4>2, <4>3, <2>5, <2>6, <2>7, <2>8, <2>9, <1>2
      <4>4. CASE s = "right" /\ o = "left"
        BY <3>3, <4>1, <4>2, <4>4, <2>5, <2>6, <2>7, <2>8, <2>9, <1>2
      <4> QED BY <4>3, <4>4, <1>1 DEF Side, Other
    <3> QED BY <3>1, <3>2, <3>3
  <2> QED BY <2>1, <2>10, <1>1 DEF SearchTree
<1>16. SubtreesClosed'
  <2>1. \A n \in nodes : \A m \in under[n] :
          /\ m \in nodes /\ m \in Key
          /\ m # n => parent[m] \in under[n]
          /\ \A d \in Side : child[d][m] # NULL => child[d][m] \in under[n]
    BY <1>1 DEF TreeInv, SubtreesClosed
  <2>2. ASSUME NEW n \in nodes, n # p, n # c, NEW m \in under'[n]
        PROVE  /\ m \in nodes
               /\ m # n => parent'[m] \in under'[n]
               /\ \A d \in Side : child'[d][m] # NULL => child'[d][m] \in under'[n]
    <3>1. under'[n] = under[n] /\ m \in nodes /\ m \in Key
      BY <2>1, <2>2, <1>1, <1>9
    <3>2. m # n => parent'[m] \in under[n]
      BY <3>1, <2>1, <2>2, <1>1, <1>2, <1>3, <1>7
    <3>3. ASSUME NEW d \in Side, child'[d][m] # NULL PROVE child'[d][m] \in under[n]
      BY <3>1, <3>3, <2>1, <2>2, <1>1, <1>2, <1>3, <1>6
    <3> QED BY <3>1, <3>2, <3>3
  <2>3. ASSUME NEW m \in under'[c]
        PROVE  /\ m \in nodes
               /\ m # c => parent'[m] \in under'[c]
               /\ \A d \in Side : child'[d][m] # NULL => child'[d][m] \in under'[c]
    <3>1. under'[c] = under[p] /\ m \in nodes /\ m \in Key
      BY <2>1, <2>3, <1>1, <1>2, <1>9
    <3>2. m # c => parent'[m] \in under[p]
      BY <3>1, <2>1, <2>3, <1>1, <1>2, <1>7
    <3>3. ASSUME NEW d \in Side, child'[d][m] # NULL PROVE child'[d][m] \in under[p]
      BY <3>1, <3>3, <2>1, <2>3, <1>1, <1>2, <1>3, <1>4, <1>6
    <3> QED BY <3>1, <3>2, <3>3
  <2>4. ASSUME NEW m \in under'[p]
        PROVE  /\ m \in nodes
               /\ m # p => parent'[m] \in under'[p]
               /\ \A d \in Side : child'[d][m] # NULL => child'[d][m] \in under'[p]
    <3>1. under'[p] = {p} \union Under(child[o][p]) \union Under(i)
      BY <1>1, <1>2, <1>9
    <3>2. CASE m = p
      BY <3>1, <3>2, <1>1, <1>2, <1>3, <1>4, <1>6, <1>14, SMTT(30) DEF Under, Side
    <3>3. ASSUME NEW x, x = i \/ x = child[o][p], m \in Under(x)
          PROVE  /\ m \in nodes
                 /\ parent'[m] \in under'[p]
                 /\ \A d \in Side : child'[d][m] # NULL => child'[d][m] \in under'[p]
      <4>1. /\ x \in nodes /\ m \in under[x] /\ m # p /\ m # c /\ m # q
            /\ x # c /\ under[x] \subseteq under'[p]
            /\ x = i \/ parent[x] = p
        <5>1. CASE x = i
          <6>1. i # NULL /\ m \in under[i] /\ m \in nodes
            BY <5>1, <3>3, <2>1, <1>3 DEF Under
          <6>2. m # p /\ m # c /\ m \in under[p]
            BY <6>1, <1>2, <1>3
          <6>3. m # q
            BY <6>1, <6>2, <1>1, <1>4
          <6> QED BY <5>1, <6>1, <6>2, <6>3, <3>1, <1>3 DEF Under
        <5>2. CASE x = child[o][p]
          <6>1. x # NULL /\ m \in under[x] /\ m \in nodes
            BY <5>2, <3>3, <2>1, <1>14 DEF Under
          <6>2. m # p /\ m # c /\ m \in under[p]
            BY <5>2, <6>1, <1>14
          <6>3. m # q
            BY <6>1, <6>2, <1>1, <1>4
          <6> QED BY <5>2, <6>1, <6>2, <6>3, <3>1, <1>2, <1>14 DEF Under
        <5> QED BY <5>1, <5>2, <3>3
      <4>2. m \in nodes /\ m \in Key
        BY <4>1, <2>1
      <4>3. parent'[m] \in under'[p]
        BY <4>1, <4>2, <3>1, <2>1, <1>7
      <4>4. ASSUME NEW d \in Side, child'[d][m] # NULL PROVE child'[d][m] \in under'[p]
        BY <4>1, <4>2, <4>4, <2>1, <1>6
      <4> QED BY <4>2, <4>3, <4>4
    <3>4. CASE m # p
      <4>1. m \in Under(i) \/ m \in Under(child[o][p])
        BY <3>1, <3>4, <2>4
      <4> QED BY <4>1, <3>3
    <3> QED BY <3>2, <3>4
  <2> QED BY <2>2, <2>3, <2>4, <1>1 DEF SubtreesClosed
<1> QED BY <1>11, <1>12, <1>13, <1>15, <1>16

LEMMA DoubleRotationStep ==
  ASSUME TreeInv, NEW p \in nodes, NEW s \in Side, NEW c, NEW o, NEW g, NEW x,
         NEW y, NEW q,
         c = child[s][p], c # NULL, o = Other(s), g = child[o][c], g # NULL,
         x = child[o][g], y = child[s][g], q = parent[p],
         DoubleRotation(p, c, g, s)
  PROVE  TreeType' /\ LinksAgree' /\ MarksHaveChild' /\ SearchTree' /\ SubtreesClosed'
<1>1. /\ TypeOK /\ NULL \notin Key /\ nodes \subseteq Key /\ nodes \subseteq Int
      /\ o \in Side /\ o # s /\ Other(o) = s /\ \A t \in Side : t = s \/ t = o
      /\ nodes' = nodes /\ p # NULL /\ root \in Pointer
  BY KeyAssumption, OtherSide DEF TreeInv, TypeOK, Side, Other, DoubleRotation
<1>2. /\ c \in nodes /\ c # NULL /\ c # p /\ parent[c] = p
      /\ c \in under[c] /\ p \in under[p]
      /\ under[c] \subseteq under[p] /\ p \notin under[c]
      /\ child[o][p] # c
  BY <1>1, ChildFacts
<1>3. /\ g \in nodes /\ parent[g] = c /\ g # c /\ g # p
      /\ g \in under[c] /\ g \in under[g] /\ g \in under[p]
      /\ under[g] \subseteq under[c] /\ c \notin under[g] /\ p \notin under[g]
      /\ child[s][c] # g
  BY <1>1, <1>2, ChildFacts
<1>4. x # NULL => /\ x \in nodes /\ parent[x] = g /\ x # g /\ x # c /\ x # p
                  /\ x \in under[g] /\ x \in under[x] /\ x \in under[p]
                  /\ under[x] \subseteq under[g] /\ g \notin under[x]
                  /\ x # y
  <2> SUFFICES ASSUME x # NULL
               PROVE  /\ x \in nodes /\ parent[x] = g /\ x # g /\ x # c /\ x # p
                      /\ x \in under[g] /\ x \in under[x] /\ x \in under[p]
                      /\ under[x] \subseteq under[g] /\ g \notin under[x]
                      /\ x # y
    OBVIOUS
  <2>1. /\ x \in nodes /\ parent[x] = g /\ x # g /\ x \in under[g] /\ x \in under[x]
        /\ under[x] \subseteq under[g] /\ g \notin under[x] /\ x # y
    BY <1>1, <1>3, ChildFacts, ZenonT(40)
  <2> QED BY <2>1, <1>2, <1>3
<1>5. y # NULL => /\ y \in nodes /\ parent[y] = g /\ y # g /\ y # c /\ y # p
                  /\ y \in under[g] /\ y \in under[y] /\ y \in under[p]
                  /\ under[y] \subseteq under[g] /\ g \notin under[y]
                  /\ x # y
  <2> SUFFICES ASSUME y # NULL
               PROVE  /\ y \in nodes /\ parent[y] = g /\ y # g /\ y # c /\ y # p
                      /\ y \in under[g] /\ y \in under[y] /\ y \in under[p]
                      /\ under[y] \subseteq under[g] /\ g \notin under[y]
                      /\ x # y
    OBVIOUS
  <2>1. /\ y \in nodes /\ parent[y] = g /\ y # g /\ y \in under[g] /\ y \in under[y]
        /\ under[y] \subseteq under[g] /\ g \notin under[y] /\ x # y
    <3>1. child[s][g] # NULL /\ g \in nodes /\ child[Other(s)][g] = x
      BY <1>3
    <3> QED BY <3>1, ChildFacts, SMTT(30)
  <2> QED BY <2>1, <1>2, <1>3
<1>6. q # NULL => /\ q \in nodes /\ q # p /\ q # c /\ q # g /\ q # x /\ q # y
                  /\ q \notin under[p]
                  /\ \E t \in Side : child[t][q] = p
  <2> SUFFICES ASSUME q # NULL
               PROVE  /\ q \in nodes /\ q # p /\ q # c /\ q # g /\ q # x /\ q # y
                      /\ q \notin under[p]
                      /\ \E t \in Side : child[t][q] = p
    OBVIOUS
  <2>1. q \in nodes /\ q \notin under[p] /\ \E t \in Side : child[t][q] = p
    BY AboveFacts
  <2> QED BY <2>1, <1>2, <1>3, <1>4, <1>5
<1>7. /\ child' \in [Side -> [Key -> Pointer]]
      /\ \A d \in Side : \A n \in Key :
           child'[d][n] = IF n = g THEN (IF d = s THEN c ELSE p)
                          ELSE IF n = c /\ d = o THEN y
                          ELSE IF n = p /\ d = s THEN x
                          ELSE IF n = q /\ child[d][n] = p THEN g
                          ELSE child[d][n]
  <2> DEFINE r == Replaced(p, g)
             r1 == [r EXCEPT ![s][p] = x]
             r2 == [r1 EXCEPT ![o][c] = y]
             r3 == [r2 EXCEPT ![o][g] = p]
  <2>1. /\ p \in Key /\ c \in Key /\ g \in Key
        /\ x \in Pointer /\ y \in Pointer /\ p \in Pointer /\ c \in Pointer
    BY <1>1, <1>2, <1>3, <1>4, <1>5 DEF Pointer
  <2>2. /\ r \in [Side -> [Key -> Pointer]]
        /\ \A d \in Side : \A n \in Key :
             r[d][n] = IF n = q /\ child[d][n] = p THEN g ELSE child[d][n]
    BY <2>1, ReplacedFacts
  <2>3. child' = [r3 EXCEPT ![s][g] = c]
    BY DEF DoubleRotation
  <2> HIDE DEF r
  <2>4. /\ r1 \in [Side -> [Key -> Pointer]]
        /\ \A d \in Side : \A n \in Key :
             r1[d][n] = IF n = p /\ d = s THEN x ELSE r[d][n]
    BY <2>1, <2>2, <1>1
  <2> HIDE DEF r1
  <2>5. /\ r2 \in [Side -> [Key -> Pointer]]
        /\ \A d \in Side : \A n \in Key :
             r2[d][n] = IF n = c /\ d = o THEN y ELSE r1[d][n]
    BY <2>1, <2>4, <1>1
  <2> HIDE DEF r2
  <2>6. /\ r3 \in [Side -> [Key -> Pointer]]
        /\ \A d \in Side : \A n \in Key :
             r3[d][n] = IF n = g /\ d = o THEN p ELSE r2[d][n]
    BY <2>1, <2>5, <1>1
  <2> HIDE DEF r3
  <2>7. /\ child' \in [Side -> [Key -> Pointer]]
        /\ \A d \in Side : \A n \in Key :
             child'[d][n] = IF n = g /\ d = s THEN c ELSE r3[d][n]
    BY <2>1, <2>3, <2>6, <1>1
  <2>8. p # c /\ p # g /\ c # g /\ o # s /\ \A d \in Side : d = s \/ d = o
    BY <1>1, <1>2, <1>3
  <2>9. \A d \in Side : \A n \in Key :
          child'[d][n] = IF n = g THEN (IF d = s THEN c ELSE p)
                         ELSE IF n = c /\ d = o THEN y
                         ELSE IF n = p /\ d = s THEN x ELSE r[d][n]
    BY <2>4, <2>5, <2>6, <2>7, <2>8
  <2> QED BY <2>2, <2>7, <2>9
<1>8. /\ parent' \in [Key -> Pointer]
      /\ \A n \in Key : parent'[n] = IF n = x THEN p ELSE IF n = y THEN c
                                     ELSE IF n = p \/ n = c THEN g
                                     ELSE IF n = g THEN q ELSE parent[n]
  <2> DEFINE f1 == [parent EXCEPT ![g] = q, ![p] = g, ![c] = g]
             f2 == WithParent(f1, x, p)
  <2>1. /\ f1 \in [Key -> Pointer]
        /\ \A n \in Key : f1[n] = IF n = p \/ n = c THEN g
                                  ELSE IF n = g THEN q ELSE parent[n]
    BY <1>1, <1>2, <1>3 DEF TypeOK, Pointer
  <2> HIDE DEF f1
  <2>2. /\ f2 \in [Key -> Pointer]
        /\ \A n \in Key : f2[n] = IF n = x THEN p ELSE f1[n]
    BY <1>1, <1>2, <1>4, <2>1 DEF WithParent, Pointer
  <2>3. parent' = WithParent(f2, y, c)
    BY DEF DoubleRotation, f1
  <2> HIDE DEF f2
  <2>4. /\ parent' \in [Key -> Pointer]
        /\ \A n \in Key : parent'[n] = IF n = y THEN c ELSE f2[n]
    BY <1>1, <1>2, <1>5, <2>2, <2>3 DEF WithParent, Pointer
  <2>5. \A n \in Key : ~(n = x /\ n = y)
    BY <1>1, <1>4
  <2>6. \A n \in Key : parent'[n] = IF n = x THEN p ELSE IF n = y THEN c ELSE f1[n]
    BY <2>2, <2>4, <2>5
  <2> QED BY <2>1, <2>4, <2>6
<1>9. /\ balance' \in [Key -> Balance]
      /\ \A n \in Key : balance'[n] = IF n = p \/ n = c \/ n = g THEN "balanced"
                                      ELSE balance[n]
  BY <1>1 DEF DoubleRotation, TypeOK, Balance
<1>10. /\ under' \in [Key -> SUBSET Key]
       /\ \A n \in Key :
            under'[n] = IF n = g THEN under[p]
                        ELSE IF n = c THEN {c} \union Under(child[s][c]) \union Under(y)
                        ELSE IF n = p THEN {p} \union Under(child[o][p]) \union Under(x)
                        ELSE under[n]
  <2>1. \A n \in Pointer : Under(n) \subseteq Key
    BY <1>1 DEF Under, TypeOK, Pointer
  <2>2. /\ child[o][p] \in Pointer /\ child[s][c] \in Pointer
        /\ x \in Pointer /\ y \in Pointer
    BY <1>1, <1>2, <1>3 DEF TypeOK
  <2> DEFINE belowP == {p} \union Under(child[o][p]) \union Under(x)
             belowC == {c} \union Under(child[s][c]) \union Under(y)
  <2>3. under' = [under EXCEPT ![p] = belowP, ![c] = belowC, ![g] = under[p]]
    BY DEF DoubleRotation
  <2>4. belowP \in SUBSET Key /\ belowC \in SUBSET Key /\ under[p] \in SUBSET Key
    BY <1>1, <1>2, <2>1, <2>2 DEF TypeOK
  <2> HIDE DEF belowP, belowC
  <2>5. /\ under \in [Key -> SUBSET Key] /\ p \in Key /\ c \in Key /\ g \in Key
        /\ p # c /\ p # g /\ c # g
    BY <1>1, <1>2, <1>3 DEF TypeOK
  <2>6. /\ under' \in [Key -> SUBSET Key]
        /\ \A n \in Key : under'[n] = IF n = g THEN under[p]
                                      ELSE IF n = c THEN belowC
                                      ELSE IF n = p THEN belowP ELSE under[n]
    BY <2>3, <2>4, <2>5
  <2> QED BY <2>6 DEF belowP, belowC
<1>11. root' = (IF q = NULL THEN g ELSE root)
  BY DEF DoubleRotation, RootAfter
<1>12. TreeType'
  BY <1>1, <1>3, <1>7, <1>8, <1>9, <1>10, <1>11 DEF TreeType, Pointer
<1>13. \A n \in nodes : \A d \in Side : child[d][n] # NULL =>
         child[d][n] \in nodes /\ parent[child[d][n]] = n
  BY DEF TreeInv, LinksAgree
<1>14. /\ p \in Key /\ c \in Key /\ g \in Key
       /\ child'[s][g] = c /\ child'[o][g] = p
       /\ child'[o][c] = y /\ child'[s][c] = child[s][c]
       /\ child'[s][p] = x /\ child'[o][p] = child[o][p]
  <2>1. p \in Key /\ c \in Key /\ g \in Key
    BY <1>1, <1>2, <1>3
  <2>2. p # q /\ c # q
    BY <1>1, <1>2, <1>6
  <2> QED BY <2>1, <2>2, <1>1, <1>2, <1>3, <1>7
<1>15. \A n \in nodes : n # p /\ n # c /\ n # g =>
         \A d \in Side : child'[d][n] = IF child[d][n] = p THEN g ELSE child[d][n]
  BY <1>1, <1>7, <1>13
<1>16. /\ parent'[p] = g /\ parent'[c] = g /\ parent'[g] = q
       /\ x # NULL => x \in Key /\ parent'[x] = p
       /\ y # NULL => y \in Key /\ parent'[y] = c
  <2>1. p # x /\ p # y /\ c # x /\ c # y /\ g # x /\ g # y
    BY <1>1, <1>2, <1>3, <1>4, <1>5
  <2> QED BY <2>1, <1>1, <1>2, <1>3, <1>4, <1>5, <1>8, <1>14
<1>17. \A n \in nodes : n # x /\ n # y /\ n # p /\ n # c /\ n # g =>
         parent'[n] = parent[n]
  BY <1>1, <1>8
<1>18. LinksAgree'
  <2>1. root' # NULL /\ root' \in nodes' /\ parent'[root'] = NULL
    <3>1. CASE q = NULL
      BY <3>1, <1>1, <1>3, <1>11, <1>16
    <3>2. CASE q # NULL
      <4>1. root # NULL /\ root \in nodes /\ parent[root] = NULL
        BY <1>1 DEF TreeInv, LinksAgree
      <4>2. root # x /\ root # y /\ root # p /\ root # c /\ root # g
        <5>1. parent[p] # NULL /\ parent[c] # NULL /\ parent[g] # NULL
          BY <3>2, <1>1, <1>2, <1>3
        <5>2. x # NULL => parent[x] # NULL
          BY <1>3, <1>4
        <5>3. y # NULL => parent[y] # NULL
          BY <1>3, <1>5
        <5> QED BY <4>1, <5>1, <5>2, <5>3
      <4> QED BY <3>2, <4>1, <4>2, <1>1, <1>11, <1>17
    <3> QED BY <3>1, <3>2
  <2>2. ASSUME NEW n \in nodes, NEW d \in Side, child'[d][n] # NULL
        PROVE  child'[d][n] \in nodes /\ parent'[child'[d][n]] = n
    <3>1. CASE n = g
      BY <3>1, <1>1, <1>2, <1>14, <1>16
    <3>2. CASE n = c /\ d = o
      BY <2>2, <3>2, <1>5, <1>14, <1>16
    <3>3. CASE n = p /\ d = s
      BY <2>2, <3>3, <1>4, <1>14, <1>16
    <3>4. CASE n # g /\ ~(n = c /\ d = o) /\ ~(n = p /\ d = s) /\ child[d][n] = p
      <4>1. parent[p] = n
        BY <3>4, <1>1, <1>13
      <4>2. n = q /\ n # c /\ n # p
        BY <4>1, <1>1, <1>6
      <4>3. child'[d][n] = g
        BY <4>2, <3>4, <1>15
      <4> QED BY <4>2, <4>3, <1>3, <1>16
    <3>5. CASE n # g /\ ~(n = c /\ d = o) /\ ~(n = p /\ d = s) /\ child[d][n] # p
      <4>1. child'[d][n] = child[d][n]
        <5>1. CASE n # c /\ n # p
          BY <5>1, <3>5, <1>15
        <5>2. CASE n = c
          BY <5>2, <3>5, <1>1, <1>14
        <5>3. CASE n = p
          BY <5>3, <3>5, <1>1, <1>14
        <5> QED BY <5>1, <5>2, <5>3
      <4>2. child[d][n] \in nodes /\ parent[child[d][n]] = n
        BY <2>2, <4>1, <1>13
      <4>3. child[d][n] # c
        <5> SUFFICES ASSUME child[d][n] = c PROVE FALSE
          OBVIOUS
        <5>1. n = p
          BY <4>2, <1>2
        <5>2. d = o
          BY <5>1, <3>5, <1>1
        <5> QED BY <5>1, <5>2, <1>2
      <4>4. child[d][n] # g
        <5> SUFFICES ASSUME child[d][n] = g PROVE FALSE
          OBVIOUS
        <5>1. n = c
          BY <4>2, <1>3
        <5>2. d = s
          BY <5>1, <3>5, <1>1
        <5> QED BY <5>1, <5>2, <1>3
      <4>5. child[d][n] # x /\ child[d][n] # y
        BY <2>2, <4>1, <4>2, <3>5, <1>4, <1>5
      <4> QED BY <4>1, <4>2, <4>3, <4>4, <4>5, <3>5, <1>17
    <3> QED BY <3>1, <3>2, <3>3, <3>4, <3>5
  <2>3. ASSUME NEW n \in nodes
        PROVE  child'[s][n] # NULL => child'[s][n] # child'[o][n]
    <3>1. child[s][n] # NULL => child[s][n] # child[o][n]
      BY <1>1, ChildFacts
    <3>2. CASE n = g
      BY <3>2, <1>2, <1>14
    <3>3. CASE n = c
      <4>1. child[s][c] # NULL => parent[child[s][c]] = c
        BY <1>2, <1>13
      <4>2. y # NULL => parent[y] # c
        BY <1>3, <1>5
      <4> QED BY <3>3, <4>1, <4>2, <1>14
    <3>4. CASE n = p
      <4>1. child[o][p] # NULL => parent[child[o][p]] = p
        BY <1>1, <1>13
      <4>2. x # NULL => parent[x] # p
        BY <1>3, <1>4
      <4> QED BY <3>4, <4>1, <4>2, <1>14
    <3>5. CASE n # g /\ n # c /\ n # p
      <4>1. child[s][n] # g /\ child[o][n] # g
        BY <3>5, <1>1, <1>3, <1>13
      <4> QED BY <3>1, <3>5, <4>1, <1>1, <1>3, <1>15
    <3> QED BY <3>2, <3>3, <3>4, <3>5
  <2>4. ASSUME NEW n \in nodes, parent'[n] # NULL
        PROVE  parent'[n] \in nodes /\ \E d \in Side : child'[d][parent'[n]] = n
    <3>1. CASE n = x
      BY <3>1, <1>1, <1>4, <1>14, <1>16
    <3>2. CASE n = y
      BY <3>2, <1>1, <1>2, <1>5, <1>14, <1>16
    <3>3. CASE n = p
      BY <3>3, <1>1, <1>3, <1>14, <1>16
    <3>4. CASE n = c
      BY <3>4, <1>1, <1>3, <1>14, <1>16
    <3>5. CASE n = g
      <4>1. parent'[g] = q /\ q # NULL
        BY <2>4, <3>5, <1>16
      <4>2. PICK t \in Side : child[t][q] = p
        BY <4>1, <1>6
      <4>3. child'[t][q] = g
        BY <4>1, <4>2, <1>6, <1>15
      <4> QED BY <4>1, <4>3, <3>5, <1>6
    <3>6. CASE n # x /\ n # y /\ n # p /\ n # c /\ n # g
      <4>1. parent'[n] = parent[n]
        BY <3>6, <1>17
      <4>2. parent[n] \in nodes /\ \E d \in Side : child[d][parent[n]] = n
        BY <2>4, <4>1 DEF TreeInv, LinksAgree
      <4>3. PICK d \in Side : child[d][parent[n]] = n
        BY <4>2
      <4>4. child'[d][parent[n]] = n
        <5>1. CASE parent[n] = g
          BY <5>1, <4>3, <3>6, <1>1
        <5>2. CASE parent[n] = c
          BY <5>2, <4>3, <3>6, <1>1, <1>14
        <5>3. CASE parent[n] = p
          BY <5>3, <4>3, <3>6, <1>1, <1>14
        <5>4. CASE parent[n] # g /\ parent[n] # c /\ parent[n] # p
          BY <5>4, <4>2, <4>3, <3>6, <1>15
        <5> QED BY <5>1, <5>2, <5>3, <5>4
      <4> QED BY <4>1, <4>2, <4>4
    <3> QED BY <3>1, <3>2, <3>3, <3>4, <3>5, <3>6
  <2>5. ASSUME NEW n \in nodes, parent'[n] = NULL PROVE n = root'
    <3>1. n # x /\ n # y /\ n # p /\ n # c
      BY <2>5, <1>1, <1>2, <1>3, <1>16
    <3>2. CASE n = g
      BY <2>5, <3>2, <1>11, <1>16
    <3>3. CASE n # g
      <4>1. parent[n] = NULL
        BY <2>5, <3>1, <3>3, <1>17
      <4>2. n = root
        BY <4>1 DEF TreeInv, LinksAgree
      <4>3. q # NULL
        <5> SUFFICES ASSUME q = NULL PROVE FALSE
          OBVIOUS
        <5>1. p = root
          BY DEF TreeInv, LinksAgree
        <5> QED BY <5>1, <4>2, <3>1
      <4> QED BY <4>2, <4>3, <1>11
    <3> QED BY <3>2, <3>3
  <2>6. \A n \in nodes : child'["left"][n] # NULL => child'["left"][n] # child'["right"][n]
    BY <2>3, <1>1 DEF Side
  <2>7. nodes # {}
    BY <1>2
  <2> QED BY <1>1, <2>1, <2>2, <2>4, <2>5, <2>6, <2>7 DEF LinksAgree
<1>19. MarksHaveChild'
  <2> SUFFICES ASSUME NEW n \in nodes, balance'[n] \in Side
               PROVE  child'[balance'[n]][n] # NULL
    BY <1>1 DEF MarksHaveChild
  <2>1. n \in Key /\ n # p /\ n # c /\ n # g
    BY <1>1, <1>9 DEF Side
  <2>2. balance'[n] = balance[n] /\ child[balance[n]][n] # NULL
    BY <2>1, <1>9 DEF TreeInv, MarksHaveChild
  <2> QED BY <2>1, <2>2, <1>15, <1>1, <1>3
<1>20. \A z \in {x, y, child[s][c], child[o][p]} : z # NULL =>
         /\ z \in nodes /\ z \in Key /\ z \in under[z] /\ under[z] \subseteq under[p]
         /\ p \notin under[z] /\ c \notin under[z] /\ g \notin under[z]
         /\ z # q /\ q \notin under[z]
  <2>3. ASSUME child[s][c] # NULL
        PROVE  /\ child[s][c] \in nodes /\ child[s][c] \in under[child[s][c]]
               /\ under[child[s][c]] \subseteq under[p]
               /\ p \notin under[child[s][c]] /\ c \notin under[child[s][c]]
               /\ g \notin under[child[s][c]]
    <3>1. /\ child[s][c] \in nodes /\ child[s][c] \in under[child[s][c]]
          /\ under[child[s][c]] \subseteq under[c] /\ c \notin under[child[s][c]]
      BY <2>3, <1>2, ChildFacts
    <3>2. g \in Under(child[o][c])
      BY <1>3 DEF Under
    <3>3. g \notin Under(child[s][c])
      BY <3>2, <1>1, <1>2, SidesDisjoint
    <3> QED BY <2>3, <3>1, <3>3, <1>2 DEF Under
  <2>4. ASSUME child[o][p] # NULL
        PROVE  /\ child[o][p] \in nodes /\ child[o][p] \in under[child[o][p]]
               /\ under[child[o][p]] \subseteq under[p]
               /\ p \notin under[child[o][p]] /\ c \notin under[child[o][p]]
               /\ g \notin under[child[o][p]]
    <3>1. /\ child[o][p] \in nodes /\ child[o][p] \in under[child[o][p]]
          /\ under[child[o][p]] \subseteq under[p] /\ p \notin under[child[o][p]]
      BY <2>4, <1>1, ChildFacts
    <3>2. c \in Under(child[s][p]) /\ g \in Under(child[s][p])
      BY <1>2, <1>3 DEF Under
    <3>3. c \notin Under(child[o][p]) /\ g \notin Under(child[o][p])
      BY <3>2, <1>1, SidesDisjoint
    <3> QED BY <2>4, <3>1, <3>3 DEF Under
  <2>5. ASSUME NEW z \in {x, y, child[s][c], child[o][p]}, z # NULL
        PROVE  /\ z \in nodes /\ z \in under[z] /\ under[z] \subseteq under[p]
               /\ p \notin under[z] /\ c \notin under[z] /\ g \notin under[z]
    <3>1. x # NULL => /\ x \in nodes /\ x \in under[x] /\ under[x] \subseteq under[p]
                      /\ p \notin under[x] /\ c \notin under[x] /\ g \notin under[x]
      BY <1>2, <1>3, <1>4
    <3>2. y # NULL => /\ y \in nodes /\ y \in under[y] /\ under[y] \subseteq under[p]
                      /\ p \notin under[y] /\ c \notin under[y] /\ g \notin under[y]
      BY <1>2, <1>3, <1>5
    <3> QED BY <2>5, <2>3, <2>4, <3>1, <3>2
  <2>6. q \notin under[p]
    BY <1>1, <1>6 DEF TreeInv, SubtreesClosed
  <2>7. ASSUME NEW z \in {x, y, child[s][c], child[o][p]}, z # NULL
        PROVE  z \in Key /\ z # q /\ q \notin under[z]
    <3>1. z \in nodes /\ z \in under[z] /\ under[z] \subseteq under[p]
      BY <2>7, <2>5
    <3> QED BY <3>1, <2>6, <1>1
  <2> QED BY <2>5, <2>7, ZenonT(40)
<1>21. \A z \in {x, y, child[s][c], child[o][p]} : Under(z)' = Under(z)
  <2> SUFFICES ASSUME NEW z \in {x, y, child[s][c], child[o][p]}, z # NULL
               PROVE  under'[z] = under[z]
    BY DEF Under
  <2>1. z # p /\ z # c /\ z # g /\ z \in Key
    BY <1>20
  <2> QED BY <2>1, <1>10
<1>22. /\ under'[g] = under[p]
       /\ under'[c] = {c} \union Under(child[s][c]) \union Under(y)
       /\ under'[p] = {p} \union Under(child[o][p]) \union Under(x)
  BY <1>2, <1>3, <1>10, <1>14
<1>23. \A v \in nodes :
         /\ under[v] = {v} \union Under(child[s][v]) \union Under(child[o][v])
         /\ \A z \in Under(child[s][v]) : Before(s, z, v)
         /\ \A z \in Under(child[o][v]) : Before(s, v, z)
  BY <1>1, SidesInOrder
<1>24. SearchTree'
  <2>1. Under(root)' = nodes'
    <3>1. Under(root) = nodes
      BY DEF TreeInv, SearchTree
    <3>2. CASE q = NULL
      <4>1. p = root
        BY <3>2 DEF TreeInv, LinksAgree
      <4> QED BY <3>1, <3>2, <4>1, <1>1, <1>3, <1>11, <1>22 DEF Under
    <3>3. CASE q # NULL
      <4>1. root # NULL /\ root \in nodes /\ parent[root] = NULL
        BY <1>1 DEF TreeInv, LinksAgree
      <4>2. root # p /\ root # c /\ root # g
        BY <4>1, <3>3, <1>1, <1>2, <1>3
      <4> QED BY <3>1, <3>3, <4>1, <4>2, <1>1, <1>10, <1>11 DEF Under
    <3> QED BY <3>2, <3>3
  <2>2. ASSUME NEW n \in nodes, n # p, n # c, n # g, NEW d \in Side
        PROVE  Under(child[d][n])' = Under(child[d][n])
    <3>1. child'[d][n] = IF child[d][n] = p THEN g ELSE child[d][n]
      BY <2>2, <1>15
    <3>2. CASE child[d][n] = p
      BY <3>1, <3>2, <1>1, <1>3, <1>22 DEF Under
    <3>3. CASE child[d][n] # p /\ child[d][n] # NULL
      <4>1. child[d][n] \in nodes /\ child[d][n] # c /\ child[d][n] # g
        BY <2>2, <3>3, <1>2, <1>3, <1>13
      <4> QED BY <3>1, <3>3, <4>1, <1>1, <1>10 DEF Under
    <3>4. CASE child[d][n] = NULL
      BY <3>1, <3>4, <1>1 DEF Under
    <3> QED BY <3>2, <3>3, <3>4
  <2>3. Under(child[s][p])' = Under(x) /\ Under(child[o][p])' = Under(child[o][p])
    <3>1. x # NULL => under'[x] = under[x]
      BY <1>21 DEF Under
    <3>2. child[o][p] # NULL => under'[child[o][p]] = under[child[o][p]]
      BY <1>21 DEF Under
    <3> QED BY <3>1, <3>2, <1>14 DEF Under
  <2>4. Under(child[s][c])' = Under(child[s][c]) /\ Under(child[o][c])' = Under(y)
    <3>1. y # NULL => under'[y] = under[y]
      BY <1>21 DEF Under
    <3>2. child[s][c] # NULL => under'[child[s][c]] = under[child[s][c]]
      BY <1>21 DEF Under
    <3> QED BY <3>1, <3>2, <1>14 DEF Under
  <2>5. Under(child[s][g])' = under'[c] /\ Under(child[o][g])' = under'[p]
    BY <1>1, <1>2, <1>14 DEF Under
  <2>6. Under(c) = under[c] /\ Under(g) = under[g] /\ p \in Int /\ c \in Int /\ g \in Int
    BY <1>1, <1>2, <1>3 DEF Under
  <2>7. \A m1, m2, m3 \in Int : Before(s, m1, m2) /\ Before(s, m2, m3) => Before(s, m1, m3)
    BY DEF Before
  <2>10. \A m \in under[p] : m \in Int
    BY SidesInOrder
  <2>8. ASSUME NEW n \in nodes
        PROVE  /\ under'[n] = {n} \union Under(child[s][n])' \union Under(child[o][n])'
               /\ \A m \in Under(child[s][n])' : Before(s, m, n)
               /\ \A m \in Under(child[o][n])' : Before(s, n, m)
    <3>1. CASE n # p /\ n # c /\ n # g
      <4>1. under'[n] = under[n]
        BY <3>1, <1>1, <1>10
      <4>2. Under(child[s][n])' = Under(child[s][n]) /\ Under(child[o][n])' = Under(child[o][n])
        BY <3>1, <2>2, <1>1
      <4> QED BY <4>1, <4>2, <1>23
    <3>2. CASE n = p
      <4>1. \A m \in Under(x) : m \in Under(child[s][p])
        BY <1>2, <1>3, <1>4 DEF Under
      <4> QED BY <3>2, <4>1, <2>3, <1>22, <1>23, SMTT(30)
    <3>3. CASE n = c
      <4>1. \A m \in Under(y) : m \in Under(child[o][c])
        BY <1>3, <1>5 DEF Under
      <4> QED BY <3>3, <4>1, <2>4, <1>2, <1>22, <1>23, SMTT(30)
    <3>4. CASE n = g
      <4>1. g \in Under(child[o][c]) /\ g \in Under(child[s][p])
        BY <1>2, <1>3 DEF Under
      <4>2. /\ under[p] = {p} \union under[c] \union Under(child[o][p])
            /\ under[c] = {c} \union Under(child[s][c]) \union under[g]
            /\ under[g] = {g} \union Under(y) \union Under(x)
        BY <2>6, <1>2, <1>3, <1>23
      <4>3. Before(s, c, g) /\ Before(s, g, p)
        BY <4>1, <1>2, <1>23
      <4>4. \A m \in Under(child[s][c]) : Before(s, m, g)
        <5>1. \A m \in Under(child[s][c]) : m \in Int /\ Before(s, m, c)
          BY <4>2, <2>10, <1>2, <1>23
        <5> QED BY <5>1, <4>3, <2>6, <2>7
      <4>5. \A m \in Under(child[o][p]) : Before(s, g, m)
        <5>1. \A m \in Under(child[o][p]) : m \in Int /\ Before(s, p, m)
          BY <4>2, <2>10, <1>23
        <5> QED BY <5>1, <4>3, <2>6, <2>7
      <4>6. (\A m \in Under(y) : Before(s, m, g)) /\ (\A m \in Under(x) : Before(s, g, m))
        BY <1>3, <1>23
      <4>7. under'[g] = {g} \union under'[c] \union under'[p]
        BY <4>2, <1>22
      <4>8. \A m \in under'[c] : Before(s, m, g)
        BY <4>3, <4>4, <4>6, <1>22
      <4>9. \A m \in under'[p] : Before(s, g, m)
        BY <4>3, <4>5, <4>6, <1>22
      <4> QED BY <3>4, <4>7, <4>8, <4>9, <2>5
    <3> QED BY <3>1, <3>2, <3>3, <3>4
  <2>9. ASSUME NEW n \in nodes
        PROVE  /\ under'[n] = {n} \union Under(child["left"][n])'
                                \union Under(child["right"][n])'
               /\ \A m \in Under(child["left"][n])' : m < n
               /\ \A m \in Under(child["right"][n])' : n < m
    <3>1. CASE s = "left" /\ o = "right"
      BY <2>8, <3>1 DEF Before
    <3>2. CASE s = "right" /\ o = "left"
      BY <2>8, <3>2 DEF Before
    <3> QED BY <3>1, <3>2, <1>1 DEF Side, Other
  <2> QED BY <2>1, <2>9, <1>1 DEF SearchTree
<1>25. SubtreesClosed'
  <2>1. \A n \in nodes : \A m \in under[n] :
          /\ m \in nodes /\ m \in Key
          /\ m # n => parent[m] \in under[n]
          /\ \A d \in Side : child[d][m] # NULL => child[d][m] \in under[n]
    BY <1>1 DEF TreeInv, SubtreesClosed
  <2>2. ASSUME NEW n \in nodes, n # p, n # c, n # g, NEW m \in under'[n]
        PROVE  /\ m \in nodes
               /\ m # n => parent'[m] \in under'[n]
               /\ \A d \in Side : child'[d][m] # NULL => child'[d][m] \in under'[n]
    <3>1. under'[n] = under[n] /\ m \in under[n] /\ m \in nodes /\ m \in Key
      BY <2>1, <2>2, <1>1, <1>10
    <3>2. g \in under[n] => c \in under[n]
      BY <2>1, <2>2, <1>3
    <3>3. c \in under[n] => p \in under[n] /\ g \in under[n]
      BY <2>1, <2>2, <1>1, <1>2, <1>3
    <3>4. p \in under[n] => c \in under[n] /\ q \in under[n]
      BY <2>1, <2>2, <1>1, <1>2
    <3>5. m # n => parent'[m] \in under[n]
      <4> SUFFICES ASSUME m # n PROVE parent'[m] \in under[n]
        OBVIOUS
      <4>1. parent[m] \in under[n]
        BY <3>1, <2>1
      <4>2. CASE m = x
        BY <4>1, <4>2, <3>1, <3>2, <3>3, <1>1, <1>4, <1>16
      <4>3. CASE m = y
        BY <4>1, <4>3, <3>1, <3>2, <1>1, <1>5, <1>16
      <4>4. CASE m = p \/ m = c \/ m = g
        BY <4>4, <3>1, <3>2, <3>3, <3>4, <1>16
      <4>5. CASE m # x /\ m # y /\ m # p /\ m # c /\ m # g
        BY <4>1, <4>5, <3>1, <1>17
      <4> QED BY <4>2, <4>3, <4>4, <4>5
    <3>6. ASSUME NEW d \in Side, child'[d][m] # NULL PROVE child'[d][m] \in under[n]
      <4>1. child[d][m] # NULL => child[d][m] \in under[n]
        BY <3>1, <2>1
      <4>2. g \in under[n] => (x # NULL => x \in under[n]) /\ (y # NULL => y \in under[n])
        BY <2>1, <1>1
      <4>3. CASE m = g
        BY <4>3, <3>1, <3>2, <3>3, <1>1, <1>14
      <4>4. CASE m = c
        BY <4>1, <4>2, <4>4, <3>1, <3>3, <3>6, <1>1, <1>14
      <4>5. CASE m = p
        BY <4>1, <4>2, <4>5, <3>1, <3>3, <3>4, <3>6, <1>1, <1>14
      <4>6. CASE m # g /\ m # c /\ m # p
        BY <4>1, <4>6, <3>1, <3>3, <3>4, <3>6, <1>1, <1>15
      <4> QED BY <4>3, <4>4, <4>5, <4>6
    <3> QED BY <3>1, <3>5, <3>6
  <2>3. ASSUME NEW m \in under'[g]
        PROVE  /\ m \in nodes
               /\ m # g => parent'[m] \in under'[g]
               /\ \A d \in Side : child'[d][m] # NULL => child'[d][m] \in under'[g]
    <3>1. under'[g] = under[p] /\ m \in under[p] /\ m \in nodes /\ m \in Key
      BY <2>1, <2>3, <1>1, <1>22
    <3>2. /\ p \in under[p] /\ c \in under[p] /\ g \in under[p]
          /\ x # NULL => x \in under[p]
          /\ y # NULL => y \in under[p]
      BY <1>2, <1>3, <1>4, <1>5
    <3>3. m # g => parent'[m] \in under[p]
      <4>1. CASE m = x \/ m = y \/ m = p \/ m = c
        BY <4>1, <3>1, <3>2, <1>1, <1>16
      <4>2. CASE m # x /\ m # y /\ m # p /\ m # c /\ m # g
        BY <4>2, <3>1, <2>1, <1>17
      <4> QED BY <4>1, <4>2
    <3>4. ASSUME NEW d \in Side, child'[d][m] # NULL PROVE child'[d][m] \in under[p]
      <4>1. child[d][m] # NULL => child[d][m] \in under[p]
        BY <3>1, <2>1
      <4>2. CASE m = g \/ m = c \/ m = p
        BY <4>1, <4>2, <3>2, <3>4, <1>1, <1>14
      <4>3. CASE m # g /\ m # c /\ m # p
        BY <4>1, <4>3, <3>1, <3>2, <3>4, <1>15
      <4> QED BY <4>2, <4>3
    <3> QED BY <3>1, <3>3, <3>4
  <2>4. ASSUME NEW w \in {p, c}, NEW m \in under'[w]
        PROVE  /\ m \in nodes
               /\ m # w => parent'[m] \in under'[w]
               /\ \A d \in Side : child'[d][m] # NULL => child'[d][m] \in under'[w]
    <3>1. \A z \in {x, y, child[s][c], child[o][p]} : z # NULL => Under(z) = under[z]
      BY DEF Under
    <3>2. CASE m = w
      <4>1. \A d \in Side : child'[d][w] # NULL =>
              child'[d][w] \in under'[w]
        <5>1. ASSUME NEW z \in {x, y, child[s][c], child[o][p]}, z # NULL
              PROVE  z \in Under(z)
          <6>1. z \in under[z]
            BY <5>1, <1>20
          <6>2. Under(z) = under[z]
            BY <5>1 DEF Under
          <6> QED BY <6>1, <6>2
        <5>2. CASE w = p
          BY <5>1, <5>2, <1>1, <1>14, <1>22
        <5>3. CASE w = c
          BY <5>1, <5>3, <1>1, <1>14, <1>22
        <5> QED BY <5>2, <5>3
      <4> QED BY <3>2, <4>1, <1>1, <1>2
    <3>3. ASSUME NEW z \in {x, y, child[s][c], child[o][p]}, z # NULL,
                 m \in under[z], parent'[z] = w, under[z] \subseteq under'[w]
          PROVE  /\ m \in nodes
                 /\ parent'[m] \in under'[w]
                 /\ \A d \in Side : child'[d][m] # NULL => child'[d][m] \in under'[w]
      <4>1. /\ z \in nodes /\ m \in nodes /\ m # p /\ m # c /\ m # g
            /\ g \notin under[z] /\ p \notin under[z]
        <5>1. z \in nodes /\ p \notin under[z] /\ c \notin under[z] /\ g \notin under[z]
          BY <3>3, <1>20
        <5> QED BY <3>3, <5>1, <2>1
      <4>2. w \in under'[w]
        BY <1>22
      <4>3. parent'[m] \in under'[w]
        <5>1. CASE m = z
          BY <5>1, <3>3, <4>2
        <5>2. CASE m # z
          <6>1. parent[m] \in under[z]
            BY <5>2, <3>3, <4>1, <2>1
          <6>2. m # x /\ m # y
            BY <4>1, <6>1, <1>1, <1>4, <1>5
          <6> QED BY <6>1, <6>2, <4>1, <3>3, <1>17
        <5> QED BY <5>1, <5>2
      <4>4. ASSUME NEW d \in Side, child'[d][m] # NULL PROVE child'[d][m] \in under'[w]
        <5>1. child[d][m] # NULL => child[d][m] \in under[z]
          BY <3>3, <4>1, <2>1
        <5> QED BY <4>1, <4>4, <5>1, <3>3, <1>1, <1>15
      <4> QED BY <4>1, <4>3, <4>4
    <3>4. CASE m # w
      <4>1. CASE w = c
        <5>1. (child[s][c] # NULL /\ m \in under[child[s][c]]) \/ (y # NULL /\ m \in under[y])
          BY <3>4, <4>1, <2>4, <1>22 DEF Under
        <5>2. child[s][c] # NULL =>
                parent'[child[s][c]] = c /\ under[child[s][c]] \subseteq under'[c]
          <6>1. child[s][c] # NULL => child[s][c] \in nodes /\ parent[child[s][c]] = c
            BY <1>2, <1>13
          <6>2. child[s][c] # NULL => /\ child[s][c] # x /\ child[s][c] # y /\ child[s][c] # p
                                      /\ child[s][c] # c /\ child[s][c] # g
            BY <6>1, <1>3, <1>4, <1>5, <1>20
          <6> QED BY <6>1, <6>2, <3>1, <1>17, <1>22
        <5>3. y # NULL => parent'[y] = c /\ under[y] \subseteq under'[c]
          BY <3>1, <1>16, <1>22
        <5> QED BY <3>3, <4>1, <5>1, <5>2, <5>3
      <4>2. CASE w = p
        <5>1. (child[o][p] # NULL /\ m \in under[child[o][p]]) \/ (x # NULL /\ m \in under[x])
          BY <3>4, <4>2, <2>4, <1>22 DEF Under
        <5>2. child[o][p] # NULL =>
                parent'[child[o][p]] = p /\ under[child[o][p]] \subseteq under'[p]
          <6>1. child[o][p] # NULL => child[o][p] \in nodes /\ parent[child[o][p]] = p
            BY <1>1, <1>13
          <6>2. child[o][p] # NULL => /\ child[o][p] # x /\ child[o][p] # y /\ child[o][p] # p
                                      /\ child[o][p] # c /\ child[o][p] # g
            BY <6>1, <1>3, <1>4, <1>5, <1>20
          <6> QED BY <6>1, <6>2, <3>1, <1>17, <1>22
        <5>3. x # NULL => parent'[x] = p /\ under[x] \subseteq under'[p]
          BY <3>1, <1>16, <1>22
        <5> QED BY <3>3, <4>2, <5>1, <5>2, <5>3
      <4> QED BY <4>1, <4>2
    <3> QED BY <3>2, <3>4, <3>3
  <2> QED BY <2>2, <2>3, <2>4, <1>1 DEF SubtreesClosed
<1> QED BY <1>12, <1>18, <1>19, <1>24, <1>25

-----------------------------------------------------------------------------
(* The other steps *)

LEMMA SameTree ==
  ASSUME TreeInv, UNCHANGED treeVars
  PROVE  TreeType' /\ LinksAgree' /\ MarksHaveChild' /\ SearchTree' /\ SubtreesClosed'
<1>1. /\ nodes' = nodes /\ root' = root /\ child' = child /\ parent' = parent
      /\ balance' = balance /\ under' = under
  BY DEF treeVars
<1>2. TreeType'
  BY <1>1 DEF TreeInv, TypeOK, TreeType
<1>3. LinksAgree' /\ MarksHaveChild'
  BY <1>1 DEF TreeInv, LinksAgree, MarksHaveChild
<1>4. SearchTree' /\ SubtreesClosed'
  BY <1>1 DEF TreeInv, SearchTree, SubtreesClosed, Under
<1> QED BY <1>2, <1>3, <1>4

\* The type of the variables of the running call.
CallType ==
  /\ pc \in {"idle", "search", "grew"}
  /\ request \in Requests
  /\ at \in Pointer
  /\ side \in Side
  /\ prev \in Pointer
  /\ result \in Pointer
  /\ fresh \in BOOLEAN

LEMMA TypeSplit == TypeOK <=> TreeType /\ CallType
BY DEF TypeOK, TreeType, CallType

\* A step that ends the call keeps the invariant if it keeps the tree's.
LEMMA FinishStep ==
  ASSUME Inv, Finish,
         TreeType' /\ LinksAgree' /\ MarksHaveChild' /\ SearchTree' /\ SubtreesClosed'
  PROVE  Inv'
<1>1. CallType'
  <2>1. CallType /\ request.key \in Pointer
    BY TypeSplit DEF Inv, TreeInv, CallType, Requests, Pointer
  <2> QED BY <2>1 DEF Finish, CallType
<1>2. TypeOK'
  BY <1>1 DEF TypeOK, TreeType, CallType
<1>3. SearchOnTrack' /\ GrewOnTrack'
  BY DEF Finish, SearchOnTrack, GrewOnTrack
<1> QED BY <1>2, <1>3 DEF Inv, TreeInv

LEMMA CallStep == ASSUME Inv, NEW r \in Requests, Call(r) PROVE Inv'
<1>1. TreeInv /\ UNCHANGED treeVars /\ pc' = "search" /\ at' = NULL /\ request' = r
  BY DEF Inv, Call
<1>2. TreeType' /\ LinksAgree' /\ MarksHaveChild' /\ SearchTree' /\ SubtreesClosed'
  BY <1>1, SameTree
<1>3. TypeOK'
  <2>1. CallType'
    BY <1>1 DEF Call, Inv, TreeInv, TypeOK, CallType, Pointer
  <2> QED BY <2>1, <1>2 DEF TypeOK, TreeType, CallType
<1>4. SearchOnTrack'
  <2>1. Slot' = root'
    BY <1>1 DEF Slot
  <2>2. Under(root)' = nodes'
    BY <1>2 DEF SearchTree
  <2>3. Under(Slot)' = Under(root)'
    BY <2>1 DEF Under
  <2> QED BY <1>1, <2>2, <2>3 DEF SearchOnTrack
<1>5. GrewOnTrack'
  BY <1>1 DEF GrewOnTrack
<1> QED BY <1>2, <1>3, <1>4, <1>5 DEF Inv, TreeInv

\* A node that is a child lies below n exactly when it is a child of n or its
\* parent lies below n.
LEMMA BelowParent ==
  ASSUME TreeInv, NEW n \in nodes, NEW d \in Side, NEW v \in Under(child[d][n])
  PROVE  v \in nodes /\ (child[d][n] = v \/ parent[v] \in Under(child[d][n]))
<1>1. child[d][n] # NULL /\ v \in under[child[d][n]]
  BY DEF Under
<1>2. child[d][n] \in nodes
  BY <1>1 DEF TreeInv, LinksAgree
<1> QED BY <1>1, <1>2 DEF TreeInv, SubtreesClosed, Under

LEMMA DescendStep == ASSUME Inv, Descend PROVE Inv'
<1> DEFINE v == Slot
           k == request.key
<1>1. /\ TreeInv /\ UNCHANGED treeVars
      /\ pc = "search" /\ pc' = "search" /\ request' = request
      /\ v # NULL /\ v # k /\ at' = v
      /\ side' = IF v < k THEN "right" ELSE "left"
  BY DEF Inv, Descend
<1>2. TreeType' /\ LinksAgree' /\ MarksHaveChild' /\ SearchTree' /\ SubtreesClosed'
  BY <1>1, SameTree
<1>3. v \in nodes /\ v \in Key /\ v \in Int /\ k \in Key /\ k \in Int /\ nodes \subseteq Int
      /\ NULL \notin Key /\ nodes \subseteq Key
  <2>1. v \in nodes
    BY <1>1 DEF Inv, SearchOnTrack, TreeInv, TypeOK, LinksAgree, Slot
  <2> QED BY <2>1, KeyAssumption DEF Inv, TreeInv, TypeOK, Requests
<1>4. TypeOK'
  <2>1. CallType'
    BY <1>1, <1>3 DEF Descend, Inv, TreeInv, TypeOK, CallType, Pointer, Side
  <2> QED BY <2>1, <1>2 DEF TypeOK, TreeType, CallType
<1>5. (side' = "left" => k < v) /\ (side' = "right" => v < k)
  BY <1>1, <1>3
<1>6. ASSUME NEW n \in nodes
      PROVE  /\ v \in Under(child["left"][n]) => k < n
             /\ v \in Under(child["right"][n]) => n < k
  <2>1. ASSUME NEW d \in Side, v \in Under(child[d][n])
        PROVE  /\ at # NULL
               /\ (child[d][n] = v /\ n = at /\ d = side) \/ at \in Under(child[d][n])
    <3>1. child[d][n] = v \/ parent[v] \in Under(child[d][n])
      BY <2>1, <1>1, BelowParent
    <3>2. child[d][n] = v => parent[v] = n
      BY <1>1, <1>3 DEF TreeInv, LinksAgree
    <3>3. at # NULL
      <4> SUFFICES ASSUME at = NULL PROVE FALSE
        OBVIOUS
      <4>1. parent[v] = NULL
        BY <1>1 DEF Slot, TreeInv, LinksAgree
      <4>2. parent[v] # NULL
        BY <3>1, <3>2, <1>1, <1>3, BelowParent
      <4> QED BY <4>1, <4>2
    <3>4. at \in nodes /\ child[side][at] = v /\ side \in Side
      BY <3>3, <1>1 DEF Slot, Inv, SearchOnTrack, TreeInv, TypeOK
    <3>5. parent[v] = at
      BY <3>4, <1>1 DEF TreeInv, LinksAgree
    <3>6. child[d][n] = v => n = at /\ d = side
      BY <3>2, <3>4, <3>5, <1>1, ChildFacts DEF Side, Other
    <3> QED BY <3>1, <3>3, <3>5, <3>6
  <2>2. at # NULL =>
          /\ side = "left" => k < at
          /\ side = "right" => at < k
          /\ at \in Under(child["left"][n]) => k < n
          /\ at \in Under(child["right"][n]) => n < k
    BY <1>1 DEF Inv, SearchOnTrack
  <2> QED BY <2>1, <2>2 DEF Side
<1>7. ASSUME k \in nodes PROVE k \in Under(child[side'][v])
  <2>1. k \in under[v]
    BY <1>7, <1>1 DEF Inv, SearchOnTrack, Under
  <2>2. k \in Under(child["left"][v]) \/ k \in Under(child["right"][v])
    BY <2>1, <1>1, <1>3 DEF TreeInv, SearchTree
  <2>3. (k \in Under(child["left"][v]) => k < v) /\ (k \in Under(child["right"][v]) => v < k)
    BY <1>1, <1>3 DEF TreeInv, SearchTree
  <2> QED BY <2>2, <2>3, <1>1, <1>3
<1>8. SearchOnTrack'
  <2>1. /\ nodes' = nodes /\ child' = child /\ under' = under
    BY <1>1 DEF treeVars
  <2>2. \A n, d : Under(child[d][n])' = Under(child[d][n])
    BY <2>1 DEF Under
  <2>3. Under(Slot)' = Under(child[side'][v])
    BY <2>1, <1>1 DEF Under, Slot
  <2> QED BY <2>1, <2>2, <2>3, <1>1, <1>3, <1>5, <1>6, <1>7 DEF SearchOnTrack
<1>9. GrewOnTrack'
  BY <1>1 DEF GrewOnTrack
<1> QED BY <1>2, <1>4, <1>8, <1>9 DEF Inv, TreeInv

LEMMA ReturnStep == ASSUME Inv, Return PROVE Inv'
<1>1. TreeInv /\ UNCHANGED treeVars /\ pc' = "idle"
  BY DEF Inv, Return
<1>2. TreeType' /\ LinksAgree' /\ MarksHaveChild' /\ SearchTree' /\ SubtreesClosed'
  BY <1>1, SameTree
<1>3. Slot \in Pointer
  BY <1>1 DEF Slot, TreeInv, TypeOK, Pointer
<1>4. TypeOK'
  <2>1. CallType'
    BY <1>1, <1>3 DEF Return, TreeInv, TypeOK, CallType
  <2> QED BY <2>1, <1>2 DEF TypeOK, TreeType, CallType
<1>5. SearchOnTrack' /\ GrewOnTrack'
  BY <1>1 DEF SearchOnTrack, GrewOnTrack
<1> QED BY <1>2, <1>4, <1>5 DEF Inv, TreeInv

LEMMA GrewPastRootStep == ASSUME Inv, GrewPastRoot PROVE Inv'
<1>1. TreeInv /\ UNCHANGED treeVars /\ Finish
  BY DEF Inv, GrewPastRoot
<1> QED BY <1>1, SameTree, FinishStep

\* Absorb and Climb change one mark; a mark on the grown side has a child.
LEMMA MarkStep ==
  ASSUME Inv, pc = "grew", at # NULL, NEW b \in {"balanced", Grown},
         balance' = [balance EXCEPT ![at] = b],
         UNCHANGED <<nodes, root, child, parent, under>>
  PROVE  /\ TreeType' /\ LinksAgree' /\ MarksHaveChild' /\ SearchTree' /\ SubtreesClosed'
         /\ balance'[at] = b
<1>1. TreeInv /\ at \in nodes /\ prev \in nodes /\ Grown \in Side /\ child[Grown][at] = prev
  BY GrownSide DEF Inv
<1>2. /\ nodes' = nodes /\ root' = root /\ child' = child /\ parent' = parent
      /\ under' = under
  OBVIOUS
<1>3. /\ at \in Key /\ prev # NULL /\ b \in Balance
      /\ nodes \subseteq Key /\ balance \in [Key -> Balance]
  BY <1>1, KeyAssumption DEF TreeInv, TypeOK, Balance
<1>4. TreeType'
  BY <1>1, <1>2, <1>3 DEF TreeInv, TypeOK, TreeType
<1>5. LinksAgree'
  BY <1>1, <1>2 DEF TreeInv, LinksAgree
<1>6. SearchTree' /\ SubtreesClosed'
  BY <1>1, <1>2 DEF TreeInv, SearchTree, SubtreesClosed, Under
<1>7. MarksHaveChild'
  <2> SUFFICES ASSUME NEW n \in nodes, balance'[n] \in Side
               PROVE  child[balance'[n]][n] # NULL
    BY <1>2 DEF MarksHaveChild
  <2>1. CASE n = at
    BY <2>1, <1>1, <1>3 DEF Side
  <2>2. CASE n # at
    BY <2>2, <1>1, <1>3 DEF TreeInv, MarksHaveChild
  <2> QED BY <2>1, <2>2
<1> QED BY <1>3, <1>4, <1>5, <1>6, <1>7

LEMMA AbsorbStep == ASSUME Inv, Absorb PROVE Inv'
<1>1. Finish /\ TreeType' /\ LinksAgree' /\ MarksHaveChild' /\ SearchTree' /\ SubtreesClosed'
  BY MarkStep DEF Absorb
<1> QED BY <1>1, FinishStep

LEMMA ClimbStep == ASSUME Inv, Climb PROVE Inv'
<1>1. /\ TreeType' /\ LinksAgree' /\ MarksHaveChild' /\ SearchTree' /\ SubtreesClosed'
      /\ balance'[at] = Grown
  BY MarkStep DEF Climb
<1>2. TreeInv /\ at \in nodes /\ at \in Key /\ Grown \in Side /\ pc = "grew"
  BY GrownSide DEF Inv, Climb, TreeInv, TypeOK
<1>3. TypeOK'
  <2>1. CallType'
    BY <1>2 DEF Climb, TreeInv, TypeOK, CallType, Pointer
  <2> QED BY <2>1, <1>1 DEF TypeOK, TreeType, CallType
<1>4. GrewOnTrack'
  BY <1>1, <1>2 DEF Climb, GrewOnTrack, Inv, Side
<1>5. SearchOnTrack'
  BY <1>2 DEF Climb, SearchOnTrack
<1> QED BY <1>1, <1>3, <1>4, <1>5 DEF Inv, TreeInv

LEMMA RotateSingleStep == ASSUME Inv, RotateSingle PROVE Inv'
<1>1. /\ TreeInv /\ at \in nodes /\ prev # NULL /\ Grown \in Side
      /\ child[Grown][at] = prev /\ SingleRotation(at, prev, Grown) /\ Finish
  BY GrownSide, KeyAssumption DEF Inv, RotateSingle, TreeInv, TypeOK
<1>2. TreeType' /\ LinksAgree' /\ MarksHaveChild' /\ SearchTree' /\ SubtreesClosed'
  BY <1>1, SingleRotationStep
<1> QED BY <1>1, <1>2, FinishStep

\* The grandchild that a double rotation lifts exists.
LEMMA GrandchildExists ==
  ASSUME Inv, pc = "grew", at # NULL, balance[at] = Grown, balance[prev] # Grown
  PROVE  child[Other(Grown)][prev] # NULL
<1>1. TreeInv /\ prev \in nodes /\ Grown \in Side
  BY GrownSide DEF Inv
<1>2. balance[prev] # "balanced" /\ balance[prev] \in Balance
  BY <1>1 DEF Inv, GrewOnTrack, TreeInv, TypeOK
<1>3. balance[prev] = Other(Grown) /\ balance[prev] \in Side
  BY <1>1, <1>2 DEF Balance, Side, Other
<1> QED BY <1>1, <1>3 DEF TreeInv, MarksHaveChild

LEMMA RotateDoubleStep == ASSUME Inv, RotateDouble PROVE Inv'
<1> DEFINE g == child[Other(Grown)][prev]
<1>1. /\ TreeInv /\ at \in nodes /\ prev # NULL /\ Grown \in Side
      /\ child[Grown][at] = prev /\ DoubleRotation(at, prev, g, Grown) /\ Finish
  BY GrownSide, KeyAssumption DEF Inv, RotateDouble, TreeInv, TypeOK
<1>2. g # NULL
  BY GrandchildExists DEF RotateDouble
<1>3. TreeType' /\ LinksAgree' /\ MarksHaveChild' /\ SearchTree' /\ SubtreesClosed'
  BY <1>1, <1>2, DoubleRotationStep
<1> QED BY <1>1, <1>3, FinishStep

-----------------------------------------------------------------------------
(* The invariant holds *)

LEMMA InitInv == Init => Inv
<1> SUFFICES ASSUME Init PROVE Inv
  OBVIOUS
<1>1. TypeOK
  BY KeyAssumption DEF Init, TypeOK, Pointer, Side, Balance
<1>2. LinksAgree /\ MarksHaveChild /\ SearchTree /\ SubtreesClosed
  BY DEF Init, LinksAgree, MarksHaveChild, SearchTree, SubtreesClosed, Under
<1>3. SearchOnTrack /\ GrewOnTrack
  BY DEF Init, SearchOnTrack, GrewOnTrack
<1> QED BY <1>1, <1>2, <1>3 DEF Inv, TreeInv

LEMMA StutterInv == ASSUME Inv, UNCHANGED vars PROVE Inv'
<1>1. /\ nodes' = nodes /\ root' = root /\ child' = child /\ parent' = parent
      /\ balance' = balance /\ under' = under /\ pc' = pc /\ request' = request
      /\ at' = at /\ side' = side /\ prev' = prev /\ result' = result /\ fresh' = fresh
  BY DEF vars
<1>2. UNCHANGED treeVars /\ TreeInv
  BY <1>1 DEF treeVars, Inv
<1>3. TreeType' /\ LinksAgree' /\ MarksHaveChild' /\ SearchTree' /\ SubtreesClosed'
  BY <1>2, SameTree
<1>4. TypeOK'
  BY <1>1, <1>2 DEF TreeInv, TypeOK
<1>5. SearchOnTrack'
  BY <1>1 DEF Inv, SearchOnTrack, Under, Slot
<1>6. GrewOnTrack'
  BY <1>1 DEF Inv, GrewOnTrack, Grown
<1> QED BY <1>3, <1>4, <1>5, <1>6 DEF Inv, TreeInv

LEMMA NextInv == Inv /\ [Next]_vars => Inv'
<1> SUFFICES ASSUME Inv, [Next]_vars PROVE Inv'
  OBVIOUS
<1>1. CASE Descend
  BY <1>1, DescendStep
<1>2. CASE Return
  BY <1>2, ReturnStep
<1>3. CASE Create
  BY <1>3, CreateStep
<1>4. CASE GrewPastRoot
  BY <1>4, GrewPastRootStep
<1>5. CASE Absorb
  BY <1>5, AbsorbStep
<1>6. CASE Climb
  BY <1>6, ClimbStep
<1>7. CASE RotateSingle
  BY <1>7, RotateSingleStep
<1>8. CASE RotateDouble
  BY <1>8, RotateDoubleStep
<1>9. ASSUME NEW r \in Requests, Call(r) PROVE Inv'
  BY <1>9, CallStep
<1>10. CASE UNCHANGED vars
  BY <1>10, StutterInv
<1> QED BY <1>1, <1>2, <1>3, <1>4, <1>5, <1>6, <1>7, <1>8, <1>9, <1>10 DEF Next, Step

\* The inductive invariant holds in every run, for every set of keys: the
\* shape of the tree and where each loop of avltree.c stands in it.
THEOREM InvHolds == Spec => []Inv
<1>1. Init => Inv
  BY InitInv
<1>2. Inv /\ [Next]_vars => Inv'
  BY NextInv
<1> QED BY <1>1, <1>2, PTL DEF Spec

\* Type correctness of the tree and of the running call.
THEOREM TypeCorrect == Spec => []TypeOK
<1>1. Inv => TypeOK
  BY DEF Inv, TreeInv
<1> QED BY <1>1, InvHolds, PTL

\* Whatever keys are added, and whatever rotations that takes, child and
\* parent pointers agree with each other and with tree_root.
THEOREM LinksStayConsistent == Spec => []LinksAgree
<1>1. Inv => LinksAgree
  BY DEF Inv, TreeInv
<1> QED BY <1>1, InvHolds, PTL

\* No rotation of rebalance_grew follows a null pointer.
THEOREM NoNullDereferenceHolds == Spec => []NoNullDereference
<1>1. Inv => NoNullDereference
  BY GrandchildExists DEF Inv, TreeInv, NoNullDereference
<1> QED BY <1>1, InvHolds, PTL

\* The tree stays a search tree and holds every key that was ever added.
THEOREM SearchTreeHolds == Spec => []SearchTree
<1>1. Inv => SearchTree
  BY DEF Inv, TreeInv
<1> QED BY <1>1, InvHolds, PTL

\* Between their turns the loops of search_routine and rebalance_grew stand
\* where the order of the keys says they should.
THEOREM LoopsStayOnTrack == Spec => []LoopsOnTrack
<1>1. Inv => LoopsOnTrack
  BY DEF Inv, TreeInv, LoopsOnTrack
<1> QED BY <1>1, InvHolds, PTL

-----------------------------------------------------------------------------
(* The tree implements the dictionary *)

LEMMA FinishAnswers ==
  ASSUME Inv, pc = "grew", Finish, nodes' = nodes
  PROVE  Dict!Answer
<1>1. request.kind = "create" /\ request.key \in nodes
  BY DEF Inv, GrewOnTrack
<1>2. Added = nodes \ {request.key} /\ Added' = nodes
  BY DEF Added, Finish
<1>3. (result # NULL /\ ~fresh)' = FALSE
  BY DEF Finish
<1>4. request' = request /\ (pc # "idle") /\ (pc # "idle")' = FALSE
  BY DEF Finish
<1> QED BY <1>1, <1>2, <1>3, <1>4 DEF Dict!Answer

LEMMA ReturnAnswers == ASSUME Inv, Return PROVE Dict!Answer
<1>1. /\ pc = "search" /\ pc' = "idle" /\ result' = Slot /\ fresh' = FALSE
      /\ nodes' = nodes /\ request' = request
      /\ Slot = request.key \/ (Slot = NULL /\ request.kind = "search")
  BY DEF Return, treeVars
<1>2. Added = nodes /\ Added' = nodes
  BY <1>1 DEF Added
<1>3. request.key # NULL /\ request.kind \in {"search", "create"}
  BY KeyAssumption DEF Inv, TreeInv, TypeOK, Requests
<1>4. (result # NULL /\ ~fresh)' = (request.key \in nodes)
  <2>1. CASE Slot = request.key
    <3>1. Slot \in nodes
      BY <2>1, <1>1, <1>3 DEF Inv, TreeInv, TypeOK, LinksAgree, SearchOnTrack, Slot
    <3> QED BY <3>1, <2>1, <1>1, <1>3
  <2>2. CASE Slot # request.key
    <3>1. Slot = NULL /\ request.key \notin nodes
      BY <2>2, <1>1 DEF Inv, SearchOnTrack, Under
    <3> QED BY <3>1, <1>1
  <2> QED BY <2>1, <2>2
<1>5. request.kind = "create" => request.key \in nodes
  <2>1. (result # NULL)' = (Slot # NULL)
    BY <1>1
  <2> QED BY <2>1, <1>1, <1>3, <1>4
<1>6. nodes = IF request.kind = "create" THEN nodes \union {request.key} ELSE nodes
  BY <1>5
<1>7. (pc # "idle") /\ (pc # "idle")' = FALSE
  BY <1>1
<1> QED BY <1>1, <1>2, <1>4, <1>6, <1>7 DEF Dict!Answer

LEMMA DictStep == Inv /\ [Next]_vars => [Dict!Next]_(Dict!vars)
<1> SUFFICES ASSUME Inv, [Next]_vars PROVE [Dict!Next]_(Dict!vars)
  OBVIOUS
<1>1. ASSUME request' = request, result' = result, fresh' = fresh,
             Added' = Added, (pc # "idle")' = (pc # "idle")
      PROVE  UNCHANGED Dict!vars
  BY <1>1 DEF Dict!vars
<1>2. CASE Descend
  BY <1>1, <1>2 DEF Descend, treeVars, Added
<1>3. CASE Return
  BY <1>3, ReturnAnswers DEF Dict!Next
<1>4. CASE Create
  <2>1. request.key \notin nodes /\ nodes' = nodes \union {request.key}
        /\ pc = "search" /\ pc' = "grew" /\ request' = request
    BY <1>4 DEF Create, Inv, SearchOnTrack, Under
  <2>2. Added' = Added
    BY <2>1 DEF Added
  <2> QED BY <2>1, <2>2, <1>1, <1>4 DEF Create
<1>5. CASE GrewPastRoot \/ Absorb \/ RotateSingle \/ RotateDouble
  <2>1. pc = "grew" /\ Finish /\ nodes' = nodes
    BY <1>5 DEF GrewPastRoot, Absorb, RotateSingle, RotateDouble,
                SingleRotation, DoubleRotation, treeVars
  <2> QED BY <2>1, FinishAnswers DEF Dict!Next
<1>6. CASE Climb
  BY <1>1, <1>6 DEF Climb, Added
<1>7. ASSUME NEW r \in Requests, Call(r) PROVE Dict!Next
  <2>1. /\ pc = "idle" /\ pc' = "search" /\ request' = r /\ nodes' = nodes
        /\ result' = result /\ fresh' = fresh
    BY <1>7 DEF Call, treeVars
  <2>2. Added' = Added
    BY <2>1 DEF Added
  <2>3. (pc # "idle") = FALSE /\ (pc # "idle")' = TRUE
    BY <2>1
  <2>4. Dict!Call(r)
    BY <2>1, <2>2, <2>3 DEF Dict!Call
  <2>5. r \in Dict!Requests
    BY DEF Requests, Dict!Requests
  <2> QED BY <2>4, <2>5 DEF Dict!Next
<1>8. CASE UNCHANGED vars
  BY <1>1, <1>8 DEF vars, Added
<1> QED BY <1>2, <1>3, <1>4, <1>5, <1>6, <1>7, <1>8 DEF Next, Step

\* For every set of keys the tree answers as the dictionary does: every call
\* of search_node and search_or_create_node tells truly whether its key had
\* been added, and adds it when it should.  (That calls return is only checked.)
THEOREM ImplementsDictSafety == Spec => Dict!Init /\ [][Dict!Next]_(Dict!vars)
<1>1. Init => Dict!Init
  BY DEF Init, Added, Dict!Init, Requests, Dict!Requests
<1> QED BY <1>1, DictStep, InvHolds, PTL DEF Spec

=============================================================================
