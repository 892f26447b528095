--------------------------- MODULE AvlTreeFile_proofs ---------------------------
(***************************************************************************)
(* Proofs about AvlTreeFile, for any finite set of integer keys and every  *)
(* search tree of them: depth_first_search calls back with each key once,  *)
(* in postorder, destroy_subtree frees each node once, and map_from_memory *)
(* restores what write_to_file has written, with any lists of applications.*)
(* The loops have no stack; the invariant recovers it as a set of nodes.   *)
(*                                                                         *)
(* Writing and mapping go through the cells of the file in order.  Where   *)
(* the cells of a node lie is a matter of the tree alone: Layout.  The     *)
(* writer has written, and the reader has read, what lies before Ahead.    *)
(***************************************************************************)
EXTENDS AvlTreeFile, FiniteSetTheorems, SequenceTheorems, TLAPS

-----------------------------------------------------------------------------
(* The inductive invariant *)

Node == nodes \union {NULL}

TreeTypes ==
  /\ nodes \subseteq Key
  /\ root \in Node
  /\ parent \in [nodes -> Node]
  /\ child \in [Side -> [nodes -> Node]]
  /\ visit \in [nodes -> SUBSET Side]
  /\ called \in Seq(nodes)
  /\ freed \subseteq nodes
  /\ pc \in {"idle", "walk", "destroy", "write", "map", "done"}

\* The side of its parent that a node belongs to.
SideOf(n) == IF n < parent[n] THEN "left" ELSE "right"

\* A parent comes before its children: no node is below itself.
Rooted == \E depth \in [nodes -> Nat] :
            \A n \in nodes : parent[n] # NULL => depth[parent[n]] < depth[n]

\* The pointers between the nodes that are not freed; the parents of the others are
\* still what they were.
TreeInv ==
  /\ Rooted
  /\ \A s \in Side, n \in nodes :
       child[s][n] # NULL => /\ child[s][n] \notin freed
                             /\ parent[child[s][n]] = n
                             /\ s = SideOf(child[s][n])
  /\ \A s \in Side, n \in freed : child[s][n] = NULL
  /\ \A n \in nodes : parent[n] # NULL => parent[n] # n
  /\ \A n \in nodes \ freed :
       parent[n] # NULL => parent[n] \notin freed /\ child[SideOf(n)][parent[n]] = n
  /\ root # NULL => root \notin freed /\ \A n \in nodes : (parent[n] = NULL <=> n = root)
  /\ root = NULL => freed = nodes

\* What each loop knows.
LoopInv ==
  /\ pc \in {"walk", "destroy", "write"} => this \in nodes \ freed /\ root # NULL
  /\ pc \in {"idle", "walk", "destroy"} => memory = <<>>
  /\ pc \in {"idle", "walk", "write", "map"} \/ memory # <<>> => freed = {}
  /\ pc \in {"idle", "destroy", "write", "map"} \/ memory # <<>> => called = <<>>
  /\ called = <<>> \/ freed = {}
  /\ freed # {} /\ pc = "done" => freed = nodes

\* The side of a node that was marked last.
Current(n) == IF "right" \in visit[n] THEN "right" ELSE "left"

\* P is the path from the root to the node that depth_first_search is at.  None of it
\* has been called back with yet; what hangs from a side that is marked has been, but
\* for the next node of the path, and nothing that hangs from the other sides has.
Path(P) ==
  /\ this \in P /\ root \in P
  /\ \A n \in P : /\ n \notin ToSet(called)
                  /\ n # root => parent[n] \in P
                  /\ visit[n] \in {{}, {"left"}, Side}
                  /\ n # this => (visit[n] # {} /\ child[Current(n)][n] \in P)
  /\ \A n \in P, s \in Side :
       child[s][n] # NULL =>
         IF s \notin visit[n] THEN child[s][n] \notin ToSet(called) \union P
         ELSE (n # this /\ s = Current(n)) \/ child[s][n] \in ToSet(called)
  /\ \A n \in ToSet(called) : n # root => parent[n] \in ToSet(called) \union P

\* A node is called back with after what hangs from it, and after what hangs from
\* its parent on its left.
Precedes(n, i) == \E j \in 1 .. i - 1 : called[j] = n

CalledInv ==
  /\ \A i, j \in DOMAIN called : called[i] = called[j] => i = j
  /\ \A i \in DOMAIN called :
       /\ \A s \in Side : child[s][called[i]] # NULL => Precedes(child[s][called[i]], i)
       /\ \A m \in nodes : m < called[i] /\ parent[m] = parent[called[i]] => Precedes(m, i)

WalkInv ==
  /\ CalledInv
  /\ pc = "walk" => \E P \in SUBSET nodes : Path(P)
  /\ called # <<>> /\ pc = "done" => ToSet(called) = nodes

IInv == TreeTypes /\ TreeInv /\ LoopInv /\ WalkInv

-----------------------------------------------------------------------------
(* Least and greatest elements.  The theorems on induction take an operator; the
   well-foundedness of the order of finite sets does not. *)

LEMMA LeastNatural ==
  ASSUME NEW T, T \subseteq Nat, T # {}
  PROVE  \E x \in T : \A y \in T : x <= y
<1> DEFINE Below(x) == 0 .. x - 1
           U == {Below(x) : x \in T}
<1>1. \A x \in T : Below(x) \in SUBSET Nat /\ IsFiniteSet(Below(x))
  BY FS_Interval
<1> HIDE DEF Below
<1>2. U \subseteq FiniteSubsetsOf(Nat) /\ U # {}
  BY <1>1 DEF FiniteSubsetsOf
<1>3. PICK b \in U : \A c \in U : ~(<<c, b>> \in StrictSubsetOrdering(Nat))
  <2> HIDE DEF U
  <2> QED BY <1>2, WFMin, FS_StrictSubsetOrderingWellFounded
<1>4. PICK x \in T : b = Below(x)
  OBVIOUS
<1>5. ASSUME NEW y \in T, y < x PROVE FALSE
  <2>1. Below(y) \subseteq Below(x) /\ y \in Below(x) /\ y \notin Below(y)
    BY <1>5 DEF Below
  <2>2. <<Below(y), Below(x)>> \in StrictSubsetOrdering(Nat)
    BY <1>1, <2>1 DEF StrictSubsetOrdering
  <2> QED BY <1>3, <1>4, <2>2
<1> QED BY <1>5

LEMMA FiniteExtremes ==
  ASSUME NEW T, T \subseteq Int, T # {}, IsFiniteSet(T)
  PROVE  /\ \E x \in T : \A y \in T : x <= y
         /\ \E x \in T : \A y \in T : y <= x
<1> DEFINE Below(x) == {y \in T : y <= x}
           Above(x) == {y \in T : x <= y}
<1>1. FiniteSubsetsOf(T) = SUBSET T
  BY FS_FiniteSubsetsOfFinite
<1>2. ASSUME NEW U, U \subseteq SUBSET T, U # {}
      PROVE  \E b \in U : \A c \in U : ~(<<c, b>> \in StrictSubsetOrdering(T))
  <2>1. U \subseteq FiniteSubsetsOf(T)
    BY <1>1, <1>2
  <2> QED BY <1>2, <2>1, WFMin, FS_StrictSubsetOrderingWellFounded
<1>3. \E x \in T : \A y \in T : x <= y
  <2>1. PICK x \in T : \A y \in T : ~(<<Below(y), Below(x)>> \in StrictSubsetOrdering(T))
    <3> DEFINE U == {Below(x) : x \in T}
    <3>1. U \subseteq SUBSET T /\ U # {}
      OBVIOUS
    <3> HIDE DEF Below
    <3>2. PICK b \in U : \A c \in U : ~(<<c, b>> \in StrictSubsetOrdering(T))
      <4> HIDE DEF U
      <4> QED BY <1>2, <3>1
    <3>3. PICK x \in T : b = Below(x)
      OBVIOUS
    <3>4. \A y \in T : Below(y) \in U
      OBVIOUS
    <3> QED BY <3>2, <3>3, <3>4
  <2>2. ASSUME NEW y \in T, y < x PROVE FALSE
    <3>1. Below(y) \subseteq Below(x) /\ x \in Below(x) /\ x \notin Below(y)
      <4>1. x \in Int /\ y \in Int /\ \A n \in T : n \in Int
        OBVIOUS
      <4>2. ASSUME NEW n \in T, n <= y PROVE n <= x
        BY <2>2, <4>1, <4>2
      <4>3. x <= x /\ ~(x <= y)
        BY <2>2, <4>1
      <4> QED BY <4>2, <4>3
    <3>2. Below(x) \in SUBSET T /\ Below(y) \in SUBSET T
      OBVIOUS
    <3> HIDE DEF Below
    <3> QED BY <2>1, <3>1, <3>2 DEF StrictSubsetOrdering
  <2> QED BY <2>2
<1>4. \E x \in T : \A y \in T : y <= x
  <2>1. PICK x \in T : \A y \in T : ~(<<Above(y), Above(x)>> \in StrictSubsetOrdering(T))
    <3> DEFINE U == {Above(x) : x \in T}
    <3>1. U \subseteq SUBSET T /\ U # {}
      OBVIOUS
    <3> HIDE DEF Above
    <3>2. PICK b \in U : \A c \in U : ~(<<c, b>> \in StrictSubsetOrdering(T))
      <4> HIDE DEF U
      <4> QED BY <1>2, <3>1
    <3>3. PICK x \in T : b = Above(x)
      OBVIOUS
    <3>4. \A y \in T : Above(y) \in U
      OBVIOUS
    <3> QED BY <3>2, <3>3, <3>4
  <2>2. ASSUME NEW y \in T, x < y PROVE FALSE
    <3>1. Above(y) \subseteq Above(x) /\ x \in Above(x) /\ x \notin Above(y)
      <4>1. x \in Int /\ y \in Int /\ \A n \in T : n \in Int
        OBVIOUS
      <4>2. ASSUME NEW n \in T, y <= n PROVE x <= n
        BY <2>2, <4>1, <4>2
      <4>3. x <= x /\ ~(y <= x)
        BY <2>2, <4>1
      <4> QED BY <4>2, <4>3
    <3>2. Above(x) \in SUBSET T /\ Above(y) \in SUBSET T
      OBVIOUS
    <3> HIDE DEF Above
    <3> QED BY <2>1, <3>1, <3>2 DEF StrictSubsetOrdering
  <2> QED BY <2>2
<1> QED BY <1>3, <1>4

-----------------------------------------------------------------------------
(* The trees of Init *)

\* The keys of S in some order, with their ranks.
LEMMA Ranks ==
  ASSUME NEW S \in SUBSET Key, NEW order \in Bijection(1 .. Cardinality(S), S)
  PROVE  /\ IsFiniteSet(S) /\ Cardinality(S) \in Nat
         /\ S \subseteq Int /\ NULL \notin S
         /\ ToSet(order) = S
         /\ S # {} => 1 \in 1 .. Cardinality(S) /\ order[1] \in S
         /\ \A n \in S : Rank(order, n) \in 1 .. Cardinality(S) /\ order[Rank(order, n)] = n
         /\ \A i \in 1 .. Cardinality(S) : Rank(order, order[i]) = i
<1>1. IsFiniteSet(S) /\ Cardinality(S) \in Nat
  BY KeyAssumption, FS_Subset, FS_CardinalityType
<1>2. S \subseteq Int /\ NULL \notin S
  BY KeyAssumption
<1>3. /\ DOMAIN order = 1 .. Cardinality(S)
      /\ \A i \in 1 .. Cardinality(S) : order[i] \in S
      /\ \A i, j \in 1 .. Cardinality(S) : order[i] = order[j] => i = j
      /\ \A n \in S : \E i \in 1 .. Cardinality(S) : order[i] = n
  BY DEF Bijection, Injection, IsInjective, Surjection
<1>4. ToSet(order) = S
  BY <1>3 DEF ToSet
<1>5. S # {} => 1 \in 1 .. Cardinality(S) /\ order[1] \in S
  BY <1>1, <1>3
<1> QED BY <1>1, <1>2, <1>3, <1>4, <1>5 DEF Rank

\* A parent comes before its child and is its neighbour: no key before the child lies
\* between them, and a neighbour on the other side came before the parent.
LEMMA ParentIsNeighbour ==
  ASSUME NEW S \in SUBSET Key, NEW order \in Bijection(1 .. Cardinality(S), S), NEW k \in S
  PROVE  LET p == ParentIn(order, k)
             before == Before(order, k)
         IN  /\ before = {n \in S : Rank(order, n) < Rank(order, k)}
             /\ p = NULL <=> before = {}
             /\ p # NULL =>
                  /\ p \in before
                  /\ \A m \in before : /\ p < k /\ m < k => m <= p
                                       /\ k < p /\ k < m => p <= m
                  /\ \A m \in before : m < k /\ k < p =>
                       \E l \in before : m <= l /\ l < k /\ Rank(order, l) <= Rank(order, p)
                  /\ \A m \in before : k < m /\ p < k =>
                       \E l \in before : l <= m /\ k < l /\ Rank(order, l) <= Rank(order, p)
<1> DEFINE p == ParentIn(order, k)
           before == Before(order, k)
           lower == {n \in before : n < k /\ \A m \in before : m < k => m <= n}
           upper == {n \in before : k < n /\ \A m \in before : k < m => n <= m}
           R(n) == Rank(order, n)
<1>1. /\ before = {n \in S : R(n) < R(k)}
      /\ IsFiniteSet(before) /\ before \subseteq Int /\ k \in Int
      /\ \A n \in before : R(n) \in Int /\ n # k
      /\ NULL \notin before
  <2>1. before = {n \in S : R(n) < R(k)}
    BY Ranks DEF Before
  <2>2. /\ IsFiniteSet(S) /\ S \subseteq Int /\ NULL \notin S
        /\ \A n \in S : R(n) \in Int
    BY Ranks
  <2> HIDE DEF before, R
  <2> QED BY <2>1, <2>2, FS_Subset
<1>2. Neighbours(order, k) = lower \union upper
  BY DEF Neighbours
<1> HIDE DEF before, R
<1>3. ASSUME NEW m \in before, m < k PROVE \E l \in lower : m <= l
  <2> DEFINE T == {n \in before : n < k}
  <2>1. IsFiniteSet(T) /\ T \subseteq Int /\ T # {}
    BY <1>1, <1>3, FS_Subset
  <2>2. PICK l \in T : \A n \in T : n <= l
    <3> HIDE DEF T
    <3> QED BY <2>1, FiniteExtremes
  <2> QED BY <1>3, <2>2
<1>4. ASSUME NEW m \in before, k < m PROVE \E l \in upper : l <= m
  <2> DEFINE T == {n \in before : k < n}
  <2>1. IsFiniteSet(T) /\ T \subseteq Int /\ T # {}
    BY <1>1, <1>4, FS_Subset
  <2>2. PICK l \in T : \A n \in T : l <= n
    <3> HIDE DEF T
    <3> QED BY <2>1, FiniteExtremes
  <2> QED BY <1>4, <2>2
<1>5. /\ \A m, n \in lower : m = n
      /\ \A m, n \in upper : m = n
  BY <1>1
<1>6. lower \union upper \subseteq before
  OBVIOUS
<1>10. lower \union upper # {} =>
         \E n \in lower \union upper : \A m \in lower \union upper : R(m) <= R(n)
  <2> HIDE DEF lower, upper
  <2>1. \A n \in lower \union upper : R(n) \in Int
    BY <1>1, <1>6
  <2>2. CASE lower = {} \/ upper = {}
    BY <1>5, <2>1, <2>2
  <2>3. ASSUME NEW m \in lower, NEW n \in upper
        PROVE  \E l \in lower \union upper : \A j \in lower \union upper : R(j) <= R(l)
    <3>1. \A j \in lower \union upper : j = m \/ j = n
      BY <1>5
    <3>2. R(m) <= R(n) \/ R(n) <= R(m)
      BY <2>1
    <3> QED BY <2>1, <3>1, <3>2
  <2> QED BY <2>2, <2>3
<1>7. p = NULL <=> before = {}
  <2>1. ASSUME NEW m \in before PROVE lower \union upper # {}
    <3>1. m < k \/ k < m
      BY <1>1
    <3> HIDE DEF lower, upper
    <3> QED BY <1>3, <1>4, <3>1
  <2>3. lower \union upper # {} => p \in lower \union upper
    <3> HIDE DEF lower, upper
    <3> QED BY <1>2, <1>10 DEF ParentIn, R
  <2>4. lower \union upper = {} => p = NULL
    BY <1>2 DEF ParentIn
  <2> HIDE DEF p, lower, upper
  <2> QED BY <1>1, <1>6, <2>1, <2>3, <2>4
<1>8. ASSUME p # NULL
      PROVE  p \in lower \union upper /\ \A m \in lower \union upper : R(m) <= R(p)
  <2>1. lower \union upper # {}
    BY <1>2, <1>8 DEF ParentIn
  <2> HIDE DEF lower, upper
  <2> QED BY <1>2, <1>10, <2>1 DEF ParentIn, R
<1>9. ASSUME p # NULL
      PROVE  /\ p \in before
             /\ \A m \in before : /\ p < k /\ m < k => m <= p
                                  /\ k < p /\ k < m => p <= m
             /\ \A m \in before : m < k /\ k < p =>
                  \E l \in before : m <= l /\ l < k /\ R(l) <= R(p)
             /\ \A m \in before : k < m /\ p < k =>
                  \E l \in before : l <= m /\ k < l /\ R(l) <= R(p)
  <2>1. p \in before
    BY <1>8, <1>9
  <2>2. ASSUME NEW m \in before
        PROVE  /\ p < k /\ m < k => m <= p
               /\ k < p /\ k < m => p <= m
    <3>1. CASE p \in lower
      <4> HIDE DEF p
      <4>1. p < k /\ p \in Int /\ k \in Int
        BY <1>1, <3>1
      <4> QED BY <3>1, <4>1
    <3>2. CASE p \in upper
      <4> HIDE DEF p
      <4>1. k < p /\ p \in Int /\ k \in Int
        BY <1>1, <3>2
      <4> QED BY <3>2, <4>1
    <3> QED BY <1>8, <1>9, <3>1, <3>2
  <2>3. \A m \in before : m < k /\ k < p =>
          \E l \in before : m <= l /\ l < k /\ R(l) <= R(p)
    <3> HIDE DEF p
    <3> QED BY <1>3, <1>8, <1>9
  <2>4. \A m \in before : k < m /\ p < k =>
          \E l \in before : l <= m /\ k < l /\ R(l) <= R(p)
    <3> HIDE DEF p
    <3> QED BY <1>4, <1>8, <1>9
  <2> QED BY <2>1, <2>2, <2>3, <2>4
<1> HIDE DEF p
<1> QED BY <1>1, <1>7, <1>9 DEF p, before, R

\* A key that came between a parent and one of its children would be the parent, so
\* there is one child on each side.
LEMMA OneChildEachSide ==
  ASSUME NEW S \in SUBSET Key, NEW order \in Bijection(1 .. Cardinality(S), S),
         NEW j \in S, NEW k \in S,
         ParentIn(order, j) = ParentIn(order, k), ParentIn(order, k) # NULL,
         j < ParentIn(order, j) <=> k < ParentIn(order, k)
  PROVE  j = k
<1> DEFINE R(n) == Rank(order, n)
           p == ParentIn(order, k)
<1>1. \A n \in S : n \in Int /\ R(n) \in Int /\ order[R(n)] = n
  BY Ranks
<1>2. ASSUME NEW a \in S, NEW b \in S, ParentIn(order, a) = p, ParentIn(order, b) = p,
             a < p <=> b < p, R(a) < R(b)
      PROVE  FALSE
  <2>1. /\ Before(order, a) = {n \in S : R(n) < R(a)}
        /\ p \in Before(order, a)
        /\ \A m \in Before(order, a) : /\ p < a /\ m < a => m <= p
                                       /\ a < p /\ a < m => p <= m
    BY <1>2, ParentIsNeighbour
  <2>2. /\ Before(order, b) = {n \in S : R(n) < R(b)}
        /\ p \in Before(order, b)
        /\ \A m \in Before(order, b) : /\ p < b /\ m < b => m <= p
                                       /\ b < p /\ b < m => p <= m
        /\ \A m \in Before(order, b) : m < b /\ b < p =>
             \E l \in Before(order, b) : m <= l /\ l < b /\ R(l) <= R(p)
        /\ \A m \in Before(order, b) : b < m /\ p < b =>
             \E l \in Before(order, b) : l <= m /\ b < l /\ R(l) <= R(p)
    BY <1>2, ParentIsNeighbour
  <2> HIDE DEF p, R
  <2>3. a \in Before(order, b) /\ p \in S /\ R(p) < R(a) /\ a # b /\ p # a /\ p # b
    BY <1>1, <1>2, <2>1, <2>2
  <2>4. CASE a < p
    <3>1. a < b /\ b < p
      BY <1>1, <1>2, <2>2, <2>3, <2>4
    <3>2. PICK l \in Before(order, b) : a <= l /\ l < b /\ R(l) <= R(p)
      BY <2>2, <2>3, <3>1
    <3>3. l \in Before(order, a) /\ a < l
      BY <1>1, <2>1, <2>2, <2>3, <3>2
    <3> QED BY <1>1, <2>1, <2>2, <2>3, <2>4, <3>1, <3>2, <3>3
  <2>5. CASE p < a
    <3>1. a \in Int /\ b \in Int /\ p \in Int
      BY <1>1, <2>3
    <3>4. p < b
      BY <1>2, <2>3, <2>5, <3>1
    <3>5. a < b => a <= p
      BY <2>2, <2>3, <3>4
    <3>6. b < a
      BY <2>3, <2>5, <3>1, <3>5
    <3>2. PICK l \in Before(order, b) : l <= a /\ b < l /\ R(l) <= R(p)
      BY <2>2, <2>3, <3>4, <3>6
    <3>3. l \in Before(order, a) /\ l < a
      BY <1>1, <2>1, <2>2, <2>3, <3>2
    <3> QED BY <1>1, <2>1, <2>2, <2>3, <2>5, <3>4, <3>6, <3>2, <3>3
  <2> QED BY <1>1, <2>3, <2>4, <2>5
<1>3. R(j) = R(k)
  <2> HIDE DEF R
  <2> QED BY <1>1, <1>2
<1> QED BY <1>1, <1>3

\* The trees of Init are trees.
LEMMA InitInvariant == Init => IInv
<1> SUFFICES ASSUME Init PROVE IInv
  OBVIOUS
<1>1. PICK order \in Bijection(1 .. Cardinality(nodes), nodes) :
        /\ root = IF nodes = {} THEN NULL ELSE order[1]
        /\ parent = [k \in nodes |-> ParentIn(order, k)]
        /\ child = [s \in Side |-> [k \in nodes |-> ChildIn(order, s, k)]]
  BY DEF Init
<1>2. nodes \in SUBSET Key
  BY DEF Init
<1> DEFINE R(n) == Rank(order, n)
<1>3. /\ IsFiniteSet(nodes) /\ nodes \subseteq Int /\ NULL \notin nodes
      /\ ToSet(order) = nodes
      /\ nodes # {} => 1 \in 1 .. Cardinality(nodes) /\ order[1] \in nodes
      /\ \A n \in nodes : R(n) \in 1 .. Cardinality(nodes) /\ order[R(n)] = n
      /\ nodes # {} => R(order[1]) = 1
  BY <1>2, Ranks
<1>4. ASSUME NEW n \in nodes
      PROVE  /\ parent[n] # NULL => parent[n] \in nodes /\ R(parent[n]) < R(n)
             /\ parent[n] = NULL <=> n = root
  <2>1. parent[n] = ParentIn(order, n)
    BY <1>1
  <2>2. /\ Before(order, n) = {m \in nodes : R(m) < R(n)}
        /\ parent[n] = NULL <=> Before(order, n) = {}
        /\ parent[n] # NULL => parent[n] \in Before(order, n)
    BY <1>2, <2>1, ParentIsNeighbour
  <2>3. Before(order, n) = {} <=> n = order[1]
    <3> HIDE DEF R
    <3>1. R(n) \in Int /\ 1 <= R(n) /\ order[R(n)] = n /\ order[1] \in nodes /\ R(order[1]) = 1
      BY <1>3
    <3>2. n # order[1] => order[1] \in Before(order, n)
      BY <2>2, <3>1
    <3>3. \A m \in nodes : 1 <= R(m) /\ R(m) \in Int
      BY <1>3
    <3> QED BY <2>2, <3>1, <3>2, <3>3
  <2> QED BY <1>1, <2>2, <2>3
<1>5. ASSUME NEW j \in nodes, NEW k \in nodes, parent[j] = parent[k], parent[k] # NULL,
             SideOf(j) = SideOf(k)
      PROVE  j = k
  <2>1. parent[j] = ParentIn(order, j) /\ parent[k] = ParentIn(order, k)
    BY <1>1
  <2>2. j < parent[j] <=> k < parent[k]
    BY <1>5 DEF SideOf
  <2> QED BY <1>2, <1>5, <2>1, <2>2, OneChildEachSide
<1>6. ASSUME NEW s \in Side, NEW n \in nodes
      PROVE  LET below == {k \in nodes : parent[k] = n /\ SideOf(k) = s}
             IN  child[s][n] = IF below = {} THEN NULL ELSE CHOOSE k \in below : TRUE
  <2> DEFINE below == {k \in nodes : parent[k] = n /\ SideOf(k) = s}
             in == {k \in ToSet(order) :
                     ParentIn(order, k) = n /\ (IF s = "left" THEN k < n ELSE n < k)}
  <2>1. ASSUME NEW k \in nodes
        PROVE  k \in in <=> k \in below
    <3>1. ParentIn(order, k) = parent[k]
      BY <1>1
    <3>2. parent[k] = n => k # n /\ k \in Int /\ n \in Int
      BY <1>3, <1>4
    <3> QED BY <1>3, <3>1, <3>2 DEF SideOf, Side
  <2>2. in = below
    BY <1>3, <2>1
  <2>3. child[s][n] = ChildIn(order, s, n)
    BY <1>1
  <2>4. ChildIn(order, s, n) = IF in = {} THEN NULL ELSE CHOOSE k \in in : TRUE
    BY DEF ChildIn
  <2> HIDE DEF below, in
  <2> QED BY <2>2, <2>3, <2>4 DEF below
<1>7. ASSUME NEW s \in Side, NEW n \in nodes, child[s][n] # NULL
      PROVE  child[s][n] \in nodes /\ parent[child[s][n]] = n /\ s = SideOf(child[s][n])
  BY <1>6, <1>7
<1>8. ASSUME NEW n \in nodes, parent[n] # NULL
      PROVE  child[SideOf(n)][parent[n]] = n
  <2> DEFINE below == {k \in nodes : parent[k] = parent[n] /\ SideOf(k) = SideOf(n)}
  <2>1. SideOf(n) \in Side /\ parent[n] \in nodes
    BY <1>4, <1>8 DEF SideOf, Side
  <2>2. below = {n}
    BY <1>5, <1>8
  <2>3. child[SideOf(n)][parent[n]] = IF below = {} THEN NULL ELSE CHOOSE k \in below : TRUE
    BY <1>6, <2>1
  <2> QED BY <2>2, <2>3
<1>9. freed = {} /\ called = <<>> /\ pc = "idle" /\ memory = <<>> /\ visit \in [nodes -> {{}, Side}]
  BY DEF Init
<1>10. TreeTypes
  <2>1. root \in Node
    BY <1>1, <1>3 DEF Node
  <2>2. parent \in [nodes -> Node]
    BY <1>1, <1>4 DEF Node
  <2>3. child \in [Side -> [nodes -> Node]]
    <3>1. \A s \in Side, n \in nodes : ChildIn(order, s, n) \in Node
      BY <1>1, <1>7 DEF Node
    <3> QED BY <1>1, <3>1
  <2> QED BY <1>2, <1>9, <2>1, <2>2, <2>3 DEF TreeTypes
<1>11. TreeInv
  <2>1. Rooted
    <3> DEFINE depth == [n \in nodes |-> R(n)]
    <3>1. depth \in [nodes -> Nat]
      BY <1>3
    <3>2. \A n \in nodes : parent[n] # NULL => depth[parent[n]] < depth[n]
      BY <1>4
    <3> HIDE DEF depth
    <3> QED BY <3>1, <3>2 DEF Rooted
  <2>2. \A n \in nodes : parent[n] # NULL => parent[n] # n
    <3> HIDE DEF R
    <3> QED BY <1>3, <1>4
  <2>3. root = NULL => nodes = {}
    BY <1>1, <1>3
  <2> QED BY <1>4, <1>7, <1>8, <1>9, <2>1, <2>2, <2>3 DEF TreeInv
<1>12. WalkInv
  BY <1>9 DEF WalkInv, CalledInv
<1> QED BY <1>9, <1>10, <1>11, <1>12 DEF IInv, LoopInv

-----------------------------------------------------------------------------
(* The steps *)

LEMMA NotANode ==
  ASSUME TreeTypes
  PROVE  /\ NULL \notin nodes /\ nodes \subseteq Int
         /\ "left" \in Side /\ "right" \in Side /\ "left" # "right"
         /\ \A s \in Side : s = "left" \/ s = "right"
  BY KeyAssumption DEF TreeTypes, Side

\* A loop starts at the root with the tree as it is.
LEMMA BeginKeeps ==
  ASSUME IInv, BeginWalk \/ BeginDestroy \/ BeginWrite
  PROVE  IInv'
<1>1. PICK loop \in {"walk", "destroy", "write"} :
        /\ pc = "idle" /\ this' = root
        /\ pc' = IF root = NULL THEN "done" ELSE loop
        /\ visit' = [n \in nodes |-> IF n = root /\ loop # "destroy" THEN {} ELSE visit[n]]
        /\ loop # "write" => memory' = memory
        /\ UNCHANGED <<treeVars, called, freed>>
  BY DEF BeginWalk, BeginDestroy, BeginWrite, Begin
<1>3. TreeTypes /\ TreeInv /\ LoopInv /\ freed = {} /\ called = <<>> /\ memory = <<>>
  BY <1>1 DEF IInv, LoopInv
<1>4. TreeTypes'
  BY <1>1, <1>3 DEF TreeTypes, Node, treeVars, Side
<1>5. TreeInv'
  BY <1>1, <1>3 DEF TreeInv, Rooted, SideOf, treeVars
<1>6. LoopInv'
  BY <1>1, <1>3 DEF LoopInv, TreeTypes, Node, treeVars
<1>7. ASSUME pc' = "walk" PROVE Path({root})'
  <2>1. pc' = "walk" /\ loop = "walk" /\ root \in nodes /\ this' = root /\ visit'[root] = {}
        /\ root' = root /\ child' = child /\ parent' = parent /\ called' = <<>>
    BY <1>1, <1>3, <1>7 DEF TreeTypes, Node, treeVars
  <2>2. \A s \in Side : child[s][root] # NULL => child[s][root] # root
    BY <1>3, <2>1 DEF TreeInv, TreeTypes, Node
  <2>3. ToSet(<<>>) = {}
    BY DEF ToSet
  <2> QED BY <2>1, <2>2, <2>3 DEF Path
<1>8. WalkInv'
  <2>1. called' = <<>>
    BY <1>1, <1>3
  <2>2. {root'} \in SUBSET nodes' \/ pc' # "walk"
    BY <1>1, <1>3 DEF TreeTypes, Node, treeVars
  <2> QED BY <1>7, <2>1, <2>2 DEF WalkInv, CalledInv
<1> QED BY <1>4, <1>5, <1>6, <1>8 DEF IInv

\* The root is the only node without a parent, and it is in every path.
LEMMA PathIsInTree ==
  ASSUME IInv, pc = "walk"
  PROVE  /\ freed = {} /\ root # NULL /\ root \in nodes /\ this \in nodes
         /\ \A n \in nodes : /\ parent[n] \in Node
                             /\ parent[n] = NULL <=> n = root
                             /\ n # root => /\ parent[n] \in nodes /\ parent[n] # n
                                            /\ child[SideOf(n)][parent[n]] = n
                                            /\ SideOf(n) \in Side
                             /\ \A s \in Side : child[s][n] # NULL =>
                                  /\ child[s][n] \in nodes /\ child[s][n] # n
                                  /\ child[s][n] # root
                                  /\ parent[child[s][n]] = n /\ s = SideOf(child[s][n])
  BY NotANode DEF IInv, TreeTypes, TreeInv, LoopInv, Node, SideOf

\* A turn down: a side is marked, and the node that hangs from it is the end of the
\* path.
LEMMA WalkDownKeeps ==
  ASSUME IInv, pc = "walk", visit[this] # Side, Enter(NextSide(visit[this])),
         UNCHANGED <<treeVars, pc, called, freed, memory>>
  PROVE  IInv'
<1>1. TreeTypes /\ TreeInv /\ LoopInv /\ CalledInv
  BY DEF IInv, WalkInv
<1>2. PICK P \in SUBSET nodes : Path(P)
  BY DEF IInv, WalkInv
<1>3. PICK s \in Side, h \in nodes, c \in Node :
        /\ s = NextSide(visit[this]) /\ h = this /\ c = child[s][h] /\ h \in P
        /\ (visit[h] = {} /\ s = "left") \/ (visit[h] = {"left"} /\ s = "right")
  <2>1. this \in nodes /\ this \in P /\ visit[this] \in {{}, {"left"}}
    BY <1>2, PathIsInTree DEF Path
  <2>2. NextSide(visit[this]) \in Side
    BY DEF NextSide, Side
  <2> QED BY <1>1, <2>1, <2>2 DEF TreeTypes, NextSide
<1>4. /\ this' = IF c = NULL THEN h ELSE c
      /\ visit' = [n \in nodes |-> IF n = h THEN visit[n] \union {s}
                                   ELSE IF n = c THEN {} ELSE visit[n]]
      /\ UNCHANGED <<nodes, root, child, parent, pc, called, freed, memory>>
  BY <1>3 DEF Enter, treeVars
<1>5. c # h /\ h # NULL
  BY <1>1, <1>3, NotANode, PathIsInTree DEF Node
<1>6. this' \in nodes
  BY <1>3, <1>4, <1>5 DEF Node
<1>7. TreeTypes'
  BY <1>1, <1>3, <1>4 DEF TreeTypes, Node
<1>8. TreeInv' /\ LoopInv' /\ CalledInv'
  <2>1. freed = {}
    BY PathIsInTree
  <2> QED BY <1>1, <1>4, <1>6, <2>1 DEF TreeInv, Rooted, SideOf, LoopInv, CalledInv, Precedes
<1>11. PICK Q \in SUBSET nodes : Q = IF c = NULL THEN P ELSE P \union {c}
  BY DEF Node
<1>9. Path(Q)'
  <2>1. visit'[h] = visit[h] \union {s} /\ Current(h)' = s /\ visit'[h] \in {{"left"}, Side}
    BY <1>3, <1>4 DEF Current, Side
  <2>3. c # NULL => /\ c \in nodes /\ c \notin ToSet(called) \union P /\ parent[c] = h /\ c # root
                    /\ visit'[c] = {} /\ this' = c /\ s = SideOf(c)
    BY <1>2, <1>3, <1>4, <1>5, PathIsInTree DEF Path, Node
  <2>2. ASSUME NEW n \in P, n # h
        PROVE  n # c /\ visit'[n] = visit[n] /\ Current(n)' = Current(n)
    <3>1. n # c
      BY <1>1, <2>2, <2>3, NotANode
    <3> QED BY <1>4, <2>2, <3>1 DEF Current
  <2>4. ASSUME c # NULL, NEW t \in Side, child[t][c] # NULL
        PROVE  child[t][c] \notin ToSet(called) \union Q
    <3>1. child[t][c] # root /\ parent[child[t][c]] = c /\ child[t][c] # c
      BY <2>3, <2>4, PathIsInTree
    <3> QED BY <1>2, <1>11, <2>3, <2>4, <3>1 DEF Path
  <2>5. ASSUME NEW n \in Q, NEW t \in Side, child[t][n] # NULL
        PROVE  IF t \notin visit'[n] THEN child[t][n] \notin ToSet(called) \union Q
               ELSE (n # this' /\ t = Current(n)') \/ child[t][n] \in ToSet(called)
    <3>1. CASE n \notin P
      BY <1>11, <2>3, <2>4, <2>5, <3>1
    <3>2. CASE n = h
      <4>1. c # NULL => this' # n
        BY <1>4, <1>5, <3>2
      <4>2. t # s => child[t][n] # c
        BY <1>3, <2>3, <2>5, <3>2, PathIsInTree
      <4>3. t = s => child[t][n] = c
        BY <1>3, <3>2
      <4>4. t # s => IF t \notin visit[n] THEN child[t][n] \notin ToSet(called) \union P
                     ELSE child[t][n] \in ToSet(called)
        BY <1>2, <1>3, <2>5, <3>2 DEF Path
      <4> QED BY <1>3, <1>4, <1>11, <2>1, <2>5, <3>2, <4>1, <4>2, <4>3, <4>4
    <3>3. CASE n \in P /\ n # h
      <4>1. child[t][n] # c \/ c = NULL
        BY <1>2, <1>3, <2>3, <2>5, <3>3, PathIsInTree
      <4>2. n # this'
        BY <1>2, <1>4, <2>3, <3>3
      <4> QED BY <1>2, <1>3, <1>11, <2>2, <2>5, <3>3, <4>1, <4>2 DEF Path
    <3> QED BY <3>1, <3>2, <3>3
  <2>6. ASSUME NEW n \in Q
        PROVE  /\ n \notin ToSet(called)
               /\ n # root => parent[n] \in Q
               /\ visit'[n] \in {{}, {"left"}, Side}
               /\ n # this' => visit'[n] # {} /\ child[Current(n)'][n] \in Q
    <3>1. CASE n \notin P
      BY <1>2, <1>3, <1>11, <2>3, <2>6, <3>1 DEF Path
    <3>2. CASE n = h
      BY <1>2, <1>3, <1>4, <1>11, <2>1, <3>2 DEF Path
    <3>3. CASE n \in P /\ n # h
      BY <1>2, <1>3, <1>11, <2>2, <3>3 DEF Path
    <3> QED BY <3>1, <3>2, <3>3
  <2>7. this' \in Q /\ root \in Q
    BY <1>2, <1>3, <1>4, <1>11 DEF Path
  <2>8. \A n \in ToSet(called) : n # root => parent[n] \in ToSet(called) \union Q
    BY <1>2, <1>11 DEF Path
  <2>9. UNCHANGED <<child, parent, root, called>>
    BY <1>4
  <2> QED BY <2>5, <2>6, <2>7, <2>8, <2>9 DEF Path, Current
<1>10. WalkInv'
  BY <1>4, <1>8, <1>9 DEF WalkInv
<1> QED BY <1>7, <1>8, <1>10 DEF IInv

\* A turn up: all that hangs from the node has been called back with, and now the node
\* is; it leaves the path, or was all of it.
LEMMA WalkUpKeeps ==
  ASSUME IInv, pc = "walk", visit[this] = Side, called' = Append(called, this), Up,
         UNCHANGED <<treeVars, freed, memory>>
  PROVE  IInv'
<1>1. TreeTypes /\ TreeInv /\ LoopInv /\ CalledInv
  BY DEF IInv, WalkInv
<1>2. PICK P \in SUBSET nodes : Path(P)
  BY DEF IInv, WalkInv
<1>3. PICK h \in nodes, p \in Node : h = this /\ p = parent[h] /\ h \in P
  BY <1>2, PathIsInTree DEF Path
<1>4. /\ this' = p /\ visit[h] = Side
      /\ pc' = IF p = NULL THEN "done" ELSE "walk"
      /\ called' = Append(called, h)
      /\ UNCHANGED <<nodes, root, child, parent, visit, freed, memory>>
  BY <1>3 DEF Up, treeVars
<1>5. freed = {} /\ root \in nodes /\ root # NULL /\ (p = NULL <=> h = root)
  BY <1>3, PathIsInTree
<1>6. /\ called \in Seq(nodes) /\ called' \in Seq(nodes)
      /\ Len(called') = Len(called) + 1 /\ Len(called) \in Nat
      /\ called'[Len(called) + 1] = h
      /\ \A i \in 1 .. Len(called) : called'[i] = called[i] /\ i \in DOMAIN called
      /\ DOMAIN called = 1 .. Len(called) /\ DOMAIN called' = 1 .. Len(called) + 1
      /\ called' # <<>>
  BY <1>1, <1>4 DEF TreeTypes
<1>7. ToSet(called') = ToSet(called) \union {h}
  BY <1>6 DEF ToSet
<1>8. h \notin ToSet(called)
  BY <1>2, <1>3 DEF Path
<1>9. TreeTypes'
  BY <1>1, <1>4, <1>6 DEF TreeTypes, Node
<1>10. TreeInv'
  BY <1>1, <1>4 DEF TreeInv, Rooted, SideOf
<1>11. LoopInv'
  BY <1>1, <1>3, <1>4, <1>5 DEF LoopInv, Node
<1>12. \A s \in Side : child[s][h] # NULL => child[s][h] \in ToSet(called)
  BY <1>2, <1>3, <1>4 DEF Path
<1>13. ASSUME NEW m \in nodes, m < h, parent[m] = p
       PROVE  m \in ToSet(called)
  <2>1. m \in Int /\ h \in Int /\ m # h
    BY <1>1, <1>13, NotANode
  <2>8. m # root \/ h # root
    BY <2>1
  <2>9. p # NULL /\ h # root /\ m # root
    BY <1>3, <1>5, <1>13, <2>8, PathIsInTree
  <2>2. p \in nodes /\ p \in P /\ p # h /\ p \in Int
    BY <1>1, <1>2, <1>3, <2>9, PathIsInTree, NotANode DEF Path
  <2>3. child[SideOf(m)][p] = m /\ child[SideOf(h)][p] = h /\ p # m
    BY <1>3, <1>5, <1>13, <2>1, <2>2, PathIsInTree
  <2>4. SideOf(m) = "left" /\ SideOf(h) = "right"
    BY <1>3, <1>13, <2>1, <2>2, <2>3 DEF SideOf
  <2>5. child[Current(p)][p] \in P /\ visit[p] \in {{}, {"left"}, Side} /\ visit[p] # {}
    BY <1>2, <1>3, <2>2 DEF Path
  <2>6. "right" \in visit[p]
    BY <1>1, <1>2, <1>3, <2>2, <2>3, <2>4, NotANode DEF Path
  <2>7. "left" \in visit[p] /\ "left" # Current(p)
    BY <2>5, <2>6 DEF Side, Current
  <2> QED BY <1>1, <1>2, <2>2, <2>3, <2>4, <2>7, NotANode DEF Path
<1>14. CalledInv'
  <2> DEFINE Earlier(n, i) == \E j \in 1 .. i - 1 : called'[j] = n
  <2>1. \A i, j \in DOMAIN called' : called'[i] = called'[j] => i = j
    BY <1>1, <1>6, <1>8 DEF CalledInv, ToSet
  <2>2. ASSUME NEW n \in ToSet(called) PROVE Earlier(n, Len(called) + 1)
    BY <1>6 DEF ToSet
  <2>3. ASSUME NEW i \in 1 .. Len(called), NEW n, Precedes(n, i)
        PROVE  Earlier(n, i)
    BY <1>6, <2>3 DEF Precedes
  <2>4. ASSUME NEW i \in DOMAIN called'
        PROVE  /\ \A s \in Side : child[s][called'[i]] # NULL => Earlier(child[s][called'[i]], i)
               /\ \A m \in nodes : m < called'[i] /\ parent[m] = parent[called'[i]] => Earlier(m, i)
    <3> HIDE DEF Earlier
    <3>1. CASE i = Len(called) + 1
      BY <1>3, <1>6, <1>12, <1>13, <2>2, <3>1
    <3>2. CASE i \in 1 .. Len(called)
      BY <1>1, <1>6, <2>3, <3>2 DEF CalledInv
    <3> QED BY <1>6, <3>1, <3>2
  <2> QED BY <1>4, <2>1, <2>4 DEF CalledInv, Precedes
<1>15. ASSUME p = NULL PROVE ToSet(called') = nodes
  <2> DEFINE rest == nodes \ ToSet(called')
  <2>1. ToSet(called') \subseteq nodes /\ root \in ToSet(called')
    BY <1>5, <1>6, <1>7, <1>15 DEF ToSet
  <2>2. SUFFICES ASSUME rest # {} PROVE FALSE
    BY <2>1
  <2>3. PICK depth \in [nodes -> Nat] :
          \A n \in nodes : parent[n] # NULL => depth[parent[n]] < depth[n]
    BY <1>1 DEF TreeInv, Rooted
  <2>4. PICK d \in {depth[n] : n \in rest} : \A e \in {depth[n] : n \in rest} : d <= e
    <3> DEFINE T == {depth[n] : n \in rest}
    <3>1. T \subseteq Nat /\ T # {}
      BY <2>2
    <3> HIDE DEF T
    <3>2. \E d \in T : \A e \in T : d <= e
      BY <3>1, LeastNatural
    <3> QED BY <3>2 DEF T
  <2>5. PICK n \in rest : depth[n] = d
    OBVIOUS
  <2>6. n # root /\ parent[n] \in nodes /\ child[SideOf(n)][parent[n]] = n /\ SideOf(n) \in Side
        /\ parent[n] # NULL
    BY <1>1, <2>1, PathIsInTree, NotANode
  <2>7. depth[parent[n]] < d /\ depth[parent[n]] \in Nat /\ d \in Nat
    BY <2>3, <2>5, <2>6
  <2>8. parent[n] \in ToSet(called')
    <3>1. parent[n] \in rest => d <= depth[parent[n]]
      BY <2>4
    <3> QED BY <2>6, <2>7, <3>1
  <2>9. PICK i \in DOMAIN called' : called'[i] = parent[n]
    BY <2>8 DEF ToSet
  <2>11. n # NULL
    BY <1>1, NotANode
  <2>10. \E j \in 1 .. i - 1 : called'[j] = n
    <3>1. \A s \in Side : child'[s][called'[i]] # NULL =>
                           \E j \in 1 .. i - 1 : called'[j] = child'[s][called'[i]]
      BY <1>14, <2>9 DEF CalledInv, Precedes
    <3>2. child'[SideOf(n)][called'[i]] = n /\ SideOf(n) \in Side
      BY <1>4, <2>6, <2>9
    <3> QED BY <2>11, <3>1, <3>2
  <2>12. PICK j \in 1 .. i - 1 : called'[j] = n
    BY <2>10
  <2>13. j \in DOMAIN called'
    BY <1>6, <2>9
  <2> QED BY <2>12, <2>13 DEF ToSet
<1>16. ASSUME p # NULL PROVE \E Q \in SUBSET nodes' : Path(Q)'
  <2>1. PICK Q \in SUBSET nodes : Q = P \ {h}
    OBVIOUS
  <2>2. h # root /\ p \in nodes /\ p \in P /\ p # h /\ child[SideOf(h)][p] = h /\ SideOf(h) \in Side
    BY <1>2, <1>3, <1>5, <1>16, PathIsInTree DEF Path
  <2>3. /\ visit[p] # {} /\ child[Current(p)][p] \in P
        /\ Current(p) \in Side /\ Current(p) \in visit[p]
    BY <1>2, <1>3, <2>2 DEF Path, Current, Side
  <2>4. SideOf(h) = Current(p)
    <3>1. SideOf(h) \in visit[p]
      BY <1>1, <1>2, <1>3, <2>2, NotANode DEF Path
    <3>2. h \in ToSet(called) \/ SideOf(h) = Current(p)
      BY <1>1, <1>2, <2>2, <3>1, NotANode DEF Path
    <3> QED BY <1>8, <3>2
  <2>5. ASSUME NEW n \in Q, n # p
        PROVE  n # h /\ child[Current(n)][n] \in Q
    <3>1. n # h /\ n \in P /\ child[Current(n)][n] \in P /\ Current(n) \in Side
      BY <1>2, <1>3, <2>1 DEF Path, Current, Side
    <3>3. child[Current(n)][n] = h => parent[h] = n
      <4>1. \A s \in Side : child[s][n] # NULL => parent[child[s][n]] = n
        BY <3>1, PathIsInTree
      <4> QED BY <1>1, <3>1, <4>1, NotANode
    <3>2. child[Current(n)][n] # h
      BY <1>3, <2>5, <3>3
    <3> QED BY <2>1, <3>1, <3>2
  <2>6. ASSUME NEW n \in Q, NEW s \in Side, child[s][n] # NULL
        PROVE  IF s \notin visit[n] THEN child[s][n] \notin ToSet(called') \union Q
               ELSE (n # p /\ s = Current(n)) \/ child[s][n] \in ToSet(called')
    <3>1. n \in P /\ n # h
      BY <2>1
    <3>2. s \notin visit[n] => child[s][n] # h
      BY <1>2, <1>3, <2>6, <3>1 DEF Path
    <3>3. n = p /\ s = Current(n) => child[s][n] = h
      BY <2>2, <2>4
    <3> QED BY <1>2, <1>3, <1>7, <2>1, <2>6, <3>1, <3>2, <3>3 DEF Path
  <2>7. ASSUME NEW n \in Q
        PROVE  /\ n \notin ToSet(called')
               /\ n # root => parent[n] \in Q
               /\ visit[n] \in {{}, {"left"}, Side}
               /\ n # p => visit[n] # {} /\ child[Current(n)][n] \in Q
    <3>1. n \in P /\ n # h /\ n \in nodes
      BY <2>1
    <3>2. n # root => parent[n] # h
      <4>1. SUFFICES ASSUME n # root, parent[n] = h PROVE FALSE
        OBVIOUS
      <4>2. child[SideOf(n)][h] = n /\ SideOf(n) \in Side /\ n # NULL
        BY <1>1, <3>1, <4>1, PathIsInTree, NotANode
      <4> QED BY <1>2, <1>12, <3>1, <4>2 DEF Path
    <3> QED BY <1>2, <1>3, <1>7, <2>1, <2>5, <3>1, <3>2 DEF Path
  <2>8. \A n \in ToSet(called') : n # root => parent[n] \in ToSet(called') \union Q
    BY <1>2, <1>3, <1>7, <2>1, <2>2 DEF Path
  <2>9. p \in Q /\ root \in Q
    BY <1>2, <2>1, <2>2 DEF Path
  <2>10. Path(Q)'
    BY <1>4, <2>6, <2>7, <2>8, <2>9 DEF Path, Current
  <2> QED BY <1>4, <2>10
<1>17. WalkInv'
  BY <1>4, <1>14, <1>15, <1>16 DEF WalkInv
<1> QED BY <1>9, <1>10, <1>11, <1>17 DEF IInv

\* Down to a node that hangs from this one, which is not freed.
LEMMA DestroyDownKeeps ==
  ASSUME IInv, DestroyDown
  PROVE  IInv'
<1>1. PICK s \in Side :
        /\ pc = "destroy" /\ child[s][this] # NULL /\ this' = child[s][this]
        /\ UNCHANGED <<nodes, root, child, parent, visit, pc, called, freed, memory>>
  BY DEF DestroyDown, treeVars, Side
<1>2. TreeTypes /\ TreeInv /\ LoopInv /\ CalledInv
  BY DEF IInv, WalkInv
<1>3. this' \in nodes \ freed
  BY <1>1, <1>2 DEF TreeTypes, TreeInv, LoopInv, Node
<1>4. TreeTypes'
  BY <1>1, <1>2 DEF TreeTypes, Node
<1>5. TreeInv' /\ LoopInv' /\ WalkInv'
  BY <1>1, <1>2, <1>3 DEF TreeInv, Rooted, SideOf, LoopInv, WalkInv, CalledInv, Precedes
<1> QED BY <1>4, <1>5 DEF IInv

\* A node that nothing hangs from is freed; only its parent led to it.
LEMMA DestroyLeafKeeps ==
  ASSUME IInv, DestroyLeaf
  PROVE  IInv'
<1>1. TreeTypes /\ TreeInv /\ LoopInv /\ CalledInv
  BY DEF IInv, WalkInv
<1>2. PICK h \in nodes \ freed, p \in Node :
        /\ h = this /\ p = parent[h] /\ pc = "destroy" /\ root # NULL
        /\ \A s \in Side : child[s][h] = NULL
        /\ freed' = freed \union {h} /\ this' = p
        /\ \/ /\ h = root \/ p = NULL
              /\ pc' = "done" /\ root' = NULL /\ child' = child
           \/ /\ h # root /\ p # NULL
              /\ child' = Detached(h) /\ pc' = "destroy" /\ root' = root
        /\ UNCHANGED <<nodes, parent, visit, called, memory>>
  BY <1>1 DEF DestroyLeaf, LoopInv, TreeTypes
<1>3. called = <<>> /\ memory = <<>>
  BY <1>1, <1>2 DEF LoopInv
<1>4. p = NULL <=> h = root
  BY <1>1, <1>2 DEF TreeInv
<1>5. p # NULL => /\ p \in nodes /\ p \notin freed /\ p # h
                  /\ child[SideOf(h)][p] = h /\ SideOf(h) \in Side
  BY <1>1, <1>2 DEF TreeInv, Node, SideOf, Side
<1>6. CASE h = root
  <2>1. pc' = "done" /\ root' = NULL /\ child' = child
    BY <1>2, <1>6
  <2>2. freed' = nodes
    <3> DEFINE rest == (nodes \ freed) \ {h}
    <3>1. SUFFICES ASSUME rest # {} PROVE FALSE
      BY <1>1, <1>2 DEF TreeTypes
    <3>2. PICK depth \in [nodes -> Nat] :
            \A n \in nodes : parent[n] # NULL => depth[parent[n]] < depth[n]
      BY <1>1 DEF TreeInv, Rooted
    <3>3. PICK d \in {depth[n] : n \in rest} : \A e \in {depth[n] : n \in rest} : d <= e
      <4> DEFINE T == {depth[n] : n \in rest}
      <4>1. T \subseteq Nat /\ T # {}
        BY <3>1
      <4> HIDE DEF T
      <4>2. \E d \in T : \A e \in T : d <= e
        BY <4>1, LeastNatural
      <4> QED BY <4>2 DEF T
    <3>4. PICK n \in rest : depth[n] = d
      OBVIOUS
    <3>5. /\ parent[n] # NULL /\ parent[n] \in nodes \ freed
          /\ child[SideOf(n)][parent[n]] = n /\ SideOf(n) \in Side /\ n # NULL
      BY <1>1, <1>2, <1>6, NotANode DEF TreeInv, TreeTypes, Node, SideOf
    <3>6. depth[parent[n]] < d /\ depth[parent[n]] \in Nat /\ d \in Nat
      BY <3>2, <3>4, <3>5
    <3>7. parent[n] \in rest => d <= depth[parent[n]]
      BY <3>3
    <3>8. parent[n] = h
      BY <3>5, <3>6, <3>7
    <3> QED BY <1>2, <3>5, <3>8
  <2>3. TreeTypes'
    BY <1>1, <1>2, <2>1, <2>2 DEF TreeTypes, Node
  <2>4. TreeInv'
    BY <1>1, <1>2, <2>1, <2>2 DEF TreeInv, Rooted, SideOf
  <2>5. LoopInv' /\ WalkInv'
    BY <1>1, <1>2, <1>3, <2>1, <2>2 DEF LoopInv, WalkInv, CalledInv
  <2> QED BY <2>3, <2>4, <2>5 DEF IInv
<1>7. CASE h # root
  <2>1. /\ child' = Detached(h) /\ pc' = "destroy" /\ root' = root
        /\ p \in nodes /\ p \notin freed /\ p # h /\ p # NULL
        /\ child[SideOf(h)][p] = h /\ SideOf(h) \in Side
    BY <1>2, <1>4, <1>5, <1>7
  <2>2. IF h = child["right"][p] THEN SideOf(h) = "right" ELSE SideOf(h) = "left"
    BY <1>1, <2>1, NotANode DEF TreeInv
  <2>3. child' = [child EXCEPT ![SideOf(h)][p] = NULL]
    BY <1>2, <2>1, <2>2 DEF Detached
  <2>4. /\ child' \in [Side -> [nodes -> Node]]
        /\ child'[SideOf(h)][p] = NULL
        /\ \A s \in Side, n \in nodes : s # SideOf(h) \/ n # p => child'[s][n] = child[s][n]
    BY <1>1, <2>1, <2>3 DEF TreeTypes, Node
  <2>5. TreeTypes'
    BY <1>1, <1>2, <2>1, <2>4 DEF TreeTypes, Node
  <2>6. \A n \in nodes : SideOf(n)' = SideOf(n) /\ SideOf(n) \in Side
    BY <1>2 DEF SideOf, Side
  <2>7. ASSUME NEW s \in Side, NEW n \in nodes, NEW c \in nodes, child'[s][n] = c
        PROVE  c \notin freed' /\ parent'[c] = n /\ s = SideOf(c)'
    <3>1. child[s][n] = c
      BY <1>1, <2>1, <2>4, <2>7, NotANode
    <3>2. c \notin freed /\ parent[c] = n /\ s = SideOf(c)
      BY <1>1, <3>1, NotANode DEF TreeInv
    <3>3. c # h
      BY <1>1, <1>2, <2>4, <2>7, <3>2, NotANode
    <3> QED BY <1>2, <2>6, <3>2, <3>3
  <2>8. ASSUME NEW n \in nodes \ freed', parent[n] # NULL
        PROVE  parent[n] \notin freed' /\ child'[SideOf(n)][parent[n]] = n
    <3>1. n # h /\ parent[n] \notin freed /\ child[SideOf(n)][parent[n]] = n /\ parent[n] \in nodes
      BY <1>1, <1>2, <2>8 DEF TreeInv, TreeTypes, Node
    <3>2. parent[n] # h
      BY <1>1, <1>2, <2>6, <3>1, NotANode
    <3>3. SideOf(n) # SideOf(h) \/ parent[n] # p
      BY <2>1, <3>1
    <3> QED BY <1>2, <2>4, <2>6, <3>1, <3>2, <3>3
  <2>9. TreeInv'
    <3>1. Rooted' /\ root' \notin freed'
      BY <1>1, <1>2, <1>7, <2>1 DEF TreeInv, Rooted
    <3>2. \A s \in Side, n \in nodes : child'[s][n] \in nodes \/ child'[s][n] = NULL
      BY <2>4 DEF Node
    <3>3. \A s \in Side, n \in freed' : child'[s][n] = NULL
      BY <1>1, <1>2, <2>4 DEF TreeInv, TreeTypes
    <3>4. \A s \in Side, n \in nodes' :
            child'[s][n] # NULL => /\ child'[s][n] \notin freed'
                                   /\ parent'[child'[s][n]] = n
                                   /\ s = IF child'[s][n] < parent'[child'[s][n]]
                                          THEN "left" ELSE "right"
      BY <1>2, <2>7, <3>2 DEF SideOf
    <3> QED BY <1>1, <1>2, <2>1, <2>8, <3>1, <3>3, <3>4 DEF TreeInv, SideOf
  <2>10. LoopInv' /\ WalkInv'
    BY <1>1, <1>2, <1>3, <2>1 DEF LoopInv, WalkInv, CalledInv
  <2> QED BY <2>5, <2>9, <2>10 DEF IInv
<1> QED BY <1>6, <1>7

\* write_to_file goes the way of depth_first_search; what it writes is left out here.
LEMMA WriteKeeps ==
  ASSUME IInv, Write
  PROVE  IInv'
<1>1. TreeTypes /\ TreeInv /\ LoopInv /\ CalledInv
  BY DEF IInv, WalkInv
<1>2. pc = "write" /\ freed = {} /\ called = <<>> /\ root # NULL /\ this \in nodes
      /\ UNCHANGED <<nodes, root, child, parent, called, freed>>
  BY <1>1 DEF Write, LoopInv, treeVars
<1>3. pc' \in {"write", "done"} /\ (pc' = "write" => this' \in nodes)
      /\ visit' \in [nodes -> SUBSET Side]
  <2>1. CASE visit[this] # Side /\ Enter(NextSide(visit[this])) /\ pc' = pc
    BY <1>1, <1>2, <2>1 DEF Enter, NextSide, TreeTypes, Node, Side
  <2>2. CASE Up
    BY <1>1, <1>2, <2>2 DEF Up, TreeTypes, Node
  <2> QED BY <2>1, <2>2 DEF Write
<1>4. TreeTypes'
  BY <1>1, <1>2, <1>3 DEF TreeTypes, Node
<1>5. TreeInv' /\ LoopInv' /\ WalkInv'
  BY <1>1, <1>2, <1>3 DEF TreeInv, Rooted, SideOf, LoopInv, WalkInv, CalledInv
<1> QED BY <1>4, <1>5 DEF IInv

\* map_from_memory works on the cells of the file; the tree is one that was written.
LEMMA MapKeeps ==
  ASSUME IInv, BeginMap \/ MapChild \/ MapEmpty \/ MapUp
  PROVE  IInv'
<1>1. TreeTypes /\ TreeInv /\ LoopInv /\ CalledInv
  BY DEF IInv, WalkInv
<1>2. /\ freed = {} /\ called = <<>>
      /\ pc' \in {"map", "done"}
      /\ UNCHANGED <<nodes, root, child, parent, visit, called, freed>>
  BY <1>1 DEF BeginMap, MapChild, MapEmpty, MapUp, LoopInv, treeVars
<1>3. TreeTypes'
  BY <1>1, <1>2 DEF TreeTypes, Node
<1>4. TreeInv' /\ LoopInv' /\ WalkInv'
  BY <1>1, <1>2 DEF TreeInv, Rooted, SideOf, LoopInv, WalkInv, CalledInv
<1> QED BY <1>3, <1>4 DEF IInv

LEMMA NextInvariant == IInv /\ [Next]_vars => IInv'
<1> SUFFICES ASSUME IInv, [Next]_vars PROVE IInv'
  OBVIOUS
<1>1. CASE BeginWalk \/ BeginDestroy \/ BeginWrite
  BY <1>1, BeginKeeps
<1>2. CASE Walk
  BY <1>2, WalkDownKeeps, WalkUpKeeps DEF Walk
<1>3. CASE DestroyDown \/ DestroyLeaf
  BY <1>3, DestroyDownKeeps, DestroyLeafKeeps
<1>4. CASE Write
  BY <1>4, WriteKeeps
<1>5. CASE BeginMap \/ MapChild \/ MapEmpty \/ MapUp
  BY <1>5, MapKeeps
<1>6. CASE UNCHANGED vars
  <2>1. UNCHANGED <<nodes, root, child, parent, visit, pc, this, called, freed, memory>>
    BY <1>6 DEF vars
  <2>2. TreeTypes' /\ TreeInv' /\ LoopInv'
    BY <2>1, SMTT(30) DEF IInv, TreeTypes, TreeInv, LoopInv, Node, Rooted, SideOf
  <2>3. CalledInv'
    BY <2>1 DEF IInv, WalkInv, CalledInv, Precedes
  <2>4. ASSUME NEW P \in SUBSET nodes, Path(P) PROVE Path(P)'
    BY <2>1, <2>4 DEF Path, Current
  <2>5. WalkInv'
    BY <2>1, <2>3, <2>4 DEF IInv, WalkInv
  <2> QED BY <2>2, <2>5 DEF IInv
<1> QED BY <1>1, <1>2, <1>3, <1>4, <1>5, <1>6 DEF Next, Loop

LEMMA Invariant == Spec => []IInv
  BY InitInvariant, NextInvariant, PTL DEF Spec

-----------------------------------------------------------------------------
(* The theorems *)

\* The pointers of the tree, the marks and what was called back with and freed keep
\* their types in every loop, whatever marks were there before.
THEOREM TypesCorrect == Spec => []TreeTypes
<1>1. IInv => TreeTypes
  BY DEF IInv
<1> QED BY <1>1, Invariant, PTL

\* destroy_subtree, which reads the pointers of a node after the nodes below it are
\* gone, never stands on a freed node and ends when all are freed.
THEOREM DestroyFreesEachOnce == Spec => []FreesEachOnce
<1>1. IInv => FreesEachOnce
  BY DEF IInv, LoopInv, TreeInv, FreesEachOnce
<1> QED BY <1>1, Invariant, PTL

\* depth_first_search has no stack and starts on any marks, and calls back once with
\* each key of the tree, children before parents and left before right.
THEOREM WalkVisitsInPostorder == Spec => []WalkIsPostorder
<1>1. ASSUME IInv, called # <<>>, pc = "done"
      PROVE  LET Turn(n) == CHOOSE i \in DOMAIN called : called[i] = n
             IN  /\ Len(called) = Cardinality(nodes)
                 /\ ToSet(called) = nodes
                 /\ \A n \in nodes : parent[n] # NULL => Turn(n) < Turn(parent[n])
                 /\ \A m, n \in nodes : m < n /\ parent[m] = parent[n] => Turn(m) < Turn(n)
  <2> DEFINE Turn(n) == CHOOSE i \in DOMAIN called : called[i] = n
  <2>1. TreeTypes /\ TreeInv /\ CalledInv /\ ToSet(called) = nodes /\ freed = {}
    BY <1>1 DEF IInv, WalkInv, LoopInv
  <2>2. called \in Seq(nodes) /\ DOMAIN called = 1 .. Len(called) /\ Len(called) \in Nat
    BY <2>1 DEF TreeTypes
  <2>3. Len(called) = Cardinality(nodes)
    <3>1. called \in Bijection(1 .. Len(called), nodes)
      BY <2>1, <2>2 DEF Bijection, Injection, IsInjective, Surjection, CalledInv, ToSet
    <3> QED BY <2>2, <3>1, FS_CountingElements DEF ExistsBijection
  <2>4. \A n \in nodes : Turn(n) \in DOMAIN called /\ called[Turn(n)] = n
    BY <2>1 DEF ToSet
  <2>5. \A i \in DOMAIN called : Turn(called[i]) = i
    BY <2>1, <2>4 DEF CalledInv, TreeTypes
  <2>6. ASSUME NEW n \in nodes, NEW i \in DOMAIN called, Precedes(n, i)
        PROVE  Turn(n) < i
    <3> HIDE DEF Turn
    <3> QED BY <2>2, <2>5, <2>6 DEF Precedes
  <2>7. ASSUME NEW n \in nodes, parent[n] # NULL PROVE Turn(n) < Turn(parent[n])
    <3> HIDE DEF Turn
    <3>1. parent[n] \in nodes /\ child[SideOf(n)][parent[n]] = n /\ SideOf(n) \in Side /\ n # NULL
      BY <2>1, <2>7, NotANode DEF TreeInv, TreeTypes, Node, SideOf
    <3>2. Precedes(n, Turn(parent[n]))
      BY <2>1, <2>4, <3>1 DEF CalledInv
    <3> QED BY <2>4, <2>6, <3>1, <3>2
  <2>8. ASSUME NEW m \in nodes, NEW n \in nodes, m < n, parent[m] = parent[n]
        PROVE  Turn(m) < Turn(n)
    <3> HIDE DEF Turn
    <3>1. Precedes(m, Turn(n))
      BY <2>1, <2>4, <2>8 DEF CalledInv
    <3> QED BY <2>4, <2>6, <3>1
  <2> QED BY <2>1, <2>3, <2>7, <2>8, ZenonT(40)
<1>2. IInv => WalkIsPostorder
  BY <1>1 DEF WalkIsPostorder
<1> QED BY <1>2, Invariant, PTL

-----------------------------------------------------------------------------
(* The way of the loops *)

\* The side of a node whose mark in v was set last.
Cur(v, n) == IF "right" \in v[n] THEN "right" ELSE "left"

\* A loop with marks v has come to node t: P is the path to it from the root and F are
\* the nodes that the loop is done with.
Trav(P, F, v, t) ==
  /\ P \subseteq nodes /\ F \subseteq nodes /\ P \intersect F = {}
  /\ t \in P /\ root \in P
  /\ \A n \in P : /\ n # root => parent[n] \in P
                  /\ v[n] \in {{}, {"left"}, Side}
                  /\ n # t => v[n] # {} /\ child[Cur(v, n)][n] \in P
  /\ \A n \in P, s \in Side :
       child[s][n] # NULL =>
         IF s \notin v[n] THEN child[s][n] \notin F \union P
         ELSE (n # t /\ s = Cur(v, n)) \/ child[s][n] \in F
  /\ \A n \in F : /\ v[n] = Side
                  /\ n # root => parent[n] \in F \union P
                  /\ \A s \in Side : child[s][n] # NULL => child[s][n] \in F

\* The marks after a turn to side s of node t, where c is.
Entered(v, t, s, c) ==
  [n \in nodes |-> IF n = t THEN v[t] \union {s} ELSE IF n = c THEN {} ELSE v[n]]

\* The tree while it is written and mapped.
LEMMA Tree ==
  ASSUME IInv, freed = {}, root # NULL
  PROVE  /\ root \in nodes /\ NULL \notin nodes
         /\ \A n \in nodes :
              /\ parent[n] \in Node
              /\ parent[n] = NULL <=> n = root
              /\ n # root => /\ parent[n] \in nodes /\ parent[n] # n
                             /\ child[SideOf(n)][parent[n]] = n
                             /\ SideOf(n) \in Side
              /\ \A s \in Side :
                   /\ child[s][n] \in Node
                   /\ child[s][n] # NULL =>
                        /\ child[s][n] \in nodes /\ child[s][n] # n /\ child[s][n] # root
                        /\ parent[child[s][n]] = n /\ s = SideOf(child[s][n])
  BY NotANode DEF IInv, TreeTypes, TreeInv, Node, SideOf

\* The loop starts at the root.
LEMMA TravStarts ==
  ASSUME IInv, freed = {}, root # NULL,
         NEW v, v[root] = {}
  PROVE  Trav({root}, {}, v, root)
  BY Tree DEF Trav

\* What hangs from the next side is new.
LEMMA NextIsNew ==
  ASSUME IInv, freed = {}, root # NULL,
         NEW P, NEW F, NEW v, NEW t, Trav(P, F, v, t), v[t] # Side,
         NEW c, c = child[NextSide(v[t])][t], c # NULL
  PROVE  c \in nodes /\ c \notin P \union F
<1>1. PICK s : s = NextSide(v[t])
  OBVIOUS
<1>2. /\ t \in nodes /\ t \in P /\ s \in Side
      /\ (v[t] = {} /\ s = "left") \/ (v[t] = {"left"} /\ s = "right")
  BY <1>1 DEF Trav, NextSide, Side
<1>3. c \in nodes
  BY <1>1, <1>2, Tree
<1>4. c \notin P \union F
  BY <1>1, <1>2 DEF Trav
<1> QED BY <1>3, <1>4

\* The next side of the node has a child: it is next.
LEMMA TravDown ==
  ASSUME IInv, freed = {}, root # NULL,
         NEW P, NEW F, NEW v, NEW t, Trav(P, F, v, t), v[t] # Side,
         NEW s, s = NextSide(v[t]), NEW c, c = child[s][t], c # NULL,
         NEW w, w = Entered(v, t, s, c),
         NEW Q, Q = P \union {c}
  PROVE  Trav(Q, F, w, c)
<1>1. /\ t \in nodes /\ t \in P /\ s \in Side
      /\ (v[t] = {} /\ s = "left") \/ (v[t] = {"left"} /\ s = "right")
  BY DEF Trav, NextSide, Side
<1>2. c \in nodes /\ c # t /\ c # root /\ parent[c] = t /\ s = SideOf(c) /\ c # NULL
  BY <1>1, Tree
<1>3. c \notin P \union F
  BY <1>1, <1>2 DEF Trav
<1>4. w[t] \in {{"left"}, Side} /\ s \in w[t] /\ Cur(w, t) = s /\ w[c] = {}
      /\ v[t] \subseteq w[t] /\ (\A r \in Side : r \in w[t] => r = s \/ r \in v[t])
  BY <1>1, <1>2 DEF Cur, Side, Entered
<1>5. \A n \in P \union F : n # t => w[n] = v[n] /\ Cur(w, n) = Cur(v, n)
  BY <1>3 DEF Cur, Trav, Entered
<1>6. ASSUME NEW n \in Q, NEW r \in Side, child[r][n] # NULL
      PROVE  IF r \notin w[n] THEN child[r][n] \notin F \union Q
             ELSE (n # c /\ r = Cur(w, n)) \/ child[r][n] \in F
  <2>1. CASE n = c
    <3>1. child[r][c] # root /\ parent[child[r][c]] = c /\ child[r][c] # c
      BY <1>2, <1>6, <2>1, Tree
    <3>2. child[r][c] \notin P \union F
      BY <1>3, <3>1 DEF Trav
    <3> QED BY <1>4, <2>1, <3>1, <3>2
  <2>2. CASE n = t
    <3>1. r = s => child[r][n] = c
      BY <2>2
    <3>2. r # s => child[r][n] # c
      BY <1>1, <1>2, <1>6, <2>2, Tree, SMTT(30)
    <3>3. r # s => IF r \notin v[t] THEN child[r][t] \notin F \union P
                   ELSE child[r][t] \in F
      BY <1>1, <1>6, <2>2 DEF Trav
    <3>4. r # s => (r \in v[t] <=> r \in w[t])
      BY <1>4
    <3> QED BY <1>2, <1>4, <2>2, <3>1, <3>2, <3>3, <3>4
  <2>3. CASE n \in P /\ n # t
    <3>1. child[r][n] # c
      <4>1. parent[child[r][n]] = n
        BY <1>6, <2>3, Tree DEF Trav
      <4> QED BY <1>2, <2>3, <4>1
    <3> QED BY <1>3, <1>5, <1>6, <2>3, <3>1 DEF Trav
  <2> QED BY <2>1, <2>2, <2>3
<1>7. ASSUME NEW n \in Q
      PROVE  /\ n # root => parent[n] \in Q
             /\ w[n] \in {{}, {"left"}, Side}
             /\ n # c => w[n] # {} /\ child[Cur(w, n)][n] \in Q
  <2>1. CASE n = c
    BY <1>1, <1>2, <1>4, <2>1
  <2>2. CASE n = t
    BY <1>1, <1>4, <2>2 DEF Trav
  <2>3. CASE n \in P /\ n # t
    BY <1>5, <2>3 DEF Trav
  <2> QED BY <2>1, <2>2, <2>3
<1>8. \A n \in F : /\ w[n] = Side
                   /\ n # root => parent[n] \in F \union Q
                   /\ \A r \in Side : child[r][n] # NULL => child[r][n] \in F
  <2>1. t \notin F
    BY <1>1 DEF Trav
  <2> QED BY <1>5, <2>1 DEF Trav
<1>9. Q \subseteq nodes /\ F \subseteq nodes /\ Q \intersect F = {} /\ c \in Q /\ root \in Q
  <2>1. P \subseteq nodes /\ F \subseteq nodes /\ P \intersect F = {} /\ root \in P
    BY DEF Trav
  <2> QED BY <1>2, <1>3, <2>1
<1> QED BY <1>6, <1>7, <1>8, <1>9 DEF Trav

\* The next side of the node has none: it is marked.
LEMMA TravSkip ==
  ASSUME IInv, freed = {}, root # NULL,
         NEW P, NEW F, NEW v, NEW t, Trav(P, F, v, t), v[t] # Side,
         NEW s, s = NextSide(v[t]), child[s][t] = NULL,
         NEW w, w = Entered(v, t, s, NULL)
  PROVE  Trav(P, F, w, t)
<1>1. /\ t \in nodes /\ t \in P /\ s \in Side
      /\ (v[t] = {} /\ s = "left") \/ (v[t] = {"left"} /\ s = "right")
  BY DEF Trav, NextSide, Side
<1>2. w[t] \in {{"left"}, Side} /\ \A r \in Side : r # s => (r \in w[t] <=> r \in v[t])
  BY <1>1 DEF Side, Entered
<1>3. \A n \in P \union F : n # t => w[n] = v[n] /\ Cur(w, n) = Cur(v, n)
  BY Tree DEF Cur, Trav, Entered
<1>4. ASSUME NEW n \in P, NEW r \in Side, child[r][n] # NULL
      PROVE  IF r \notin w[n] THEN child[r][n] \notin F \union P
             ELSE (n # t /\ r = Cur(w, n)) \/ child[r][n] \in F
  <2>1. CASE n = t
    BY <1>2, <1>4, <2>1 DEF Trav
  <2>2. CASE n # t
    BY <1>3, <1>4, <2>2 DEF Trav
  <2> QED BY <2>1, <2>2
<1>5. \A n \in P : /\ n # root => parent[n] \in P
                   /\ w[n] \in {{}, {"left"}, Side}
                   /\ n # t => w[n] # {} /\ child[Cur(w, n)][n] \in P
  BY <1>2, <1>3 DEF Trav
<1>6. \A n \in F : w[n] = v[n]
  BY <1>1, <1>3 DEF Trav
<1> QED BY <1>4, <1>5, <1>6 DEF Trav

\* Both sides of the node are done: so is the node, and its parent is next.
LEMMA TravUp ==
  ASSUME IInv, freed = {}, root # NULL,
         NEW P, NEW F, NEW v, NEW t, Trav(P, F, v, t), v[t] = Side, t # root,
         NEW p, p = parent[t],
         NEW Q, Q = P \ {t}, NEW G, G = F \union {t}
  PROVE  /\ p \in P /\ v[p] # {} /\ Cur(v, p) = SideOf(t) /\ child[SideOf(t)][p] = t
         /\ Trav(Q, G, v, p)
<1>1. t \in P /\ t \in nodes /\ p \in nodes /\ p \in P /\ p # t
      /\ child[SideOf(t)][p] = t /\ SideOf(t) \in Side /\ t # NULL /\ t \notin F
  BY Tree DEF Trav
<1>2. /\ v[p] # {} /\ child[Cur(v, p)][p] \in P
      /\ Cur(v, p) \in Side /\ Cur(v, p) \in v[p]
  BY <1>1 DEF Trav, Cur, Side
<1>3. Cur(v, p) = SideOf(t)
  <2>1. SideOf(t) \in v[p]
    BY <1>1 DEF Trav
  <2> QED BY <1>1, <2>1 DEF Trav
<1>4. \A r \in Side : child[r][t] # NULL => child[r][t] \in F
  BY <1>1 DEF Trav
<1>5. ASSUME NEW n \in Q, NEW r \in Side, child[r][n] # NULL
      PROVE  IF r \notin v[n] THEN child[r][n] \notin G \union Q
             ELSE (n # p /\ r = Cur(v, n)) \/ child[r][n] \in G
  <2>1. r \notin v[n] => child[r][n] # t
    BY <1>1, <1>5 DEF Trav
  <2>2. n = p /\ r = Cur(v, n) => child[r][n] = t
    BY <1>1, <1>3
  <2> QED BY <1>5, <2>1, <2>2 DEF Trav
<1>6. ASSUME NEW n \in Q
      PROVE  /\ n # root => parent[n] \in Q
             /\ v[n] \in {{}, {"left"}, Side}
             /\ n # p => v[n] # {} /\ child[Cur(v, n)][n] \in Q
  <2>1. n \in P /\ n # t /\ n \in nodes /\ n \notin F
    BY DEF Trav
  <2>2. n # root => parent[n] # t
    <3>1. SUFFICES ASSUME n # root, parent[n] = t PROVE FALSE
      OBVIOUS
    <3>2. child[SideOf(n)][t] = n /\ SideOf(n) \in Side /\ n # NULL
      BY <2>1, <3>1, Tree
    <3> QED BY <1>4, <2>1, <3>2
  <2>3. child[Cur(v, n)][n] = t => n = p
    <3>1. SUFFICES ASSUME child[Cur(v, n)][n] = t PROVE n = p
      OBVIOUS
    <3>2. Cur(v, n) \in Side
      BY DEF Cur, Side
    <3> QED BY <1>1, <2>1, <3>1, <3>2, Tree
  <2> QED BY <2>1, <2>2, <2>3 DEF Trav
<1>7. \A n \in G : /\ v[n] = Side
                   /\ n # root => parent[n] \in G \union Q
                   /\ \A r \in Side : child[r][n] # NULL => child[r][n] \in G
  BY <1>1, <1>4 DEF Trav
<1>8. Q \subseteq nodes /\ G \subseteq nodes /\ Q \intersect G = {} /\ p \in Q /\ root \in Q
  BY <1>1 DEF Trav
<1>9. Trav(Q, G, v, p)
  BY <1>5, <1>6, <1>7, <1>8 DEF Trav
<1> QED BY <1>1, <1>2, <1>3, <1>9

\* Both sides of the root are done: so is the tree.
LEMMA TravEnds ==
  ASSUME IInv, freed = {}, root # NULL,
         NEW P, NEW F, NEW v, Trav(P, F, v, root), v[root] = Side
  PROVE  P = {root} /\ F \union {root} = nodes /\ \A n \in nodes : v[n] = Side
<1> DEFINE G == F \union {root}
           rest == nodes \ G
<1>1. root \in P /\ root \in nodes /\ \A s \in Side : child[s][root] # NULL => child[s][root] \in F
  BY DEF Trav
<1>2. rest = {}
  <2>1. SUFFICES ASSUME rest # {} PROVE FALSE
    OBVIOUS
  <2>2. PICK depth \in [nodes -> Nat] :
          \A n \in nodes : parent[n] # NULL => depth[parent[n]] < depth[n]
    BY DEF IInv, TreeInv, Rooted
  <2>3. PICK d \in {depth[n] : n \in rest} : \A e \in {depth[n] : n \in rest} : d <= e
    <3> DEFINE T == {depth[n] : n \in rest}
    <3>1. T \subseteq Nat /\ T # {}
      BY <2>1
    <3> HIDE DEF T
    <3>2. \E d \in T : \A e \in T : d <= e
      BY <3>1, LeastNatural
    <3> QED BY <3>2 DEF T
  <2>4. PICK n \in rest : depth[n] = d
    OBVIOUS
  <2>5. n \in nodes /\ n # root /\ parent[n] \in nodes /\ parent[n] # NULL /\ n # NULL
        /\ child[SideOf(n)][parent[n]] = n /\ SideOf(n) \in Side
    BY Tree
  <2>6. depth[parent[n]] < d /\ depth[parent[n]] \in Nat /\ d \in Nat
    BY <2>2, <2>4, <2>5
  <2>7. parent[n] \in G
    <3>1. parent[n] \in rest => d <= depth[parent[n]]
      BY <2>3
    <3> QED BY <2>5, <2>6, <3>1
  <2>8. n \in F
    BY <1>1, <2>5, <2>7 DEF Trav
  <2> QED BY <2>8
<1>3. P = {root} /\ G = nodes
  BY <1>1, <1>2 DEF Trav
<1> QED BY <1>3 DEF Trav

-----------------------------------------------------------------------------
(* Where the cells lie *)

\* The cells of a node, its key and its list.
Size(n) == 3 + Len(AppsOf[n])

\* pos[n] is the position of the cell of node n, behind[s][n] the one behind all cells
\* of side s: those of the subtree or the empty one.
Place(pos, behind, s, n) == IF s = "left" THEN pos[n] + Size(n) ELSE behind["left"][n]

Layout(pos, behind) ==
  /\ pos \in [nodes -> Nat]
  /\ behind \in [Side -> [nodes -> Nat]]
  /\ pos[root] = 2
  /\ \A s \in Side, n \in nodes :
       IF child[s][n] = NULL THEN behind[s][n] = Place(pos, behind, s, n) + 1
       ELSE /\ pos[child[s][n]] = Place(pos, behind, s, n)
            /\ behind[s][n] = behind["right"][child[s][n]]

\* The position that a loop with marks v has come to at node t.
Ahead(pos, behind, v, t) ==
  IF v[t] = {} THEN pos[t] + Size(t) ELSE behind[Cur(v, t)][t]

\* A function f is defined by f[n] = g[n][f] when each value depends on values of less
\* depth only, and there is a bound on the depth.
Recursive(S, depth, bound, g) ==
  /\ depth \in [S -> Nat] /\ bound \in Nat /\ \A n \in S : depth[n] < bound
  /\ g \in [S -> [[S -> Nat] -> Nat]]
  /\ \A n \in S : \A f, h \in [S -> Nat] :
       (\A m \in S : depth[m] < depth[n] => f[m] = h[m]) => g[n][f] = g[n][h]

\* Such a function exists.
LEMMA Recursion ==
  ASSUME NEW S, NEW depth, NEW bound, NEW g, Recursive(S, depth, bound, g)
  PROVE  \E f \in [S -> Nat] : \A n \in S : f[n] = g[n][f]
<1> USE DEF Recursive
<1> DEFINE Upto(d) == \E f \in [S -> Nat] : \A n \in S : depth[n] < d => f[n] = g[n][f]
           Short == {d \in Nat : ~Upto(d)}
<1>1. Upto(0)
  <2>1. [n \in S |-> 0] \in [S -> Nat] /\ \A n \in S : ~(depth[n] < 0)
    OBVIOUS
  <2> QED BY <2>1
<1>2. ASSUME NEW d \in Nat, Upto(d)
      PROVE  Upto(d + 1)
  <2>1. PICK f \in [S -> Nat] : \A n \in S : depth[n] < d => f[n] = g[n][f]
    BY <1>2
  <2>2. PICK h \in [S -> Nat] : \A n \in S : h[n] = g[n][f]
    <3>1. [n \in S |-> g[n][f]] \in [S -> Nat]
      OBVIOUS
    <3> QED BY <3>1
  <2>3. ASSUME NEW n \in S, depth[n] < d + 1 PROVE h[n] = g[n][h]
    <3>1. \A m \in S : depth[m] < depth[n] => f[m] = h[m]
      BY <2>1, <2>2, <2>3
    <3>2. g[n][f] = g[n][h]
      BY <3>1
    <3> QED BY <2>2, <3>2
  <2> QED BY <2>3
<1> HIDE DEF Upto
<1>3. Short = {}
  <2>1. SUFFICES ASSUME Short # {} PROVE FALSE
    OBVIOUS
  <2>2. Short \subseteq Nat
    OBVIOUS
  <2>3. PICK d \in Short : \A e \in Short : d <= e
    <3> HIDE DEF Short
    <3> QED BY <2>1, <2>2, LeastNatural
  <2>4. d # 0 /\ d \in Nat
    BY <1>1
  <2>5. d - 1 \in Nat /\ d - 1 \notin Short
    BY <2>3, <2>4
  <2>6. Upto(d - 1)
    BY <2>5
  <2>7. Upto((d - 1) + 1)
    BY <1>2, <2>5, <2>6
  <2> QED BY <2>4, <2>7
<1>4. Upto(bound)
  BY <1>3
<1>5. PICK f \in [S -> Nat] : \A n \in S : depth[n] < bound => f[n] = g[n][f]
  BY <1>4 DEF Upto
<1> QED BY <1>5

\* The depth of the nodes is bounded, and so is their height.
LEMMA Depths ==
  ASSUME IInv
  PROVE  \E depth, height \in [nodes -> Nat], bound \in Nat :
           \A n \in nodes :
             /\ depth[n] < bound /\ height[n] < bound
             /\ parent[n] # NULL => /\ depth[parent[n]] < depth[n]
                                    /\ height[n] < height[parent[n]]
<1>1. PICK depth \in [nodes -> Nat] :
        \A n \in nodes : parent[n] # NULL => depth[parent[n]] < depth[n]
  BY DEF IInv, TreeInv, Rooted
<1>2. IsFiniteSet(nodes) /\ \A n \in nodes : parent[n] \in Node
  BY KeyAssumption, FS_Subset DEF IInv, TreeTypes
<1>3. PICK top \in Nat : \A n \in nodes : depth[n] <= top
  <2> DEFINE T == {depth[n] : n \in nodes} \union {0}
  <2>1. T \subseteq Nat /\ T # {} /\ \A n \in nodes : depth[n] \in T
    OBVIOUS
  <2>2. IsFiniteSet(T)
    <3>1. IsFiniteSet({depth[n] : n \in nodes})
      <4> DEFINE U == {depth[n] : n \in nodes}
      <4>1. depth \in Surjection(nodes, U)
        BY DEF Surjection
      <4> HIDE DEF U
      <4>2. IsFiniteSet(U)
        BY <1>2, <4>1, FS_Surjection
      <4> QED BY <4>2 DEF U
    <3> QED BY <3>1, FS_AddElement
  <2> HIDE DEF T
  <2>3. T \subseteq Int
    BY <2>1
  <2>4. PICK top \in T : \A d \in T : d <= top
    BY <2>1, <2>2, <2>3, FiniteExtremes
  <2> QED BY <2>1, <2>4
<1> DEFINE height == [n \in nodes |-> top - depth[n]]
<1>4. height \in [nodes -> Nat]
  BY <1>3
<1>5. \A n \in nodes : /\ depth[n] < top + 1 /\ height[n] < top + 1
                       /\ parent[n] # NULL => height[n] < height[parent[n]]
  BY <1>1, <1>2, <1>3 DEF Node
<1> HIDE DEF height
<1> QED BY <1>1, <1>4, <1>5, SMTT(30)

LEMMA Sizes ==
  ASSUME IInv
  PROVE  \A n \in nodes : Size(n) \in Nat /\ Size(n) >= 3 /\ Len(AppsOf[n]) \in Nat
<1>1. ASSUME NEW n \in nodes PROVE Len(AppsOf[n]) \in Nat
  <2>1. AppsOf[n] \in Seq(ToSet(AppsOf[n]))
    BY AppsAssumption DEF IInv, TreeTypes
  <2> HIDE DEF ToSet
  <2> QED BY <2>1, LenProperties
<1> QED BY <1>1 DEF Size

\* Every tree has a layout, whatever its shape and the lengths of its lists.
LEMMA LayoutExists ==
  ASSUME IInv, freed = {}, root # NULL
  PROVE  \E pos, behind : Layout(pos, behind)
<1>1. PICK depth \in [nodes -> Nat], height \in [nodes -> Nat], bound \in Nat :
        \A n \in nodes :
          /\ depth[n] < bound /\ height[n] < bound
          /\ parent[n] # NULL => /\ depth[parent[n]] < depth[n]
                                 /\ height[n] < height[parent[n]]
  BY Depths
<1>2. \A n \in nodes : Size(n) \in Nat
  BY Sizes
<1>3. \A n \in nodes, s \in Side : child[s][n] # NULL =>
        child[s][n] \in nodes /\ height[child[s][n]] < height[n]
  BY <1>1, Tree
<1> DEFINE Of(f, s, n) == IF child[s][n] = NULL THEN 1 ELSE f[child[s][n]]
<1>4. PICK len \in [nodes -> Nat] :
        \A n \in nodes : len[n] = Size(n) + Of(len, "left", n) + Of(len, "right", n)
  <2> DEFINE g == [n \in nodes |-> [f \in [nodes -> Nat] |->
                    Size(n) + Of(f, "left", n) + Of(f, "right", n)]]
  <2>1. \A f \in [nodes -> Nat], n \in nodes, s \in Side : Of(f, s, n) \in Nat
    BY <1>3
  <2>2. "left" \in Side /\ "right" \in Side
    BY DEF Side
  <2>3. ASSUME NEW n \in nodes, NEW f \in [nodes -> Nat], NEW h \in [nodes -> Nat],
               \A m \in nodes : height[m] < height[n] => f[m] = h[m]
        PROVE  \A s \in Side : Of(f, s, n) = Of(h, s, n)
    BY <1>3, <2>3
  <2> HIDE DEF Of
  <2>4. g \in [nodes -> [[nodes -> Nat] -> Nat]]
    BY <1>2, <2>1, <2>2
  <2>5. \A n \in nodes : \A f, h \in [nodes -> Nat] :
          (\A m \in nodes : height[m] < height[n] => f[m] = h[m]) => g[n][f] = g[n][h]
    BY <2>2, <2>3
  <2>6. \A n \in nodes, f \in [nodes -> Nat] :
          g[n][f] = Size(n) + Of(f, "left", n) + Of(f, "right", n)
    OBVIOUS
  <2> HIDE DEF g
  <2>7. \E f \in [nodes -> Nat] : \A n \in nodes : f[n] = g[n][f]
    <3>1. Recursive(nodes, height, bound, g)
      BY <1>1, <2>4, <2>5 DEF Recursive
    <3> QED BY <3>1, Recursion
  <2> QED BY <2>6, <2>7
<1>5. \A n \in nodes, s \in Side : Of(len, s, n) \in Nat
  BY <1>3
<1>6. PICK pos \in [nodes -> Nat] :
        \A n \in nodes : pos[n] = IF n = root THEN 2 ELSE pos[parent[n]] + Size(parent[n]) +
          (IF SideOf(n) = "left" THEN 0 ELSE Of(len, "left", parent[n]))
  <2> DEFINE off == [n \in nodes |-> IF n = root THEN 2 ELSE Size(parent[n]) +
                      (IF SideOf(n) = "left" THEN 0 ELSE Of(len, "left", parent[n]))]
             g == [n \in nodes |-> [f \in [nodes -> Nat] |->
                    IF n = root THEN 2 ELSE f[parent[n]] + off[n]]]
  <2> HIDE DEF Of
  <2>1. \A n \in nodes : n # root => parent[n] \in nodes /\ depth[parent[n]] < depth[n]
    BY <1>1, Tree
  <2>2. off \in [nodes -> Nat]
    <3>1. "left" \in Side
      BY DEF Side
    <3> QED BY <1>2, <1>5, <2>1, <3>1
  <2>3. \A n \in nodes : n # root => off[n] = Size(parent[n]) +
                      (IF SideOf(n) = "left" THEN 0 ELSE Of(len, "left", parent[n]))
    OBVIOUS
  <2> HIDE DEF off
  <2>4. g \in [nodes -> [[nodes -> Nat] -> Nat]]
    BY <2>1, <2>2
  <2>5. \A n \in nodes : \A f, h \in [nodes -> Nat] :
          (\A m \in nodes : depth[m] < depth[n] => f[m] = h[m]) => g[n][f] = g[n][h]
    BY <2>1
  <2>6. \A n \in nodes, f \in [nodes -> Nat] :
          g[n][f] = IF n = root THEN 2 ELSE f[parent[n]] + off[n]
    OBVIOUS
  <2> HIDE DEF g
  <2>7. PICK f \in [nodes -> Nat] : \A n \in nodes : f[n] = g[n][f]
    <3>1. Recursive(nodes, depth, bound, g)
      BY <1>1, <2>4, <2>5 DEF Recursive
    <3> QED BY <3>1, Recursion
  <2>8. ASSUME NEW n \in nodes
        PROVE  f[n] = IF n = root THEN 2 ELSE f[parent[n]] + Size(parent[n]) +
                 (IF SideOf(n) = "left" THEN 0 ELSE Of(len, "left", parent[n]))
    <3>1. n = root => f[n] = 2
      BY <2>6, <2>7
    <3>2. n # root => f[n] = f[parent[n]] + off[n]
      BY <2>6, <2>7
    <3>3. n # root => /\ f[parent[n]] \in Nat /\ Size(parent[n]) \in Nat
                      /\ Of(len, "left", parent[n]) \in Nat
      BY <1>2, <1>5, <2>1 DEF Side
    <3> QED BY <2>3, <3>1, <3>2, <3>3
  <2> QED BY <2>8
<1> DEFINE left == [n \in nodes |-> pos[n] + Size(n) + Of(len, "left", n)]
           behind == [s \in Side |-> IF s = "left" THEN left
                       ELSE [n \in nodes |-> left[n] + Of(len, "right", n)]]
<1> HIDE DEF Of
<1>7. /\ behind \in [Side -> [nodes -> Nat]]
      /\ \A n \in nodes : /\ behind["left"][n] = pos[n] + Size(n) + Of(len, "left", n)
                          /\ behind["right"][n] = behind["left"][n] + Of(len, "right", n)
                          /\ behind["right"][n] = pos[n] + len[n]
  <2>1. left \in [nodes -> Nat]
    BY <1>2, <1>5 DEF Side
  <2>2. behind \in [Side -> [nodes -> Nat]]
    <3> HIDE DEF left
    <3>1. [n \in nodes |-> left[n] + Of(len, "right", n)] \in [nodes -> Nat]
      BY <1>5, <2>1 DEF Side
    <3> QED BY <2>1, <3>1
  <2>3. behind["left"] = left /\ behind["right"] = [n \in nodes |-> left[n] + Of(len, "right", n)]
    BY DEF Side
  <2>4. ASSUME NEW n \in nodes
        PROVE  /\ left[n] = pos[n] + Size(n) + Of(len, "left", n)
               /\ left[n] + Of(len, "right", n) = pos[n] + len[n]
    <3>1. Of(len, "left", n) \in Nat /\ Of(len, "right", n) \in Nat
      BY <1>5 DEF Side
    <3> QED BY <1>2, <1>4, <3>1
  <2> QED BY <2>2, <2>3, <2>4
<1> HIDE DEF behind
<1>8. ASSUME NEW s \in Side, NEW n \in nodes
      PROVE  IF child[s][n] = NULL THEN behind[s][n] = Place(pos, behind, s, n) + 1
             ELSE /\ pos[child[s][n]] = Place(pos, behind, s, n)
                  /\ behind[s][n] = behind["right"][child[s][n]]
  <2>1. behind[s][n] = Place(pos, behind, s, n) + Of(len, s, n)
    BY <1>7 DEF Place, Side
  <2>2. CASE child[s][n] = NULL
    BY <2>1, <2>2 DEF Of
  <2>3. CASE child[s][n] # NULL
    <3>1. /\ child[s][n] \in nodes /\ child[s][n] # root /\ parent[child[s][n]] = n
          /\ s = SideOf(child[s][n])
      BY <2>3, Tree
    <3>2. pos[child[s][n]] = Place(pos, behind, s, n)
      BY <1>2, <1>6, <1>7, <3>1 DEF Place, Side
    <3>3. behind["right"][child[s][n]] = pos[child[s][n]] + len[child[s][n]]
      BY <1>7, <3>1
    <3> QED BY <2>1, <2>3, <3>2, <3>3 DEF Of
  <2> QED BY <2>2, <2>3
<1>9. pos[root] = 2
  BY <1>6, Tree
<1> QED BY <1>7, <1>8, <1>9 DEF Layout

-----------------------------------------------------------------------------
(* Sequences of any elements *)

IsSeq(m) == m \in Seq(ToSet(m))

\* A sequence is a function on its positions.
LEMMA SeqIs ==
  ASSUME NEW m, IsSeq(m)
  PROVE  Len(m) \in Nat /\ DOMAIN m = 1 .. Len(m) /\ m = [i \in 1 .. Len(m) |-> m[i]]
<1> DEFINE S == ToSet(m)
<1>1. m \in Seq(S)
  BY DEF IsSeq
<1> HIDE DEF S
<1> QED BY <1>1, LenProperties

\* A function on the first k positions is a sequence.
IsList(m, k) == m = [i \in 1 .. k |-> m[i]]

LEMMA ListIsSeq ==
  ASSUME NEW k \in Nat, NEW m, IsList(m, k)
  PROVE  IsSeq(m) /\ Len(m) = k
<1>1. PICK S : S = ToSet(m)
  OBVIOUS
<1>2. DOMAIN m = 1 .. k
  BY DEF IsList
<1>3. \A i \in 1 .. k : m[i] \in S
  BY <1>1, <1>2 DEF ToSet
<1>4. m \in [1 .. k -> S]
  BY <1>3 DEF IsList
<1>5. m \in Seq(S)
  BY <1>4, SeqDef
<1>6. Len(m) \in Nat /\ DOMAIN m = 1 .. Len(m)
  BY <1>5, LenProperties
<1>7. Len(m) = k
  BY <1>2, <1>6
<1>8. IsSeq(m)
  BY <1>1, <1>5 DEF IsSeq
<1> QED BY <1>7, <1>8

\* The positions of a concatenation.
LEMMA Joined ==
  ASSUME NEW m, NEW w, IsSeq(m), IsSeq(w)
  PROVE  /\ IsSeq(m \o w) /\ Len(m \o w) = Len(m) + Len(w)
         /\ \A i \in 1 .. Len(m) : (m \o w)[i] = m[i]
         /\ \A i \in 1 .. Len(w) : (m \o w)[Len(m) + i] = w[i]
<1>1. PICK A, B : A = ToSet(m) /\ B = ToSet(w)
  OBVIOUS
<1>2. m \in Seq(A) /\ w \in Seq(B)
  BY <1>1 DEF IsSeq
<1>3. m \in Seq(A \union B) /\ w \in Seq(A \union B)
  <2>1. A \subseteq A \union B /\ B \subseteq A \union B
    OBVIOUS
  <2> QED BY <1>2, <2>1, SeqMonotonic
<1>4. PICK S : S = A \union B
  OBVIOUS
<1>5. /\ m \o w \in Seq(S) /\ Len(m \o w) = Len(m) + Len(w)
      /\ Len(m) \in Nat /\ Len(w) \in Nat
      /\ \A i \in 1 .. Len(m) + Len(w) : (m \o w)[i] = IF i <= Len(m) THEN m[i] ELSE w[i - Len(m)]
  BY <1>3, <1>4, ConcatProperties, LenProperties
<1>6. IsSeq(m \o w)
  <2>1. IsList(m \o w, Len(m) + Len(w))
    BY <1>5, LenProperties DEF IsList
  <2> QED BY <1>5, <2>1, ListIsSeq
<1> QED BY <1>5, <1>6

\* A sequence of one element.
LEMMA Single ==
  ASSUME NEW e
  PROVE  IsSeq(<<e>>) /\ Len(<<e>>) = 1 /\ <<e>>[1] = e
<1>1. IsList(<<e>>, 1)
  BY DEF IsList
<1> QED BY <1>1, ListIsSeq

-----------------------------------------------------------------------------
(* What is written *)

WrittenHead(n) ==
  LET end == IF AppsOf[n] = <<>> THEN NULL ELSE Stale
  IN  [cell |-> "list", head |-> end, tail |-> end]

WrittenItem(n, j) ==
  [cell |-> "item", name |-> AppsOf[n][j], app |-> Stale, list |-> Stale,
   prev |-> IF j = 1 THEN NULL ELSE Stale,
   next |-> IF j = Len(AppsOf[n]) THEN NULL ELSE Stale]

\* The cells of node n, as they were written, are at position p.
Fresh(m, p, n) ==
  /\ m[p] = NodeCell(n)
  /\ m[p + 1] = KeyCell(n)
  /\ m[p + 2] = WrittenHead(n)
  /\ \A j \in 1 .. Len(AppsOf[n]) : m[p + 2 + j] = WrittenItem(n, j)

\* The list of a node is a sequence.
LEMMA Apps ==
  ASSUME IInv, NEW n \in nodes
  PROVE  /\ IsSeq(AppsOf[n]) /\ Len(AppsOf[n]) \in Nat
         /\ DOMAIN AppsOf[n] = 1 .. Len(AppsOf[n])
         /\ AppsOf[n] = <<>> <=> Len(AppsOf[n]) = 0
         /\ AppsOf[n] = [j \in 1 .. Len(AppsOf[n]) |-> AppsOf[n][j]]
<1> DEFINE S == ToSet(AppsOf[n])
<1>1. IsSeq(AppsOf[n])
  BY AppsAssumption DEF IInv, TreeTypes, IsSeq
<1>2. AppsOf[n] \in Seq(S)
  BY <1>1 DEF IsSeq
<1> HIDE DEF S
<1>3. AppsOf[n] = <<>> <=> Len(AppsOf[n]) = 0
  BY <1>2, EmptySeq
<1> QED BY <1>1, <1>3, SeqIs

\* What write_node_to_file appends for a node.
LEMMA WrittenIsFresh ==
  ASSUME IInv, NEW n \in nodes
  PROVE  IsSeq(Written(n)) /\ Len(Written(n)) = Size(n) /\ Fresh(Written(n), 1, n)
<1> DEFINE k == Len(AppsOf[n])
           items == [i \in DOMAIN AppsOf[n] |-> WrittenItem(n, i)]
           front == <<NodeCell(n), KeyCell(n)>>
           list == ListCells(AppsOf[n])
<1>1. k \in Nat /\ DOMAIN AppsOf[n] = 1 .. k
  BY Apps
<1>2. IsSeq(items) /\ Len(items) = k /\ \A j \in 1 .. k : items[j] = WrittenItem(n, j)
  <2>1. IsList(items, k) /\ \A j \in 1 .. k : items[j] = WrittenItem(n, j)
    BY <1>1 DEF IsList
  <2> HIDE DEF items, k
  <2> QED BY <1>1, <2>1, ListIsSeq
<1>3. list = <<WrittenHead(n)>> \o items
  BY DEF ListCells, WrittenHead, WrittenItem
<1>4. IsSeq(<<WrittenHead(n)>>) /\ Len(<<WrittenHead(n)>>) = 1
  BY Single
<1> HIDE DEF items, k, list
<1>5. /\ IsSeq(list) /\ Len(list) = 1 + k /\ list[1] = WrittenHead(n)
      /\ \A j \in 1 .. k : list[1 + j] = WrittenItem(n, j)
  BY <1>2, <1>3, <1>4, Joined
<1>6. IsSeq(front) /\ Len(front) = 2 /\ front[1] = NodeCell(n) /\ front[2] = KeyCell(n)
  <2>1. IsList(front, 2) /\ front[1] = NodeCell(n) /\ front[2] = KeyCell(n)
    BY DEF IsList
  <2> HIDE DEF front
  <2> QED BY <2>1, ListIsSeq
<1>7. Written(n) = front \o list
  BY DEF Written, list
<1> HIDE DEF front
<1>8. /\ IsSeq(Written(n)) /\ Len(Written(n)) = 2 + (1 + k)
      /\ \A i \in 1 .. 2 : Written(n)[i] = front[i]
      /\ \A i \in 1 .. 1 + k : Written(n)[2 + i] = list[i]
  <2>1. PICK f, l : f = front /\ l = list
    OBVIOUS
  <2>2. IsSeq(f) /\ IsSeq(l)
    BY <1>5, <1>6, <2>1
  <2>3. /\ IsSeq(f \o l) /\ Len(f \o l) = Len(f) + Len(l)
        /\ \A i \in 1 .. Len(f) : (f \o l)[i] = f[i]
        /\ \A i \in 1 .. Len(l) : (f \o l)[Len(f) + i] = l[i]
    BY <2>2, Joined
  <2> QED BY <1>5, <1>6, <1>7, <2>1, <2>3
<1>9. Written(n)[1] = NodeCell(n) /\ Written(n)[2] = KeyCell(n) /\ Written(n)[3] = WrittenHead(n)
  BY <1>1, <1>5, <1>6, <1>8
<1>10. ASSUME NEW j \in 1 .. k PROVE Written(n)[3 + j] = WrittenItem(n, j)
  <2>1. 1 + j \in 1 .. 1 + k /\ 2 + (1 + j) = 3 + j
    BY <1>1
  <2> QED BY <1>5, <1>8, <2>1
<1> QED BY <1>1, <1>8, <1>9, <1>10 DEF Size, Fresh, k

\* The positions of the cells of a node, its key and its list.
Segment(pos, n) == pos[n] .. pos[n] + Size(n) - 1

\* The file m has the cells of the nodes W, and the empty ones for the sides without a
\* child that are marked in v, and no others.
Content(m, pos, behind, W, v) ==
  /\ IsSeq(m) /\ Len(m) >= 1 /\ m[1] = TreeCell
  /\ \A n \in W : Segment(pos, n) \subseteq 2 .. Len(m) /\ Fresh(m, pos[n], n)
  /\ \A n \in W, s \in Side :
       s \in v[n] /\ child[s][n] = NULL =>
         Place(pos, behind, s, n) \in 2 .. Len(m) /\ m[Place(pos, behind, s, n)] = EmptyNode
  /\ \A i \in 2 .. Len(m) :
       \/ \E n \in W : i \in Segment(pos, n)
       \/ \E n \in W, s \in Side :
            s \in v[n] /\ child[s][n] = NULL /\ i = Place(pos, behind, s, n)

\* The cells of a node are in its segment.
LEMMA InSegment ==
  ASSUME IInv, NEW pos, NEW behind, Layout(pos, behind), NEW n \in nodes
  PROVE  /\ pos[n] \in Segment(pos, n) /\ pos[n] + 1 \in Segment(pos, n)
         /\ pos[n] + 2 \in Segment(pos, n)
         /\ \A j \in 1 .. Len(AppsOf[n]) : pos[n] + 2 + j \in Segment(pos, n)
<1>1. PICK p \in Nat, k \in Nat : p = pos[n] /\ k = Len(AppsOf[n])
  BY Sizes DEF Layout
<1>2. Size(n) = 3 + k
  BY <1>1 DEF Size
<1>3. \A i \in Int : i \in Segment(pos, n) <=> p <= i /\ i <= p + (3 + k) - 1
  BY <1>1, <1>2 DEF Segment
<1>4. \A j \in 1 .. k : p + 2 + j \in Int /\ p <= p + 2 + j /\ p + 2 + j <= p + (3 + k) - 1
  OBVIOUS
<1>5. \A j \in 1 .. k : p + 2 + j \in Segment(pos, n)
  BY <1>3, <1>4
<1>6. p \in Segment(pos, n) /\ p + 1 \in Segment(pos, n) /\ p + 2 \in Segment(pos, n)
  BY <1>3
<1> QED BY <1>1, <1>5, <1>6

\* The marks tell the same of the sides without a child.
SameEmpty(W, v, w) ==
  \A n \in W, s \in Side : child[s][n] = NULL => (s \in v[n] <=> s \in w[n])

\* The file gets longer by the cells of the node.
LEMMA Longer ==
  ASSUME IInv, NEW m, IsSeq(m), NEW c \in nodes, NEW f, f = m \o Written(c)
  PROVE  /\ IsSeq(f) /\ Len(f) = Len(m) + Size(c)
         /\ \A i \in 1 .. Len(m) : f[i] = m[i]
<1>1. PICK x : x = Written(c)
  OBVIOUS
<1>2. IsSeq(x) /\ f = m \o x /\ Len(x) = Size(c)
  BY <1>1, WrittenIsFresh
<1>3. IsSeq(f) /\ Len(f) = Len(m) + Len(x)
  BY <1>2, Joined
<1>4. \A i \in 1 .. Len(m) : f[i] = m[i]
  BY <1>2, Joined
<1> QED BY <1>2, <1>3, <1>4

\* The cells of a node are added.
LEMMA NodeAdded ==
  ASSUME IInv, NEW m, NEW pos, NEW behind, NEW W \in SUBSET nodes, NEW v,
         Layout(pos, behind), Content(m, pos, behind, W, v),
         NEW c \in nodes, c \notin W, pos[c] = Len(m) + 1,
         NEW w, w[c] = {},
         SameEmpty(W, v, w),
         NEW f, f = m \o Written(c), NEW X, X = W \union {c}
  PROVE  Content(f, pos, behind, X, w)
<1>1. IsSeq(m) /\ Len(m) >= 1 /\ Len(m) \in Nat /\ m[1] = TreeCell
  BY SeqIs DEF Content
<1>2. Fresh(Written(c), 1, c)
  BY WrittenIsFresh
<1>3. Size(c) \in Nat /\ Size(c) >= 3 /\ Len(AppsOf[c]) \in Nat
  BY Sizes
<1>4. /\ IsSeq(f) /\ Len(f) = Len(m) + Size(c)
      /\ \A i \in 1 .. Len(m) : f[i] = m[i]
      /\ \A i \in 1 .. Size(c) : f[Len(m) + i] = Written(c)[i]
  <2>1. IsSeq(f) /\ Len(f) = Len(m) + Size(c)
    BY <1>1, Longer
  <2>2. \A i \in 1 .. Len(m) : f[i] = m[i]
    BY <1>1, Longer
  <2>3. PICK x : x = Written(c)
    OBVIOUS
  <2>4. IsSeq(x) /\ f = m \o x /\ Len(x) = Size(c)
    BY <2>3, WrittenIsFresh
  <2>5. \A i \in 1 .. Len(x) : f[Len(m) + i] = x[i]
    BY <1>1, <2>4, Joined
  <2> QED BY <2>1, <2>2, <2>3, <2>4, <2>5
<1>5. Segment(pos, c) = Len(m) + 1 .. Len(f)
  BY <1>1, <1>3, <1>4 DEF Segment
<1>6. Fresh(f, pos[c], c)
  <2>1. f[Len(m) + 1] = NodeCell(c) /\ f[Len(m) + 2] = KeyCell(c) /\ f[Len(m) + 3] = WrittenHead(c)
    BY <1>2, <1>3, <1>4 DEF Fresh
  <2>2. ASSUME NEW j \in 1 .. Len(AppsOf[c])
        PROVE  f[pos[c] + 2 + j] = WrittenItem(c, j)
    <3>1. 3 + j \in 1 .. Size(c) /\ Len(m) + (3 + j) = pos[c] + 2 + j
      BY <1>1, <1>3 DEF Size
    <3>2. Written(c)[3 + j] = WrittenItem(c, j)
      BY <1>2 DEF Fresh
    <3> QED BY <1>4, <3>1, <3>2
  <2>3. pos[c] + 1 = Len(m) + 2 /\ pos[c] + 2 = Len(m) + 3
    BY <1>1
  <2> QED BY <2>1, <2>2, <2>3 DEF Fresh
<1>7. ASSUME NEW n \in W
      PROVE  Segment(pos, n) \subseteq 2 .. Len(f) /\ Fresh(f, pos[n], n)
  <2>1. Segment(pos, n) \subseteq 2 .. Len(m) /\ Fresh(m, pos[n], n)
    BY DEF Content
  <2>2. \A i \in Segment(pos, n) : f[i] = m[i]
    BY <1>1, <1>4, <2>1
  <2>3. /\ pos[n] \in Segment(pos, n) /\ pos[n] + 1 \in Segment(pos, n)
        /\ pos[n] + 2 \in Segment(pos, n)
        /\ \A j \in 1 .. Len(AppsOf[n]) : pos[n] + 2 + j \in Segment(pos, n)
    BY InSegment
  <2>4. Fresh(f, pos[n], n)
    BY <2>1, <2>2, <2>3 DEF Fresh
  <2> QED BY <1>1, <1>3, <1>4, <2>1, <2>4
<1>8. ASSUME NEW n \in W \union {c}, NEW s \in Side, s \in w[n], child[s][n] = NULL
      PROVE  Place(pos, behind, s, n) \in 2 .. Len(f) /\ f[Place(pos, behind, s, n)] = EmptyNode
  <2>1. n \in W /\ s \in v[n]
    BY <1>8 DEF SameEmpty
  <2>2. Place(pos, behind, s, n) \in 2 .. Len(m) /\ m[Place(pos, behind, s, n)] = EmptyNode
    BY <1>8, <2>1 DEF Content
  <2> QED BY <1>1, <1>3, <1>4, <2>2
<1>9. ASSUME NEW i \in 2 .. Len(f)
      PROVE  \/ \E n \in W \union {c} : i \in Segment(pos, n)
             \/ \E n \in W \union {c}, s \in Side :
                  s \in w[n] /\ child[s][n] = NULL /\ i = Place(pos, behind, s, n)
  <2>1. CASE i \in 2 .. Len(m)
    BY <2>1 DEF Content, SameEmpty
  <2>2. CASE i \in Len(m) + 1 .. Len(f)
    BY <1>5, <2>2
  <2> QED BY <1>1, <1>3, <1>4, <2>1, <2>2
<1>10. f[1] = TreeCell /\ Len(f) >= 1 /\ Segment(pos, c) \subseteq 2 .. Len(f)
  BY <1>1, <1>3, <1>4, <1>5
<1>11. Content(f, pos, behind, X, w)
  BY <1>4, <1>6, <1>7, <1>8, <1>9, <1>10 DEF Content
<1> QED BY <1>11

\* The empty cell of a side without a child is added.
LEMMA EmptyAdded ==
  ASSUME IInv, NEW m, NEW pos, NEW behind, NEW W \in SUBSET nodes, NEW v,
         Layout(pos, behind), Content(m, pos, behind, W, v),
         NEW t \in W, NEW s \in Side, child[s][t] = NULL,
         Place(pos, behind, s, t) = Len(m) + 1,
         freed = {}, root # NULL, NEW w, w = Entered(v, t, s, NULL),
         NEW f, f = m \o <<EmptyNode>>
  PROVE  Content(f, pos, behind, W, w) /\ Len(f) = Len(m) + 1
<1> \A n \in W : w[n] = IF n = t THEN v[t] \union {s} ELSE v[n]
  BY Tree DEF Entered
<1>1. IsSeq(m) /\ Len(m) >= 1 /\ Len(m) \in Nat /\ m[1] = TreeCell
  BY SeqIs DEF Content
<1>2. IsSeq(<<EmptyNode>>) /\ Len(<<EmptyNode>>) = 1 /\ <<EmptyNode>>[1] = EmptyNode
  BY Single
<1>3. /\ IsSeq(f) /\ Len(f) = Len(m) + 1
      /\ \A i \in 1 .. Len(m) : f[i] = m[i]
      /\ f[Len(m) + 1] = EmptyNode
  BY <1>1, <1>2, Joined
<1>4. ASSUME NEW n \in W
      PROVE  Segment(pos, n) \subseteq 2 .. Len(f) /\ Fresh(f, pos[n], n)
  <2>1. Segment(pos, n) \subseteq 2 .. Len(m) /\ Fresh(m, pos[n], n)
    BY DEF Content
  <2>2. \A i \in Segment(pos, n) : f[i] = m[i]
    BY <1>1, <1>3, <2>1
  <2>3. /\ pos[n] \in Segment(pos, n) /\ pos[n] + 1 \in Segment(pos, n)
        /\ pos[n] + 2 \in Segment(pos, n)
        /\ \A j \in 1 .. Len(AppsOf[n]) : pos[n] + 2 + j \in Segment(pos, n)
    BY InSegment
  <2>4. Fresh(f, pos[n], n)
    BY <2>1, <2>2, <2>3 DEF Fresh
  <2> QED BY <1>1, <1>3, <2>1, <2>4
<1>5. ASSUME NEW n \in W, NEW r \in Side, r \in w[n], child[r][n] = NULL
      PROVE  Place(pos, behind, r, n) \in 2 .. Len(f) /\ f[Place(pos, behind, r, n)] = EmptyNode
  <2>1. CASE n = t /\ r = s
    BY <1>1, <1>3, <2>1
  <2>2. CASE ~(n = t /\ r = s)
    <3>1. r \in v[n]
      BY <1>5, <2>2
    <3>2. Place(pos, behind, r, n) \in 2 .. Len(m) /\ m[Place(pos, behind, r, n)] = EmptyNode
      BY <1>5, <3>1 DEF Content
    <3> QED BY <1>1, <1>3, <3>2
  <2> QED BY <2>1, <2>2
<1>6. ASSUME NEW i \in 2 .. Len(f)
      PROVE  \/ \E n \in W : i \in Segment(pos, n)
             \/ \E n \in W, r \in Side :
                  r \in w[n] /\ child[r][n] = NULL /\ i = Place(pos, behind, r, n)
  <2>1. CASE i \in 2 .. Len(m)
    BY <2>1 DEF Content
  <2>2. CASE i = Len(m) + 1
    BY <2>2
  <2> QED BY <1>1, <1>3, <2>1, <2>2
<1>7. Content(f, pos, behind, W, w)
  BY <1>1, <1>3, <1>4, <1>5, <1>6 DEF Content
<1> QED BY <1>3, <1>7

-----------------------------------------------------------------------------
(* The writer *)

\* The writer stands at the end of the file.
Writing(pos, behind, P, F) ==
  /\ Layout(pos, behind)
  /\ Trav(P, F, visit, this)
  /\ Content(memory, pos, behind, P \union F, visit)
  /\ Len(memory) + 1 = Ahead(pos, behind, visit, this)

\* The file has all of the tree.
Whole(pos, behind) ==
  /\ Layout(pos, behind)
  /\ Content(memory, pos, behind, nodes, [n \in nodes |-> Side])
  /\ Len(memory) + 1 = behind["right"][root]

WriteInv ==
  /\ pc \in {"idle", "walk", "destroy", "write"} => at = 0
  /\ pc = "write" => \E pos, behind, P, F : Writing(pos, behind, P, F)
  /\ pc = "done" /\ memory # <<>> /\ at = 0 =>
       IF root = NULL THEN /\ IsSeq(memory) /\ Len(memory) = 2
                           /\ memory[1] = TreeCell /\ memory[2] = EmptyNode
       ELSE \E pos, behind : Whole(pos, behind)

\* A file is begun: with the first node, or with the empty one of an empty map.
LEMMA WriteStarts ==
  ASSUME IInv, WriteInv, BeginWrite
  PROVE  WriteInv'
<1>1. /\ pc = "idle" /\ this' = root /\ pc' = (IF root = NULL THEN "done" ELSE "write")
      /\ visit' = [n \in nodes |-> IF n = root THEN {} ELSE visit[n]]
      /\ UNCHANGED <<nodes, root, child, parent, at, freed>>
      /\ memory' = <<TreeCell>> \o (IF root = NULL THEN <<EmptyNode>> ELSE Written(root))
      /\ at = 0 /\ freed = {}
  BY DEF BeginWrite, Begin, treeVars, WriteInv, IInv, LoopInv
<1>2. CASE root = NULL
  <2>1. PICK x, y, f : x = <<TreeCell>> /\ y = <<EmptyNode>> /\ f = x \o y
    OBVIOUS
  <2>2. /\ IsSeq(x) /\ Len(x) = 1 /\ x[1] = TreeCell
        /\ IsSeq(y) /\ Len(y) = 1 /\ y[1] = EmptyNode
    BY <2>1, Single
  <2>3. IsSeq(f) /\ Len(f) = Len(x) + Len(y)
    BY <2>1, <2>2, Joined
  <2>4. \A i \in 1 .. Len(x) : f[i] = x[i]
    BY <2>1, <2>2, Joined
  <2>5. \A i \in 1 .. Len(y) : f[Len(x) + i] = y[i]
    BY <2>1, <2>2, Joined
  <2>6. Len(f) = 2 /\ f[1] = TreeCell /\ f[2] = EmptyNode
    BY <2>2, <2>3, <2>4, <2>5
  <2>7. memory' = f
    BY <1>1, <1>2, <2>1
  <2> QED BY <1>1, <1>2, <2>3, <2>6, <2>7 DEF WriteInv, TreeCell, EmptyNode
<1>3. CASE root # NULL
  <2>1. PICK pos, behind : Layout(pos, behind)
    BY <1>1, <1>3, LayoutExists
  <2>2. root \in nodes /\ visit'[root] = {} /\ pos[root] = 2
    BY <1>1, <1>3, <2>1, Tree DEF Layout
  <2>3. PICK w : w = visit'
    OBVIOUS
  <2>4. PICK m : m = <<TreeCell>>
    OBVIOUS
  <2>5. IsSeq(m) /\ Len(m) = 1 /\ m[1] = TreeCell
    BY <2>4, Single
  <2>6. Content(m, pos, behind, {}, w)
    BY <2>5 DEF Content
  <2>7. /\ Content(m \o Written(root), pos, behind, {root}, w)
        /\ Len(m \o Written(root)) + 1 = pos[root] + Size(root)
    <3>1. PICK c, W, X, f : c = root /\ W = {} /\ X = W \union {c} /\ f = m \o Written(c)
      OBVIOUS
    <3>2. /\ W \in SUBSET nodes /\ c \in nodes /\ c \notin W /\ pos[c] = Len(m) + 1 /\ w[c] = {}
          /\ Content(m, pos, behind, W, w) /\ Layout(pos, behind)
          /\ SameEmpty(W, w, w)
      BY <2>1, <2>2, <2>3, <2>5, <2>6, <3>1 DEF SameEmpty
    <3>3. Content(f, pos, behind, X, w)
      BY <3>1, <3>2, NodeAdded
    <3>4. Len(f) = Len(m) + Size(c)
      BY <2>5, <3>1, <3>2, Longer
    <3>5. pos[c] \in Nat /\ Size(c) \in Nat
      BY <3>2, Sizes DEF Layout
    <3>6. X = {root}
      BY <3>1
    <3> QED BY <2>5, <3>1, <3>2, <3>3, <3>4, <3>5, <3>6
  <2>8. memory' = m \o Written(root)
    BY <1>1, <1>3, <2>4
  <2>9. Trav({root}, {}, w, root)
    BY <1>1, <1>3, <2>2, <2>3, TravStarts
  <2>10. Ahead(pos, behind, w, root) = pos[root] + Size(root)
    BY <2>2, <2>3 DEF Ahead
  <2>11. PICK P, F : P = {root} /\ F = {}
    OBVIOUS
  <2>12. P \union F = P
    BY <2>11
  <2>13. Content(memory', pos, behind, P \union F, w) /\ Trav(P, F, w, root)
    BY <2>7, <2>8, <2>9, <2>11, <2>12
  <2>14. Writing(pos, behind, P, F)'
    <3>1. Layout(pos, behind)'
      BY <1>1, <2>1 DEF Layout, Place, Size
    <3>2. Trav(P, F, visit, this)'
      BY <1>1, <2>3, <2>13 DEF Trav, Cur
    <3>3. UNCHANGED <<nodes, root, child, parent>>
      BY <1>1
    <3>4. Content(memory, pos, behind, P \union F, visit)'
      BY <2>3, <2>13, <3>3 DEF Content, Fresh, NodeCell, Raw, KeyCell, WrittenHead, WrittenItem,
         Segment, Size, Place
    <3>5. (Len(memory) + 1 = Ahead(pos, behind, visit, this))'
      BY <1>1, <2>3, <2>7, <2>8, <2>10 DEF Ahead, Cur, Size
    <3> QED BY <3>1, <3>2, <3>4, <3>5 DEF Writing
  <2> QED BY <1>1, <1>3, <2>14 DEF WriteInv
<1> QED BY <1>2, <1>3

\* The writer enters a node, marks a side without one, or goes up.
LEMMA WriteGoesOn ==
  ASSUME IInv, WriteInv, Write
  PROVE  WriteInv'
<1>1. /\ pc = "write" /\ at = 0 /\ freed = {} /\ root # NULL
      /\ UNCHANGED <<nodes, root, child, parent, at>>
  BY DEF Write, treeVars, WriteInv, IInv, LoopInv
<1>2. PICK pos, behind, P, F : Writing(pos, behind, P, F)
  BY <1>1 DEF WriteInv
<1>3. PICK t, v : t = this /\ v = visit
  OBVIOUS
<1>4. /\ Layout(pos, behind) /\ Trav(P, F, v, t)
      /\ Content(memory, pos, behind, P \union F, v)
      /\ Len(memory) + 1 = Ahead(pos, behind, v, t)
      /\ t \in nodes /\ t \in P /\ P \union F \in SUBSET nodes
  BY <1>2, <1>3 DEF Writing, Trav
<1>5. ASSUME NEW Q, NEW G, Trav(Q, G, visit', this'),
             Content(memory', pos, behind, Q \union G, visit'),
             Len(memory') + 1 = Ahead(pos, behind, visit', this')
      PROVE  Writing(pos, behind, Q, G)'
  <2>1. Layout(pos, behind)'
    BY <1>1, <1>4 DEF Layout, Place, Size
  <2>2. Trav(Q, G, visit, this)'
    BY <1>1, <1>5 DEF Trav, Cur
  <2>3. Content(memory, pos, behind, Q \union G, visit)'
    BY <1>1, <1>5 DEF Content, Fresh, NodeCell, Raw, KeyCell, WrittenHead, WrittenItem,
       Segment, Size, Place
  <2>4. (Len(memory) + 1 = Ahead(pos, behind, visit, this))'
    BY <1>1, <1>5 DEF Ahead, Cur, Size
  <2> QED BY <2>1, <2>2, <2>3, <2>4 DEF Writing
<1>6. ASSUME visit[this] # Side, Enter(NextSide(visit[this])), pc' = pc,
             memory' = memory \o (IF child[NextSide(visit[this])][this] = NULL THEN <<EmptyNode>>
                                  ELSE Written(child[NextSide(visit[this])][this]))
      PROVE  WriteInv'
  <2>1. PICK s, c : s = NextSide(v[t]) /\ c = child[s][t]
    OBVIOUS
  <2>2. PICK w : w = visit'
    OBVIOUS
  <2>3. /\ this' = IF c = NULL THEN t ELSE c
        /\ w = Entered(v, t, s, c)
        /\ memory' = memory \o (IF c = NULL THEN <<EmptyNode>> ELSE Written(c))
    BY <1>3, <1>6, <2>1, <2>2 DEF Enter, Entered
  <2>4. /\ s \in Side /\ ((v[t] = {} /\ s = "left") \/ (v[t] = {"left"} /\ s = "right"))
        /\ v[t] # Side
        /\ Place(pos, behind, s, t) = Len(memory) + 1
    <3>1. /\ s \in Side /\ v[t] # Side
          /\ (v[t] = {} /\ s = "left") \/ (v[t] = {"left"} /\ s = "right")
      BY <1>3, <1>4, <1>6, <2>1 DEF Trav, NextSide, Side
    <3> QED BY <1>4, <3>1 DEF Place, Ahead, Cur
  <2>5. w[t] = v[t] \union {s} /\ Cur(w, t) = s /\ w[t] # {}
    BY <1>4, <2>3, <2>4 DEF Cur, Entered
  <2>6. CASE c = NULL
    <3>1. Trav(P, F, w, t)
      <4>1. freed = {} /\ root # NULL /\ Trav(P, F, v, t) /\ child[s][t] = NULL
        BY <1>1, <1>4, <2>1, <2>6
      <4>2. w = Entered(v, t, s, NULL)
        BY <2>3, <2>6
      <4> QED BY <2>1, <2>4, <4>1, <4>2, TravSkip
    <3>2. /\ Content(memory', pos, behind, P \union F, w)
          /\ Len(memory') = Len(memory) + 1
      <4>1. PICK W, m, f : W = P \union F /\ m = memory /\ f = m \o <<EmptyNode>>
        OBVIOUS
      <4>2. /\ W \in SUBSET nodes /\ Content(m, pos, behind, W, v) /\ t \in W /\ child[s][t] = NULL
            /\ Place(pos, behind, s, t) = Len(m) + 1
            /\ w = Entered(v, t, s, NULL)
        BY <1>4, <2>1, <2>3, <2>4, <2>6, <4>1
      <4>3. Content(f, pos, behind, W, w) /\ Len(f) = Len(m) + 1
        <5>1. /\ Layout(pos, behind) /\ s \in Side /\ f = m \o <<EmptyNode>>
              /\ freed = {} /\ root # NULL
          BY <1>1, <1>4, <2>4, <4>1
        <5>2. Content(f, pos, behind, W, w)
          BY <4>2, <5>1, EmptyAdded
        <5>3. Len(f) = Len(m) + 1
          BY <4>2, <5>1, EmptyAdded
        <5> QED BY <5>2, <5>3
      <4> QED BY <2>3, <2>6, <4>1, <4>3
    <3>3. Len(memory') + 1 = Ahead(pos, behind, w, t)
      <4>1. behind[s][t] = Place(pos, behind, s, t) + 1
        BY <1>4, <2>1, <2>4, <2>6 DEF Layout
      <4> QED BY <2>4, <2>5, <3>2, <4>1 DEF Ahead
    <3>4. this' = t
      BY <2>3, <2>6
    <3>5. Writing(pos, behind, P, F)'
      BY <1>5, <2>2, <3>1, <3>2, <3>3, <3>4
    <3> QED BY <1>1, <1>6, <3>5 DEF WriteInv
  <2>7. CASE c # NULL
    <3>1. PICK Q : Q = P \union {c}
      OBVIOUS
    <3>2. c \in nodes /\ c \notin P \union F /\ Trav(Q, F, w, c)
      <4>1. freed = {} /\ root # NULL /\ Trav(P, F, v, t) /\ c = child[s][t]
        BY <1>1, <1>4, <2>1
      <4>2. Trav(Q, F, w, c)
        BY <2>1, <2>3, <2>4, <2>7, <3>1, <4>1, TravDown
      <4>3. c \in nodes /\ c \notin P \union F
        BY <2>1, <2>4, <2>7, <4>1, NextIsNew
      <4> QED BY <4>2, <4>3
    <3>3. w[c] = {} /\ c # t
      BY <1>4, <2>3, <3>2 DEF Entered
    <3>4. SameEmpty(P \union F, v, w)
      BY <1>4, <2>1, <2>3, <2>7, <3>2 DEF SameEmpty, Entered
    <3>5. pos[c] = Len(memory) + 1
      BY <1>4, <2>1, <2>4, <2>7 DEF Layout
    <3>6. /\ Content(memory', pos, behind, (P \union F) \union {c}, w)
          /\ Len(memory') + 1 = pos[c] + Size(c)
      <4>1. PICK W, m, f, X :
              W = P \union F /\ m = memory /\ f = m \o Written(c) /\ X = W \union {c}
        OBVIOUS
      <4>2. /\ W \in SUBSET nodes /\ Content(m, pos, behind, W, v) /\ c \notin W
            /\ pos[c] = Len(m) + 1
            /\ SameEmpty(W, v, w)
        BY <1>4, <3>2, <3>4, <3>5, <4>1
      <4>3. Content(f, pos, behind, X, w) /\ Len(f) + 1 = pos[c] + Size(c)
        <5>1. Layout(pos, behind) /\ c \in nodes /\ w[c] = {} /\ f = m \o Written(c)
              /\ X = W \union {c}
          BY <1>4, <3>2, <3>3, <4>1
        <5>2. Content(f, pos, behind, X, w)
          BY <4>2, <5>1, NodeAdded
        <5>3. IsSeq(m) /\ Len(m) \in Nat /\ Size(c) \in Nat
          BY <4>2, <5>1, SeqIs, Sizes DEF Content
        <5>4. Len(f) = Len(m) + Size(c)
          BY <5>1, <5>3, Longer
        <5> QED BY <4>2, <5>2, <5>3, <5>4
      <4> QED BY <2>3, <2>7, <4>1, <4>3
    <3>7. Ahead(pos, behind, w, c) = pos[c] + Size(c)
      BY <3>3 DEF Ahead
    <3>8. this' = c /\ (P \union F) \union {c} = Q \union F
      BY <2>3, <2>7, <3>1
    <3>9. Writing(pos, behind, Q, F)'
      BY <1>5, <2>2, <3>2, <3>6, <3>7, <3>8
    <3> QED BY <1>1, <1>6, <3>9 DEF WriteInv
  <2> QED BY <2>6, <2>7
<1>7. ASSUME visit[this] = Side, Up, memory' = memory
      PROVE  WriteInv'
  <2>1. v[t] = Side /\ visit' = v /\ this' = parent[t]
        /\ pc' = (IF parent[t] = NULL THEN "done" ELSE "write")
    BY <1>1, <1>3, <1>7 DEF Up
  <2>2. Ahead(pos, behind, v, t) = behind["right"][t]
    BY <2>1 DEF Ahead, Cur, Side
  <2>3. CASE t = root
    <3>1. P \union F = nodes /\ \A n \in nodes : v[n] = Side
      BY <1>1, <1>4, <2>1, <2>3, TravEnds
    <3>2. parent[t] = NULL
      BY <1>1, <1>4, <2>3, Tree
    <3>3. Content(memory, pos, behind, nodes, [n \in nodes |-> Side])
      BY <1>4, <3>1 DEF Content
    <3>4. Whole(pos, behind)'
      <4>1. Layout(pos, behind)'
        BY <1>1, <1>4 DEF Layout, Place, Size
      <4>2. Content(memory, pos, behind, nodes, [n \in nodes |-> Side])'
        BY <1>1, <1>7, <3>3 DEF Content, Fresh, NodeCell, Raw, KeyCell, WrittenHead, WrittenItem,
           Segment, Size, Place
      <4> QED BY <1>1, <1>4, <1>7, <2>2, <2>3, <4>1, <4>2 DEF Whole
    <3> QED BY <1>1, <2>1, <3>2, <3>4 DEF WriteInv
  <2>4. CASE t # root
    <3>1. PICK p, Q, G : p = parent[t] /\ Q = P \ {t} /\ G = F \union {t}
      OBVIOUS
    <3>2. /\ p \in P /\ v[p] # {} /\ Cur(v, p) = SideOf(t) /\ child[SideOf(t)][p] = t
          /\ Trav(Q, G, v, p)
      <4>1. freed = {} /\ root # NULL /\ Trav(P, F, v, t)
        BY <1>1, <1>4
      <4> QED BY <2>1, <2>4, <3>1, <4>1, TravUp
    <3>3. p \in nodes /\ p # NULL /\ SideOf(t) \in Side /\ t # NULL
      BY <1>1, <1>4, <2>4, <3>1, Tree
    <3>4. behind[SideOf(t)][p] = behind["right"][t]
      BY <1>4, <3>2, <3>3 DEF Layout
    <3>5. Len(memory') + 1 = Ahead(pos, behind, v, p)
      BY <1>4, <1>7, <2>2, <3>2, <3>4 DEF Ahead
    <3>6. Q \union G = P \union F
      BY <1>4, <3>1
    <3>7. Writing(pos, behind, Q, G)'
      BY <1>4, <1>5, <1>7, <2>1, <3>1, <3>2, <3>5, <3>6
    <3> QED BY <1>1, <2>1, <3>1, <3>3, <3>7 DEF WriteInv
  <2> QED BY <2>3, <2>4
<1> QED BY <1>6, <1>7 DEF Write

-----------------------------------------------------------------------------
(* What is mapped *)

\* Every position behind the first is that of one cell of one node, or of one empty
\* cell.
Geometry(len, pos, behind) ==
  /\ \A n \in nodes : Segment(pos, n) \subseteq 2 .. len
  /\ \A n \in nodes, s \in Side :
       child[s][n] = NULL => /\ Place(pos, behind, s, n) \in 2 .. len
                             /\ \A m \in nodes : Place(pos, behind, s, n) \notin Segment(pos, m)
  /\ \A i \in 2 .. len :
       \/ \E n \in nodes : i \in Segment(pos, n)
       \/ \E n \in nodes, s \in Side : child[s][n] = NULL /\ i = Place(pos, behind, s, n)
  /\ \A m, n \in nodes : m # n => Segment(pos, m) \intersect Segment(pos, n) = {}

\* A position of a segment is that of the node, the key, the list or an item.
LEMMA SegmentCases ==
  ASSUME IInv, NEW pos, NEW behind, Layout(pos, behind), NEW n \in nodes, NEW i \in Segment(pos, n)
  PROVE  \/ i \in {pos[n], pos[n] + 1, pos[n] + 2}
         \/ \E j \in 1 .. Len(AppsOf[n]) : i = pos[n] + 2 + j
<1>1. PICK p \in Nat, k \in Nat : p = pos[n] /\ k = Len(AppsOf[n])
  BY Sizes DEF Layout
<1>2. Size(n) = 3 + k
  BY <1>1 DEF Size
<1>3. i \in Int /\ p <= i /\ i <= p + (3 + k) - 1
  BY <1>1, <1>2 DEF Segment
<1>4. CASE i < p + 3
  <2>1. i = p \/ i = p + 1 \/ i = p + 2
    BY <1>3, <1>4
  <2> QED BY <1>1, <2>1
<1>5. CASE i >= p + 3
  <2>1. PICK j : j = i - p - 2
    OBVIOUS
  <2>2. j \in 1 .. k /\ i = p + 2 + j
    BY <1>3, <1>5, <2>1
  <2> QED BY <1>1, <2>2
<1> QED BY <1>3, <1>4, <1>5

\* The kinds of the cells tell the segments apart.
LEMMA WholeGeometry ==
  ASSUME IInv, NEW pos, NEW behind, Whole(pos, behind)
  PROVE  Geometry(Len(memory), pos, behind)
<1>1. /\ Layout(pos, behind)
      /\ \A n \in nodes : Segment(pos, n) \subseteq 2 .. Len(memory) /\ Fresh(memory, pos[n], n)
      /\ \A n \in nodes, s \in Side :
           child[s][n] = NULL =>
             /\ Place(pos, behind, s, n) \in 2 .. Len(memory)
             /\ memory[Place(pos, behind, s, n)] = EmptyNode
      /\ \A i \in 2 .. Len(memory) :
           \/ \E n \in nodes : i \in Segment(pos, n)
           \/ \E n \in nodes, s \in Side : child[s][n] = NULL /\ i = Place(pos, behind, s, n)
  BY DEF Whole, Content
<1>2. \A n \in nodes : pos[n] \in Nat /\ Size(n) \in Nat
  BY <1>1, Sizes DEF Layout
<1>3. ASSUME NEW n \in nodes, NEW i \in Segment(pos, n), memory[i].cell = "node"
      PROVE  i = pos[n] /\ memory[i].visit = Side
  <2>1. /\ memory[pos[n]] = NodeCell(n) /\ memory[pos[n] + 1] = KeyCell(n)
        /\ memory[pos[n] + 2] = WrittenHead(n)
        /\ \A j \in 1 .. Len(AppsOf[n]) : memory[pos[n] + 2 + j] = WrittenItem(n, j)
    BY <1>1 DEF Fresh
  <2>2. /\ NodeCell(n).visit = Side /\ KeyCell(n).cell = "key" /\ WrittenHead(n).cell = "list"
        /\ \A j \in 1 .. Len(AppsOf[n]) : WrittenItem(n, j).cell = "item"
    BY DEF NodeCell, KeyCell, WrittenHead, WrittenItem
  <2>3. \/ i \in {pos[n], pos[n] + 1, pos[n] + 2}
        \/ \E j \in 1 .. Len(AppsOf[n]) : i = pos[n] + 2 + j
    BY <1>1, SegmentCases
  <2> QED BY <1>3, <2>1, <2>2, <2>3
<1>4. \A n \in nodes : memory[pos[n]].cell = "node" /\ memory[pos[n] + 1].name = n
  <2>1. \A n \in nodes : memory[pos[n]] = NodeCell(n) /\ memory[pos[n] + 1] = KeyCell(n)
    BY <1>1 DEF Fresh
  <2>2. \A n \in nodes : NodeCell(n).cell = "node" /\ KeyCell(n).name = n
    BY DEF NodeCell, KeyCell
  <2> QED BY <2>1, <2>2
<1>5. ASSUME NEW m \in nodes, NEW n \in nodes, pos[n] \in Segment(pos, m)
      PROVE  m = n
  <2>1. pos[n] = pos[m]
    BY <1>3, <1>4, <1>5
  <2> QED BY <1>4, <2>1
<1>6. ASSUME NEW m \in nodes, NEW n \in nodes, NEW i \in Segment(pos, m), i \in Segment(pos, n)
      PROVE  m = n
  <2>1. \A k \in nodes, j \in Int :
          j \in Segment(pos, k) <=> pos[k] <= j /\ j <= pos[k] + Size(k) - 1
    BY <1>2 DEF Segment
  <2>2. i \in Int
    BY <1>2 DEF Segment
  <2>3. pos[m] <= pos[n] => pos[n] \in Segment(pos, m)
    BY <1>2, <1>6, <2>1, <2>2
  <2>4. pos[n] <= pos[m] => pos[m] \in Segment(pos, n)
    BY <1>2, <1>6, <2>1, <2>2
  <2> QED BY <1>2, <1>5, <2>3, <2>4
<1>7. ASSUME NEW n \in nodes, NEW s \in Side, child[s][n] = NULL, NEW m \in nodes
      PROVE  Place(pos, behind, s, n) \notin Segment(pos, m)
  <2>1. EmptyNode.cell = "node" /\ EmptyNode.visit # Side
    BY DEF EmptyNode, Side
  <2> QED BY <1>1, <1>3, <1>7, <2>1
<1> QED BY <1>1, <1>6, <1>7 DEF Geometry

\* The cells of a node that has been read.
MappedHead(p, n) ==
  LET k == Len(AppsOf[n])
  IN  [cell |-> "list", head |-> IF k = 0 THEN NULL ELSE p + 3,
       tail |-> IF k = 0 THEN NULL ELSE p + 2 + k]

MappedItem(p, n, j) ==
  [cell |-> "item", name |-> AppsOf[n][j],
   app |-> IF AppsOf[n][j] \in Known THEN AppsOf[n][j] ELSE NULL, list |-> p + 2,
   prev |-> IF j = 1 THEN NULL ELSE p + 1 + j,
   next |-> IF j = Len(AppsOf[n]) THEN NULL ELSE p + 3 + j]

\* A side that is not marked has the pointer that was written.
Link(pos, v, s, n) ==
  IF child[s][n] = NULL THEN NULL ELSE IF s \in v[n] THEN pos[child[s][n]] ELSE Stale

MappedNode(pos, v, n) ==
  [cell |-> "node", visit |-> v[n], left |-> Link(pos, v, "left", n),
   right |-> Link(pos, v, "right", n), parent |-> IF n = root THEN NULL ELSE pos[parent[n]],
   key |-> pos[n] + 1, value |-> pos[n] + 2]

\* What is behind the cell of node n, which is at position p, has been read.
MappedList(m, p, n) ==
  /\ m[p + 1] = KeyCell(n)
  /\ m[p + 2] = MappedHead(p, n)
  /\ \A j \in 1 .. Len(AppsOf[n]) : m[p + 2 + j] = MappedItem(p, n, j)

Mapped(m, pos, v, n) == m[pos[n]] = MappedNode(pos, v, n) /\ MappedList(m, pos[n], n)

\* The end of a list is the item without a next.
LEMMA Counted ==
  ASSUME IInv, NEW n \in nodes, NEW m, NEW p \in Nat, IsSeq(m), p + Size(n) - 1 <= Len(m),
         m[p + 2].head = NULL <=> Len(AppsOf[n]) = 0,
         \A j \in 1 .. Len(AppsOf[n]) : m[p + 2 + j].next = NULL <=> j = Len(AppsOf[n])
  PROVE  ItemCount(m, p + 2) = Len(AppsOf[n])
<1>1. PICK k \in Nat, len \in Nat : k = Len(AppsOf[n]) /\ len = Len(m) /\ Size(n) = 3 + k
  BY Sizes, SeqIs DEF Size
<1>2. CASE k = 0
  BY <1>1, <1>2 DEF ItemCount
<1>3. CASE k # 0
  <2> DEFINE End(i) == m[(p + 2) + i].next = NULL
                       /\ \A j \in 1 .. i - 1 : m[(p + 2) + j].next # NULL
  <2>1. ItemCount(m, p + 2) = CHOOSE i \in 1 .. Len(m) - (p + 2) : End(i)
    BY <1>1, <1>3 DEF ItemCount
  <2>2. k \in 1 .. Len(m) - (p + 2)
    BY <1>1, <1>3
  <2>3. ASSUME NEW j \in 1 .. k
        PROVE  m[(p + 2) + j].next = NULL <=> j = k
    BY <1>1
  <2>4. End(k)
    <3>1. m[(p + 2) + k].next = NULL
      <4>1. k \in 1 .. k
        BY <1>3
      <4> QED BY <2>3, <4>1
    <3>2. ASSUME NEW j \in 1 .. k - 1 PROVE m[(p + 2) + j].next # NULL
      <4>1. j \in 1 .. k /\ j # k
        OBVIOUS
      <4> QED BY <2>3, <4>1
    <3> QED BY <3>1, <3>2
  <2>5. ASSUME NEW i \in 1 .. Len(m) - (p + 2), End(i) PROVE i = k
    <3>1. CASE i < k
      <4>1. i \in 1 .. k /\ i # k
        BY <1>1, <3>1
      <4> QED BY <2>3, <2>5, <4>1
    <3>2. CASE i > k
      <4>1. k \in 1 .. i - 1 /\ k \in 1 .. k
        BY <1>1, <1>3, <3>2
      <4>2. m[(p + 2) + k].next = NULL
        BY <2>3, <4>1
      <4> QED BY <2>5, <4>1, <4>2
    <3> QED BY <1>1, <3>1, <3>2
  <2> HIDE DEF End
  <2> QED BY <1>1, <2>1, <2>2, <2>4, <2>5
<1> QED BY <1>2, <1>3

\* A node with a list that is as it was written.
FreshList(m, p, n) ==
  /\ m[p + 1] = KeyCell(n)
  /\ m[p + 2] = WrittenHead(n)
  /\ \A j \in 1 .. Len(AppsOf[n]) : m[p + 2 + j] = WrittenItem(n, j)

\* The reader finds the end of a list that is as it was written.
LEMMA FreshCounted ==
  ASSUME IInv, NEW n \in nodes, NEW m, NEW p \in Nat, IsSeq(m), p + Size(n) - 1 <= Len(m),
         FreshList(m, p, n)
  PROVE  ItemCount(m, p + 2) = Len(AppsOf[n]) /\ Behind(m, p) = p + Size(n)
<1>1. m[p + 2].head = NULL <=> Len(AppsOf[n]) = 0
  BY Apps, StaleAssumption DEF FreshList, WrittenHead
<1>2. ASSUME NEW j \in 1 .. Len(AppsOf[n])
      PROVE  m[p + 2 + j].next = NULL <=> j = Len(AppsOf[n])
  <2>1. m[p + 2 + j] = WrittenItem(n, j)
    BY DEF FreshList
  <2>2. WrittenItem(n, j).next = IF j = Len(AppsOf[n]) THEN NULL ELSE Stale
    BY DEF WrittenItem
  <2> QED BY <2>1, <2>2, StaleAssumption
<1>3. ItemCount(m, p + 2) = Len(AppsOf[n])
  BY <1>1, <1>2, Counted
<1> QED BY <1>3, Sizes, SMTT(30) DEF Behind, Size

\* ReadNode has read node n at position p.
NodeIsRead(f, m, p, n) ==
  /\ IsSeq(f) /\ Len(f) = Len(m)
  /\ f[p] = [m[p] EXCEPT !.key = p + 1, !.value = p + 2, !.visit = {}]
  /\ MappedList(f, p, n)
  /\ \A i \in 1 .. Len(m) : i < p \/ i > p + Size(n) - 1 => f[i] = m[i]

\* readKey and readValue touch the cells of their node, and no others.
LEMMA NodeRead ==
  ASSUME IInv, NEW n \in nodes, NEW m, NEW p \in Nat, p >= 1, IsSeq(m), p + Size(n) - 1 <= Len(m),
         FreshList(m, p, n),
         NEW f, f = ReadNode(m, p)
  PROVE  NodeIsRead(f, m, p, n)
<1>1. PICK k \in Nat, len \in Nat : k = Len(AppsOf[n]) /\ len = Len(m) /\ Size(n) = 3 + k
  BY Sizes, SeqIs DEF Size
<1>2. ItemCount(m, p + 2) = k
  BY <1>1, FreshCounted
<1>3. DOMAIN m = 1 .. len
  BY <1>1, SeqIs
<1>4. f = [i \in 1 .. len |->
            IF i = p THEN [m[p] EXCEPT !.key = p + 1, !.value = p + 2, !.visit = {}]
            ELSE IF i = p + 2 /\ k > 0
                 THEN [m[p + 2] EXCEPT !.head = (p + 2) + 1, !.tail = (p + 2) + k]
            ELSE IF i \in (p + 2) + 1 .. (p + 2) + k THEN ReadItem(m, p + 2, k, i)
            ELSE m[i]]
  BY <1>2, <1>3 DEF ReadNode
<1>5. IsSeq(f) /\ Len(f) = Len(m)
  <2>1. IsList(f, len)
    BY <1>4 DEF IsList
  <2> QED BY <1>1, <2>1, ListIsSeq
<1>6. f[p] = [m[p] EXCEPT !.key = p + 1, !.value = p + 2, !.visit = {}]
  <2>1. p \in 1 .. len
    BY <1>1
  <2> QED BY <1>4, <2>1
<1>7. f[p + 1] = KeyCell(n)
  <2>1. p + 1 \in 1 .. len /\ p + 1 # p /\ p + 1 # p + 2 /\ p + 1 \notin (p + 2) + 1 .. (p + 2) + k
    BY <1>1
  <2>2. f[p + 1] = m[p + 1]
    BY <1>4, <2>1
  <2> QED BY <2>2 DEF FreshList
<1>8. f[p + 2] = MappedHead(p, n)
  <2>1. p + 2 \in 1 .. len /\ p + 2 # p /\ p + 2 \notin (p + 2) + 1 .. (p + 2) + k
    BY <1>1
  <2>2. m[p + 2] = WrittenHead(n)
    BY DEF FreshList
  <2>3. CASE k = 0
    <3>1. f[p + 2] = m[p + 2]
      BY <1>4, <2>1, <2>3
    <3> QED BY <1>1, <2>2, <2>3, <3>1, Apps DEF WrittenHead, MappedHead
  <2>4. CASE k # 0
    <3>1. f[p + 2] = [m[p + 2] EXCEPT !.head = (p + 2) + 1, !.tail = (p + 2) + k]
      BY <1>4, <2>1, <2>4
    <3>2. (p + 2) + 1 = p + 3 /\ (p + 2) + k = p + 2 + k
      OBVIOUS
    <3>3. WrittenHead(n) = [cell |-> "list", head |-> Stale, tail |-> Stale]
      BY <1>1, <2>4, Apps DEF WrittenHead
    <3>4. f[p + 2] = [cell |-> "list", head |-> p + 3, tail |-> p + 2 + k]
      <4>1. PICK r, g, h, t, z : /\ r = m[p + 2] /\ g = f[p + 2] /\ z = "list"
                                 /\ h = p + 3 /\ t = p + 2 + k
        OBVIOUS
      <4>2. /\ r = [cell |-> z, head |-> Stale, tail |-> Stale]
            /\ g = [r EXCEPT !.head = h, !.tail = t]
        BY <2>2, <3>1, <3>2, <3>3, <4>1
      <4>3. g = [cell |-> z, head |-> h, tail |-> t]
        BY <4>2
      <4> QED BY <4>1, <4>3
    <3> QED BY <1>1, <2>4, <3>4 DEF MappedHead
  <2> QED BY <2>3, <2>4
<1>9. ASSUME NEW j \in 1 .. k PROVE f[p + 2 + j] = MappedItem(p, n, j)
  <2>1. PICK i \in Nat : i = p + 2 + j
    OBVIOUS
  <2>2. i \in 1 .. len /\ i # p /\ i # p + 2 /\ i \in (p + 2) + 1 .. (p + 2) + k
    BY <1>1, <2>1
  <2>3. (i = (p + 2) + 1 <=> j = 1) /\ (i = (p + 2) + k <=> j = k)
    <3>1. j \in Int /\ p \in Int /\ k \in Int
      OBVIOUS
    <3>2. i = (p + 2) + 1 <=> j = 1
      BY <2>1, <3>1
    <3>3. i = (p + 2) + k <=> j = k
      BY <2>1, <3>1
    <3> QED BY <3>2, <3>3
  <2>4. i - 1 = p + 1 + j /\ i + 1 = p + 3 + j
    BY <1>1, <2>1
  <2>5. f[i] = ReadItem(m, p + 2, k, i)
    BY <1>4, <2>2
  <2>6. m[i] = WrittenItem(n, j)
    BY <1>1, <2>1 DEF FreshList
  <2>7. ReadItem(m, p + 2, k, i) = MappedItem(p, n, j)
    <3>1. PICK x, y, z, e :
            /\ x = AppsOf[n][j]
            /\ y = IF x \in Known THEN x ELSE NULL
            /\ z = IF j = 1 THEN NULL ELSE Stale
            /\ e = IF j = k THEN NULL ELSE Stale
      OBVIOUS
    <3>2. m[i] = [cell |-> "item", name |-> x, app |-> Stale, list |-> Stale,
                  prev |-> z, next |-> e]
      BY <1>1, <2>6, <3>1 DEF WrittenItem
    <3>3. m[i].prev = z /\ m[i].next = e /\ m[i].name = x
      BY <3>2
    <3>4. PICK b, d : /\ b = IF j = 1 THEN NULL ELSE p + 1 + j
                      /\ d = IF j = k THEN NULL ELSE p + 3 + j
      OBVIOUS
    <3>5. ReadItem(m, p + 2, k, i) =
            [m[i] EXCEPT !.prev = b, !.next = d, !.list = p + 2, !.app = y]
      BY <2>3, <2>4, <3>1, <3>3, <3>4 DEF ReadItem
    <3>6. ReadItem(m, p + 2, k, i) =
            [cell |-> "item", name |-> x, app |-> y, list |-> p + 2, prev |-> b, next |-> d]
      <4>1. PICK r, g, l, w : r = m[i] /\ g = ReadItem(m, p + 2, k, i) /\ l = p + 2 /\ w = "item"
        OBVIOUS
      <4>2. /\ r = [cell |-> w, name |-> x, app |-> Stale, list |-> Stale, prev |-> z, next |-> e]
            /\ g = [r EXCEPT !.prev = b, !.next = d, !.list = l, !.app = y]
        BY <3>2, <3>5, <4>1
      <4>3. g = [cell |-> w, name |-> x, app |-> y, list |-> l, prev |-> b, next |-> d]
        BY <4>2
      <4> QED BY <4>1, <4>3
    <3> QED BY <1>1, <3>1, <3>4, <3>6 DEF MappedItem
  <2> QED BY <2>1, <2>5, <2>7
<1>10. ASSUME NEW i \in 1 .. Len(m), i < p \/ i > p + Size(n) - 1 PROVE f[i] = m[i]
  <2>1. i \in 1 .. len /\ (i < p \/ i > p + (3 + k) - 1)
    BY <1>1, <1>10
  <2>2. i \in 1 .. len /\ i # p /\ i # p + 2 /\ i \notin (p + 2) + 1 .. (p + 2) + k
    BY <2>1
  <2> QED BY <1>4, <2>2
<1>11. MappedList(f, p, n)
  BY <1>1, <1>7, <1>8, <1>9 DEF MappedList
<1> QED BY <1>5, <1>6, <1>10, <1>11 DEF NodeIsRead

\* The cells of the mapping while it is read: the nodes W have been read, with marks v.
Reading(m, pos, behind, W, v) ==
  /\ IsSeq(m) /\ m[1] = [cell |-> "tree", root |-> 2]
  /\ Geometry(Len(m), pos, behind) /\ Len(m) + 1 = behind["right"][root]
  /\ \A n \in W : Mapped(m, pos, v, n)
  /\ \A n \in nodes \ W : Fresh(m, pos[n], n)
  /\ \A n \in nodes, s \in Side :
       child[s][n] = NULL => m[Place(pos, behind, s, n)] = EmptyNode

\* A node that has got its parent, and is read next.
LinkedNode(pos, c) ==
  [cell |-> "node", visit |-> Side, left |-> Raw(child["left"][c]),
   right |-> Raw(child["right"][c]), parent |-> IF c = root THEN NULL ELSE pos[parent[c]],
   key |-> Stale, value |-> Stale]

ReadingNext(m, pos, behind, W, v, c) ==
  /\ IsSeq(m) /\ m[1] = [cell |-> "tree", root |-> 2]
  /\ Geometry(Len(m), pos, behind) /\ Len(m) + 1 = behind["right"][root]
  /\ \A n \in W : Mapped(m, pos, v, n)
  /\ m[pos[c]] = LinkedNode(pos, c) /\ FreshList(m, pos[c], c)
  /\ \A n \in nodes \ (W \union {c}) : Fresh(m, pos[n], n)
  /\ \A n \in nodes, s \in Side :
       child[s][n] = NULL => m[Place(pos, behind, s, n)] = EmptyNode

\* What lies behind the cell of a node is the same.
SameBehind(f, m, pos, n) == \A i \in Segment(pos, n) : i # pos[n] => f[i] = m[i]

\* What is known of a node is a matter of its cells.
LEMMA SameCells ==
  ASSUME IInv, NEW pos, NEW behind, Layout(pos, behind), NEW n \in nodes, NEW m, NEW f,
         SameBehind(f, m, pos, n)
  PROVE  /\ FreshList(m, pos[n], n) => FreshList(f, pos[n], n)
         /\ MappedList(m, pos[n], n) => MappedList(f, pos[n], n)
<1>1. PICK p \in Nat : p = pos[n]
  BY DEF Layout
<1>2. /\ p + 1 \in Segment(pos, n) /\ p + 2 \in Segment(pos, n)
      /\ \A j \in 1 .. Len(AppsOf[n]) : p + 2 + j \in Segment(pos, n)
  BY <1>1, InSegment
<1>3. f[p + 1] = m[p + 1] /\ f[p + 2] = m[p + 2]
  BY <1>1, <1>2 DEF SameBehind
<1>4. \A j \in 1 .. Len(AppsOf[n]) : f[p + 2 + j] = m[p + 2 + j]
  <2> TAKE j \in 1 .. Len(AppsOf[n])
  <2>1. p + 2 + j # p
    OBVIOUS
  <2> QED BY <1>1, <1>2, <2>1 DEF SameBehind
<1>5. FreshList(m, p, n) => FreshList(f, p, n)
  BY <1>3, <1>4 DEF FreshList
<1>6. MappedList(m, p, n) => MappedList(f, p, n)
  BY <1>3, <1>4 DEF MappedList
<1> QED BY <1>1, <1>5, <1>6

\* The cell of a node, and what is behind it.
LEMMA FreshIs ==
  ASSUME NEW m, NEW p, NEW n
  PROVE  Fresh(m, p, n) <=> m[p] = NodeCell(n) /\ FreshList(m, p, n)
  BY DEF Fresh, FreshList

\* The node that is next is read.
LEMMA NextRead ==
  ASSUME IInv, freed = {}, root # NULL,
         NEW pos, NEW behind, Layout(pos, behind),
         NEW W \in SUBSET nodes, NEW c \in nodes, c \notin W, NEW v, v[c] = {},
         NEW m, ReadingNext(m, pos, behind, W, v, c),
         NEW f, f = ReadNode(m, pos[c]),
         NEW X, X = W \union {c}
  PROVE  Reading(f, pos, behind, X, v)
<1>1. PICK p \in Nat : p = pos[c]
  BY DEF Layout
<1>2. /\ IsSeq(m) /\ Geometry(Len(m), pos, behind) /\ FreshList(m, p, c)
      /\ m[p] = LinkedNode(pos, c) /\ Len(m) \in Nat
  BY <1>1, SeqIs DEF ReadingNext
<1>3. Segment(pos, c) \subseteq 2 .. Len(m) /\ Size(c) \in Nat /\ Size(c) >= 3
      /\ Segment(pos, c) = p .. p + Size(c) - 1
  BY <1>1, <1>2, Sizes DEF Geometry, Segment
<1>4. p >= 2 /\ p + Size(c) - 1 <= Len(m)
  <2>1. p \in Segment(pos, c) /\ p + Size(c) - 1 \in Segment(pos, c)
    BY <1>3
  <2> QED BY <1>3, <2>1
<1>5. /\ IsSeq(f) /\ Len(f) = Len(m)
      /\ f[p] = [m[p] EXCEPT !.key = p + 1, !.value = p + 2, !.visit = {}]
      /\ MappedList(f, p, c)
      /\ \A i \in 1 .. Len(m) : i < p \/ i > p + Size(c) - 1 => f[i] = m[i]
  <2>1. p >= 1 /\ f = ReadNode(m, p)
    BY <1>1, <1>4
  <2>2. NodeIsRead(f, m, p, c)
    BY <1>2, <1>4, <2>1, NodeRead
  <2> QED BY <2>2 DEF NodeIsRead
<1>6. \A i \in 1 .. Len(m) : i \notin Segment(pos, c) => f[i] = m[i]
  BY <1>3, <1>5
<1>7. f[p] = MappedNode(pos, v, c)
  <2>1. PICK r, g, k, l, u, w, x, y, z :
          /\ r = m[p] /\ g = f[p] /\ k = p + 1 /\ l = p + 2
          /\ u = Raw(child["left"][c]) /\ w = Raw(child["right"][c])
          /\ x = (IF c = root THEN NULL ELSE pos[parent[c]])
          /\ y = "node" /\ z = {}
    OBVIOUS
  <2>2. r = [cell |-> y, visit |-> Side, left |-> u, right |-> w, parent |-> x,
             key |-> Stale, value |-> Stale]
    BY <1>2, <2>1 DEF LinkedNode
  <2>3. g = [r EXCEPT !.key = k, !.value = l, !.visit = z]
    BY <1>5, <2>1
  <2>4. g = [cell |-> y, visit |-> z, left |-> u, right |-> w, parent |-> x,
             key |-> k, value |-> l]
    BY <2>2, <2>3
  <2>5. u = Link(pos, v, "left", c) /\ w = Link(pos, v, "right", c)
    BY <2>1 DEF Link, Raw
  <2> QED BY <1>1, <2>1, <2>4, <2>5 DEF MappedNode
<1>8. ASSUME NEW n \in nodes, n # c
      PROVE  \A i \in Segment(pos, n) : f[i] = m[i]
  <2>1. Segment(pos, n) \subseteq 2 .. Len(m) /\ Segment(pos, n) \intersect Segment(pos, c) = {}
    BY <1>2, <1>8 DEF Geometry
  <2> QED BY <1>2, <1>6, <2>1
<1>9. ASSUME NEW n \in W PROVE Mapped(f, pos, v, n)
  <2>1. Mapped(m, pos, v, n) /\ n \in nodes /\ n # c
    BY DEF ReadingNext
  <2>2. \A i \in Segment(pos, n) : f[i] = m[i]
    BY <1>8, <2>1
  <2>3. pos[n] \in Segment(pos, n)
    BY <2>1, InSegment
  <2>4. MappedList(f, pos[n], n)
    BY <2>1, <2>2, SameCells DEF Mapped, SameBehind
  <2> QED BY <2>1, <2>2, <2>3, <2>4 DEF Mapped
<1>10. ASSUME NEW n \in nodes, n \notin X PROVE Fresh(f, pos[n], n)
  <2>1. Fresh(m, pos[n], n) /\ n # c
    BY <1>10 DEF ReadingNext
  <2>2. \A i \in Segment(pos, n) : f[i] = m[i]
    BY <1>8, <2>1
  <2>3. pos[n] \in Segment(pos, n)
    BY InSegment
  <2>4. FreshList(f, pos[n], n)
    BY <2>1, <2>2, FreshIs, SameCells DEF SameBehind
  <2> QED BY <2>1, <2>2, <2>3, <2>4, FreshIs
<1>11. ASSUME NEW n \in nodes, NEW s \in Side, child[s][n] = NULL
       PROVE  f[Place(pos, behind, s, n)] = EmptyNode
  <2>1. /\ Place(pos, behind, s, n) \in 2 .. Len(m)
        /\ Place(pos, behind, s, n) \notin Segment(pos, c)
    BY <1>2, <1>11 DEF Geometry
  <2>2. m[Place(pos, behind, s, n)] = EmptyNode
    BY <1>11 DEF ReadingNext
  <2> QED BY <1>2, <1>6, <2>1, <2>2
<1>12. f[1] = [cell |-> "tree", root |-> 2]
  <2>1. 1 \in 1 .. Len(m) /\ 1 \notin Segment(pos, c)
    BY <1>2, <1>3, <1>4
  <2> QED BY <1>6, <2>1 DEF ReadingNext
<1>13. Mapped(f, pos, v, c)
  BY <1>1, <1>5, <1>7 DEF Mapped
<1> QED BY <1>2, <1>5, <1>9, <1>10, <1>11, <1>12, <1>13 DEF Reading, ReadingNext

\* Linked has made the node at position at a child of the one at position this.
AreLinked(f, m, s) ==
  /\ IsSeq(f) /\ Len(f) = Len(m)
  /\ f[at] = [m[at] EXCEPT !.parent = this]
  /\ s = "left" =>
       f[this] = [[m[this] EXCEPT !.visit = m[this].visit \union {s}] EXCEPT !.left = at]
  /\ s = "right" =>
       f[this] = [[m[this] EXCEPT !.visit = m[this].visit \union {s}] EXCEPT !.right = at]
  /\ \A i \in 1 .. Len(m) : i # at /\ i # this => f[i] = m[i]

LEMMA LinkedCells ==
  ASSUME NEW m, IsSeq(m), this \in 1 .. Len(m), at \in 1 .. Len(m), this # at,
         NEW s \in Side, NEW f, f = Linked(m, s)
  PROVE  AreLinked(f, m, s)
<1>1. PICK len \in Nat : len = Len(m) /\ DOMAIN m = 1 .. len /\ m = [i \in 1 .. len |-> m[i]]
  BY SeqIs
<1>2. PICK b : b = [m EXCEPT ![at].parent = this, ![this].visit = @ \union {s}]
  OBVIOUS
<1>3. /\ DOMAIN b = 1 .. len
      /\ b[at] = [m[at] EXCEPT !.parent = this]
      /\ b[this] = [m[this] EXCEPT !.visit = m[this].visit \union {s}]
      /\ \A i \in 1 .. len : i # at /\ i # this => b[i] = m[i]
  BY <1>1, <1>2
<1>4. f = IF s = "left" THEN [b EXCEPT ![this].left = at] ELSE [b EXCEPT ![this].right = at]
  BY <1>2 DEF Linked
<1>5. IsList(f, len)
  BY <1>3, <1>4 DEF IsList
<1>6. IsSeq(f) /\ Len(f) = len
  BY <1>5, ListIsSeq
<1>7. /\ s = "left" => f[this] = [b[this] EXCEPT !.left = at]
      /\ s = "right" => f[this] = [b[this] EXCEPT !.right = at]
      /\ \A i \in 1 .. len : i # this => f[i] = b[i]
  BY <1>1, <1>3, <1>4 DEF Side
<1> QED BY <1>1, <1>3, <1>6, <1>7 DEF AreLinked

\* The next node becomes the child of the one that has been read.
LEMMA ChildLinked ==
  ASSUME IInv, freed = {}, root # NULL,
         NEW pos, NEW behind, Layout(pos, behind),
         NEW W \in SUBSET nodes, NEW t \in W, NEW c \in nodes, c \notin W, NEW v,
         NEW s \in Side, c = child[s][t], NEW w, w = Entered(v, t, s, c),
         NEW m, Reading(m, pos, behind, W, v), this = pos[t], at = pos[c],
         NEW f, f = Linked(m, s)
  PROVE  ReadingNext(f, pos, behind, W, w, c)
<1>1. /\ IsSeq(m) /\ Geometry(Len(m), pos, behind) /\ Len(m) \in Nat
      /\ m[pos[c]] = NodeCell(c) /\ FreshList(m, pos[c], c)
      /\ m[pos[t]] = MappedNode(pos, v, t)
      /\ t \in nodes
  BY SeqIs, FreshIs DEF Reading, Mapped
<1>2. \A n \in nodes : Segment(pos, n) \subseteq 2 .. Len(m) /\ pos[n] \in Segment(pos, n)
  BY <1>1, InSegment DEF Geometry
<1>3. c # NULL /\ c # t /\ c # root /\ parent[c] = t
  BY <1>1, Tree
<1>4. \A n \in nodes, k \in nodes : n # k => pos[k] \notin Segment(pos, n)
  BY <1>1, <1>2 DEF Geometry
<1>5. pos[t] \in 1 .. Len(m) /\ pos[c] \in 1 .. Len(m) /\ pos[t] # pos[c]
  BY <1>1, <1>2, <1>3, <1>4
<1>6. AreLinked(f, m, s)
  <2>1. this \in 1 .. Len(m) /\ at \in 1 .. Len(m) /\ this # at /\ IsSeq(m)
    BY <1>1, <1>5
  <2> QED BY <2>1, LinkedCells
<1>7. IsSeq(f) /\ Len(f) = Len(m)
  BY <1>6 DEF AreLinked
<1>8. f[pos[c]] = [m[pos[c]] EXCEPT !.parent = pos[t]]
  BY <1>6 DEF AreLinked
<1>9. \A i \in 1 .. Len(m) : i # pos[c] /\ i # pos[t] => f[i] = m[i]
  BY <1>6 DEF AreLinked
<1>10. f[pos[c]] = LinkedNode(pos, c)
  <2>1. PICK r, g, u, x, y, z, q :
          /\ r = m[pos[c]] /\ g = f[pos[c]]
          /\ u = Raw(child["left"][c]) /\ x = Raw(child["right"][c])
          /\ y = "node" /\ z = Raw(parent[c]) /\ q = pos[t]
    OBVIOUS
  <2>2. r = [cell |-> y, visit |-> Side, left |-> u, right |-> x, parent |-> z,
             key |-> Stale, value |-> Stale]
    BY <1>1, <2>1 DEF NodeCell
  <2>3. g = [r EXCEPT !.parent = q]
    BY <1>8, <2>1
  <2>4. g = [cell |-> y, visit |-> Side, left |-> u, right |-> x, parent |-> q,
             key |-> Stale, value |-> Stale]
    BY <2>2, <2>3
  <2> QED BY <1>3, <2>1, <2>4 DEF LinkedNode
<1>11. f[pos[t]] = MappedNode(pos, w, t)
  <2>1. PICK r, g, u, x, y, z, q, k, l, o, a :
          /\ r = m[pos[t]] /\ g = f[pos[t]] /\ a = pos[c]
          /\ u = Link(pos, v, "left", t) /\ x = Link(pos, v, "right", t)
          /\ y = "node" /\ z = v[t] /\ o = v[t] \union {s}
          /\ q = (IF t = root THEN NULL ELSE pos[parent[t]])
          /\ k = pos[t] + 1 /\ l = pos[t] + 2
    OBVIOUS
  <2>2. r = [cell |-> y, visit |-> z, left |-> u, right |-> x, parent |-> q,
             key |-> k, value |-> l]
    BY <1>1, <2>1 DEF MappedNode
  <2>3. r.visit = z
    BY <2>2
  <2>4. w[t] = o
    BY <1>1, <1>3, <2>1 DEF Entered
  <2>5. CASE s = "left"
    <3>1. g = [[r EXCEPT !.visit = o] EXCEPT !.left = a]
      <4>1. f[this] = [[m[this] EXCEPT !.visit = m[this].visit \union {s}] EXCEPT !.left = at]
        BY <1>6, <2>5 DEF AreLinked
      <4> QED BY <2>1, <2>3, <4>1
    <3>2. g = [cell |-> y, visit |-> o, left |-> a, right |-> x, parent |-> q,
               key |-> k, value |-> l]
      BY <2>2, <3>1
    <3>3. Link(pos, w, "left", t) = a /\ Link(pos, w, "right", t) = x
      BY <1>3, <2>1, <2>4, <2>5 DEF Link
    <3> QED BY <2>1, <2>4, <3>2, <3>3 DEF MappedNode
  <2>6. CASE s = "right"
    <3>1. g = [[r EXCEPT !.visit = o] EXCEPT !.right = a]
      <4>1. f[this] = [[m[this] EXCEPT !.visit = m[this].visit \union {s}] EXCEPT !.right = at]
        BY <1>6, <2>6 DEF AreLinked
      <4> QED BY <2>1, <2>3, <4>1
    <3>2. g = [cell |-> y, visit |-> o, left |-> u, right |-> a, parent |-> q,
               key |-> k, value |-> l]
      BY <2>2, <3>1
    <3>3. Link(pos, w, "right", t) = a /\ Link(pos, w, "left", t) = u
      BY <1>3, <2>1, <2>4, <2>6 DEF Link
    <3> QED BY <2>1, <2>4, <3>2, <3>3 DEF MappedNode
  <2> QED BY <2>5, <2>6 DEF Side
<1>12. ASSUME NEW n \in nodes
       PROVE  SameBehind(f, m, pos, n)
  BY <1>1, <1>2, <1>4, <1>9 DEF SameBehind
<1>13. \A n \in nodes : n # c /\ n # t => f[pos[n]] = m[pos[n]]
  BY <1>1, <1>2, <1>4, <1>9
<1>14. ASSUME NEW n \in W PROVE Mapped(f, pos, w, n)
  <2>1. Mapped(m, pos, v, n) /\ n # c /\ n \in nodes
    BY DEF Reading
  <2>2. MappedList(f, pos[n], n)
    BY <1>12, <2>1, SameCells DEF Mapped
  <2>3. CASE n = t
    BY <1>11, <2>2, <2>3 DEF Mapped
  <2>4. CASE n # t
    <3>1. MappedNode(pos, w, n) = MappedNode(pos, v, n)
      <4>1. w[n] = v[n]
        BY <2>1, <2>4 DEF Entered
      <4> QED BY <4>1 DEF MappedNode, Link
    <3> QED BY <1>13, <2>1, <2>2, <2>4, <3>1 DEF Mapped
  <2> QED BY <2>3, <2>4
<1>15. ASSUME NEW n \in nodes \ (W \union {c}) PROVE Fresh(f, pos[n], n)
  <2>1. Fresh(m, pos[n], n) /\ n # c /\ n # t
    BY DEF Reading
  <2>2. FreshList(f, pos[n], n)
    BY <1>12, <2>1, FreshIs, SameCells
  <2> QED BY <1>13, <2>1, <2>2, FreshIs
<1>16. FreshList(f, pos[c], c)
  BY <1>1, <1>12, SameCells
<1>17. ASSUME NEW n \in nodes, NEW r \in Side, child[r][n] = NULL
       PROVE  f[Place(pos, behind, r, n)] = EmptyNode
  <2>1. /\ Place(pos, behind, r, n) \in 2 .. Len(m)
        /\ \A k \in nodes : Place(pos, behind, r, n) \notin Segment(pos, k)
    BY <1>1, <1>17 DEF Geometry
  <2>2. m[Place(pos, behind, r, n)] = EmptyNode
    BY <1>17 DEF Reading
  <2>3. Place(pos, behind, r, n) # pos[c] /\ Place(pos, behind, r, n) # pos[t]
    BY <1>1, <1>2, <2>1
  <2> QED BY <1>1, <1>9, <2>1, <2>2, <2>3
<1>18. f[1] = [cell |-> "tree", root |-> 2]
  <2>1. 1 \in 1 .. Len(m) /\ 1 # pos[c] /\ 1 # pos[t]
    BY <1>1, <1>2
  <2> QED BY <1>9, <2>1 DEF Reading
<1> QED BY <1>7, <1>10, <1>14, <1>15, <1>16, <1>17, <1>18 DEF Reading, ReadingNext

\* A node without a child on its next side gets the mark.
LEMMA EmptySkipped ==
  ASSUME IInv, freed = {}, root # NULL,
         NEW pos, NEW behind, Layout(pos, behind),
         NEW W \in SUBSET nodes, NEW t \in W, NEW v,
         NEW s \in Side, s = NextSide(v[t]), child[s][t] = NULL,
         NEW w, w = Entered(v, t, s, NULL),
         NEW m, Reading(m, pos, behind, W, v), this = pos[t],
         NEW f, f = [m EXCEPT ![this].visit = @ \union {NextSide(@)}]
  PROVE  Reading(f, pos, behind, W, w)
<1>1. /\ IsSeq(m) /\ Geometry(Len(m), pos, behind)
      /\ m[pos[t]] = MappedNode(pos, v, t) /\ t \in nodes
  BY DEF Reading, Mapped
<1>2. PICK len \in Nat : len = Len(m) /\ DOMAIN m = 1 .. len
  BY <1>1, SeqIs
<1>3. \A n \in nodes : Segment(pos, n) \subseteq 2 .. len /\ pos[n] \in Segment(pos, n)
  BY <1>1, <1>2, InSegment DEF Geometry
<1>4. \A n \in nodes, k \in nodes : n # k => pos[k] \notin Segment(pos, n)
  BY <1>1, <1>3 DEF Geometry
<1>5. pos[t] \in 1 .. len
  BY <1>1, <1>3
<1>6. /\ f[pos[t]] = [m[pos[t]] EXCEPT !.visit = m[pos[t]].visit \union {NextSide(m[pos[t]].visit)}]
      /\ \A i \in 1 .. len : i # pos[t] => f[i] = m[i]
      /\ DOMAIN f = 1 .. len
  BY <1>2, <1>5
<1>7. IsSeq(f) /\ Len(f) = Len(m)
  <2>1. f = [i \in 1 .. len |-> f[i]]
    BY <1>2, <1>6
  <2>2. IsList(f, len)
    BY <2>1 DEF IsList
  <2> QED BY <1>2, <2>2, ListIsSeq
<1>8. f[pos[t]] = MappedNode(pos, w, t)
  <2>1. PICK r, g, u, x, y, z, q, k, l, o :
          /\ r = m[pos[t]] /\ g = f[pos[t]]
          /\ u = Link(pos, v, "left", t) /\ x = Link(pos, v, "right", t)
          /\ y = "node" /\ z = v[t] /\ o = v[t] \union {s}
          /\ q = (IF t = root THEN NULL ELSE pos[parent[t]])
          /\ k = pos[t] + 1 /\ l = pos[t] + 2
    OBVIOUS
  <2>2. r = [cell |-> y, visit |-> z, left |-> u, right |-> x, parent |-> q,
             key |-> k, value |-> l]
    BY <1>1, <2>1 DEF MappedNode
  <2>3. r.visit = z
    BY <2>2
  <2>4. g = [r EXCEPT !.visit = o]
    BY <1>6, <2>1, <2>3
  <2>5. g = [cell |-> y, visit |-> o, left |-> u, right |-> x, parent |-> q,
             key |-> k, value |-> l]
    BY <2>2, <2>4
  <2>6. w[t] = o
    BY <1>1, <2>1 DEF Entered
  <2>7. \A a \in Side : Link(pos, w, a, t) = Link(pos, v, a, t)
    BY <2>1, <2>6 DEF Link
  <2> QED BY <2>1, <2>5, <2>6, <2>7 DEF MappedNode, Side
<1>9. ASSUME NEW n \in nodes
      PROVE  SameBehind(f, m, pos, n)
  BY <1>1, <1>2, <1>3, <1>4, <1>6 DEF SameBehind
<1>10. \A n \in nodes : n # t => f[pos[n]] = m[pos[n]]
  BY <1>1, <1>2, <1>3, <1>4, <1>6
<1>11. ASSUME NEW n \in W PROVE Mapped(f, pos, w, n)
  <2>1. Mapped(m, pos, v, n) /\ n \in nodes
    BY DEF Reading
  <2>2. MappedList(f, pos[n], n)
    BY <1>9, <2>1, SameCells DEF Mapped
  <2>3. CASE n = t
    BY <1>8, <2>2, <2>3 DEF Mapped
  <2>4. CASE n # t
    <3>1. MappedNode(pos, w, n) = MappedNode(pos, v, n)
      <4>1. w[n] = v[n]
        BY <2>1, <2>4, Tree DEF Entered
      <4> QED BY <4>1 DEF MappedNode, Link
    <3> QED BY <1>10, <2>1, <2>2, <2>4, <3>1 DEF Mapped
  <2> QED BY <2>3, <2>4
<1>12. ASSUME NEW n \in nodes \ W PROVE Fresh(f, pos[n], n)
  <2>1. Fresh(m, pos[n], n) /\ n # t
    BY DEF Reading
  <2>2. FreshList(f, pos[n], n)
    BY <1>9, <2>1, FreshIs, SameCells
  <2> QED BY <1>10, <2>1, <2>2, FreshIs
<1>13. ASSUME NEW n \in nodes, NEW r \in Side, child[r][n] = NULL
       PROVE  f[Place(pos, behind, r, n)] = EmptyNode
  <2>1. /\ Place(pos, behind, r, n) \in 2 .. len
        /\ \A k \in nodes : Place(pos, behind, r, n) \notin Segment(pos, k)
    BY <1>1, <1>2, <1>13 DEF Geometry
  <2>2. m[Place(pos, behind, r, n)] = EmptyNode
    BY <1>13 DEF Reading
  <2>3. Place(pos, behind, r, n) # pos[t]
    BY <1>1, <1>3, <2>1
  <2> QED BY <1>6, <2>1, <2>2, <2>3
<1>14. f[1] = [cell |-> "tree", root |-> 2]
  <2>1. 1 \in 1 .. len /\ 1 # pos[t]
    BY <1>1, <1>2, <1>3
  <2> QED BY <1>6, <2>1 DEF Reading
<1> QED BY <1>7, <1>11, <1>12, <1>13, <1>14 DEF Reading

-----------------------------------------------------------------------------
(* The reader *)

\* The reader has come to node t.
Mapping(pos, behind, P, F, v, t) ==
  /\ Layout(pos, behind)
  /\ Trav(P, F, v, t)
  /\ Reading(memory, pos, behind, P \union F, v)
  /\ this = pos[t] /\ at = Ahead(pos, behind, v, t)

\* The reader has read all nodes.
Restored(pos, behind) ==
  /\ Layout(pos, behind)
  /\ Reading(memory, pos, behind, nodes, [n \in nodes |-> Side])
  /\ at = Len(memory) + 1

MapInv ==
  /\ pc = "map" => root # NULL /\ \E pos, behind, P, F, v, t : Mapping(pos, behind, P, F, v, t)
  /\ pc = "done" /\ at # 0 =>
       IF root = NULL THEN /\ IsSeq(memory) /\ Len(memory) = 2 /\ at = 3
                           /\ memory[1] = [cell |-> "tree", root |-> NULL]
                           /\ memory[2] = EmptyNode
       ELSE \E pos, behind : Restored(pos, behind)

\* What has been read is as long as the cells and the tree are.
LEMMA ReadingStays ==
  ASSUME UNCHANGED <<nodes, root, child, parent, memory>>,
         NEW pos, NEW behind, Reading(memory, pos, behind, nodes, [n \in nodes |-> Side])
  PROVE  Reading(memory, pos, behind, nodes, [n \in nodes |-> Side])'
<1>1. PICK w : w = [n \in nodes |-> Side]
  OBVIOUS
<1>2. Reading(memory, pos, behind, nodes, w)
  BY <1>1
<1>3. Geometry(Len(memory), pos, behind)'
  BY <1>2 DEF Reading, Geometry, Segment, Size, Place
<1>4. ASSUME NEW n \in nodes PROVE Mapped(memory, pos, w, n)'
  BY <1>2 DEF Reading, Mapped, MappedNode, MappedList, Link, KeyCell, MappedHead, MappedItem
<1>5. ASSUME NEW n \in nodes, NEW s \in Side, child[s][n] = NULL
      PROVE  (memory[Place(pos, behind, s, n)] = EmptyNode)'
  BY <1>2, <1>5 DEF Reading, Place, Size, EmptyNode
<1>6. Reading(memory, pos, behind, nodes, w)'
  BY <1>2, <1>3, <1>4, <1>5 DEF Reading, IsSeq
<1> QED BY <1>1, <1>6

\* The reader has come to the next node of a tree that is as it was.
LEMMA MapUnchanged ==
  ASSUME UNCHANGED <<nodes, root, child, parent>>,
         NEW pos, NEW behind, NEW P, NEW F, NEW v, NEW t,
         Layout(pos, behind), Trav(P, F, v, t), Reading(memory', pos, behind, P \union F, v),
         this' = pos[t], at' = Ahead(pos, behind, v, t)
  PROVE  Mapping(pos, behind, P, F, v, t)'
<1>1. Layout(pos, behind)'
  BY DEF Layout, Place, Size
<1>2. Trav(P, F, v, t)'
  BY DEF Trav, Cur
<1>3. Reading(memory, pos, behind, P \union F, v)'
  <2>1. Geometry(Len(memory), pos, behind)'
    BY DEF Reading, Geometry, Segment, Size, Place
  <2>2. ASSUME NEW n \in P \union F PROVE Mapped(memory, pos, v, n)'
    BY DEF Reading, Mapped, MappedNode, MappedList, Link, KeyCell, MappedHead, MappedItem
  <2>3. ASSUME NEW n \in nodes \ (P \union F) PROVE Fresh(memory, pos[n], n)'
    BY DEF Reading, Fresh, NodeCell, Raw, KeyCell, WrittenHead, WrittenItem
  <2>4. ASSUME NEW n \in nodes, NEW s \in Side, child[s][n] = NULL
        PROVE  (memory[Place(pos, behind, s, n)] = EmptyNode)'
    BY <2>4 DEF Reading, Place, Size, EmptyNode
  <2> QED BY <2>1, <2>2, <2>3, <2>4 DEF Reading
<1>4. (this = pos[t] /\ at = Ahead(pos, behind, v, t))'
  BY DEF Ahead, Cur, Size
<1> QED BY <1>1, <1>2, <1>3, <1>4 DEF Mapping

\* The reader begins: a first node with marks is the root.
LEMMA MapStarts ==
  ASSUME IInv, WriteInv, BeginMap
  PROVE  WriteInv' /\ MapInv'
<1>1. /\ pc = "done" /\ memory # <<>> /\ at = 0 /\ freed = {}
      /\ UNCHANGED <<nodes, root, child, parent>>
  BY DEF BeginMap, IInv, LoopInv, treeVars
<1>2. CASE root = NULL
  <2>1. IsSeq(memory) /\ Len(memory) = 2 /\ memory[1] = TreeCell /\ memory[2] = EmptyNode
    BY <1>1, <1>2 DEF WriteInv
  <2>2. memory[2].visit = {}
    BY <2>1 DEF EmptyNode
  <2>3. memory' = [memory EXCEPT ![1].root = NULL] /\ at' = 3 /\ pc' = "done" /\ root' = NULL
    BY <1>1, <1>2, <2>2 DEF BeginMap
  <2>4. DOMAIN memory = 1 .. 2
    BY <2>1, SeqIs
  <2>5. /\ memory'[1] = [memory[1] EXCEPT !.root = NULL] /\ memory'[2] = memory[2]
        /\ IsList(memory', 2)
    <3>1. PICK f, k : f = memory' /\ f = [memory EXCEPT ![1].root = NULL] /\ k = 2
      BY <2>3
    <3>2. DOMAIN f = 1 .. k /\ f[1] = [memory[1] EXCEPT !.root = NULL] /\ f[2] = memory[2]
      BY <2>4, <3>1
    <3>3. f = [i \in 1 .. k |-> f[i]]
      BY <3>1, <3>2
    <3> QED BY <3>1, <3>2, <3>3 DEF IsList
  <2>6. IsSeq(memory') /\ Len(memory') = 2
    BY <2>5, ListIsSeq
  <2>7. memory'[1] = [cell |-> "tree", root |-> NULL]
    <3>1. PICK r, g, y, z : r = memory[1] /\ g = memory'[1] /\ y = "tree" /\ z = NULL
      OBVIOUS
    <3>2. r = [cell |-> y, root |-> Stale] /\ g = [r EXCEPT !.root = z]
      BY <2>1, <2>5, <3>1 DEF TreeCell
    <3>3. g = [cell |-> y, root |-> z]
      BY <3>2
    <3> QED BY <3>1, <3>3
  <2>8. IsSeq(memory)' /\ (memory[2] = EmptyNode)'
    BY <2>1, <2>5, <2>6 DEF IsSeq, EmptyNode
  <2> QED BY <2>3, <2>6, <2>7, <2>8 DEF WriteInv, MapInv
<1>3. CASE root # NULL
  <2>1. PICK pos, behind : Whole(pos, behind)
    BY <1>1, <1>3 DEF WriteInv
  <2>2. /\ Layout(pos, behind) /\ Geometry(Len(memory), pos, behind)
        /\ IsSeq(memory) /\ memory[1] = TreeCell /\ Len(memory) >= 1
        /\ Len(memory) + 1 = behind["right"][root]
        /\ \A n \in nodes : Fresh(memory, pos[n], n)
        /\ \A n \in nodes, s \in Side :
             child[s][n] = NULL => memory[Place(pos, behind, s, n)] = EmptyNode
    BY <2>1, WholeGeometry DEF Whole, Content
  <2>3. root \in nodes /\ pos[root] = 2 /\ memory[2] = NodeCell(root) /\ parent[root] = NULL
        /\ FreshList(memory, 2, root)
    BY <1>1, <1>3, <2>2, Tree, FreshIs DEF Layout
  <2>4. memory[2].visit # {}
    BY <2>3 DEF NodeCell, Side
  <2>5. PICK g, v : g = [memory EXCEPT ![1].root = 2] /\ v = [n \in nodes |-> {}]
    OBVIOUS
  <2>6. /\ memory' = ReadNode(g, pos[root]) /\ at' = Behind(memory, 2)
        /\ this' = pos[root] /\ pc' = "map"
    BY <2>3, <2>4, <2>5 DEF BeginMap
  <2>7. PICK len \in Nat : len = Len(memory) /\ DOMAIN memory = 1 .. len /\ len >= 1
    BY <2>2, SeqIs
  <2>8. /\ g[1] = [memory[1] EXCEPT !.root = 2]
        /\ \A i \in 1 .. len : i # 1 => g[i] = memory[i]
        /\ IsList(g, len)
    <3>1. /\ DOMAIN g = 1 .. len /\ g[1] = [memory[1] EXCEPT !.root = 2]
          /\ \A i \in 1 .. len : i # 1 => g[i] = memory[i]
      BY <2>5, <2>7
    <3>2. g = [i \in 1 .. len |-> g[i]]
      BY <2>5, <3>1
    <3> QED BY <3>1, <3>2 DEF IsList
  <2>9. IsSeq(g) /\ Len(g) = Len(memory)
    BY <2>7, <2>8, ListIsSeq
  <2>10. g[1] = [cell |-> "tree", root |-> 2]
    <3>1. PICK r, h, y, z : r = memory[1] /\ h = g[1] /\ y = "tree" /\ z = 2
      OBVIOUS
    <3>2. r = [cell |-> y, root |-> Stale] /\ h = [r EXCEPT !.root = z]
      BY <2>2, <2>8, <3>1 DEF TreeCell
    <3>3. h = [cell |-> y, root |-> z]
      BY <3>2
    <3> QED BY <3>1, <3>3
  <2>11. \A n \in nodes : pos[n] \in Segment(pos, n) /\ Segment(pos, n) \subseteq 2 .. len
    BY <2>2, <2>7, InSegment DEF Geometry
  <2>12. ASSUME NEW n \in nodes PROVE SameBehind(g, memory, pos, n) /\ g[pos[n]] = memory[pos[n]]
    BY <2>8, <2>11 DEF SameBehind
  <2>13. ASSUME NEW n \in nodes PROVE g[pos[n]] = NodeCell(n) /\ FreshList(g, pos[n], n)
    <3>1. memory[pos[n]] = NodeCell(n) /\ FreshList(memory, pos[n], n)
      BY <2>2, FreshIs
    <3>2. FreshList(g, pos[n], n)
      BY <2>2, <2>12, <3>1, SameCells
    <3> QED BY <2>12, <3>1, <3>2
  <2>14. NodeCell(root) = LinkedNode(pos, root)
    BY <2>3 DEF NodeCell, LinkedNode, Raw
  <2>15. ASSUME NEW n \in nodes, NEW s \in Side, child[s][n] = NULL
         PROVE  g[Place(pos, behind, s, n)] = EmptyNode
    <3>1. Place(pos, behind, s, n) \in 2 .. len /\ memory[Place(pos, behind, s, n)] = EmptyNode
      BY <2>2, <2>7, <2>15 DEF Geometry
    <3> QED BY <2>7, <2>8, <3>1
  <2>16. ReadingNext(g, pos, behind, {}, v, root)
    <3>1. \A n \in nodes : Fresh(g, pos[n], n)
      BY <2>13, FreshIs
    <3>2. g[pos[root]] = LinkedNode(pos, root) /\ FreshList(g, pos[root], root)
      BY <2>3, <2>13, <2>14
    <3> QED BY <2>2, <2>9, <2>10, <2>15, <3>1, <3>2 DEF ReadingNext
  <2>17. PICK P, F : P = {root} /\ F = {}
    OBVIOUS
  <2>18. v[root] = {}
    BY <2>3, <2>5
  <2>19. Trav(P, F, v, root)
    BY <1>1, <1>3, <2>17, <2>18, TravStarts
  <2>20. Reading(memory', pos, behind, P \union F, v)
    <3>1. PICK W, X : W = {} /\ X = W \union {root}
      OBVIOUS
    <3>2. /\ ReadingNext(g, pos, behind, W, v, root) /\ W \in SUBSET nodes /\ root \notin W
          /\ freed = {} /\ Layout(pos, behind) /\ root \in nodes
      BY <1>1, <2>2, <2>3, <2>16, <3>1
    <3>3. Reading(memory', pos, behind, X, v)
      BY <1>3, <2>6, <2>18, <3>1, <3>2, NextRead
    <3>4. X = P \union F
      BY <2>17, <3>1
    <3> QED BY <3>3, <3>4
  <2>21. at' = Ahead(pos, behind, v, root)
    <3>1. 2 + Size(root) - 1 <= Len(memory)
      <4>1. Size(root) \in Nat /\ Size(root) >= 3
        BY <2>3, Sizes
      <4>2. 2 + Size(root) - 1 \in Segment(pos, root)
        BY <2>3, <4>1 DEF Segment
      <4> QED BY <2>3, <2>7, <2>11, <4>2
    <3>2. Behind(memory, 2) = 2 + Size(root)
      <4>1. PICK p \in Nat : p = 2
        OBVIOUS
      <4>2. Behind(memory, p) = p + Size(root)
        BY <2>2, <2>3, <3>1, <4>1, FreshCounted
      <4> QED BY <4>1, <4>2
    <3> QED BY <2>3, <2>6, <2>18, <3>2 DEF Ahead
  <2>22. Mapping(pos, behind, P, F, v, root)'
    <3>1. PICK t : t = root
      OBVIOUS
    <3>2. Mapping(pos, behind, P, F, v, t)'
      BY <1>1, <2>2, <2>6, <2>19, <2>20, <2>21, <3>1, MapUnchanged
    <3> QED BY <1>1, <3>1, <3>2
  <2>23. MapInv'
    BY <1>1, <1>3, <2>6, <2>22 DEF MapInv
  <2> QED BY <2>6, <2>23 DEF WriteInv
<1> QED BY <1>2, <1>3

\* The reader enters a node or skips an empty one.
LEMMA MapGoesOn ==
  ASSUME IInv, MapInv, MapChild \/ MapEmpty
  PROVE  WriteInv' /\ MapInv'
<1>1. /\ pc = "map" /\ pc' = "map" /\ freed = {} /\ root # NULL
      /\ UNCHANGED <<nodes, root, child, parent>>
      /\ memory[this].visit # Side
  BY DEF MapChild, MapEmpty, MapInv, IInv, LoopInv, treeVars
<1>2. PICK pos, behind, P, F, v, t : Mapping(pos, behind, P, F, v, t)
  BY <1>1 DEF MapInv
<1>3. PICK W : W = P \union F
  OBVIOUS
<1>4. /\ Layout(pos, behind) /\ Trav(P, F, v, t) /\ Reading(memory, pos, behind, W, v)
      /\ this = pos[t] /\ at = Ahead(pos, behind, v, t)
      /\ t \in nodes /\ t \in P /\ t \in W /\ W \in SUBSET nodes
  BY <1>2, <1>3 DEF Mapping, Trav
<1>5. memory[this] = MappedNode(pos, v, t) /\ memory[this].visit = v[t] /\ v[t] # Side
  BY <1>1, <1>4 DEF Reading, Mapped, MappedNode
<1>6. PICK s, c : s = NextSide(v[t]) /\ c = child[s][t]
  OBVIOUS
<1>7. PICK w : w = Entered(v, t, s, c)
  OBVIOUS
<1>8. /\ s \in Side /\ ((v[t] = {} /\ s = "left") \/ (v[t] = {"left"} /\ s = "right"))
      /\ Place(pos, behind, s, t) = at
  <2>1. /\ s \in Side /\ v[t] # Side
        /\ (v[t] = {} /\ s = "left") \/ (v[t] = {"left"} /\ s = "right")
    BY <1>4, <1>5, <1>6 DEF Trav, NextSide, Side
  <2> QED BY <1>4, <2>1 DEF Place, Ahead, Cur
<1>9. w[t] = v[t] \union {s} /\ Cur(w, t) = s /\ w[t] # {}
  BY <1>4, <1>7, <1>8 DEF Cur, Entered
<1>10. WriteInv'
  BY <1>1 DEF WriteInv
<1>11. CASE c = NULL
  <2>1. memory[at] = EmptyNode /\ EmptyNode.visit = {}
    <3>1. memory[Place(pos, behind, s, t)] = EmptyNode
      BY <1>4, <1>6, <1>8, <1>11 DEF Reading
    <3> QED BY <1>8, <3>1 DEF EmptyNode
  <2>2. /\ memory' = [memory EXCEPT ![this].visit = @ \union {NextSide(@)}]
        /\ at' = at + 1 /\ this' = this
    BY <2>1 DEF MapChild, MapEmpty
  <2>3. w = Entered(v, t, s, NULL) /\ child[s][t] = NULL
    BY <1>6, <1>7, <1>11
  <2>4. Trav(P, F, w, t)
    BY <1>1, <1>4, <1>5, <1>6, <2>3, TravSkip
  <2>5. Reading(memory', pos, behind, W, w)
    <3>1. PICK m, f : m = memory /\ f = memory'
      OBVIOUS
    <3>2. f = [m EXCEPT ![this].visit = @ \union {NextSide(@)}] /\ Reading(m, pos, behind, W, v)
      BY <1>4, <2>2, <3>1
    <3>3. Reading(f, pos, behind, W, w)
      BY <1>1, <1>4, <1>6, <1>8, <2>3, <3>2, EmptySkipped, ZenonT(40)
    <3> QED BY <3>1, <3>3
  <2>6. at' = Ahead(pos, behind, w, t)
    <3>1. behind[s][t] = Place(pos, behind, s, t) + 1
      BY <1>4, <1>8, <2>3 DEF Layout
    <3> QED BY <1>8, <1>9, <2>2, <3>1 DEF Ahead
  <2>7. Mapping(pos, behind, P, F, w, t)'
    BY <1>1, <1>3, <1>4, <2>2, <2>4, <2>5, <2>6, MapUnchanged
  <2> QED BY <1>1, <1>10, <2>7 DEF MapInv
<1>12. CASE c # NULL
  <2>1. c \in nodes /\ c \notin W
    BY <1>1, <1>3, <1>4, <1>5, <1>6, <1>12, NextIsNew
  <2>2. pos[c] = at
    BY <1>4, <1>6, <1>8, <1>12 DEF Layout
  <2>3. memory[at] = NodeCell(c) /\ FreshList(memory, at, c) /\ memory[at].visit = Side
    <3>1. Fresh(memory, pos[c], c)
      BY <1>4, <2>1 DEF Reading
    <3>2. memory[at] = NodeCell(c) /\ FreshList(memory, at, c)
      BY <2>2, <3>1, FreshIs
    <3>3. NodeCell(c).visit = Side
      BY DEF NodeCell
    <3> QED BY <3>2, <3>3
  <2>4. /\ memory' = ReadNode(Linked(memory, s), at)
        /\ at' = Behind(memory, at) /\ this' = at
    <3>1. Side # {}
      BY DEF Side
    <3> QED BY <1>5, <1>6, <2>3, <3>1 DEF MapChild, MapEmpty
  <2>5. PICK g, f, Q, X : /\ g = Linked(memory, s) /\ f = memory'
                          /\ Q = P \union {c} /\ X = W \union {c}
    OBVIOUS
  <2>6. w[c] = {} /\ c # t
    BY <1>4, <1>7, <2>1 DEF Entered
  <2>7. ReadingNext(g, pos, behind, W, w, c)
    <3>1. PICK m : m = memory
      OBVIOUS
    <3>2. Reading(m, pos, behind, W, v) /\ g = Linked(m, s)
      BY <1>4, <2>5, <3>1
    <3> QED BY <1>1, <1>4, <1>6, <1>7, <1>8, <2>1, <2>2, <3>2, ChildLinked
  <2>8. Reading(f, pos, behind, X, w)
    <3>1. f = ReadNode(g, pos[c])
      BY <2>2, <2>4, <2>5
    <3> QED BY <1>1, <1>4, <2>1, <2>5, <2>6, <2>7, <3>1, NextRead
  <2>9. Trav(Q, F, w, c)
    BY <1>1, <1>4, <1>5, <1>6, <1>7, <1>12, <2>5, TravDown
  <2>10. at' = Ahead(pos, behind, w, c)
    <3>1. /\ IsSeq(memory) /\ Geometry(Len(memory), pos, behind)
          /\ pos[c] \in Nat /\ Size(c) \in Nat /\ Size(c) >= 3
      BY <1>4, <2>1, Sizes DEF Reading, Layout
    <3>2. pos[c] + Size(c) - 1 <= Len(memory)
      <4>1. pos[c] + Size(c) - 1 \in Segment(pos, c) /\ Segment(pos, c) \subseteq 2 .. Len(memory)
        BY <2>1, <3>1 DEF Segment, Geometry
      <4>2. Len(memory) \in Nat
        BY <3>1, SeqIs
      <4> QED BY <4>1, <4>2
    <3>3. Behind(memory, at) = pos[c] + Size(c)
      <4>1. PICK p \in Nat : p = at
        BY <2>2, <3>1
      <4>2. IsSeq(memory) /\ p + Size(c) - 1 <= Len(memory) /\ FreshList(memory, p, c)
        BY <2>2, <2>3, <3>1, <3>2, <4>1
      <4>3. Behind(memory, p) = p + Size(c)
        BY <2>1, <4>2, FreshCounted
      <4> QED BY <2>2, <4>1, <4>3
    <3> QED BY <2>4, <2>6, <3>3 DEF Ahead
  <2>11. Reading(memory', pos, behind, Q \union F, w)
    <3>1. X = Q \union F
      BY <1>3, <2>5
    <3> QED BY <2>5, <2>8, <3>1
  <2>12. Mapping(pos, behind, Q, F, w, c)'
    BY <1>1, <1>4, <2>2, <2>4, <2>9, <2>10, <2>11, MapUnchanged
  <2> QED BY <1>1, <1>10, <2>12 DEF MapInv
<1> QED BY <1>11, <1>12

\* The reader goes up, and ends above the root.
LEMMA MapGoesUp ==
  ASSUME IInv, MapInv, MapUp
  PROVE  WriteInv' /\ MapInv'
<1>1. /\ pc = "map" /\ freed = {} /\ root # NULL
      /\ UNCHANGED <<nodes, root, child, parent, memory, at>>
      /\ memory[this].visit = Side /\ this' = memory[this].parent
      /\ pc' = IF this' = NULL THEN "done" ELSE pc
  BY DEF MapUp, MapInv, IInv, LoopInv, treeVars
<1>2. PICK pos, behind, P, F, v, t : Mapping(pos, behind, P, F, v, t)
  BY <1>1 DEF MapInv
<1>3. PICK W : W = P \union F
  OBVIOUS
<1>4. /\ Layout(pos, behind) /\ Trav(P, F, v, t) /\ Reading(memory, pos, behind, W, v)
      /\ this = pos[t] /\ at = Ahead(pos, behind, v, t)
      /\ t \in nodes /\ t \in P /\ t \in W /\ W \in SUBSET nodes
  BY <1>2, <1>3 DEF Mapping, Trav
<1>5. memory[this] = MappedNode(pos, v, t)
  BY <1>4 DEF Reading, Mapped
<1>6. v[t] = Side /\ this' = IF t = root THEN NULL ELSE pos[parent[t]]
  BY <1>1, <1>5 DEF MappedNode
<1>7. Ahead(pos, behind, v, t) = behind["right"][t]
  BY <1>6 DEF Ahead, Cur, Side
<1>8. CASE t = root
  <2>1. W = nodes /\ \A n \in nodes : v[n] = Side
    <3>1. P = {root} /\ F \union {root} = nodes /\ \A n \in nodes : v[n] = Side
      BY <1>1, <1>4, <1>6, <1>8, TravEnds
    <3> QED BY <1>3, <3>1
  <2>2. pc' = "done"
    BY <1>1, <1>6, <1>8
  <2>3. PICK w : w = [n \in nodes |-> Side]
    OBVIOUS
  <2>4. Reading(memory, pos, behind, nodes, w)
    <3>1. ASSUME NEW n \in nodes PROVE Mapped(memory, pos, w, n)
      <4>1. Mapped(memory, pos, v, n) /\ v[n] = Side /\ w[n] = Side
        BY <1>4, <2>1, <2>3 DEF Reading
      <4> QED BY <4>1 DEF Mapped, MappedNode, Link
    <3> QED BY <1>4, <2>1, <3>1 DEF Reading
  <2>5. at = Len(memory) + 1 /\ at # 0
    <3>1. Len(memory) \in Nat /\ Len(memory) + 1 = behind["right"][root]
      BY <1>4, SeqIs DEF Reading
    <3> QED BY <1>4, <1>7, <1>8, <3>1
  <2>6. Restored(pos, behind)'
    <3>1. Layout(pos, behind)'
      BY <1>1, <1>4 DEF Layout, Place, Size
    <3>2. Reading(memory, pos, behind, nodes, [n \in nodes |-> Side])'
      BY <1>1, <2>3, <2>4, ReadingStays
    <3> QED BY <1>1, <2>5, <3>1, <3>2 DEF Restored
  <2> QED BY <1>1, <2>2, <2>5, <2>6 DEF WriteInv, MapInv
<1>9. CASE t # root
  <2>1. PICK p, Q, G : p = parent[t] /\ Q = P \ {t} /\ G = F \union {t}
    OBVIOUS
  <2>2. /\ p \in P /\ v[p] # {} /\ Cur(v, p) = SideOf(t) /\ child[SideOf(t)][p] = t
        /\ Trav(Q, G, v, p)
    <3>1. freed = {} /\ root # NULL /\ Trav(P, F, v, t) /\ v[t] = Side
      BY <1>1, <1>4, <1>6
    <3> QED BY <1>9, <2>1, <3>1, TravUp
  <2>3. p \in nodes /\ SideOf(t) \in Side /\ t # NULL
    BY <1>1, <1>4, <1>9, <2>1, Tree
  <2>4. behind[SideOf(t)][p] = behind["right"][t]
    BY <1>4, <2>2, <2>3 DEF Layout
  <2>5. at' = Ahead(pos, behind, v, p)
    BY <1>1, <1>4, <1>7, <2>2, <2>4 DEF Ahead
  <2>6. Q \union G = P \union F
    BY <1>4, <2>1
  <2>7. Reading(memory', pos, behind, Q \union G, v)
    BY <1>1, <1>3, <1>4, <2>6
  <2>8. this' = pos[p]
    BY <1>6, <1>9, <2>1
  <2>9. pc' = "map"
    <3>1. pos[p] \in Nat
      BY <1>4, <2>3 DEF Layout
    <3> QED BY <1>1, <2>8, <3>1, KeyAssumption
  <2>10. Mapping(pos, behind, Q, G, v, p)'
    BY <1>1, <1>4, <2>2, <2>5, <2>7, <2>8, MapUnchanged
  <2> QED BY <1>1, <2>9, <2>10 DEF WriteInv, MapInv
<1> QED BY <1>8, <1>9

\* Nothing happens.
LEMMA Stutters ==
  ASSUME WriteInv, MapInv, UNCHANGED vars
  PROVE  WriteInv' /\ MapInv'
<1>1. UNCHANGED <<nodes, root, child, parent, visit, pc, this, memory, at>>
  BY DEF vars
<1>2. ASSUME NEW pos, NEW behind, Layout(pos, behind) PROVE Layout(pos, behind)'
  BY <1>1, <1>2 DEF Layout, Place, Size
<1>3. ASSUME NEW pos, NEW behind, NEW W, NEW v, Content(memory, pos, behind, W, v)
      PROVE  Content(memory, pos, behind, W, v)'
  <2>1. (IsSeq(memory) /\ Len(memory) >= 1 /\ memory[1] = TreeCell)'
    <3>1. IsSeq(memory) /\ Len(memory) >= 1 /\ memory[1] = TreeCell
      BY <1>3 DEF Content
    <3>2. IsSeq(memory)'
      BY <1>1, <3>1 DEF IsSeq
    <3> QED BY <1>1, <3>1, <3>2 DEF TreeCell
  <2>2. (\A n \in W : Segment(pos, n) \subseteq 2 .. Len(memory) /\ Fresh(memory, pos[n], n))'
    <3>1. ASSUME NEW n \in W PROVE (Segment(pos, n) \subseteq 2 .. Len(memory))'
      <4>1. Segment(pos, n) \subseteq 2 .. Len(memory)
        BY <1>3 DEF Content
      <4> QED BY <1>1, <4>1 DEF Segment, Size
    <3>2. ASSUME NEW n \in W PROVE Fresh(memory, pos[n], n)'
      <4>1. Fresh(memory, pos[n], n)
        BY <1>3 DEF Content
      <4> QED BY <1>1, <4>1 DEF Fresh, NodeCell, Raw, KeyCell, WrittenHead, WrittenItem
    <3> QED BY <3>1, <3>2
  <2>3. (\A n \in W, s \in Side :
           s \in v[n] /\ child[s][n] = NULL =>
             /\ Place(pos, behind, s, n) \in 2 .. Len(memory)
             /\ memory[Place(pos, behind, s, n)] = EmptyNode)'
    BY <1>1, <1>3 DEF Content, Place, Size, EmptyNode
  <2>4. (\A i \in 2 .. Len(memory) :
           \/ \E n \in W : i \in Segment(pos, n)
           \/ \E n \in W, s \in Side :
                s \in v[n] /\ child[s][n] = NULL /\ i = Place(pos, behind, s, n))'
    BY <1>1, <1>3 DEF Content, Segment, Size, Place
  <2> QED BY <2>1, <2>2, <2>3, <2>4 DEF Content
<1>4. ASSUME NEW pos, NEW behind, NEW P, NEW F, Writing(pos, behind, P, F)
      PROVE  Writing(pos, behind, P, F)'
  <2>1. Layout(pos, behind)'
    BY <1>2, <1>4 DEF Writing
  <2>2. Trav(P, F, visit, this)'
    BY <1>1, <1>4 DEF Writing, Trav, Cur
  <2>3. Content(memory, pos, behind, P \union F, visit)'
    <3>1. PICK W, v : W = P \union F /\ v = visit
      OBVIOUS
    <3>2. Content(memory, pos, behind, W, v)'
      BY <1>3, <1>4, <3>1 DEF Writing
    <3> QED BY <1>1, <3>1, <3>2
  <2>4. (Len(memory) + 1 = Ahead(pos, behind, visit, this))'
    BY <1>1, <1>4 DEF Writing, Ahead, Cur, Size
  <2> QED BY <2>1, <2>2, <2>3, <2>4 DEF Writing
<1>5. ASSUME NEW pos, NEW behind, Whole(pos, behind) PROVE Whole(pos, behind)'
  <2>1. PICK v : v = [n \in nodes |-> Side]
    OBVIOUS
  <2>2. Layout(pos, behind)'
    BY <1>2, <1>5 DEF Whole
  <2>3. Content(memory, pos, behind, nodes, v)'
    <3>1. PICK W : W = nodes
      OBVIOUS
    <3>2. Content(memory, pos, behind, W, v)'
      BY <1>3, <1>5, <2>1, <3>1 DEF Whole
    <3> QED BY <1>1, <3>1, <3>2
  <2> QED BY <1>1, <1>5, <2>1, <2>2, <2>3 DEF Whole
<1>6. WriteInv'
  <2>1. pc = "write" => (\E pos, behind, P, F : Writing(pos, behind, P, F))'
    BY <1>4 DEF WriteInv
  <2>2. pc = "done" /\ memory # <<>> /\ at = 0 /\ root # NULL =>
          (\E pos, behind : Whole(pos, behind))'
    BY <1>5 DEF WriteInv
  <2> QED BY <1>1, <2>1, <2>2 DEF WriteInv, IsSeq, TreeCell, EmptyNode
<1>7. pc = "map" =>
        (root # NULL /\ \E pos, behind, P, F, v, t : Mapping(pos, behind, P, F, v, t))'
  <2>1. SUFFICES ASSUME pc = "map"
                 PROVE  (root # NULL
                          /\ \E pos, behind, P, F, v, t : Mapping(pos, behind, P, F, v, t))'
    OBVIOUS
  <2>2. PICK pos, behind, P, F, v, t : Mapping(pos, behind, P, F, v, t)
    BY <2>1 DEF MapInv
  <2>3. Mapping(pos, behind, P, F, v, t)'
    BY <1>1, <2>2, MapUnchanged DEF Mapping
  <2> QED BY <1>1, <2>1, <2>3 DEF MapInv
<1>8. ASSUME NEW pos, NEW behind, Restored(pos, behind) PROVE Restored(pos, behind)'
  BY <1>1, <1>2, <1>8, ReadingStays DEF Restored
<1>9. MapInv'
  <2>1. pc = "done" /\ at # 0 /\ root # NULL => (\E pos, behind : Restored(pos, behind))'
    BY <1>8 DEF MapInv
  <2> QED BY <1>1, <1>7, <2>1 DEF MapInv, IsSeq, EmptyNode
<1> QED BY <1>6, <1>9

\* Every step keeps what the writer and the reader know.
LEMMA NextMapped ==
  ASSUME IInv, WriteInv, MapInv, [Next]_vars
  PROVE  WriteInv' /\ MapInv'
<1>1. CASE BeginWalk \/ BeginDestroy \/ Walk \/ DestroyDown \/ DestroyLeaf
  <2>1. /\ pc \in {"idle", "walk", "destroy"} /\ pc' \in {"walk", "destroy", "done"}
        /\ memory' = memory /\ at' = at
    BY <1>1 DEF BeginWalk, BeginDestroy, Begin, Walk, Enter, Up, DestroyDown, DestroyLeaf
  <2>2. memory = <<>> /\ at = 0
    BY <2>1 DEF IInv, LoopInv, WriteInv
  <2> QED BY <2>1, <2>2 DEF WriteInv, MapInv
<1>2. CASE BeginWrite
  <2>1. pc' \in {"write", "done"} /\ at' = 0
    BY <1>2 DEF BeginWrite, Begin, WriteInv
  <2> QED BY <1>2, <2>1, WriteStarts DEF MapInv
<1>3. CASE Write
  <2>1. pc' \in {"write", "done"} /\ at' = 0
    BY <1>3 DEF Write, Up, WriteInv
  <2> QED BY <1>3, <2>1, WriteGoesOn DEF MapInv
<1>4. CASE BeginMap
  BY <1>4, MapStarts
<1>5. CASE MapChild \/ MapEmpty
  BY <1>5, MapGoesOn
<1>6. CASE MapUp
  BY <1>6, MapGoesUp
<1>7. CASE UNCHANGED vars
  BY <1>7, Stutters
<1> QED BY <1>1, <1>2, <1>3, <1>4, <1>5, <1>6, <1>7 DEF Next, Loop

\* The inductive invariant of the writer and the reader.
LEMMA MappedInvariant == Spec => [](IInv /\ WriteInv /\ MapInv)
<1>1. Init => WriteInv /\ MapInv
  BY DEF Init, WriteInv, MapInv
<1>2. IInv /\ WriteInv /\ MapInv /\ [Next]_vars => WriteInv' /\ MapInv'
  BY NextMapped
<1> QED BY <1>1, <1>2, Invariant, PTL DEF Spec

-----------------------------------------------------------------------------
(* The theorem *)

\* What has been read is the map: the lists.
LEMMA ListRestored ==
  ASSUME IInv, NEW n \in nodes, NEW p \in Nat, IsSeq(memory), p + Size(n) - 1 <= Len(memory),
         MappedList(memory, p, n)
  PROVE  NamesAt(p + 2) = AppsOf[n]
<1>1. PICK k \in Nat : k = Len(AppsOf[n])
  BY Sizes
<1>2. memory[p + 2] = MappedHead(p, n) /\ \A j \in 1 .. k : memory[p + 2 + j] = MappedItem(p, n, j)
  BY <1>1 DEF MappedList
<1>3. /\ memory[p + 2].head = (IF k = 0 THEN NULL ELSE p + 3)
      /\ memory[p + 2].tail = (IF k = 0 THEN NULL ELSE p + 2 + k)
  BY <1>1, <1>2 DEF MappedHead
<1>4. ASSUME NEW j \in 1 .. k
      PROVE  /\ memory[p + 2 + j].list = p + 2
             /\ memory[p + 2 + j].prev = (IF j = 1 THEN NULL ELSE p + 1 + j)
             /\ memory[p + 2 + j].next = (IF j = k THEN NULL ELSE p + 3 + j)
             /\ memory[p + 2 + j].name = AppsOf[n][j]
             /\ memory[p + 2 + j].app = IF AppsOf[n][j] \in Known THEN AppsOf[n][j] ELSE NULL
  <2>1. memory[p + 2 + j] = MappedItem(p, n, j)
    BY <1>2
  <2> QED BY <1>1, <2>1 DEF MappedItem
<1>5. ItemCount(memory, p + 2) = k
  <2>1. memory[p + 2].head = NULL <=> Len(AppsOf[n]) = 0
    BY <1>1, <1>3, KeyAssumption
  <2>2. ASSUME NEW j \in 1 .. Len(AppsOf[n])
        PROVE  memory[p + 2 + j].next = NULL <=> j = Len(AppsOf[n])
    <3>1. j \in Int /\ p + 3 + j \in Int
      BY <1>1
    <3> QED BY <1>1, <1>4, <3>1, KeyAssumption
  <2>3. PICK m : m = memory
    OBVIOUS
  <2>4. /\ IsSeq(m) /\ p + Size(n) - 1 <= Len(m) /\ (m[p + 2].head = NULL <=> Len(AppsOf[n]) = 0)
        /\ \A j \in 1 .. Len(AppsOf[n]) : m[p + 2 + j].next = NULL <=> j = Len(AppsOf[n])
    BY <2>1, <2>2, <2>3
  <2> QED BY <1>1, <2>3, <2>4, Counted
<1>6. PICK l \in Nat : l = p + 2
  OBVIOUS
<1>7. /\ memory[l].head = (IF k = 0 THEN NULL ELSE l + 1)
      /\ memory[l].tail = (IF k = 0 THEN NULL ELSE l + k)
  BY <1>3, <1>6
<1>8. ASSUME NEW j \in 1 .. k
      PROVE  /\ memory[l + j].list = l
             /\ memory[l + j].prev = (IF j = 1 THEN NULL ELSE l + j - 1)
             /\ memory[l + j].next = (IF j = k THEN NULL ELSE l + j + 1)
             /\ memory[l + j].name = AppsOf[n][j]
             /\ memory[l + j].app = IF memory[l + j].name \in Known
                                    THEN memory[l + j].name ELSE NULL
  <2>1. l + j = p + 2 + j /\ l + j - 1 = p + 1 + j /\ l + j + 1 = p + 3 + j
    BY <1>6
  <2> QED BY <1>4, <1>6, <2>1
<1>9. PICK items : items = [j \in 1 .. k |-> memory[l + j]]
  OBVIOUS
<1>10. /\ memory[l].head = (IF k = 0 THEN NULL ELSE l + 1)
       /\ memory[l].tail = (IF k = 0 THEN NULL ELSE l + k)
       /\ \A j \in 1 .. k :
            /\ items[j].list = l
            /\ items[j].prev = IF j = 1 THEN NULL ELSE l + j - 1
            /\ items[j].next = IF j = k THEN NULL ELSE l + j + 1
            /\ items[j].app = IF items[j].name \in Known THEN items[j].name ELSE NULL
  BY <1>7, <1>8, <1>9
<1>11. NamesAt(l) = [j \in 1 .. k |-> items[j].name]
  BY <1>5, <1>6, <1>9, <1>10, ZenonT(40) DEF NamesAt
<1>12. [j \in 1 .. k |-> items[j].name] = [j \in 1 .. k |-> AppsOf[n][j]]
  BY <1>8, <1>9
<1>13. AppsOf[n] = [j \in 1 .. k |-> AppsOf[n][j]]
  BY <1>1, Apps
<1> QED BY <1>6, <1>11, <1>12, <1>13

\* What has been read is the map: the nodes.
LEMMA NodesRestored ==
  ASSUME IInv, freed = {}, root # NULL, NEW pos, NEW behind, Restored(pos, behind),
         NEW cells, cells = {i \in DOMAIN memory : memory[i].cell = "node" /\ memory[i].key # NULL}
  PROVE  /\ cells = {pos[n] : n \in nodes}
         /\ \A n \in nodes : pos[n] \in Nat /\ memory[memory[pos[n]].key].name = n
         /\ \A m, n \in nodes : pos[m] = pos[n] => m = n
<1>1. PICK v : v = [n \in nodes |-> Side]
  OBVIOUS
<1>2. /\ Layout(pos, behind) /\ Reading(memory, pos, behind, nodes, v)
      /\ Geometry(Len(memory), pos, behind) /\ IsSeq(memory)
  BY <1>1 DEF Restored, Reading
<1>3. PICK len \in Nat : len = Len(memory) /\ DOMAIN memory = 1 .. len
  BY <1>2, SeqIs
<1>4. \A n \in nodes : /\ pos[n] \in Nat /\ pos[n] \in 2 .. len
                       /\ pos[n] \in Segment(pos, n) /\ Segment(pos, n) \subseteq 2 .. len
  <2> TAKE n \in nodes
  <2>1. pos[n] \in Nat
    BY <1>2 DEF Layout
  <2>2. Segment(pos, n) \subseteq 2 .. len
    BY <1>2, <1>3 DEF Geometry
  <2>3. pos[n] \in Segment(pos, n)
    BY <1>2, InSegment
  <2> QED BY <2>1, <2>2, <2>3
<1>5. ASSUME NEW n \in nodes
      PROVE  /\ memory[pos[n]].cell = "node" /\ memory[pos[n]].key = pos[n] + 1
             /\ memory[pos[n]].key # NULL
             /\ memory[pos[n] + 1].cell = "key" /\ memory[pos[n] + 1].name = n
             /\ memory[pos[n] + 2].cell = "list"
             /\ \A j \in 1 .. Len(AppsOf[n]) : memory[pos[n] + 2 + j].cell = "item"
  <2>1. /\ memory[pos[n]] = MappedNode(pos, v, n) /\ memory[pos[n] + 1] = KeyCell(n)
        /\ memory[pos[n] + 2] = MappedHead(pos[n], n)
        /\ \A j \in 1 .. Len(AppsOf[n]) : memory[pos[n] + 2 + j] = MappedItem(pos[n], n, j)
    BY <1>2 DEF Reading, Mapped, MappedList
  <2>2. /\ MappedNode(pos, v, n).cell = "node" /\ MappedNode(pos, v, n).key = pos[n] + 1
        /\ KeyCell(n).cell = "key" /\ KeyCell(n).name = n /\ MappedHead(pos[n], n).cell = "list"
        /\ \A j \in 1 .. Len(AppsOf[n]) : MappedItem(pos[n], n, j).cell = "item"
    BY DEF MappedNode, KeyCell, MappedHead, MappedItem
  <2>3. pos[n] + 1 # NULL
    BY <1>4, KeyAssumption
  <2> QED BY <2>1, <2>2, <2>3
<1>6. ASSUME NEW i \in DOMAIN memory, memory[i].cell = "node", memory[i].key # NULL
      PROVE  \E n \in nodes : i = pos[n]
  <2>1. i # 1
    BY <1>2, <1>6 DEF Reading
  <2>2. i \in 2 .. len
    BY <1>3, <2>1
  <2>3. CASE \E n \in nodes : i \in Segment(pos, n)
    <3>1. PICK n \in nodes : i \in Segment(pos, n)
      BY <2>3
    <3>2. \/ i \in {pos[n], pos[n] + 1, pos[n] + 2}
          \/ \E j \in 1 .. Len(AppsOf[n]) : i = pos[n] + 2 + j
      BY <1>2, <3>1, SegmentCases
    <3> QED BY <1>5, <1>6, <3>2
  <2>4. CASE \E n \in nodes, s \in Side : child[s][n] = NULL /\ i = Place(pos, behind, s, n)
    <3>1. memory[i] = EmptyNode
      BY <1>2, <2>4 DEF Reading
    <3> QED BY <1>6, <3>1 DEF EmptyNode
  <2> QED BY <1>2, <1>3, <2>2, <2>3, <2>4 DEF Geometry
<1>7. \A n \in nodes : pos[n] \in cells
  <2>1. \A n \in nodes : pos[n] \in DOMAIN memory
    BY <1>3, <1>4
  <2> QED BY <1>5, <2>1
<1>8. cells = {pos[n] : n \in nodes}
  BY <1>6, <1>7
<1>9. ASSUME NEW m \in nodes, NEW n \in nodes, pos[m] = pos[n]
      PROVE  m = n
  BY <1>2, <1>4, <1>9 DEF Geometry
<1> QED BY <1>4, <1>5, <1>8, <1>9

\* As many as there are nodes.
LEMMA SameSize ==
  ASSUME NEW S, IsFiniteSet(S), NEW f, NEW T, T = {f[n] : n \in S},
         \A m, n \in S : f[m] = f[n] => m = n
  PROVE  Cardinality(T) = Cardinality(S)
<1>1. PICK g : g = [n \in S |-> f[n]]
  OBVIOUS
<1>2. g \in Bijection(S, T)
  BY <1>1 DEF Bijection, Injection, IsInjective, Surjection
<1>3. ExistsBijection(S, T)
  BY <1>2 DEF ExistsBijection
<1> QED BY <1>3, FS_Bijection

\* MappedIsWritten at the end, of the cells and the keys in them.
NameIn(keyAt, p) == IF p = NULL THEN NULL ELSE keyAt[p]

SameMap(cells, keyAt) ==
  /\ at = Len(memory) + 1
  /\ Cardinality(cells) = Cardinality(nodes)
  /\ nodes = {keyAt[i] : i \in cells}
  /\ NameIn(keyAt, memory[1].root) = root
  /\ \A i \in cells :
       /\ NameIn(keyAt, memory[i].parent) = parent[keyAt[i]]
       /\ NameIn(keyAt, memory[i].left) = child["left"][keyAt[i]]
       /\ NameIn(keyAt, memory[i].right) = child["right"][keyAt[i]]
       /\ NamesAt(memory[i].value) = AppsOf[keyAt[i]]

\* The property, from its parts.
LEMMA MapsAre ==
  ASSUME NEW cells, cells = {i \in DOMAIN memory : memory[i].cell = "node" /\ memory[i].key # NULL},
         NEW keyAt, keyAt = [i \in cells |-> memory[memory[i].key].name],
         SameMap(cells, keyAt)
  PROVE  MappedIsWritten
<1> DEFINE c == {i \in DOMAIN memory : memory[i].cell = "node" /\ memory[i].key # NULL}
           k == [i \in c |-> memory[memory[i].key].name]
<1>1. SameMap(c, k)
  OBVIOUS
<1>2. SUFFICES ASSUME pc = "done", at # 0 PROVE MappedIsWritten
  BY DEF MappedIsWritten
<1> QED BY <1>1, Zenon DEF SameMap, NameIn, MappedIsWritten

\* map_from_memory, which has no stack and knows the file only by the order of its
\* cells, restores every map that write_to_file has written: the keys, the shape of the
\* tree, the lists with all of their pointers, and the end of the file.
THEOREM MappingRestores == Spec => []MappedIsWritten
<1>1. ASSUME IInv, MapInv, pc = "done", at # 0
      PROVE  MappedIsWritten
  <2>1. PICK cells : cells = {i \in DOMAIN memory : memory[i].cell = "node" /\ memory[i].key # NULL}
    OBVIOUS
  <2>2. PICK keyAt : keyAt = [i \in cells |-> memory[memory[i].key].name]
    OBVIOUS
  <2>3. SUFFICES SameMap(cells, keyAt)
    BY <2>1, <2>2, MapsAre
  <2>4. CASE root = NULL
    <3>1. /\ IsSeq(memory) /\ Len(memory) = 2 /\ at = 3
          /\ memory[1] = [cell |-> "tree", root |-> NULL] /\ memory[2] = EmptyNode
      BY <1>1, <2>4 DEF MapInv
    <3>2. DOMAIN memory = 1 .. 2
      BY <3>1, SeqIs
    <3>3. cells = {}
      BY <2>1, <3>1, <3>2 DEF EmptyNode
    <3>4. nodes = {}
      <4>1. memory # <<>>
        <5>1. <<>> \in Seq({}) /\ Len(<<>>) = 0
          BY EmptySeq
        <5> QED BY <3>1, <5>1
      <4>2. freed = {} /\ freed = nodes
        BY <1>1, <2>4, <4>1 DEF IInv, LoopInv, TreeInv
      <4> QED BY <4>2
    <3>5. NameIn(keyAt, memory[1].root) = root
      BY <2>4, <3>1 DEF NameIn
    <3>6. at = Len(memory) + 1
      BY <3>1
    <3>7. nodes = {keyAt[i] : i \in cells}
      BY <3>3, <3>4
    <3> QED BY <3>3, <3>4, <3>5, <3>6, <3>7 DEF SameMap
  <2>5. CASE root # NULL
    <3>1. \E pos, behind : Restored(pos, behind)
      <4>1. pc = "done" /\ at # 0 /\ root # NULL => \E pos, behind : Restored(pos, behind)
        BY <1>1 DEF MapInv
      <4> QED BY <1>1, <2>5, <4>1
    <3>2. PICK pos, behind : Restored(pos, behind)
      BY <3>1
    <3> DEFINE v == [n \in nodes |-> Side]
    <3>3. /\ Layout(pos, behind) /\ Reading(memory, pos, behind, nodes, v)
          /\ Geometry(Len(memory), pos, behind) /\ IsSeq(memory)
          /\ at = Len(memory) + 1
      BY <3>2 DEF Restored, Reading
    <3>4. \A n \in nodes : v[n] = Side
      OBVIOUS
    <3> HIDE DEF v
    <3>5. freed = {}
      <4>1. memory # <<>>
        <5>1. <<>> \in Seq({}) /\ Len(<<>>) = 0
          BY EmptySeq
        <5>2. Len(memory) >= 2
          <6>1. root \in nodes
            BY <1>1, <2>5 DEF IInv, TreeTypes, Node
          <6>2. pos[root] \in 2 .. Len(memory) /\ Len(memory) \in Nat
            BY <1>1, <3>3, <6>1, InSegment, SeqIs DEF Geometry
          <6> QED BY <6>2
        <5> QED BY <5>1, <5>2
      <4> QED BY <1>1, <4>1 DEF IInv, LoopInv
    <3>6. /\ cells = {pos[n] : n \in nodes}
          /\ \A n \in nodes : pos[n] \in Nat /\ memory[memory[pos[n]].key].name = n
          /\ \A m, n \in nodes : pos[m] = pos[n] => m = n
      <4>1. cells = {pos[n] : n \in nodes}
        BY <1>1, <2>1, <2>5, <3>2, <3>5, NodesRestored
      <4>2. \A n \in nodes : pos[n] \in Nat /\ memory[memory[pos[n]].key].name = n
        BY <1>1, <2>1, <2>5, <3>2, <3>5, NodesRestored
      <4>3. \A m, n \in nodes : pos[m] = pos[n] => m = n
        BY <1>1, <2>1, <2>5, <3>2, <3>5, NodesRestored
      <4> QED BY <4>1, <4>2, <4>3
    <3>7. \A n \in nodes : pos[n] \in cells /\ keyAt[pos[n]] = n
      BY <2>2, <3>6
    <3>8. \A n \in nodes : NameIn(keyAt, pos[n]) = n
      BY <3>6, <3>7, KeyAssumption DEF NameIn
    <3>9. Cardinality(cells) = Cardinality(nodes)
      <4>1. IsFiniteSet(nodes)
        BY <1>1, KeyAssumption, FS_Subset DEF IInv, TreeTypes
      <4> QED BY <3>6, <4>1, SameSize
    <3>10. nodes = {keyAt[i] : i \in cells}
      BY <3>6, <3>7
    <3>11. NameIn(keyAt, memory[1].root) = root
      <4>1. root \in nodes /\ pos[root] = 2 /\ memory[1].root = 2
        BY <1>1, <2>5, <3>3 DEF IInv, TreeTypes, Node, Reading, Layout
      <4> QED BY <3>8, <4>1
    <3>12. ASSUME NEW n \in nodes
           PROVE  /\ NameIn(keyAt, memory[pos[n]].parent) = parent[n]
                  /\ NameIn(keyAt, memory[pos[n]].left) = child["left"][n]
                  /\ NameIn(keyAt, memory[pos[n]].right) = child["right"][n]
                  /\ NamesAt(memory[pos[n]].value) = AppsOf[n]
      <4>1. memory[pos[n]] = MappedNode(pos, v, n) /\ MappedList(memory, pos[n], n) /\ v[n] = Side
        BY <3>3, <3>4 DEF Reading, Mapped
      <4>2. /\ memory[pos[n]].parent = (IF n = root THEN NULL ELSE pos[parent[n]])
            /\ memory[pos[n]].left = Link(pos, v, "left", n)
            /\ memory[pos[n]].right = Link(pos, v, "right", n)
            /\ memory[pos[n]].value = pos[n] + 2
        BY <4>1 DEF MappedNode
      <4>3. NameIn(keyAt, memory[pos[n]].parent) = parent[n]
        <5>1. parent[n] = NULL <=> n = root
          BY <1>1, <2>5, <3>5, Tree
        <5>2. n # root => parent[n] \in nodes
          BY <1>1, <2>5, <3>5, Tree
        <5> QED BY <3>8, <4>2, <5>1, <5>2 DEF NameIn
      <4>4. ASSUME NEW s \in Side PROVE NameIn(keyAt, Link(pos, v, s, n)) = child[s][n]
        <5>1. child[s][n] # NULL => child[s][n] \in nodes
          BY <1>1, <2>5, <3>5, Tree
        <5>2. Link(pos, v, s, n) = IF child[s][n] = NULL THEN NULL ELSE pos[child[s][n]]
          BY <4>1 DEF Link
        <5> QED BY <3>8, <5>1, <5>2 DEF NameIn
      <4>5. NamesAt(pos[n] + 2) = AppsOf[n]
        <5>1. PICK p \in Nat : p = pos[n]
          BY <3>6
        <5>2. p + Size(n) - 1 <= Len(memory)
          <6>1. Size(n) \in Nat /\ Size(n) >= 3 /\ Len(memory) \in Nat
            BY <1>1, <3>3, Sizes, SeqIs
          <6>2. p + Size(n) - 1 \in Segment(pos, n) /\ Segment(pos, n) \subseteq 2 .. Len(memory)
            BY <3>3, <5>1, <6>1 DEF Segment, Geometry
          <6> QED BY <6>1, <6>2
        <5>3. NamesAt(p + 2) = AppsOf[n]
          BY <1>1, <3>3, <4>1, <5>1, <5>2, ListRestored
        <5> QED BY <5>1, <5>3
      <4>6. "left" \in Side /\ "right" \in Side
        BY DEF Side
      <4> QED BY <4>2, <4>3, <4>4, <4>5, <4>6
    <3>13. \A i \in cells :
             /\ NameIn(keyAt, memory[i].parent) = parent[keyAt[i]]
             /\ NameIn(keyAt, memory[i].left) = child["left"][keyAt[i]]
             /\ NameIn(keyAt, memory[i].right) = child["right"][keyAt[i]]
             /\ NamesAt(memory[i].value) = AppsOf[keyAt[i]]
      <4> TAKE i \in cells
      <4>1. PICK n \in nodes : i = pos[n]
        BY <3>6
      <4>2. keyAt[i] = n
        BY <3>7, <4>1
      <4> QED BY <3>12, <4>1, <4>2
    <3> QED BY <3>3, <3>9, <3>10, <3>11, <3>13 DEF SameMap
  <2> QED BY <2>4, <2>5
<1>2. IInv /\ MapInv => MappedIsWritten
  <2>1. (pc = "done" /\ at # 0) \/ MappedIsWritten
    BY DEF MappedIsWritten
  <2> QED BY <1>1, <2>1
<1> QED BY <1>2, MappedInvariant, PTL

=============================================================================
