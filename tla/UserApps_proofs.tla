--------------------------- MODULE UserApps_proofs ----------------------------
(***************************************************************************)
(* Proofs about UserApps, for any number of programs, types, applications  *)
(* and changes, and any texts the file may hold at first.                  *)
(***************************************************************************)
EXTENDS UserApps, TLAPS, FiniteSetTheorems, SequenceTheorems, WellFoundedInduction

-----------------------------------------------------------------------------
(* Recursion over the naturals *)

LEMMA LeastNatural ==
  ASSUME NEW T, T \subseteq Nat, T # {}
  PROVE  \E x \in T : \A y \in T : x <= y
<1> DEFINE Below(x) == 0 .. x - 1
           U == {Below(x) : x \in T}
<1>1. \A x \in T : Below(x) \in SUBSET Nat /\ IsFiniteSet(Below(x))
  BY FS_Interval
<1> HIDE DEF Below
<1>2. U \subseteq FiniteSubsetsOf(Nat) /\ U # {}
  BY <1>1 DEF FiniteSubsetsOf
<1>3. PICK b \in U : \A c \in U : ~(<<c, b>> \in StrictSubsetOrdering(Nat))
  <2> HIDE DEF U
  <2> QED BY <1>2, WFMin, FS_StrictSubsetOrderingWellFounded
<1>4. PICK x \in T : b = Below(x)
  OBVIOUS
<1>5. ASSUME NEW y \in T, y < x PROVE FALSE
  <2>1. Below(y) \subseteq Below(x) /\ y \in Below(x) /\ y \notin Below(y)
    BY <1>5 DEF Below
  <2>2. <<Below(y), Below(x)>> \in StrictSubsetOrdering(Nat)
    BY <1>1, <2>1 DEF StrictSubsetOrdering
  <2> QED BY <1>3, <1>4, <2>2
<1> QED BY <1>5

\* Induction over the first n naturals, with a set for the predicate.
LEMMA Induct ==
  ASSUME NEW n \in Nat, NEW T, 0 \in T, \A k \in 0 .. n - 1 : k \in T => k + 1 \in T
  PROVE  \A k \in 0 .. n : k \in T
<1> DEFINE U == {k \in 0 .. n : k \notin T}
<1> SUFFICES ASSUME U # {} PROVE FALSE
  OBVIOUS
<1>1. PICK k \in U : \A j \in U : k <= j
  <2>1. U \subseteq Nat
    OBVIOUS
  <2> HIDE DEF U
  <2> QED BY <2>1, LeastNatural
<1>2. k # 0 /\ k - 1 \in 0 .. n - 1 /\ k - 1 \notin U
  BY <1>1
<1> QED BY <1>1, <1>2

LEMMA MaxIs ==
  ASSUME NEW S \in SUBSET Int, NEW m \in S, \A y \in S : y <= m
  PROVE  Max(S) = m
<1>1. \A y \in S : m >= y
  OBVIOUS
<1>2. Max(S) \in S /\ \A y \in S : Max(S) >= y
  BY <1>1, Zenon DEF Max
<1>3. PICK x : x = Max(S)
  OBVIOUS
<1>4. x \in S /\ x >= m
  BY <1>2, <1>3, Zenon
<1>5. x \in Int /\ m \in Int /\ x <= m
  BY <1>4
<1> QED BY <1>3, <1>4, <1>5

-----------------------------------------------------------------------------
(* The folds of ListFile *)

\* F is the function that FoldLeft takes the lists from, for the positions U.
FoldsTo(F, ms, U, s, t, apps) ==
  F = [S \in SUBSET U |->
         IF S = {} THEN <<>>
         ELSE LET x == Max(S)
              IN  Kept(s, t, apps, F[S \ {x}], ms[x])]

LEMMA FoldExists ==
  ASSUME NEW ms, NEW s, NEW t, NEW apps, NEW n \in Nat
  PROVE  \E F : FoldsTo(F, ms, 1 .. n, s, t, apps)
<1> DEFINE T == {k \in Nat : \E F : FoldsTo(F, ms, 1 .. k, s, t, apps)}
<1>1. 0 \in T
  <2> DEFINE F == [S \in SUBSET (1 .. 0) |-> <<>>]
  <2>1. \A S \in SUBSET (1 .. 0) : S = {}
    OBVIOUS
  <2>2. FoldsTo(F, ms, 1 .. 0, s, t, apps)
    BY <2>1 DEF FoldsTo
  <2> QED BY <2>2
<1>2. ASSUME NEW k \in 0 .. n - 1, k \in T PROVE k + 1 \in T
  <2>1. PICK F : FoldsTo(F, ms, 1 .. k, s, t, apps)
    BY <1>2
  <2> DEFINE G == [S \in SUBSET (1 .. k + 1) |->
                     IF k + 1 \in S THEN Kept(s, t, apps, F[S \ {k + 1}], ms[k + 1]) ELSE F[S]]
  <2>2. ASSUME NEW S \in SUBSET (1 .. k + 1)
        PROVE  G[S] = IF S = {} THEN <<>>
                      ELSE LET x == Max(S)
                           IN  Kept(s, t, apps, G[S \ {x}], ms[x])
    <3>1. CASE k + 1 \in S
      <4>1. Max(S) = k + 1
        BY <3>1, MaxIs
      <4>2. S \ {k + 1} \in SUBSET (1 .. k) /\ k + 1 \notin S \ {k + 1}
        OBVIOUS
      <4>3. G[S \ {k + 1}] = F[S \ {k + 1}]
        BY <4>2
      <4> QED BY <3>1, <4>1, <4>3, Zenon
    <3>2. CASE k + 1 \notin S
      <4>1. S \in SUBSET (1 .. k)
        BY <3>2
      <4>2. G[S] = F[S]
        BY <3>2
      <4>3. G[S \ {Max(S)}] = F[S \ {Max(S)}]
        BY <3>2
      <4>4. F[S] = IF S = {} THEN <<>>
                   ELSE LET x == Max(S)
                        IN  Kept(s, t, apps, F[S \ {x}], ms[x])
        BY <2>1, <4>1, Zenon DEF FoldsTo
      <4> QED BY <4>2, <4>3, <4>4, Zenon
    <3> QED BY <3>1, <3>2
  <2>3. G = [S \in SUBSET (1 .. k + 1) |-> G[S]]
    OBVIOUS
  <2> HIDE DEF G
  <2>4. FoldsTo(G, ms, 1 .. k + 1, s, t, apps)
    BY <2>2, <2>3, Zenon DEF FoldsTo
  <2> QED BY <2>4
<1> HIDE DEF T
<1>3. \A k \in 0 .. n : k \in T
  BY <1>1, <1>2, Induct
<1> QED BY <1>3 DEF T

\* G holds the list after each of the mentions.
Collects(G, ms, s, t, apps) ==
  /\ G[0] = <<>>
  /\ \A k \in 1 .. Len(ms) : G[k] = Kept(s, t, apps, G[k - 1], ms[k])

LEMMA FoldCollects ==
  ASSUME NEW E, NEW ms \in Seq(E), NEW s, NEW t, NEW apps
  PROVE  \E G : Collects(G, ms, s, t, apps) /\ Collected(ms, s, t, apps) = G[Len(ms)]
<1>1. DOMAIN ms = 1 .. Len(ms) /\ Len(ms) \in Nat
  OBVIOUS
<1> DEFINE n == Len(ms)
           F == CHOOSE F : FoldsTo(F, ms, 1 .. n, s, t, apps)
           G == [k \in 0 .. n |-> F[1 .. k]]
<1>2. FoldsTo(F, ms, 1 .. n, s, t, apps)
  BY <1>1, FoldExists
<1>3. Collected(ms, s, t, apps) = F[1 .. n]
  BY <1>1, Zenon DEF Collected, FoldLeft, MapThenFoldSet, FoldsTo
<1>4. F[{}] = <<>>
  BY <1>2 DEF FoldsTo
<1>5. ASSUME NEW k \in 1 .. n PROVE F[1 .. k] = Kept(s, t, apps, F[1 .. k - 1], ms[k])
  <2>1. k \in Int /\ k \in 1 .. k /\ 1 .. k \in SUBSET Int /\ \A y \in 1 .. k : y <= k
    BY <1>1
  <2>2. 1 .. k \in SUBSET (1 .. n) /\ 1 .. k # {} /\ (1 .. k) \ {k} = 1 .. (k - 1)
    <3>1. \A y : y \in (1 .. k) \ {k} <=> y \in 1 .. (k - 1)
      BY <1>1
    <3>2. \A y \in 1 .. k : y \in 1 .. n
      BY <1>1
    <3> QED BY <2>1, <3>1, <3>2, Zenon
  <2>3. Max(1 .. k) = k
    BY <2>1, MaxIs
  <2> HIDE DEF F
  <2> QED BY <1>2, <2>2, <2>3, Zenon DEF FoldsTo
<1> HIDE DEF F
<1>6. G[0] = <<>> /\ \A k \in 1 .. n : G[k] = Kept(s, t, apps, G[k - 1], ms[k])
  <2>1. 1 .. 0 = {} /\ 0 \in 0 .. n /\ \A k \in 1 .. n : k \in 0 .. n /\ k - 1 \in 0 .. n
    BY <1>1
  <2> QED BY <1>4, <1>5, <2>1
<1>7. G[n] = F[1 .. n]
  BY <1>1
<1> HIDE DEF G
<1> QED BY <1>3, <1>6, <1>7, Zenon DEF Collects

-----------------------------------------------------------------------------
(* Sequences that are joined *)

\* H holds what the first k of the sequences make, one after the other.
Joins(H, ss) ==
  /\ H[0] = <<>>
  /\ \A k \in 1 .. Len(ss) : H[k] = H[k - 1] \o ss[k]

JoinsTo(F, ss, k) == F = [i \in 1 .. k |-> IF i = 1 THEN ss[i] ELSE F[i - 1] \o ss[i]]

LEMMA FlattenJoins ==
  ASSUME NEW E, NEW ss \in Seq(Seq(E))
  PROVE  \E H : Joins(H, ss) /\ FlattenSeq(ss) = H[Len(ss)]
<1> DEFINE n == Len(ss)
           T == {k \in Nat : \E F : JoinsTo(F, ss, k)}
           F == CHOOSE F : JoinsTo(F, ss, n)
           H == [k \in 0 .. n |-> IF k = 0 THEN <<>> ELSE F[k]]
<1>1. n \in Nat /\ DOMAIN ss = 1 .. n /\ \A i \in 1 .. n : ss[i] \in Seq(E)
  OBVIOUS
<1> HIDE DEF n
<1>2. 0 \in T
  <2> DEFINE F0 == [i \in 1 .. 0 |-> <<>>]
  <2>1. 1 .. 0 = {}
    OBVIOUS
  <2>2. JoinsTo(F0, ss, 0)
    BY <2>1 DEF JoinsTo
  <2> QED BY <2>2
<1>3. ASSUME NEW k \in 0 .. n - 1, k \in T PROVE k + 1 \in T
  <2>1. PICK F1 : JoinsTo(F1, ss, k)
    BY <1>3
  <2> DEFINE F2 == [i \in 1 .. k + 1 |->
                      IF i = k + 1 THEN IF i = 1 THEN ss[i] ELSE F1[k] \o ss[i] ELSE F1[i]]
  <2>2. ASSUME NEW i \in 1 .. k + 1
        PROVE  F2[i] = IF i = 1 THEN ss[i] ELSE F2[i - 1] \o ss[i]
    <3>1. CASE i = k + 1
      <4>1. i = 1 \/ (i - 1 \in 1 .. k + 1 /\ i - 1 # k + 1 /\ i - 1 = k)
        BY <1>1, <3>1
      <4> QED BY <3>1, <4>1
    <3>2. CASE i # k + 1
      <4>1. i \in 1 .. k /\ (i = 1 \/ (i - 1 \in 1 .. k + 1 /\ i - 1 # k + 1))
        BY <1>1, <3>2
      <4>2. F1[i] = IF i = 1 THEN ss[i] ELSE F1[i - 1] \o ss[i]
        BY <2>1, <4>1 DEF JoinsTo
      <4> QED BY <3>2, <4>1, <4>2
    <3> QED BY <3>1, <3>2
  <2>3. F2 = [i \in 1 .. k + 1 |-> F2[i]]
    OBVIOUS
  <2> HIDE DEF F2
  <2>4. JoinsTo(F2, ss, k + 1)
    BY <2>2, <2>3, Zenon DEF JoinsTo
  <2> QED BY <2>4
<1>4. JoinsTo(F, ss, n)
  <2>1. n \in T
    <3> HIDE DEF T
    <3>1. n \in 0 .. n
      BY <1>1
    <3> QED BY <1>1, <1>2, <1>3, <3>1, Induct
  <2> QED BY <2>1, Zenon
<1>5. n # 0 => FlattenSeq(ss) = F[n]
  <2> USE DEF n
  <2> QED BY Zenon DEF FlattenSeq, JoinsTo
<1>6. n = 0 => FlattenSeq(ss) = <<>>
  <2>1. n = 0 => ss = <<>>
    BY DEF n
  <2>2. n = 0 => FlattenSeq(ss) = ss
    BY Zenon DEF FlattenSeq, n
  <2> QED BY <2>1, <2>2
<1> HIDE DEF F
<1>7. ASSUME NEW k \in 1 .. n PROVE H[k] = H[k - 1] \o ss[k]
  <2>1. k \in 0 .. n /\ k # 0 /\ k - 1 \in 0 .. n /\ (k = 1 <=> k - 1 = 0) /\ ss[k] \in Seq(E)
    BY <1>1
  <2>2. F[k] = IF k = 1 THEN ss[k] ELSE F[k - 1] \o ss[k]
    BY <1>4 DEF JoinsTo
  <2>3. <<>> \o ss[k] = ss[k]
    BY <2>1
  <2> QED BY <2>1, <2>2, <2>3
<1>8. H[0] = <<>> /\ FlattenSeq(ss) = H[n]
  BY <1>1, <1>5, <1>6
<1> HIDE DEF H
<1> QED BY <1>7, <1>8, Zenon DEF Joins, n

\* What is in the sequence they make comes from one of them.
LEMMA FlattenElements ==
  ASSUME NEW E, NEW ss \in Seq(Seq(E))
  PROVE  /\ FlattenSeq(ss) \in Seq(E)
         /\ \A k \in DOMAIN FlattenSeq(ss) : \E i \in DOMAIN ss : \E j \in DOMAIN ss[i] :
              FlattenSeq(ss)[k] = ss[i][j]
<1>1. PICK H : Joins(H, ss) /\ FlattenSeq(ss) = H[Len(ss)]
  BY FlattenJoins
<1>2. Len(ss) \in Nat /\ DOMAIN ss = 1 .. Len(ss) /\ \A i \in DOMAIN ss : ss[i] \in Seq(E)
  OBVIOUS
<1> DEFINE From(x) == \E i \in DOMAIN ss : \E j \in DOMAIN ss[i] : x = ss[i][j]
           T == {k \in Nat : H[k] \in Seq(E) /\ \A l \in DOMAIN H[k] : From(H[k][l])}
<1>3. 0 \in T
  <2>1. PICK x : x = H[0]
    OBVIOUS
  <2>2. x = <<>>
    BY <1>1, <2>1 DEF Joins
  <2>3. x \in Seq(E) /\ DOMAIN x = {}
    BY <2>2
  <2> QED BY <2>1, <2>3, Zenon
<1>4. ASSUME NEW k \in 0 .. Len(ss) - 1, k \in T PROVE k + 1 \in T
  <2>1. k + 1 \in DOMAIN ss /\ k + 1 - 1 = k /\ k + 1 \in Nat
    BY <1>2
  <2>2. PICK x, y, z : x = H[k] /\ y = ss[k + 1] /\ z = H[k + 1]
    OBVIOUS
  <2>3. x \in Seq(E) /\ y \in Seq(E) /\ z = x \o y
    <3>1. H[k + 1] = H[k] \o ss[k + 1]
      <4>1. PICK m : m = k + 1
        OBVIOUS
      <4>2. m \in 1 .. Len(ss) /\ m - 1 = k
        BY <1>2, <2>1, <4>1
      <4>3. H[m] = H[m - 1] \o ss[m]
        BY <1>1, <4>2, Zenon DEF Joins
      <4> QED BY <4>1, <4>2, <4>3, Zenon
    <3> QED BY <1>2, <1>4, <2>1, <2>2, <3>1
  <2>4. \A l \in DOMAIN x : From(x[l])
    BY <1>4, <2>2
  <2>5. \A l \in DOMAIN y : From(y[l])
    BY <2>1, <2>2
  <2>6. \A l \in DOMAIN z : (l \in DOMAIN x /\ z[l] = x[l])
                           \/ (l - Len(x) \in DOMAIN y /\ z[l] = y[l - Len(x)])
    BY <2>3
  <2>7. z \in Seq(E)
    BY <2>3
  <2> HIDE DEF From
  <2>8. \A l \in DOMAIN z : From(z[l])
    BY <2>4, <2>5, <2>6, Zenon
  <2> QED BY <2>1, <2>2, <2>7, <2>8
<1>5. Len(ss) \in T
  <2> HIDE DEF T
  <2>1. PICK n \in Nat : n = Len(ss)
    BY <1>2
  <2>2. n \in 0 .. n
    OBVIOUS
  <2> QED BY <1>3, <1>4, <2>1, <2>2, Induct
<1> QED BY <1>1, <1>5

-----------------------------------------------------------------------------
(* What is read of a text *)

\* A list that the reader collects comes from what the text mentions.
LEMMA CollectedIsMentioned ==
  ASSUME NEW E, NEW ms \in Seq(E), NEW s, NEW t, NEW apps, NEW L,
         L = Collected(ms, s, t, apps)
  PROVE  /\ L \in Seq(apps)
         /\ \A i \in DOMAIN L : \E k \in DOMAIN ms :
              /\ ms[k].section = s /\ ms[k].type = t
              /\ ms[k].app \in apps /\ ms[k].app = L[i]
<1> DEFINE From(x) == \E k \in DOMAIN ms : /\ ms[k].section = s /\ ms[k].type = t
                                           /\ ms[k].app \in apps /\ ms[k].app = x
<1>1. PICK n \in Nat : n = Len(ms) /\ DOMAIN ms = 1 .. n
  OBVIOUS
<1>2. PICK G : Collects(G, ms, s, t, apps) /\ L = G[n]
  BY <1>1, FoldCollects, Zenon
<1> DEFINE T == {k \in Nat : G[k] \in Seq(apps) /\ \A i \in DOMAIN G[k] : From(G[k][i])}
<1>3. 0 \in T
  <2>1. PICK x : x = G[0]
    OBVIOUS
  <2>2. x = <<>>
    BY <1>2, <2>1 DEF Collects
  <2>3. x \in Seq(apps) /\ DOMAIN x = {}
    BY <2>2
  <2> QED BY <2>1, <2>3, Zenon
<1>4. ASSUME NEW k \in 0 .. n - 1, k \in T PROVE k + 1 \in T
  <2>1. PICK l \in Nat : l = k + 1
    OBVIOUS
  <2>2. l \in DOMAIN ms /\ l \in 1 .. Len(ms) /\ l - 1 = k
    BY <1>1, <2>1
  <2>3. PICK x, y, m : x = G[k] /\ y = G[l] /\ m = ms[l]
    OBVIOUS
  <2>4. y = Kept(s, t, apps, x, m)
    BY <1>2, <2>2, <2>3, Zenon DEF Collects
  <2>5. x \in Seq(apps) /\ \A i \in DOMAIN x : From(x[i])
    BY <1>4, <2>3
  <2>6. y \in Seq(apps) /\ \A i \in DOMAIN y : From(y[i])
    <3>1. CASE y = x
      BY <2>5, <3>1
    <3>2. CASE y # x
      <4>1. /\ y = Append(x, m.app)
            /\ m.section = s /\ m.type = t /\ m.app \in apps
        BY <2>4, <3>2, Zenon DEF Kept, HandleDefault
      <4>2. From(m.app)
        BY <2>2, <2>3, <4>1
      <4>3. PICK a \in apps : a = m.app
        BY <4>1
      <4>4. /\ y \in Seq(apps)
            /\ \A i \in DOMAIN y : (i \in DOMAIN x /\ y[i] = x[i]) \/ y[i] = a
        BY <2>5, <4>1, <4>3
      <4> HIDE DEF From
      <4> QED BY <2>5, <4>2, <4>3, <4>4, Zenon
    <3> QED BY <3>1, <3>2
  <2> HIDE DEF From
  <2> QED BY <2>1, <2>3, <2>6, Zenon
<1>5. n \in T
  <2> HIDE DEF T
  <2>1. n \in 0 .. n
    OBVIOUS
  <2> QED BY <1>3, <1>4, <2>1, Induct
<1> QED BY <1>2, <1>5

Value == App \union {CutName}

\* What is needed of a text to be read.
ReadableLine(line) == line.kind = "entry" => line.values \in Seq(Value)
Readable(lines) == \E S : lines \in Seq(S) /\ \A line \in S : ReadableLine(line)

\* m is what line i mentions at its place j.
MentionAt(lines, i, j, m) ==
  m = [section |-> HandlerAt(lines, i), type |-> lines[i].type, app |-> Chunk(lines[i].values)[j]]

\* Line i is an entry that the loop hands over.
HandedOver(lines, i) ==
  /\ lines[i].kind = "entry"
  /\ lines[i].type \in MimeType
  /\ Reached(lines, i)

Mention == [section : Section \union {"none"}, type : MimeType, app : Value]

\* A value that is read was written, or lost its end.
FromOrCut(c, values) ==
  \A j \in DOMAIN c : c[j] = CutName \/ \E k \in DOMAIN values : c[j] = values[k]

LEMMA ChunkType ==
  ASSUME NEW V, NEW values \in Seq(V)
  PROVE  Chunk(values) \in Seq(V \union {CutName}) /\ FromOrCut(Chunk(values), values)
<1> USE LineRoomAssumption
<1>1. CASE Len(values) <= LineRoom
  BY <1>1 DEF Chunk, FromOrCut
<1>2. CASE ~(Len(values) <= LineRoom)
  <2>1. PICK c : c = SubSeq(values, 1, LineRoom)
    OBVIOUS
  <2>2. /\ c \in Seq(V)
        /\ \A j \in DOMAIN c : j \in DOMAIN values /\ c[j] = values[j]
    BY <1>2, <2>1
  <2>3. Chunk(values) = c \o <<CutName>>
    BY <1>2, <2>1, Zenon DEF Chunk
  <2>4. PICK d : d = c \o <<CutName>>
    OBVIOUS
  <2>5. /\ d \in Seq(V \union {CutName})
        /\ \A j \in DOMAIN d : d[j] = CutName \/ (j \in DOMAIN c /\ d[j] = c[j])
    BY <2>2, <2>4
  <2> QED BY <2>2, <2>3, <2>4, <2>5, Zenon DEF FromOrCut
<1> QED BY <1>1, <1>2

LEMMA HandlerType ==
  ASSUME NEW lines, NEW i
  PROVE  HandlerAt(lines, i) \in Section \union {"none"}
<1>1. \A h : SectionOf(h) \in Section \union {"none"}
  BY DEF SectionOf, Section
<1> HIDE DEF SectionOf
<1> QED BY <1>1, Zenon DEF HandlerAt

\* What is mentioned by line i.
OfLine(lines, i) ==
  IF lines[i].kind = "entry" /\ lines[i].type \in MimeType /\ Reached(lines, i)
  THEN LET values == Chunk(lines[i].values)
       IN  [j \in 1 .. Len(values) |->
              [section |-> HandlerAt(lines, i), type |-> lines[i].type, app |-> values[j]]]
  ELSE <<>>

LEMMA LineIsRead ==
  ASSUME NEW lines, NEW i, ReadableLine(lines[i])
  PROVE  /\ OfLine(lines, i) \in Seq(Mention)
         /\ \A j \in DOMAIN OfLine(lines, i) : /\ HandedOver(lines, i)
                                             /\ j \in DOMAIN Chunk(lines[i].values)
                                             /\ MentionAt(lines, i, j, OfLine(lines, i)[j])
<1>1. CASE HandedOver(lines, i)
  <2>1. lines[i].values \in Seq(Value)
    BY <1>1 DEF ReadableLine, HandedOver
  <2>2. PICK values : values = Chunk(lines[i].values)
    OBVIOUS
  <2>3. values \in Seq(Value)
    <3>1. Value \union {CutName} = Value
      BY DEF Value
    <3> QED BY <2>1, <2>2, <3>1, ChunkType
  <2>4. PICK h, t : h = HandlerAt(lines, i) /\ t = lines[i].type
    OBVIOUS
  <2>5. h \in Section \union {"none"} /\ t \in MimeType
    BY <1>1, <2>4, HandlerType DEF HandedOver
  <2>6. PICK of : of = OfLine(lines, i)
    OBVIOUS
  <2>7. of = [j \in 1 .. Len(values) |-> [section |-> h, type |-> t, app |-> values[j]]]
    BY <1>1, <2>2, <2>4, <2>6, Zenon DEF HandedOver, OfLine
  <2>8. /\ of \in Seq(Mention)
        /\ \A j \in DOMAIN of : /\ j \in DOMAIN values
                                /\ of[j] = [section |-> h, type |-> t, app |-> values[j]]
    BY <2>3, <2>5, <2>7 DEF Mention
  <2> QED BY <1>1, <2>2, <2>4, <2>6, <2>8, Zenon DEF MentionAt
<1>2. CASE ~HandedOver(lines, i)
  <2>1. OfLine(lines, i) = <<>>
    BY <1>2, Zenon DEF HandedOver, OfLine
  <2> QED BY <2>1
<1> QED BY <1>1, <1>2

\* The mentions of a text are those of its lines, one after the other.
LEMMA MentionsJoin ==
  ASSUME NEW lines, Readable(lines)
  PROVE  \E ss \in Seq(Seq(Mention)) :
           /\ Len(ss) = Len(lines) /\ DOMAIN ss = DOMAIN lines
           /\ \A i \in DOMAIN lines : ss[i] = OfLine(lines, i)
           /\ Mentions(lines) = FlattenSeq(ss)
<1> DEFINE ss == [i \in 1 .. Len(lines) |-> OfLine(lines, i)]
<1>1. Mentions(lines) = FlattenSeq(ss)
  BY Zenon DEF Mentions, OfLine
<1>2. PICK n \in Nat : /\ n = Len(lines)
                       /\ DOMAIN lines = 1 .. n
                       /\ \A i \in 1 .. n : ReadableLine(lines[i])
  <2>1. PICK S : lines \in Seq(S) /\ \A line \in S : ReadableLine(line)
    BY DEF Readable
  <2> QED BY <2>1
<1>3. \A i \in 1 .. n : OfLine(lines, i) \in Seq(Mention)
  BY <1>2, LineIsRead
<1>4. /\ ss \in Seq(Seq(Mention)) /\ Len(ss) = n /\ DOMAIN ss = 1 .. n
      /\ \A i \in 1 .. n : ss[i] = OfLine(lines, i)
  BY <1>2, <1>3
<1> HIDE DEF ss
<1> QED BY <1>1, <1>2, <1>4, Zenon

\* A text mentions what its entries list, as far as the loop hands them over.
LEMMA MentionsAre ==
  ASSUME NEW lines, Readable(lines)
  PROVE  /\ Mentions(lines) \in Seq(Mention)
         /\ \A k \in DOMAIN Mentions(lines) : \E i \in DOMAIN lines :
              /\ HandedOver(lines, i)
              /\ \E j \in DOMAIN Chunk(lines[i].values) :
                   MentionAt(lines, i, j, Mentions(lines)[k])
<1>1. PICK ss \in Seq(Seq(Mention)) : /\ DOMAIN ss = DOMAIN lines
                                      /\ \A i \in DOMAIN lines : ss[i] = OfLine(lines, i)
                                      /\ Mentions(lines) = FlattenSeq(ss)
  BY MentionsJoin
<1>2. \A i \in DOMAIN lines : ReadableLine(lines[i])
  <2>1. PICK S : lines \in Seq(S) /\ \A line \in S : ReadableLine(line)
    BY DEF Readable
  <2> QED BY <2>1
<1>3. /\ FlattenSeq(ss) \in Seq(Mention)
      /\ \A k \in DOMAIN FlattenSeq(ss) : \E i \in DOMAIN ss : \E j \in DOMAIN ss[i] :
              FlattenSeq(ss)[k] = ss[i][j]
  BY FlattenElements, Zenon
<1>4. ASSUME NEW k \in DOMAIN FlattenSeq(ss)
      PROVE  \E i \in DOMAIN lines :
              /\ HandedOver(lines, i)
              /\ \E j \in DOMAIN Chunk(lines[i].values) :
                   MentionAt(lines, i, j, FlattenSeq(ss)[k])
  <2>1. PICK i \in DOMAIN ss : \E j \in DOMAIN ss[i] : FlattenSeq(ss)[k] = ss[i][j]
    BY <1>3, Zenon
  <2>2. PICK j \in DOMAIN ss[i] : FlattenSeq(ss)[k] = ss[i][j]
    BY <2>1, Zenon
  <2>3. i \in DOMAIN lines /\ ss[i] = OfLine(lines, i)
    BY <1>1, Zenon
  <2>4. j \in DOMAIN OfLine(lines, i) /\ FlattenSeq(ss)[k] = OfLine(lines, i)[j]
    BY <2>2, <2>3, Zenon
  <2>5. ReadableLine(lines[i])
    BY <1>2, <2>3
  <2> QED BY <2>3, <2>4, <2>5, LineIsRead, Zenon
<1> QED BY <1>1, <1>3, <1>4, Zenon

\* Lines b + 1 to n are the header h and what follows it.
Region(lines, h, b, n) ==
  /\ lines[b + 1] = Header(h)
  /\ \A j \in b + 2 .. n : lines[j].kind = "entry"

\* Behind a header, up to the next one, its handler is set.
LEMMA RegionHandler ==
  ASSUME NEW lines, NEW h, NEW b \in Nat, NEW n \in Nat, Region(lines, h, b, n),
         NEW i \in b + 1 .. n
  PROVE  HandlerAt(lines, i) = SectionOf(h)
<1> DEFINE I == {j \in 1 .. i : IsHeader(lines[j])}
<1>1. IsHeader(lines[b + 1]) /\ lines[b + 1].header = h
  BY DEF Header, IsHeader, Region
<1>2. b + 1 \in I /\ I \in SUBSET Int
  BY <1>1
<1>3. ASSUME NEW j \in I PROVE j <= b + 1
  <2>1. lines[j].kind = "header" /\ j \in Int /\ j <= n
    BY DEF IsHeader
  <2> QED BY <2>1 DEF Region
<1>4. Max(I) = b + 1 /\ I # {}
  <2> HIDE DEF I
  <2> QED BY <1>2, <1>3, MaxIs
<1>5. SelectLastInSubSeq(lines, 1, i, IsHeader) = b + 1
  BY <1>4, Zenon DEF SelectLastInSubSeq
<1>6. b + 1 # 0
  OBVIOUS
<1> QED BY <1>1, <1>5, <1>6, Zenon DEF HandlerAt

-----------------------------------------------------------------------------
(* What is written *)

Trees == UNION {[S -> Seq(App)] : S \in SUBSET MimeType}

\* A line that the writer writes.
HeaderLine == {Header(GroupName(s)) : s \in Section}
EntryLine == {Entry(t, v) : t \in MimeType, v \in Seq(App)}
Line == HeaderLine \union EntryLine

EntryOf(tree, line) == \E t \in DOMAIN tree : line = Entry(t, tree[t])

\* Of the names of groups that are written the reader knows two.
LEMMA GroupNames ==
  /\ GroupName("added") = "Added Associations" /\ SectionOf("Added Associations") = "added"
  /\ GroupName("default") = "Default Applications" /\ SectionOf("Default Applications") = "default"
  /\ GroupName("removed") = "Removed Applications" /\ SectionOf("Removed Applications") = "none"
<1>1. GroupName("added") = "Added Associations" /\ SectionOf("Added Associations") = "added"
  BY DEF GroupName, SectionOf
<1>2. /\ GroupName("default") = "Default Applications"
      /\ SectionOf("Default Applications") = "default"
  BY DEF GroupName, SectionOf
<1>3. GroupName("removed") = "Removed Applications" /\ SectionOf("Removed Applications") = "none"
  BY DEF GroupName, SectionOf
<1> QED BY <1>1, <1>2, <1>3

LEMMA HandlerOfPart ==
  /\ SectionOf(GroupName("added")) = "added"
  /\ SectionOf(GroupName("default")) = "default"
  /\ SectionOf(GroupName("removed")) = "none"
BY GroupNames, Zenon

LEMMA SectionTextLines ==
  ASSUME NEW tree \in Trees, NEW s \in Section, NEW order \in Seq(MimeType), NEW x,
         x = SectionText(tree, s, order)
  PROVE  /\ x \in Seq(Line)
         /\ x # <<>> => x[1] = Header(GroupName(s))
         /\ \A i \in 2 .. Len(x) : EntryOf(tree, x[i])
<1> DEFINE OfType(i) == IF ListOf(tree, order[i]) = <<>> THEN <<>>
                        ELSE <<Entry(order[i], tree[order[i]])>>
           ss == [i \in 1 .. Len(order) |-> OfType(i)]
           E == {Entry(t, tree[t]) : t \in DOMAIN tree}
<1>1. PICK n \in Nat : n = Len(order)
  OBVIOUS
<1>2. PICK S \in SUBSET MimeType : tree \in [S -> Seq(App)]
  BY DEF Trees
<1>3. CASE DOMAIN tree = {}
  <2>1. x = <<>>
    BY <1>3, Zenon DEF SectionText
  <2> QED BY <2>1
<1>4. CASE DOMAIN tree # {}
  <2>1. x = <<Header(GroupName(s))>> \o FlattenSeq(ss)
    BY <1>4, Zenon DEF SectionText
  <2>2. ASSUME NEW i \in 1 .. n PROVE OfType(i) \in Seq(E)
    <3>1. CASE OfType(i) = <<>>
      <4> HIDE DEF OfType
      <4> QED BY <3>1
    <3>2. CASE OfType(i) # <<>>
      <4>1. OfType(i) = <<Entry(order[i], tree[order[i]])>> /\ order[i] \in DOMAIN tree
        BY <3>2, Zenon DEF ListOf
      <4>2. PICK y : y = Entry(order[i], tree[order[i]])
        OBVIOUS
      <4>3. y \in E /\ OfType(i) = <<y>>
        BY <4>1, <4>2, Zenon
      <4> HIDE DEF OfType, E
      <4> QED BY <4>3
    <3> QED BY <3>1, <3>2
  <2> HIDE DEF OfType
  <2>3. ss \in Seq(Seq(E))
    <3> HIDE DEF E
    <3> QED BY <1>1, <2>2
  <2> HIDE DEF ss
  <2>4. PICK f : f = FlattenSeq(ss)
    OBVIOUS
  <2>5. f \in Seq(E)
    BY <2>3, <2>4, FlattenElements, Zenon
  <2>6. E \in SUBSET Line /\ \A y \in E : EntryOf(tree, y)
    <3>1. \A t \in DOMAIN tree : t \in MimeType /\ tree[t] \in Seq(App)
      BY <1>2
    <3>2. ASSUME NEW y \in E PROVE y \in Line /\ EntryOf(tree, y)
      <4>1. PICK t \in DOMAIN tree : y = Entry(t, tree[t])
        OBVIOUS
      <4>2. \E u \in MimeType, v \in Seq(App) : y = Entry(u, v)
        BY <3>1, <4>1, Zenon
      <4>3. y \in EntryLine
        BY <4>2 DEF EntryLine
      <4> QED BY <4>1, <4>3, Zenon DEF Line, EntryOf
    <3> HIDE DEF E
    <3> QED BY <3>2
  <2>7. PICK h : h = Header(GroupName(s))
    OBVIOUS
  <2>8. h \in Line
    <3>1. h \in HeaderLine
      BY <2>7 DEF HeaderLine
    <3> QED BY <3>1, Zenon DEF Line
  <2> HIDE DEF E
  <2>9. /\ x \in Seq(Line)
        /\ x[1] = h
        /\ \A i \in 2 .. Len(x) : x[i] \in E
    <3>1. x = <<h>> \o f
      BY <2>1, <2>4, <2>7
    <3>2. f \in Seq(Line)
      BY <2>5, <2>6
    <3>3. DOMAIN f = 1 .. Len(f) /\ Len(f) \in Nat /\ \A i \in 1 .. Len(f) : f[i] \in E
      BY <2>5
    <3>4. Len(x) = 1 + Len(f) /\ x \in Seq(Line) /\ x[1] = h
      BY <2>8, <3>1, <3>2
    <3>5. \A i \in 2 .. Len(x) : x[i] = f[i - 1]
      BY <2>8, <3>1, <3>2, <3>3, <3>4
    <3> QED BY <3>3, <3>4, <3>5
  <2> QED BY <2>6, <2>7, <2>9
<1> QED BY <1>3, <1>4

\* The part y of x is behind line b, and h is the handler of its lines.
PartIn(x, y, b, h) ==
  \A i \in 1 .. Len(y) : b + i \in DOMAIN x /\ x[b + i] = y[i] /\ HandlerAt(x, b + i) = h

PartsOf(x, trees, order, a, d, r) ==
  /\ a = SectionText(trees["added"], "added", order) /\ a \in Seq(Line)
  /\ d = SectionText(trees["default"], "default", order) /\ d \in Seq(Line)
  /\ r = SectionText(trees["removed"], "removed", order) /\ r \in Seq(Line)
  /\ x \in Seq(Line) /\ Len(x) = Len(a) + Len(d) + Len(r)
  /\ PartIn(x, a, 0, "added")
  /\ PartIn(x, d, Len(a), "default")
  /\ PartIn(x, r, Len(a) + Len(d), "none")

\* In each of the three parts of a text the handler of its header is set.
LEMMA TextParts ==
  ASSUME NEW trees \in [Section -> Trees], NEW order \in Seq(MimeType), NEW x,
         x = Text(trees, order)
  PROVE  \E a, d, r : PartsOf(x, trees, order, a, d, r)
<1> DEFINE Part(s, y) == /\ y \in Seq(Line)
                         /\ y # <<>> => y[1] = Header(GroupName(s))
                         /\ \A i \in 2 .. Len(y) : EntryOf(trees[s], y[i])
<1>1. "added" \in Section /\ "default" \in Section /\ "removed" \in Section
  BY DEF Section
<1>2. PICK a, d, r : /\ a = SectionText(trees["added"], "added", order)
                     /\ d = SectionText(trees["default"], "default", order)
                     /\ r = SectionText(trees["removed"], "removed", order)
  OBVIOUS
<1>3. \A s \in Section : trees[s] \in Trees
  OBVIOUS
<1>4. Part("added", a) /\ Part("default", d) /\ Part("removed", r)
  BY <1>1, <1>2, <1>3, SectionTextLines, ZenonT(40)
<1>5. x = a \o d \o r
  BY <1>2, Zenon DEF Text
\* The part that begins behind line b.
<1>6. ASSUME NEW s \in Section, NEW y, Part(s, y), NEW b \in Nat,
             \A i \in 1 .. Len(y) : b + i \in DOMAIN x /\ x[b + i] = y[i]
      PROVE  PartIn(x, y, b, SectionOf(GroupName(s)))
  <2>1. PICK n \in Nat : n = Len(y)
    BY <1>6
  <2> SUFFICES ASSUME NEW k \in 1 .. n
               PROVE  HandlerAt(x, b + k) = SectionOf(GroupName(s))
    BY <1>6, <2>1 DEF PartIn
  <2>2. PICK e, g, i : e \in Nat /\ e = b + n /\ g = GroupName(s) /\ i = b + k
    BY <2>1
  <2>3. i \in b + 1 .. e /\ n >= 1 /\ y # <<>>
    BY <1>6, <2>1, <2>2
  <2>4. x[b + 1] = Header(g)
    BY <1>6, <2>1, <2>2, <2>3
  <2>5. \A l : EntryOf(trees[s], l) => l.kind = "entry"
    BY DEF EntryOf, Entry
  <2>6. ASSUME NEW j \in b + 2 .. e PROVE x[j].kind = "entry"
    <3>1. j - b \in 2 .. n /\ x[j] = y[j - b]
      BY <1>6, <2>1, <2>2
    <3> QED BY <1>6, <2>1, <2>5, <3>1
  <2>7. Region(x, g, b, e)
    BY <2>4, <2>6, Zenon DEF Region
  <2>8. HandlerAt(x, i) = SectionOf(g)
    <3>1. e \in Nat
      BY <2>2
    <3> QED BY <1>6, <2>3, <2>7, <3>1, RegionHandler
  <2> QED BY <2>2, <2>8
<1>7. PICK k, l, m \in Nat : k = Len(a) /\ l = Len(d) /\ m = Len(r)
  BY <1>4
<1>8. x \in Seq(Line) /\ Len(x) = k + l + m /\ DOMAIN x = 1 .. k + l + m
  BY <1>4, <1>5, <1>7
<1>9. /\ \A i \in 1 .. k : 0 + i \in DOMAIN x /\ x[0 + i] = a[i]
      /\ \A i \in 1 .. l : k + i \in DOMAIN x /\ x[k + i] = d[i]
      /\ \A i \in 1 .. m : (k + l) + i \in DOMAIN x /\ x[(k + l) + i] = r[i]
  <2>1. /\ \A i \in 1 .. k : x[0 + i] = a[i]
        /\ \A i \in 1 .. l : x[k + i] = d[i]
        /\ \A i \in 1 .. m : x[(k + l) + i] = r[i]
    BY <1>4, <1>5, <1>7
  <2>2. /\ \A i \in 1 .. k : 0 + i \in 1 .. k + l + m
        /\ \A i \in 1 .. l : k + i \in 1 .. k + l + m
        /\ \A i \in 1 .. m : (k + l) + i \in 1 .. k + l + m
    OBVIOUS
  <2> QED BY <1>8, <2>1, <2>2, Zenon
<1> HIDE DEF Part
<1>10. PartIn(x, a, 0, SectionOf(GroupName("added")))
  BY <1>1, <1>4, <1>6, <1>7, <1>9
<1>11. PartIn(x, d, k, SectionOf(GroupName("default")))
  BY <1>1, <1>4, <1>6, <1>7, <1>9
<1>12. PartIn(x, r, k + l, SectionOf(GroupName("removed")))
  <2>1. k + l \in Nat
    OBVIOUS
  <2> QED BY <1>1, <1>4, <1>6, <1>7, <1>9, <2>1
<1>13. a \in Seq(Line) /\ d \in Seq(Line) /\ r \in Seq(Line)
  BY <1>4 DEF Part
<1>14. PartIn(x, a, 0, "added") /\ PartIn(x, d, k, "default") /\ PartIn(x, r, k + l, "none")
  BY <1>10, <1>11, <1>12, HandlerOfPart, Zenon
<1>15. Len(x) = Len(a) + Len(d) + Len(r)
  BY <1>7, <1>8
<1> QED BY <1>2, <1>7, <1>8, <1>13, <1>14, <1>15, Zenon DEF PartsOf

\* The entries of a text that is written are those of the section whose header is before
\* them.
LEMMA TextLines ==
  ASSUME NEW trees \in [Section -> Trees], NEW order \in Seq(MimeType), NEW x,
         x = Text(trees, order)
  PROVE  /\ x \in Seq(Line)
         /\ \A i \in 1 .. Len(x) : x[i].kind = "entry" =>
              \E s \in Section : /\ HandlerAt(x, i) = SectionOf(GroupName(s))
                               /\ EntryOf(trees[s], x[i])
<1>1. PICK a, d, r : PartsOf(x, trees, order, a, d, r)
  BY TextParts
<1>2. "added" \in Section /\ "default" \in Section /\ "removed" \in Section
  BY DEF Section
<1>3. PICK k, l, m \in Nat : /\ k = Len(a) /\ l = Len(d) /\ m = Len(r)
                             /\ Len(x) = k + l + m /\ x \in Seq(Line)
  <2>1. /\ a \in Seq(Line) /\ d \in Seq(Line) /\ r \in Seq(Line) /\ x \in Seq(Line)
        /\ Len(x) = Len(a) + Len(d) + Len(r)
    BY <1>1, Zenon DEF PartsOf
  <2>2. Len(a) \in Nat /\ Len(d) \in Nat /\ Len(r) \in Nat
    BY <2>1
  <2> QED BY <2>1, <2>2, Zenon
<1>4. ASSUME NEW s \in Section, NEW y, y = SectionText(trees[s], s, order), NEW b \in Nat,
             PartIn(x, y, b, SectionOf(GroupName(s))),
             NEW i \in b + 1 .. b + Len(y), x[i].kind = "entry"
      PROVE  /\ HandlerAt(x, i) = SectionOf(GroupName(s))
             /\ EntryOf(trees[s], x[i])
  <2>1. /\ y \in Seq(Line)
        /\ y # <<>> => y[1] = Header(GroupName(s))
        /\ \A j \in 2 .. Len(y) : EntryOf(trees[s], y[j])
    BY <1>4, SectionTextLines
  <2>2. PICK n, j : n \in Nat /\ n = Len(y) /\ j = i - b
    BY <2>1
  <2>3. j \in 1 .. n /\ b + j = i /\ n >= 1 /\ y # <<>>
    BY <1>4, <2>1, <2>2
  <2>4. x[i] = y[j] /\ HandlerAt(x, i) = SectionOf(GroupName(s))
    BY <1>4, <2>2, <2>3 DEF PartIn
  <2>5. j # 1
    <3>1. Header(GroupName(s)).kind = "header"
      BY DEF Header
    <3> QED BY <1>4, <2>1, <2>3, <2>4, <3>1
  <2> QED BY <2>1, <2>2, <2>3, <2>4, <2>5
<1>5. /\ a = SectionText(trees["added"], "added", order)
      /\ d = SectionText(trees["default"], "default", order)
      /\ r = SectionText(trees["removed"], "removed", order)
      /\ PartIn(x, a, 0, SectionOf(GroupName("added")))
      /\ PartIn(x, d, k, SectionOf(GroupName("default")))
      /\ PartIn(x, r, k + l, SectionOf(GroupName("removed")))
  BY <1>1, <1>3, HandlerOfPart, Zenon DEF PartsOf
<1>6. ASSUME NEW i \in 1 .. Len(x), x[i].kind = "entry"
      PROVE  \E s \in Section : /\ HandlerAt(x, i) = SectionOf(GroupName(s))
                               /\ EntryOf(trees[s], x[i])
  <2>1. i \in 0 + 1 .. 0 + k \/ i \in k + 1 .. k + l \/ i \in (k + l) + 1 .. (k + l) + m
    BY <1>3
  <2>2. CASE i \in 0 + 1 .. 0 + k
    BY <1>2, <1>3, <1>4, <1>5, <1>6, <2>2
  <2>3. CASE i \in k + 1 .. k + l
    BY <1>2, <1>3, <1>4, <1>5, <1>6, <2>3
  <2>4. CASE i \in (k + l) + 1 .. (k + l) + m
    <3>1. k + l \in Nat
      OBVIOUS
    <3> QED BY <1>2, <1>3, <1>4, <1>5, <1>6, <2>4, <3>1
  <2> QED BY <2>1, <2>2, <2>3, <2>4
<1> QED BY <1>3, <1>6

-----------------------------------------------------------------------------
(* From a text to lists and back *)

\* All that the lists hold has been put there.
AllPut(trees, P) ==
  \A s \in Section : \A t \in DOMAIN trees[s] : \A i \in DOMAIN trees[s][t] :
    [section |-> s, type |-> t, app |-> trees[s][t][i]] \in P

\* All that a text mentions has been put there.
AllMentionedPut(lines, P) == \A m \in Association : Contains(Mentions(lines), m) => m \in P

\* What is loaded was mentioned.
LEMMA LoadedWasMentioned ==
  ASSUME NEW lines, Readable(lines), NEW apps \in SUBSET App, NEW P, AllMentionedPut(lines, P),
         NEW trees, trees = UserLists(lines, apps)
  PROVE  trees \in [Section -> Trees] /\ AllPut(trees, P)
<1>1. PICK ms : ms = Mentions(lines)
  OBVIOUS
<1>2. ms \in Seq(Mention)
  BY <1>1, MentionsAre
<1>3. \A s \in Section : UserTypes(lines, s) \in SUBSET MimeType
  BY DEF UserTypes
<1>4. ASSUME NEW s \in Section, NEW t \in MimeType, NEW L, L = Collected(ms, s, t, apps)
      PROVE  /\ L \in Seq(App)
             /\ \A i \in DOMAIN L : [section |-> s, type |-> t, app |-> L[i]] \in P
  <2>1. /\ L \in Seq(apps)
        /\ \A i \in DOMAIN L : \E k \in DOMAIN ms :
             /\ ms[k].section = s /\ ms[k].type = t
             /\ ms[k].app \in apps /\ ms[k].app = L[i]
    BY <1>2, <1>4, CollectedIsMentioned
  <2>2. ASSUME NEW i \in DOMAIN L PROVE [section |-> s, type |-> t, app |-> L[i]] \in P
    <3>1. PICK k \in DOMAIN ms : /\ ms[k].section = s /\ ms[k].type = t
                               /\ ms[k].app \in apps /\ ms[k].app = L[i]
      BY <2>1
    <3>2. PICK m : m = ms[k]
      OBVIOUS
    <3>3. m \in Mention
      BY <1>2, <3>1, <3>2
    <3>4. m = [section |-> s, type |-> t, app |-> L[i]] /\ m \in Association
      BY <3>1, <3>2, <3>3 DEF Mention, Association
    <3>5. k \in 1 .. Len(ms)
      BY <1>2
    <3>6. Contains(ms, m)
      BY <3>2, <3>5, Zenon DEF Contains
    <3> QED BY <1>1, <3>4, <3>6, Zenon DEF AllMentionedPut
  <2> QED BY <2>1, <2>2
<1>5. /\ DOMAIN trees = Section
      /\ trees = [s \in Section |-> trees[s]]
      /\ \A s \in Section : trees[s] = [t \in UserTypes(lines, s) |-> Collected(ms, s, t, apps)]
  BY <1>1, Zenon DEF UserLists
<1>6. ASSUME NEW s \in Section
      PROVE  /\ trees[s] \in Trees
             /\ \A t \in DOMAIN trees[s] : \A i \in DOMAIN trees[s][t] :
                  [section |-> s, type |-> t, app |-> trees[s][t][i]] \in P
  <2>1. PICK S \in SUBSET MimeType : S = UserTypes(lines, s)
    BY <1>3
  <2>2. trees[s] = [t \in S |-> Collected(ms, s, t, apps)]
    BY <1>5, <2>1
  <2>3. \A t \in S : t \in MimeType /\ trees[s][t] = Collected(ms, s, t, apps)
    BY <2>1, <2>2
  <2>4. DOMAIN trees[s] = S /\ trees[s] = [t \in S |-> trees[s][t]]
    BY <2>2
  <2>5. ASSUME NEW t \in S
        PROVE  /\ trees[s][t] \in Seq(App)
               /\ \A i \in DOMAIN trees[s][t] :
                    [section |-> s, type |-> t, app |-> trees[s][t][i]] \in P
    BY <1>4, <2>3, Zenon
  <2>6. trees[s] \in [S -> Seq(App)]
    BY <2>4, <2>5, Zenon
  <2> QED BY <2>4, <2>5, <2>6, Zenon DEF Trees
<1>7. trees \in [Section -> Trees]
  BY <1>5, <1>6, Zenon
<1> QED BY <1>6, <1>7, Zenon DEF AllPut

\* What is mentioned by a text that is written was in the lists.
LEMMA WrittenWasListed ==
  ASSUME NEW trees \in [Section -> Trees], NEW order \in Seq(MimeType), NEW P, AllPut(trees, P),
         NEW x, x = Text(trees, order)
  PROVE  Readable(x) /\ AllMentionedPut(x, P)
<1>1. /\ x \in Seq(Line)
      /\ \A i \in 1 .. Len(x) : x[i].kind = "entry" =>
           \E s \in Section : /\ HandlerAt(x, i) = SectionOf(GroupName(s))
                            /\ EntryOf(trees[s], x[i])
  BY TextLines
<1>2. Readable(x)
  <2>1. ASSUME NEW l \in Line PROVE ReadableLine(l)
    <3>1. CASE l \in HeaderLine
      BY <3>1 DEF HeaderLine, Header, ReadableLine
    <3>2. CASE l \in EntryLine
      <4>1. PICK t \in MimeType, v \in Seq(App) : l = Entry(t, v)
        BY <3>2 DEF EntryLine
      <4>2. l.values = v
        BY <4>1 DEF Entry
      <4>3. v \in Seq(Value)
        BY DEF Value
      <4> QED BY <4>2, <4>3 DEF ReadableLine
    <3> QED BY <3>1, <3>2 DEF Line
  <2> QED BY <1>1, <2>1, Zenon DEF Readable
<1>3. ASSUME NEW m \in Association, Contains(Mentions(x), m) PROVE m \in P
  <2>1. PICK ms : ms = Mentions(x)
    OBVIOUS
  <2>2. PICK k \in 1 .. Len(ms) : ms[k] = m
    BY <1>3, <2>1, Zenon DEF Contains
  <2>3. ms \in Seq(Mention)
    BY <1>2, <2>1, MentionsAre
  <2>4. k \in DOMAIN ms
    BY <2>3
  <2>5. PICK i \in DOMAIN x : /\ HandedOver(x, i)
                             /\ \E j \in DOMAIN Chunk(x[i].values) : MentionAt(x, i, j, m)
    BY <1>2, <2>1, <2>2, <2>4, MentionsAre, Zenon
  <2>6. PICK j \in DOMAIN Chunk(x[i].values) : MentionAt(x, i, j, m)
    BY <2>5
  <2>7. i \in 1 .. Len(x)
    BY <1>1
  <2>8. PICK s \in Section : HandlerAt(x, i) = SectionOf(GroupName(s)) /\ EntryOf(trees[s], x[i])
    BY <1>1, <2>5, <2>7, Zenon DEF HandedOver
  <2>9. PICK t \in DOMAIN trees[s] : x[i] = Entry(t, trees[s][t])
    BY <2>8, Zenon DEF EntryOf
  <2>10. x[i].type = t /\ x[i].values = trees[s][t]
    BY <2>9 DEF Entry
  <2>11. m.section \in Section /\ m.app \in App
    BY DEF Association
  <2>12. /\ m.section = HandlerAt(x, i) /\ m.type = t /\ m.app = Chunk(trees[s][t])[j]
         /\ m = [section |-> HandlerAt(x, i), type |-> t, app |-> Chunk(trees[s][t])[j]]
    BY <2>6, <2>10 DEF MentionAt
  <2>13. m.section = s
    <3>1. s = "added" \/ s = "default" \/ s = "removed"
      BY DEF Section
    <3>2. "none" \notin Section
      BY DEF Section
    <3> QED BY <2>8, <2>11, <2>12, <3>1, <3>2, GroupNames, Zenon
  <2>14. trees[s][t] \in Seq(App)
    <3>1. trees[s] \in Trees
      OBVIOUS
    <3>2. PICK S \in SUBSET MimeType : trees[s] \in [S -> Seq(App)]
      BY <3>1 DEF Trees
    <3> QED BY <3>2
  <2>15. m.app # CutName
    BY <2>11, CutNameAssumption
  <2>16. PICK e \in DOMAIN trees[s][t] : m.app = trees[s][t][e]
    <3>1. PICK v, c : v = trees[s][t] /\ c = Chunk(v)
      OBVIOUS
    <3>2. v \in Seq(App) /\ j \in DOMAIN c /\ m.app = c[j]
      BY <2>6, <2>10, <2>12, <2>14, <3>1, Zenon
    <3>3. FromOrCut(c, v)
      BY <3>1, <3>2, ChunkType
    <3> QED BY <2>15, <3>1, <3>2, <3>3, ZenonT(40) DEF FromOrCut
  <2>17. m = [section |-> s, type |-> t, app |-> trees[s][t][e]]
    BY <2>12, <2>13, <2>16, Zenon
  <2> QED BY <2>17, Zenon DEF AllPut
<1> QED BY <1>2, <1>3, Zenon DEF AllMentionedPut

LEMMA WrittenIsReadable ==
  ASSUME NEW trees \in [Section -> Trees], NEW order \in Seq(MimeType), NEW x,
         x = Text(trees, order)
  PROVE  Readable(x)
<1>1. AllPut(trees, Association)
  <2>1. ASSUME NEW s \in Section, NEW t \in DOMAIN trees[s], NEW i \in DOMAIN trees[s][t]
        PROVE  [section |-> s, type |-> t, app |-> trees[s][t][i]] \in Association
    <3>1. trees[s] \in Trees
      OBVIOUS
    <3>2. PICK S \in SUBSET MimeType : trees[s] \in [S -> Seq(App)]
      BY <3>1 DEF Trees
    <3>3. t \in MimeType /\ trees[s][t][i] \in App
      BY <3>2
    <3> QED BY <3>3 DEF Association
  <2> QED BY <2>1, Zenon DEF AllPut
<1> QED BY <1>1, WrittenWasListed

-----------------------------------------------------------------------------
(* The inductive invariant *)

Types ==
  /\ Readable(Lines(file))
  /\ installed \in SUBSET App
  /\ lists \in [Program -> [Section -> Trees] \union {None}]
  /\ saving \in SUBSET Program
  /\ \A p \in saving : lists[p] # None
  /\ put \in SUBSET Association
  /\ changes \in 0 .. MaxChanges

\* A program that saves alone writes into an empty file.
SavesAlone == \A p \in saving : saving = {p} /\ Lines(file) = <<>>

Apart ==
  /\ SavesAlone
  /\ AllMentionedPut(Lines(file), put)
  /\ \A p \in Program : lists[p] # None => AllPut(lists[p], put)

IInv == Types /\ (~mixed => Apart)

LEMMA EmptyText == Readable(<<>>) /\ \A P : AllMentionedPut(<<>>, P)
<1>1. Readable(<<>>)
  <2>1. PICK S, x : S = {} /\ x = <<>>
    OBVIOUS
  <2>2. x \in Seq(S) /\ \A line \in S : ReadableLine(line)
    BY <2>1
  <2> QED BY <2>1, <2>2, Zenon DEF Readable
<1>2. ASSUME NEW m, Contains(Mentions(<<>>), m) PROVE FALSE
  <2>1. PICK x : x = <<>>
    OBVIOUS
  <2>2. PICK ms : ms = Mentions(x)
    OBVIOUS
  <2>3. Readable(x) /\ DOMAIN x = {}
    BY <1>1, <2>1
  <2>4. ms \in Seq(Mention) /\ \A k \in DOMAIN ms : FALSE
    BY <2>2, <2>3, MentionsAre
  <2>5. PICK k \in 1 .. Len(ms) : ms[k] = m
    BY <1>2, <2>1, <2>2, Zenon DEF Contains
  <2> QED BY <2>4, <2>5
<1> QED BY <1>1, <1>2, Zenon DEF AllMentionedPut

LEMMA InitInv == Init => IInv
<1> SUFFICES ASSUME Init PROVE IInv
  OBVIOUS
<1>1. Readable(Lines(file))
  <2>1. CASE file = None
    <3>1. Lines(file) = <<>>
      BY <2>1, Zenon DEF Lines
    <3> QED BY <3>1, EmptyText
  <2>2. CASE file # None
    <3>1. Lines(file) = file /\ file \in FirstTexts
      BY <2>2 DEF Init, Lines
    <3>2. PICK S : S = ToSet(file)
      OBVIOUS
    <3>3. /\ file \in Seq(S)
          /\ \A line \in S : line.kind = "entry" => line.values \in Seq(App)
      BY <3>1, <3>2, FirstTextsAssumption, Zenon
    <3>4. \A v \in Seq(App) : v \in Seq(Value)
      BY DEF Value
    <3>5. \A line \in S : ReadableLine(line)
      BY <3>3, <3>4, Zenon DEF ReadableLine
    <3> QED BY <3>1, <3>3, <3>5, Zenon DEF Readable
  <2> QED BY <2>1, <2>2
<1>2. lists \in [Program -> [Section -> Trees] \union {None}]
  BY DEF Init
<1>3. put \in SUBSET Association /\ AllMentionedPut(Lines(file), put)
  BY DEF Init, AllMentionedPut
<1>4. /\ installed \in SUBSET App /\ saving \in SUBSET Program /\ changes \in 0 .. MaxChanges
      /\ saving = {}
      /\ \A p \in Program : lists[p] = None
  BY MaxChangesAssumption DEF Init
<1> QED BY <1>1, <1>2, <1>3, <1>4 DEF IInv, Types, Apart, SavesAlone

PutIn(s, tree, P) ==
  \A t \in DOMAIN tree : \A i \in DOMAIN tree[t] :
    [section |-> s, type |-> t, app |-> tree[t][i]] \in P

\* A section is given another tree.
LEMMA OtherTree ==
  ASSUME NEW trees \in [Section -> Trees], NEW s \in Section, NEW tree \in Trees,
         NEW P, NEW Q, P \subseteq Q, NEW new, new = [trees EXCEPT ![s] = tree],
         AllPut(trees, P) => PutIn(s, tree, Q)
  PROVE  new \in [Section -> Trees] /\ (AllPut(trees, P) => AllPut(new, Q))
<1>1. /\ new \in [Section -> Trees]
      /\ new[s] = tree
      /\ \A r \in Section \ {s} : new[r] = trees[r]
  OBVIOUS
<1>2. ASSUME AllPut(trees, P),
             NEW r \in Section, NEW t \in DOMAIN new[r], NEW i \in DOMAIN new[r][t]
      PROVE  [section |-> r, type |-> t, app |-> new[r][t][i]] \in Q
  <2>1. CASE r = s
    BY <1>1, <1>2, <2>1, Zenon DEF PutIn
  <2>2. CASE r # s
    <3>1. new[r] = trees[r]
      BY <1>1, <2>2
    <3>2. [section |-> r, type |-> t, app |-> new[r][t][i]] \in P
      BY <1>2, <3>1, Zenon DEF AllPut
    <3> QED BY <3>2, Zenon
  <2> QED BY <2>1, <2>2
<1> QED BY <1>1, <1>2, Zenon DEF AllPut

\* L holds what is in list or has been put into section s for type t.
MadeOf(L, list, s, t, Q) ==
  /\ L \in Seq(App)
  /\ \A i \in DOMAIN L : \/ \E j \in DOMAIN list : L[i] = list[j]
                        \/ [section |-> s, type |-> t, app |-> L[i]] \in Q

WithList(trees, s, t, L) == [trees EXCEPT ![s][t] = L]

\* The lists trees become new, what has been put becomes Q.
StillPut(trees, new, P, Q) == new \in [Section -> Trees] /\ (AllPut(trees, P) => AllPut(new, Q))

\* A type is given another list of what was there or has been put there.
LEMMA OtherList ==
  ASSUME NEW trees \in [Section -> Trees], NEW s \in Section, NEW t \in DOMAIN trees[s],
         NEW list, list = trees[s][t], NEW L,
         NEW P, NEW Q, P \subseteq Q, MadeOf(L, list, s, t, Q),
         NEW new, new = WithList(trees, s, t, L)
  PROVE  StillPut(trees, new, P, Q)
<1>1. PICK tree, other : tree = trees[s] /\ other = [tree EXCEPT ![t] = L]
  OBVIOUS
<1>2. tree \in Trees /\ t \in DOMAIN tree /\ list = tree[t]
  BY <1>1
<1>3. PICK S \in SUBSET MimeType : tree \in [S -> Seq(App)]
  BY <1>2 DEF Trees
<1>4. other \in [S -> Seq(App)] /\ other[t] = L /\ \A u \in S \ {t} : other[u] = tree[u]
  BY <1>1, <1>2, <1>3 DEF MadeOf
<1>5. other \in Trees
  BY <1>4, Zenon DEF Trees
<1>6. new = [trees EXCEPT ![s] = other]
  BY <1>1 DEF WithList
<1>7. ASSUME AllPut(trees, P), NEW u \in DOMAIN other, NEW i \in DOMAIN other[u]
      PROVE  [section |-> s, type |-> u, app |-> other[u][i]] \in Q
  <2>1. u \in S
    BY <1>4
  <2>2. \A v \in S : \A j \in DOMAIN tree[v] : [section |-> s, type |-> v, app |-> tree[v][j]] \in Q
    <3>1. DOMAIN tree = S
      BY <1>3
    <3> QED BY <1>1, <1>7, <3>1, Zenon DEF AllPut
  <2>3. CASE u = t
    <3>1. i \in DOMAIN L /\ other[u][i] = L[i]
      BY <1>4, <2>3
    <3>2. \A j \in DOMAIN list : [section |-> s, type |-> t, app |-> list[j]] \in Q
      BY <1>2, <2>1, <2>2, <2>3, Zenon
    <3> QED BY <2>3, <3>1, <3>2, Zenon DEF MadeOf
  <2>4. CASE u # t
    <3>1. other[u] = tree[u]
      BY <1>4, <2>1, <2>4
    <3> QED BY <2>1, <2>2, <3>1, Zenon
  <2> QED BY <2>3, <2>4
<1>8. AllPut(trees, P) => PutIn(s, other, Q)
  BY <1>7, Zenon DEF PutIn
<1>9. new \in [Section -> Trees] /\ (AllPut(trees, P) => AllPut(new, Q))
  BY <1>5, <1>6, <1>8, OtherTree
<1> QED BY <1>9 DEF StillPut

\* A program edits its lists.
LEMMA EditInv ==
  ASSUME IInv, NEW p \in Program, Holds(p), NEW new \in [Section -> Trees], Edit(p, new),
         put \subseteq put', put' \subseteq Association, AllPut(lists[p], put) => AllPut(new, put')
  PROVE  IInv'
<1>1. /\ lists' = [lists EXCEPT ![p] = new] /\ changes < MaxChanges /\ changes' = changes + 1
      /\ UNCHANGED <<file, installed, saving, saved, mixed>>
  BY DEF Edit
<1>2. lists[p] # None /\ p \notin saving
  BY DEF Holds
<1>3. /\ lists' \in [Program -> [Section -> Trees] \union {None}]
      /\ lists'[p] = new
      /\ \A q \in Program \ {p} : lists'[q] = lists[q]
  BY <1>1 DEF IInv, Types
<1>4. Lines(file)' = Lines(file)
  BY <1>1 DEF Lines
<1>5. Types'
  <2>1. changes' \in 0 .. MaxChanges
    BY <1>1, MaxChangesAssumption DEF IInv, Types
  <2>2. \A q \in saving' : lists'[q] # None
    BY <1>1, <1>2, <1>3 DEF IInv, Types
  <2>3. Readable(Lines(file)')
    BY <1>4 DEF IInv, Types
  <2> QED BY <1>1, <1>3, <2>1, <2>2, <2>3 DEF IInv, Types
<1>6. ASSUME ~mixed' PROVE Apart'
  <2>1. Apart
    BY <1>1, <1>6 DEF IInv
  <2>2. SavesAlone'
    BY <1>1, <1>4, <2>1 DEF Apart, SavesAlone
  <2>3. AllMentionedPut(Lines(file)', put')
    <3>1. AllMentionedPut(Lines(file), put)
      BY <2>1 DEF Apart
    <3>2. AllMentionedPut(Lines(file), put')
      BY <3>1, Zenon DEF AllMentionedPut
    <3> QED BY <1>4, <3>2
  <2>4. ASSUME NEW q \in Program, lists'[q] # None PROVE AllPut(lists'[q], put')
    <3>1. CASE q = p
      BY <1>2, <1>3, <2>1, <3>1 DEF Apart
    <3>2. CASE q # p
      <4>1. lists'[q] = lists[q]
        BY <1>3, <3>2
      <4>2. AllPut(lists[q], put)
        BY <2>1, <2>4, <4>1 DEF Apart
      <4>3. AllPut(lists[q], put')
        BY <4>2, Zenon DEF AllPut
      <4> QED BY <4>1, <4>3
    <3> QED BY <3>1, <3>2
  <2> QED BY <2>2, <2>3, <2>4 DEF Apart
<1> QED BY <1>5, <1>6 DEF IInv

LEMMA CreateInv ==
  ASSUME IInv, NEW p \in Program, NEW s \in Section, NEW t \in MimeType, Create(p, s, t)
  PROVE  IInv'
<1>1. Holds(p) /\ lists[p] \in [Section -> Trees]
  BY DEF Create, Holds, IInv, Types
<1>2. PICK trees, tree : trees = lists[p] /\ tree = trees[s]
  OBVIOUS
<1>3. t \notin DOMAIN tree /\ trees \in [Section -> Trees] /\ tree \in Trees /\ put' = put
  BY <1>1, <1>2 DEF Create
<1>4. PICK S \in SUBSET MimeType : tree \in [S -> Seq(App)]
  BY <1>3 DEF Trees
<1>5. PICK other : other = [u \in DOMAIN tree \union {t} |-> ListOf(tree, u)]
  OBVIOUS
<1>6. /\ other \in [S \union {t} -> Seq(App)]
      /\ \A u \in S : other[u] = tree[u]
      /\ other[t] = <<>>
  BY <1>3, <1>4, <1>5 DEF ListOf
<1>7. other \in Trees
  <2>1. S \union {t} \in SUBSET MimeType
    OBVIOUS
  <2> QED BY <1>6, <2>1, Zenon DEF Trees
<1>8. PICK new : new = [trees EXCEPT ![s] = other]
  OBVIOUS
<1>9. Edit(p, new)
  BY <1>2, <1>5, <1>8, Zenon DEF Create
<1>10. AllPut(trees, put) => PutIn(s, other, put)
  <2>1. ASSUME AllPut(trees, put), NEW u \in DOMAIN other, NEW i \in DOMAIN other[u]
        PROVE  [section |-> s, type |-> u, app |-> other[u][i]] \in put
    <3>1. u # t /\ u \in S
      BY <1>6, <2>1
    <3>2. other[u] = tree[u] /\ u \in DOMAIN tree
      BY <1>4, <1>6, <3>1
    <3> QED BY <1>2, <2>1, <3>2, Zenon DEF AllPut
  <2> QED BY <2>1, Zenon DEF PutIn
<1>11. new \in [Section -> Trees] /\ (AllPut(trees, put) => AllPut(new, put))
  BY <1>3, <1>7, <1>8, <1>10, OtherTree
<1>12. put \subseteq put' /\ put' \subseteq Association
  BY <1>3 DEF IInv, Types
<1> QED BY <1>1, <1>2, <1>3, <1>9, <1>11, <1>12, EditInv

LEMMA InsertInv ==
  ASSUME IInv, NEW p \in Program, NEW s \in Section, NEW t \in MimeType, NEW a \in App,
         Insert(p, s, t, a)
  PROVE  IInv'
<1>1. Holds(p) /\ lists[p] \in [Section -> Trees]
  BY DEF Insert, Holds, IInv, Types
<1>2. PICK trees, list, m : /\ trees = lists[p] /\ list = trees[s][t]
                            /\ m = [section |-> s, type |-> t, app |-> a]
  OBVIOUS
<1>3. /\ t \in DOMAIN trees[s] /\ trees \in [Section -> Trees]
      /\ put' = put \union {m} /\ m \in Association
  BY <1>1, <1>2 DEF Insert, Association
<1>4. list \in Seq(App)
  <2>1. trees[s] \in Trees
    BY <1>3
  <2>2. PICK S \in SUBSET MimeType : trees[s] \in [S -> Seq(App)]
    BY <2>1 DEF Trees
  <2> QED BY <1>2, <1>3, <2>2
<1>5. PICK L \in {Append(list, a), <<a>> \o list} : Edit(p, [trees EXCEPT ![s][t] = L])
  BY <1>2 DEF Insert
<1>6. L \in Seq(App) /\ \A i \in DOMAIN L : (\E j \in DOMAIN list : L[i] = list[j]) \/ L[i] = a
  <2>1. CASE L = Append(list, a)
    BY <1>4, <2>1
  <2>2. CASE L = <<a>> \o list
    <3>1. L \in Seq(App) /\ Len(L) = Len(list) + 1 /\ DOMAIN L = 1 .. Len(L) /\ L[1] = a
      BY <1>4, <2>2
    <3>2. \A i \in DOMAIN L : i = 1 \/ (i - 1 \in DOMAIN list /\ L[i] = list[i - 1])
      BY <1>4, <2>2, <3>1
    <3> QED BY <3>1, <3>2, Zenon
  <2> QED BY <2>1, <2>2
<1>7. PICK new : new = WithList(trees, s, t, L)
  OBVIOUS
<1>8. MadeOf(L, list, s, t, put')
  BY <1>2, <1>3, <1>6 DEF MadeOf
<1>9. put \subseteq put' /\ put' \subseteq Association
  BY <1>3 DEF IInv, Types
<1>10. StillPut(trees, new, put, put')
  BY <1>2, <1>3, <1>7, <1>8, <1>9, OtherList
<1> QED BY <1>1, <1>2, <1>5, <1>7, <1>9, <1>10, EditInv DEF WithList, StillPut

Rearranges(L, list) ==
  list \in Seq(App) => L \in Seq(App) /\ \A i \in DOMAIN L : \E j \in DOMAIN list : L[i] = list[j]

\* Removing and swapping items bring nothing new into a list.
LEMMA RearrangedInv ==
  ASSUME IInv, NEW p \in Program, NEW s \in Section, NEW t \in MimeType, Holds(p),
         t \in DOMAIN lists[p][s], NEW list, list = lists[p][s][t], NEW L,
         Rearranges(L, list),
         Edit(p, [lists[p] EXCEPT ![s][t] = L]), UNCHANGED put
  PROVE  IInv'
<1>1. PICK trees : trees = lists[p]
  OBVIOUS
<1>2. trees \in [Section -> Trees]
  BY <1>1 DEF Holds, IInv, Types
<1>3. list \in Seq(App)
  <2>1. trees[s] \in Trees
    BY <1>2
  <2>2. PICK S \in SUBSET MimeType : trees[s] \in [S -> Seq(App)]
    BY <2>1 DEF Trees
  <2> QED BY <1>1, <2>2
<1>4. PICK new : new = WithList(trees, s, t, L)
  OBVIOUS
<1>5. MadeOf(L, list, s, t, put)
  BY <1>3 DEF MadeOf, Rearranges
<1>6. t \in DOMAIN trees[s] /\ list = trees[s][t]
  BY <1>1
<1>7. StillPut(trees, new, put, put)
  BY <1>2, <1>4, <1>5, <1>6, OtherList
<1>8. put \subseteq put' /\ put' \subseteq Association /\ put' = put
  BY DEF IInv, Types
<1>9. Edit(p, new)
  BY <1>1, <1>4 DEF WithList
<1> QED BY <1>1, <1>7, <1>8, <1>9, EditInv DEF StillPut

LEMMA RemoveItemInv ==
  ASSUME IInv, NEW p \in Program, NEW s \in Section, NEW t \in MimeType, NEW i,
         RemoveItem(p, s, t, i)
  PROVE  IInv'
<1>1. PICK list, L : list = lists[p][s][t] /\ L = RemoveAt(list, i)
  OBVIOUS
<1>2. /\ Holds(p) /\ t \in DOMAIN lists[p][s] /\ i \in DOMAIN list /\ UNCHANGED put
      /\ Edit(p, [lists[p] EXCEPT ![s][t] = L])
  BY <1>1 DEF RemoveItem
<1>3. ASSUME list \in Seq(App)
      PROVE  L \in Seq(App) /\ \A k \in DOMAIN L : \E j \in DOMAIN list : L[k] = list[j]
  <2>1. PICK x, y : x = SubSeq(list, 1, i - 1) /\ y = SubSeq(list, i + 1, Len(list))
    OBVIOUS
  <2>2. /\ x \in Seq(App) /\ y \in Seq(App)
        /\ \A k \in DOMAIN x : k \in DOMAIN list /\ x[k] = list[k]
        /\ \A k \in DOMAIN y : k + i \in DOMAIN list /\ y[k] = list[k + i]
    BY <1>2, <1>3, <2>1
  <2>3. L = x \o y
    BY <1>1, <2>1, Zenon DEF RemoveAt
  <2>4. /\ L \in Seq(App)
        /\ \A k \in DOMAIN L : (k \in DOMAIN x /\ L[k] = x[k])
                             \/ (k - Len(x) \in DOMAIN y /\ L[k] = y[k - Len(x)])
    BY <2>2, <2>3
  <2> QED BY <2>2, <2>4, Zenon
<1>4. Rearranges(L, list)
  BY <1>3, Zenon DEF Rearranges
<1> QED BY <1>1, <1>2, <1>4, RearrangedInv

LEMMA SwapItemsInv ==
  ASSUME IInv, NEW p \in Program, NEW s \in Section, NEW t \in MimeType, NEW i, NEW j,
         SwapItems(p, s, t, i, j)
  PROVE  IInv'
<1>1. PICK list, L : list = lists[p][s][t] /\ L = [list EXCEPT ![i] = list[j], ![j] = list[i]]
  OBVIOUS
<1>2. /\ Holds(p) /\ t \in DOMAIN lists[p][s]
      /\ i \in DOMAIN list /\ j \in DOMAIN list /\ UNCHANGED put
      /\ Edit(p, [lists[p] EXCEPT ![s][t] = L])
  BY <1>1 DEF SwapItems
<1>3. ASSUME list \in Seq(App)
      PROVE  L \in Seq(App) /\ \A k \in DOMAIN L : \E l \in DOMAIN list : L[k] = list[l]
  BY <1>1, <1>2, <1>3
<1>4. Rearranges(L, list)
  BY <1>3, Zenon DEF Rearranges
<1> QED BY <1>1, <1>2, <1>4, RearrangedInv

LEMMA LoadInv ==
  ASSUME IInv, NEW p \in Program, Load(p)
  PROVE  IInv'
<1>1. PICK lines, new : lines = Lines(file) /\ new = UserLists(lines, installed)
  OBVIOUS
<1>2. /\ lists[p] = None
      /\ lists' = [lists EXCEPT ![p] = new]
      /\ UNCHANGED <<file, installed, saving, saved, mixed, put, changes>>
  BY <1>1 DEF Load, history
<1>3. Readable(lines) /\ installed \in SUBSET App
  BY <1>1 DEF IInv, Types
<1>4. new \in [Section -> Trees]
  <2>1. AllMentionedPut(lines, Association)
    BY DEF AllMentionedPut
  <2> QED BY <1>1, <1>3, <2>1, LoadedWasMentioned
<1>5. AllMentionedPut(lines, put) => AllPut(new, put)
  BY <1>1, <1>3, LoadedWasMentioned
<1>6. /\ lists' \in [Program -> [Section -> Trees] \union {None}]
      /\ lists'[p] = new
      /\ \A q \in Program \ {p} : lists'[q] = lists[q]
  BY <1>2, <1>4 DEF IInv, Types
<1>7. Lines(file)' = lines
  BY <1>1, <1>2 DEF Lines
<1>8. Types'
  <2>1. \A q \in saving' : lists'[q] # None
    BY <1>2, <1>6 DEF IInv, Types
  <2> QED BY <1>2, <1>3, <1>6, <1>7, <2>1 DEF IInv, Types
<1>9. ASSUME ~mixed' PROVE Apart'
  <2>1. Apart
    BY <1>2, <1>9 DEF IInv
  <2>2. SavesAlone'
    BY <1>1, <1>2, <1>7, <2>1 DEF Apart, SavesAlone
  <2>3. AllMentionedPut(Lines(file)', put')
    BY <1>1, <1>2, <1>7, <2>1 DEF Apart
  <2>4. ASSUME NEW q \in Program, lists'[q] # None PROVE AllPut(lists'[q], put')
    BY <1>1, <1>2, <1>5, <1>6, <2>1, <2>4 DEF Apart
  <2> QED BY <2>2, <2>3, <2>4 DEF Apart
<1> QED BY <1>8, <1>9 DEF IInv

\* A program forgets its lists.
LEMMA ForgottenTypes ==
  ASSUME Types, NEW p \in Program, Forgotten(p)
  PROVE  /\ lists' \in [Program -> [Section -> Trees] \union {None}]
         /\ lists'[p] = None
         /\ \A q \in Program \ {p} : lists'[q] = lists[q]
BY DEF Types, Forgotten

LEMMA FreeInv ==
  ASSUME IInv, NEW p \in Program, Free(p)
  PROVE  IInv'
<1>1. /\ p \notin saving /\ Forgotten(p)
      /\ UNCHANGED <<file, installed, saving, saved, mixed, put, changes>>
  BY DEF Free, Holds, history
<1>2. /\ lists' \in [Program -> [Section -> Trees] \union {None}]
      /\ lists'[p] = None
      /\ \A q \in Program \ {p} : lists'[q] = lists[q]
  BY <1>1, ForgottenTypes DEF IInv
<1>3. Lines(file)' = Lines(file)
  BY <1>1 DEF Lines
<1>4. Types'
  <2>1. \A q \in saving' : lists'[q] # None
    BY <1>1, <1>2 DEF IInv, Types
  <2> QED BY <1>1, <1>2, <1>3, <2>1 DEF IInv, Types
<1>5. ASSUME ~mixed' PROVE Apart'
  <2>1. Apart
    BY <1>1, <1>5 DEF IInv
  <2>2. SavesAlone' /\ AllMentionedPut(Lines(file)', put')
    BY <1>1, <1>3, <2>1 DEF Apart, SavesAlone
  <2>3. \A q \in Program : lists'[q] # None => AllPut(lists'[q], put')
    BY <1>1, <1>2, <2>1 DEF Apart
  <2> QED BY <2>2, <2>3 DEF Apart
<1> QED BY <1>4, <1>5 DEF IInv

LEMMA KillInv ==
  ASSUME IInv, NEW p \in Program, Kill(p)
  PROVE  IInv'
<1>1. /\ saving' = saving \ {p} /\ Forgotten(p)
      /\ UNCHANGED <<file, installed, saved, mixed, put, changes>>
  BY DEF Kill, history
<1>2. /\ lists' \in [Program -> [Section -> Trees] \union {None}]
      /\ lists'[p] = None
      /\ \A q \in Program \ {p} : lists'[q] = lists[q]
  BY <1>1, ForgottenTypes DEF IInv
<1>3. Lines(file)' = Lines(file)
  BY <1>1 DEF Lines
<1>4. Types'
  <2>1. \A q \in saving' : lists'[q] # None
    BY <1>1, <1>2 DEF IInv, Types
  <2> QED BY <1>1, <1>2, <1>3, <2>1 DEF IInv, Types
<1>5. ASSUME ~mixed' PROVE Apart'
  <2>1. Apart
    BY <1>1, <1>5 DEF IInv
  <2>2. SavesAlone' /\ AllMentionedPut(Lines(file)', put')
    BY <1>1, <1>3, <2>1 DEF Apart, SavesAlone
  <2>3. \A q \in Program : lists'[q] # None => AllPut(lists'[q], put')
    BY <1>1, <1>2, <2>1 DEF Apart
  <2> QED BY <2>2, <2>3 DEF Apart
<1> QED BY <1>4, <1>5 DEF IInv

LEMMA SaveOpenInv ==
  ASSUME IInv, NEW p \in Program, SaveOpen(p)
  PROVE  IInv'
<1>1. /\ lists[p] # None /\ file' = <<>>
      /\ mixed' = (mixed \/ saving # {})
      /\ saving' = saving \union {p}
      /\ UNCHANGED <<installed, lists, put, changes>>
  BY DEF SaveOpen, Holds
<1>2. Lines(file)' = <<>>
  BY <1>1 DEF Lines
<1>3. Readable(Lines(file)') /\ AllMentionedPut(Lines(file)', put')
  BY <1>2, EmptyText
<1>4. Types'
  BY <1>1, <1>3 DEF IInv, Types
<1>5. ASSUME ~mixed' PROVE Apart'
  <2>1. ~mixed /\ saving = {}
    BY <1>1, <1>5, Zenon
  <2>2. SavesAlone'
    BY <1>1, <1>2, <2>1 DEF SavesAlone
  <2>3. \A q \in Program : lists'[q] # None => AllPut(lists'[q], put')
    BY <1>1, <2>1 DEF IInv, Apart
  <2> QED BY <1>3, <2>2, <2>3 DEF Apart
<1> QED BY <1>4, <1>5 DEF IInv

LEMMA InstallInv ==
  ASSUME IInv, NEW a \in App, Install(a)
  PROVE  IInv'
<1>1. /\ changes < MaxChanges /\ changes' = changes + 1
      /\ installed' = SymDiff(installed, {a})
      /\ UNCHANGED <<file, lists, saving, saved, mixed, put>>
  BY DEF Install, history
<1>2. installed' \in SUBSET App
  BY <1>1 DEF SymDiff, IInv, Types
<1>3. Lines(file)' = Lines(file)
  BY <1>1 DEF Lines
<1>4. changes' \in 0 .. MaxChanges
  BY <1>1, MaxChangesAssumption DEF IInv, Types
<1>5. Types'
  BY <1>1, <1>2, <1>3, <1>4 DEF IInv, Types
<1>6. ASSUME ~mixed' PROVE Apart'
  BY <1>1, <1>3, <1>6 DEF IInv, Apart, SavesAlone
<1> QED BY <1>5, <1>6 DEF IInv

LEMMA OrderType == \A order \in SetToSeqs(MimeType) : order \in Seq(MimeType)
<1>1. Cardinality(MimeType) \in Nat
  BY MimeTypeAssumption, FS_CardinalityType
<1>2. ASSUME NEW order \in SetToSeqs(MimeType) PROVE order \in Seq(MimeType)
  <2>1. PICK n \in Nat : n = Cardinality(MimeType)
    BY <1>1
  <2>2. order \in [1 .. n -> MimeType]
    BY <2>1 DEF SetToSeqs
  <2> QED BY <2>2
<1> QED BY <1>2

\* Whatever stays of an older text behind a new one, it can be read.
LEMMA OverlaidIsReadable ==
  ASSUME NEW text, Readable(text), NEW old, Readable(old), NEW new \in Overlaid(text, old)
  PROVE  Readable(new)
<1>1. PICK S : text \in Seq(S) /\ \A line \in S : ReadableLine(line)
  BY DEF Readable
<1>2. PICK R : old \in Seq(R) /\ \A line \in R : ReadableLine(line)
  BY DEF Readable
<1>3. PICK e : e = Entry(NotAType, <<>>)
  OBVIOUS
<1>4. ReadableLine(e)
  <2>1. e.values = <<>>
    BY <1>3 DEF Entry
  <2> QED BY <2>1 DEF ReadableLine
<1> DEFINE L == S \union R \union {e}
<1>5. \A i \in 1 .. Len(old) + 1 : SubSeq(old, i, Len(old)) \in Seq(R)
  BY <1>2
<1>6. PICK tail \in Seq(R) : new = text \o tail \/ new = text \o <<e>> \o tail
  BY <1>3, <1>5, Zenon DEF Overlaid
<1>7. new \in Seq(L)
  <2>1. text \in Seq(L) /\ tail \in Seq(L) /\ e \in L
    BY <1>1
  <2> HIDE DEF L
  <2>2. text \o tail \in Seq(L) /\ text \o <<e>> \o tail \in Seq(L)
    BY <2>1
  <2> QED BY <1>6, <2>2
<1>8. \A line \in L : ReadableLine(line)
  BY <1>1, <1>2, <1>4
<1> HIDE DEF L
<1> QED BY <1>7, <1>8, Zenon DEF Readable

\* Over an empty file only the text is written.
LEMMA OverlaidEmpty ==
  ASSUME NEW text, NEW new \in Overlaid(text, <<>>), NEW S, text \in Seq(S)
  PROVE  new = text
<1>1. PICK old : old = <<>>
  OBVIOUS
<1>2. Len(old) = 0 /\ \A i \in 1 .. Len(old) + 1 : SubSeq(old, i, Len(old)) = old
  BY <1>1
<1>3. new = text \o old
  BY <1>1, <1>2, Zenon DEF Overlaid
<1> QED BY <1>1, <1>3

LEMMA SaveCloseInv ==
  ASSUME IInv, NEW p \in Program, SaveClose(p)
  PROVE  IInv'
<1>1. /\ p \in saving /\ saving' = saving \ {p} /\ Forgotten(p)
      /\ UNCHANGED <<installed, mixed, put, changes>>
  BY DEF SaveClose
<1>2. PICK order \in Seq(MimeType) : file' \in Overlaid(Text(lists[p], order), Lines(file))
  BY OrderType DEF SaveClose
<1>3. PICK trees, text : trees = lists[p] /\ text = Text(trees, order)
  OBVIOUS
<1>4. trees \in [Section -> Trees] /\ trees # None
  BY <1>1, <1>3 DEF IInv, Types
<1>5. /\ lists' \in [Program -> [Section -> Trees] \union {None}]
      /\ lists'[p] = None
      /\ \A q \in Program \ {p} : lists'[q] = lists[q]
  BY <1>1, ForgottenTypes DEF IInv
<1>6. Lines(file)' = file' \/ Lines(file)' = <<>>
  BY Zenon DEF Lines
<1>7. Readable(Lines(file)')
  <2>1. Readable(text)
    BY <1>3, <1>4, WrittenIsReadable
  <2>2. Readable(file')
    BY <1>2, <1>3, <2>1, OverlaidIsReadable DEF IInv, Types
  <2> QED BY <1>6, <2>2, EmptyText
<1>8. Types'
  <2>1. \A q \in saving' : lists'[q] # None
    BY <1>1, <1>5 DEF IInv, Types
  <2> QED BY <1>1, <1>5, <1>7, <2>1 DEF IInv, Types
<1>9. ASSUME ~mixed' PROVE Apart'
  <2>1. Apart
    BY <1>1, <1>9 DEF IInv
  <2>2. saving = {p} /\ Lines(file) = <<>>
    BY <1>1, <2>1 DEF Apart, SavesAlone
  <2>3. AllPut(trees, put)
    BY <1>3, <1>4, <2>1 DEF Apart, IInv, Types
  <2>4. AllMentionedPut(text, put) /\ text \in Seq(Line)
    BY <1>3, <1>4, <2>3, WrittenWasListed, TextLines
  <2>5. file' = text
    BY <1>2, <1>3, <2>2, <2>4, OverlaidEmpty
  <2>6. AllMentionedPut(Lines(file)', put')
    BY <1>1, <1>6, <2>4, <2>5, EmptyText
  <2>7. SavesAlone'
    BY <1>1, <2>2 DEF SavesAlone
  <2>8. \A q \in Program : lists'[q] # None => AllPut(lists'[q], put')
    BY <1>1, <1>5, <2>1 DEF Apart
  <2> QED BY <2>6, <2>7, <2>8 DEF Apart
<1> QED BY <1>8, <1>9 DEF IInv

-----------------------------------------------------------------------------
(* What is collected of a text in parts *)

CollectsFrom(G, base, ms, s, t, apps) ==
  /\ G[0] = base
  /\ \A k \in 1 .. Len(ms) : G[k] = Kept(s, t, apps, G[k - 1], ms[k])

LEMMA CollectedInParts ==
  ASSUME NEW E, NEW x \in Seq(E), NEW y \in Seq(E), NEW s, NEW t, NEW apps
  PROVE  \E G : /\ CollectsFrom(G, Collected(x, s, t, apps), y, s, t, apps)
               /\ Collected(x \o y, s, t, apps) = G[Len(y)]
<1>1. PICK z : z = x \o y
  OBVIOUS
<1>2. PICK n, m \in Nat : n = Len(x) /\ m = Len(y)
  OBVIOUS
<1>3. /\ z \in Seq(E) /\ Len(z) = n + m
      /\ \A k \in 1 .. n : z[k] = x[k]
      /\ \A k \in 1 .. m : z[n + k] = y[k]
  BY <1>1, <1>2
<1>4. PICK F : Collects(F, x, s, t, apps) /\ Collected(x, s, t, apps) = F[n]
  BY <1>2, FoldCollects
<1>5. PICK G : Collects(G, z, s, t, apps) /\ Collected(z, s, t, apps) = G[n + m]
  BY <1>3, FoldCollects
<1>6. F[n] = G[n]
  <2> DEFINE T == {k \in Nat : F[k] = G[k]}
  <2>1. 0 \in T
    BY <1>4, <1>5 DEF Collects
  <2>2. ASSUME NEW k \in 0 .. n - 1, k \in T PROVE k + 1 \in T
    <3>1. PICK l \in 1 .. n : l = k + 1 /\ l - 1 = k
      BY <1>2
    <3>2. l \in 1 .. Len(x) /\ l \in 1 .. Len(z) /\ z[l] = x[l]
      BY <1>2, <1>3
    <3>3. F[l] = Kept(s, t, apps, F[k], x[l]) /\ G[l] = Kept(s, t, apps, G[k], z[l])
      BY <1>4, <1>5, <3>1, <3>2, Zenon DEF Collects
    <3>4. F[k] = G[k]
      BY <2>2
    <3>5. F[l] = G[l]
      BY <3>2, <3>3, <3>4, Zenon
    <3> QED BY <3>1, <3>5
  <2>3. n \in T
    <3> HIDE DEF T
    <3>1. n \in 0 .. n
      OBVIOUS
    <3> QED BY <2>1, <2>2, <3>1, Induct
  <2> QED BY <2>3
<1> DEFINE D == [k \in 0 .. m |-> G[n + k]]
<1>7. D[0] = G[n] /\ D[m] = G[n + m]
  OBVIOUS
<1>8. ASSUME NEW k \in 1 .. m PROVE D[k] = Kept(s, t, apps, D[k - 1], y[k])
  <2>1. PICK l \in 1 .. Len(z) : l = n + k
    BY <1>3
  <2>2. l - 1 = n + (k - 1) /\ z[l] = y[k] /\ D[k] = G[l] /\ D[k - 1] = G[l - 1]
    BY <1>3, <2>1
  <2>3. G[l] = Kept(s, t, apps, G[l - 1], z[l])
    BY <1>5, Zenon DEF Collects
  <2> HIDE DEF D
  <2> QED BY <2>2, <2>3
<1> HIDE DEF D
<1>9. CollectsFrom(D, Collected(x, s, t, apps), y, s, t, apps)
  BY <1>2, <1>4, <1>6, <1>7, <1>8 DEF CollectsFrom
<1> QED BY <1>1, <1>2, <1>5, <1>7, <1>9, Zenon

\* m is none of section s and type t.
Elsewhere(m, s, t) == m.section # s \/ m.type # t

LEMMA NothingCollected ==
  ASSUME NEW E, NEW x \in Seq(E), NEW y \in Seq(E), NEW s, NEW t, NEW apps,
         \A k \in DOMAIN y : Elsewhere(y[k], s, t)
  PROVE  Collected(x \o y, s, t, apps) = Collected(x, s, t, apps)
<1>1. PICK base : base = Collected(x, s, t, apps)
  OBVIOUS
<1>2. PICK G : CollectsFrom(G, base, y, s, t, apps) /\ Collected(x \o y, s, t, apps) = G[Len(y)]
  BY <1>1, CollectedInParts
<1>3. PICK m \in Nat : m = Len(y) /\ DOMAIN y = 1 .. m
  OBVIOUS
<1> DEFINE T == {k \in Nat : G[k] = base}
<1>4. 0 \in T
  BY <1>2 DEF CollectsFrom
<1>5. ASSUME NEW k \in 0 .. m - 1, k \in T PROVE k + 1 \in T
  <2>1. PICK l \in 1 .. m : l = k + 1 /\ l - 1 = k
    BY <1>3
  <2>2. G[l] = Kept(s, t, apps, G[k], y[l])
    BY <1>2, <1>3, <2>1, Zenon DEF CollectsFrom
  <2>3. G[l] = G[k]
    BY <1>3, <2>2, Zenon DEF Kept, Elsewhere
  <2> QED BY <1>5, <2>1, <2>3
<1>6. m \in T
  <2> HIDE DEF T
  <2>1. m \in 0 .. m
    OBVIOUS
  <2> QED BY <1>4, <1>5, <2>1, Induct
<1> QED BY <1>1, <1>2, <1>3, <1>6

\* f holds those of the first k items of list that are among apps.
ReadUpTo(f, k, list, apps) ==
  \A a : Contains(f, a) <=> a \in apps /\ \E j \in 1 .. k : list[j] = a

\* What a list of one line is read as, if nothing was collected before.
LEMMA ListCollected ==
  ASSUME NEW E, NEW x \in Seq(E), NEW y \in Seq(E), NEW s, NEW t, NEW apps,
         NEW V, NEW list \in Seq(V), Len(y) = Len(list), Collected(x, s, t, apps) = <<>>,
         \A k \in DOMAIN y : y[k].section = s /\ y[k].type = t /\ y[k].app = list[k]
  PROVE  Collected(x \o y, s, t, apps) = EachOnce(list, apps)
<1>1. PICK n \in Nat : /\ n = Len(y) /\ n = Len(list) /\ DOMAIN y = 1 .. n /\ DOMAIN list = 1 .. n
                       /\ \A k \in 1 .. n : list[k] \in V
  OBVIOUS
<1>2. PICK G : CollectsFrom(G, <<>>, y, s, t, apps) /\ Collected(x \o y, s, t, apps) = G[n]
  BY <1>1, CollectedInParts
<1> DEFINE Of(i) == IF list[i] \in apps /\ \A j \in 1 .. i - 1 : list[j] # list[i]
                    THEN <<list[i]>> ELSE <<>>
           ss == [i \in DOMAIN list |-> Of(i)]
<1>3. EachOnce(list, apps) = FlattenSeq(ss)
  BY Zenon DEF EachOnce
<1>4. \A i \in 1 .. n : Of(i) \in Seq(V)
  BY <1>1
<1> HIDE DEF Of
<1>5. ss \in Seq(Seq(V)) /\ Len(ss) = n /\ \A i \in 1 .. n : ss[i] = Of(i)
  BY <1>1, <1>4
<1> HIDE DEF ss
<1>6. PICK H : Joins(H, ss) /\ FlattenSeq(ss) = H[n]
  BY <1>5, FlattenJoins
<1> DEFINE T == {k \in Nat : G[k] = H[k] /\ G[k] \in Seq(V) /\ ReadUpTo(G[k], k, list, apps)}
<1>7. 0 \in T
  <2>1. PICK f : f = G[0]
    OBVIOUS
  <2>2. f = <<>> /\ H[0] = <<>>
    BY <1>2, <1>6, <2>1 DEF CollectsFrom, Joins
  <2>3. f \in Seq(V) /\ Len(f) = 0
    BY <2>2
  <2>4. ReadUpTo(f, 0, list, apps)
    BY <2>3 DEF Contains, ReadUpTo
  <2> QED BY <2>1, <2>2, <2>3, <2>4
<1>8. ASSUME NEW k \in 0 .. n - 1, k \in T PROVE k + 1 \in T
  <2>1. PICK l \in 1 .. n : l = k + 1 /\ l - 1 = k
    BY <1>1
  <2>2. PICK f, g, a : f = G[k] /\ g = G[l] /\ a = list[l]
    OBVIOUS
  <2>3. g = Kept(s, t, apps, f, y[l]) /\ H[l] = H[k] \o Of(l)
    BY <1>1, <1>2, <1>5, <1>6, <2>1, <2>2, Zenon DEF CollectsFrom, Joins
  <2>4. g = IF a \in apps THEN HandleDefault(f, a) ELSE f
    BY <1>1, <2>2, <2>3, Zenon DEF Kept
  <2>5. f = H[k] /\ f \in Seq(V) /\ ReadUpTo(f, k, list, apps) /\ a \in V
    BY <1>1, <1>8, <2>2
  <2>6. Contains(f, a) <=> a \in apps /\ \E j \in 1 .. l - 1 : list[j] = list[l]
    BY <2>1, <2>2, <2>5 DEF ReadUpTo
  <2>7. \A j : j \in 1 .. l <=> j \in 1 .. k \/ j = l
    BY <2>1
  <2>8. CASE a \in apps /\ ~Contains(f, a)
    <3>1. Of(l) = <<a>>
      <4>1. list[l] \in apps /\ \A j \in 1 .. l - 1 : list[j] # list[l]
        BY <2>2, <2>6, <2>8, Zenon
      <4> QED BY <2>2, <4>1, Zenon DEF Of
    <3>2. g = Append(f, a)
      BY <2>4, <2>8, Zenon DEF HandleDefault
    <3>3. g = f \o <<a>> /\ g \in Seq(V) /\ Len(g) = Len(f) + 1 /\ g[Len(f) + 1] = a
          /\ Len(f) \in Nat
          /\ \A i \in 1 .. Len(f) : g[i] = f[i]
      BY <2>5, <3>2
    <3>4. ASSUME NEW b PROVE Contains(g, b) <=> Contains(f, b) \/ b = a
      <4>1. \A i : i \in 1 .. Len(g) <=> i \in 1 .. Len(f) \/ i = Len(f) + 1
        BY <3>3
      <4> QED BY <3>3, <4>1, Zenon DEF Contains
    <3>5. ReadUpTo(g, l, list, apps)
      BY <2>2, <2>5, <2>7, <2>8, <3>4, Zenon DEF ReadUpTo
    <3>6. g = H[l]
      BY <2>3, <2>5, <3>1, <3>3, Zenon
    <3>7. l \in T
      <4>1. G[l] = H[l] /\ G[l] \in Seq(V) /\ ReadUpTo(G[l], l, list, apps)
        BY <2>2, <3>3, <3>5, <3>6, Zenon
      <4>2. l \in Nat
        OBVIOUS
      <4> QED BY <4>1, <4>2, Zenon
    <3> QED BY <2>1, <3>7
  <2>9. CASE ~(a \in apps /\ ~Contains(f, a))
    <3>1. Of(l) = <<>>
      <4>1. ~(list[l] \in apps /\ \A j \in 1 .. l - 1 : list[j] # list[l])
        BY <2>2, <2>6, <2>9, Zenon
      <4> QED BY <4>1, Zenon DEF Of
    <3>2. g = f
      BY <2>4, <2>9, Zenon DEF HandleDefault
    <3>3. f \o <<>> = f
      BY <2>5
    <3>4. ReadUpTo(g, l, list, apps)
      <4>1. a \in apps => Contains(f, a)
        BY <2>9
      <4> QED BY <2>2, <2>5, <2>7, <3>2, <4>1, Zenon DEF ReadUpTo
    <3>5. g = H[l]
      BY <2>3, <2>5, <3>1, <3>2, <3>3, Zenon
    <3>6. l \in T
      <4>1. G[l] = H[l] /\ G[l] \in Seq(V) /\ ReadUpTo(G[l], l, list, apps)
        BY <2>2, <2>5, <3>2, <3>4, <3>5, Zenon
      <4>2. l \in Nat
        OBVIOUS
      <4> QED BY <4>1, <4>2, Zenon
    <3> QED BY <2>1, <3>6
  <2> QED BY <2>8, <2>9
<1>9. n \in T
  <2> HIDE DEF T
  <2>1. n \in 0 .. n
    OBVIOUS
  <2> QED BY <1>7, <1>8, <2>1, Induct
<1> QED BY <1>2, <1>3, <1>6, <1>9, Zenon

-----------------------------------------------------------------------------
(* The entry of a type in a section *)

\* The walk comes to every type once.
LEMMA OrderCovers ==
  ASSUME NEW order \in SetToSeqs(MimeType)
  PROVE  /\ order \in Seq(MimeType)
         /\ \A i, j \in DOMAIN order : order[i] = order[j] => i = j
         /\ \A t \in MimeType : \E i \in DOMAIN order : order[i] = t
<1>1. PICK n \in Nat : n = Cardinality(MimeType)
  BY MimeTypeAssumption, FS_CardinalityType
<1>2. order \in [1 .. n -> MimeType] /\ \A i, j \in 1 .. n : i # j => order[i] # order[j]
  BY <1>1 DEF SetToSeqs
<1>3. order \in Injection(1 .. n, MimeType)
  BY <1>2 DEF Injection, IsInjective
<1>4. Cardinality(1 .. n) = Cardinality(MimeType)
  BY <1>1, FS_Interval
<1>5. order \in Surjection(1 .. n, MimeType)
  BY <1>3, <1>4, MimeTypeAssumption, FS_Injection
<1> QED BY <1>2, <1>5 DEF Surjection

\* Line K of f is the entry e, and no other line is of its type.
OnlyEntry(f, K, e) == K \in DOMAIN f /\ f[K] = e /\ \A j \in DOMAIN f \ {K} : f[j].type # e.type

\* In the text of a section a type that has applications has one entry.
LEMMA SectionEntry ==
  ASSUME NEW tree \in Trees, NEW s \in Section, NEW order \in SetToSeqs(MimeType), NEW x,
         x = SectionText(tree, s, order), NEW t \in DOMAIN tree, tree[t] # <<>>
  PROVE  \E K \in 2 .. Len(x) : /\ x[K] = Entry(t, tree[t])
                               /\ \A j \in 2 .. Len(x) : j # K => x[j].type # t
<1> DEFINE OfType(i) == IF ListOf(tree, order[i]) = <<>> THEN <<>>
                        ELSE <<Entry(order[i], tree[order[i]])>>
           ss == [i \in 1 .. Len(order) |-> OfType(i)]
<1>1. PICK n \in Nat : /\ n = Len(order) /\ DOMAIN order = 1 .. n
                       /\ \A i \in 1 .. n : order[i] \in MimeType
                       /\ \A i, j \in 1 .. n : order[i] = order[j] => i = j
                       /\ \A u \in MimeType : \E i \in 1 .. n : order[i] = u
  BY OrderCovers
<1>2. PICK S \in SUBSET MimeType : tree \in [S -> Seq(App)]
  BY DEF Trees
<1>3. x = <<Header(GroupName(s))>> \o FlattenSeq(ss)
  BY Zenon DEF SectionText
<1>4. PICK i0 \in 1 .. n : order[i0] = t
  <2>1. t \in MimeType
    BY <1>2
  <2> QED BY <1>1, <2>1
<1>5. PICK e : e = Entry(t, tree[t])
  OBVIOUS
<1> DEFINE E == {Entry(u, tree[u]) : u \in DOMAIN tree}
<1>6. ASSUME NEW i \in 1 .. n
      PROVE  OfType(i) = <<>> \/ \E y \in E : OfType(i) = <<y>> /\ y.type = order[i]
  <2>1. CASE OfType(i) = <<>>
    BY <2>1, Zenon
  <2>2. CASE OfType(i) # <<>>
    <3>1. OfType(i) = <<Entry(order[i], tree[order[i]])>> /\ order[i] \in DOMAIN tree
      BY <2>2, Zenon DEF ListOf
    <3>2. PICK y : y = Entry(order[i], tree[order[i]])
      OBVIOUS
    <3>3. y.type = order[i]
      BY <3>2 DEF Entry
    <3> QED BY <3>1, <3>2, <3>3, Zenon
  <2> QED BY <2>1, <2>2
<1>7. OfType(i0) = <<e>> /\ e \in E /\ e.type = t
  <2>1. ListOf(tree, order[i0]) # <<>>
    BY <1>4, Zenon DEF ListOf
  <2>2. OfType(i0) = <<e>> /\ e \in E
    BY <1>4, <1>5, <2>1, Zenon
  <2>3. e.type = t
    BY <1>5 DEF Entry
  <2> QED BY <2>2, <2>3
<1> HIDE DEF OfType, E
<1>8. ASSUME NEW i \in 1 .. n PROVE OfType(i) \in Seq(E)
  <2>1. PICK z : z = OfType(i)
    OBVIOUS
  <2>2. z = <<>> \/ \E y \in E : z = <<y>>
    BY <1>6, <2>1, Zenon
  <2>3. CASE z = <<>>
    BY <2>1, <2>3
  <2>4. CASE \E y \in E : z = <<y>>
    <3>1. PICK y \in E : z = <<y>>
      BY <2>4
    <3>2. <<y>> \in Seq(E)
      OBVIOUS
    <3> QED BY <2>1, <3>1, <3>2, Zenon
  <2> QED BY <2>2, <2>3, <2>4
<1>9. ss \in Seq(Seq(E)) /\ Len(ss) = n /\ \A i \in 1 .. n : ss[i] = OfType(i)
  BY <1>1, <1>8
<1> HIDE DEF ss
<1>10. PICK H : Joins(H, ss) /\ FlattenSeq(ss) = H[n]
  BY <1>9, FlattenJoins
<1> DEFINE Before(f) == \A j \in DOMAIN f : f[j].type # t
           T == {k \in Nat : /\ H[k] \in Seq(E)
                             /\ k < i0 => Before(H[k])
                             /\ k >= i0 => \E K : OnlyEntry(H[k], K, e)}
<1>11. 0 \in T
  <2>1. PICK f : f = H[0]
    OBVIOUS
  <2>2. f = <<>>
    BY <1>10, <2>1 DEF Joins
  <2>3. f \in Seq(E) /\ DOMAIN f = {} /\ 0 < i0 /\ ~(0 >= i0)
    BY <1>1, <2>2
  <2> QED BY <2>1, <2>3, Zenon
<1>12. ASSUME NEW k \in 0 .. n - 1, k \in T PROVE k + 1 \in T
  <2>1. PICK l \in 1 .. n : l = k + 1 /\ l - 1 = k
    BY <1>1
  <2>2. PICK f, g, y : f = H[k] /\ g = H[l] /\ y = OfType(l)
    OBVIOUS
  <2>3. g = f \o y
    <3>1. l \in 1 .. Len(ss)
      BY <1>9
    <3>2. H[l] = H[l - 1] \o ss[l]
      BY <1>10, <3>1, Zenon DEF Joins
    <3> QED BY <1>9, <2>1, <2>2, <3>2, Zenon
  <2>4. f \in Seq(E) /\ (k < i0 => Before(f)) /\ (k >= i0 => \E K : OnlyEntry(f, K, e))
    BY <1>12, <2>2
  <2>5. /\ l \in Nat /\ (l < i0 => k < i0 /\ l # i0)
        /\ (l >= i0 /\ l # i0 => k >= i0) /\ (l = i0 => k < i0)
        /\ (k >= i0 => l # i0 /\ l >= i0) /\ (k < i0 => l < i0 \/ l = i0)
        /\ (k < i0 \/ k >= i0) /\ (l < i0 \/ l >= i0) /\ ~(l < i0 /\ l >= i0)
    <3>1. k \in Nat /\ l \in Nat /\ i0 \in Nat /\ l = k + 1
      BY <2>1
    <3> HIDE DEF T
    <3> QED BY ONLY <3>1
  <2>6. l # i0 => order[l] # t
    BY <1>1, <1>4, Zenon
  <2>7. g \in Seq(E) /\ (l < i0 => Before(g)) /\ (l >= i0 => \E K : OnlyEntry(g, K, e))
    <3>1. CASE y = <<>>
      <4>1. g = f
        BY <2>3, <2>4, <3>1
      <4>2. l # i0
        <5>1. <<e>> # <<>>
          OBVIOUS
        <5> QED BY <1>7, <2>2, <3>1, <5>1, Zenon
      <4> QED BY <2>4, <2>5, <4>1, <4>2, Zenon
    <3>2. CASE y # <<>>
      <4>1. PICK z \in E : y = <<z>> /\ z.type = order[l]
        BY <1>6, <2>2, <3>2
      <4>2. PICK m \in Nat : m = Len(f) /\ DOMAIN f = 1 .. m
        BY <2>4
      <4>3. /\ g \in Seq(E) /\ DOMAIN g = 1 .. m + 1 /\ g[m + 1] = z
            /\ \A j \in 1 .. m : g[j] = f[j]
        <5>1. g = f \o <<z>>
          BY <2>3, <4>1, Zenon
        <5>2. f \in Seq(E) /\ z \in E
          BY <2>4
        <5> QED BY ONLY <4>2, <5>1, <5>2
      <4>4. ASSUME l < i0 PROVE Before(g)
        <5>1. z.type # t
          BY <2>5, <2>6, <4>1, <4>4, Zenon
        <5>2. \A j \in 1 .. m + 1 : j \in 1 .. m \/ j = m + 1
          OBVIOUS
        <5>3. \A j \in 1 .. m : f[j].type # t
          BY <2>4, <2>5, <4>2, <4>4
        <5> QED BY <4>3, <5>1, <5>2, <5>3, Zenon
      <4>5. ASSUME l = i0 PROVE OnlyEntry(g, m + 1, e)
        <5>1. z = e
          <6>1. <<z>> = <<e>>
            BY <1>7, <2>2, <4>1, <4>5, Zenon
          <6> QED BY <6>1
        <5>2. \A j \in (1 .. m + 1) \ {m + 1} : j \in 1 .. m
          OBVIOUS
        <5>3. \A j \in 1 .. m : f[j].type # t
          BY <2>4, <2>5, <4>2, <4>5
        <5>4. m + 1 \in 1 .. m + 1
          OBVIOUS
        <5> QED BY <1>7, <4>3, <5>1, <5>2, <5>3, <5>4, Zenon DEF OnlyEntry
      <4>6. ASSUME l >= i0, l # i0 PROVE \E K : OnlyEntry(g, K, e)
        <5>1. PICK K : OnlyEntry(f, K, e)
          BY <2>4, <2>5, <4>6
        <5>2. z.type # t
          BY <2>6, <4>1, <4>6
        <5>3. K \in 1 .. m /\ f[K] = e /\ \A j \in 1 .. m : j # K => f[j].type # t
          BY <1>7, <4>2, <5>1 DEF OnlyEntry
        <5>4. \A j \in 1 .. m + 1 : j \in 1 .. m \/ j = m + 1
          OBVIOUS
        <5>5. K \in 1 .. m + 1
          BY <5>3
        <5>6. e.type = t /\ K # m + 1
          BY <1>7, <5>3
        <5>7. g[K] = e
          BY <4>3, <5>3, Zenon
        <5>8. ASSUME NEW j \in DOMAIN g \ {K} PROVE g[j].type # e.type
          <6>1. j \in 1 .. m + 1 /\ j # K
            BY <4>3
          <6>2. CASE j \in 1 .. m
            BY <4>3, <5>3, <5>6, <6>1, <6>2, Zenon
          <6>3. CASE j = m + 1
            BY <4>3, <5>2, <5>6, <6>3, Zenon
          <6> QED BY <5>4, <6>1, <6>2, <6>3, Zenon
        <5> QED BY <4>3, <5>5, <5>7, <5>8, Zenon DEF OnlyEntry
      <4> QED BY <4>3, <4>4, <4>5, <4>6, Zenon
    <3> QED BY <3>1, <3>2
  <2>8. l \in T
    <3>1. H[l] \in Seq(E) /\ (l < i0 => Before(H[l])) /\ (l >= i0 => \E K : OnlyEntry(H[l], K, e))
      BY <2>2, <2>7, Zenon
    <3> QED BY <2>5, <3>1, Zenon
  <2> QED BY <2>1, <2>8
<1>13. n \in T
  <2> HIDE DEF T
  <2>1. n \in 0 .. n
    OBVIOUS
  <2> QED BY <1>11, <1>12, <2>1, Induct
<1>14. PICK f, h : f = FlattenSeq(ss) /\ h = Header(GroupName(s))
  OBVIOUS
<1>15. f \in Seq(E) /\ \E K : OnlyEntry(f, K, e)
  <2>1. n >= i0
    OBVIOUS
  <2> QED BY <1>10, <1>13, <1>14, <2>1
<1>16. PICK K : OnlyEntry(f, K, e)
  BY <1>15
<1>17. PICK m \in Nat : m = Len(f) /\ DOMAIN f = 1 .. m
  BY <1>15
<1>18. K \in 1 .. m /\ f[K] = e /\ \A j \in 1 .. m : j # K => f[j].type # t
  BY <1>7, <1>16, <1>17 DEF OnlyEntry
<1>19. /\ Len(x) = m + 1
       /\ \A j \in 2 .. m + 1 : x[j] = f[j - 1]
  <2>1. x = <<h>> \o f
    BY <1>3, <1>14
  <2>2. f \in Seq(E \union {h}) /\ <<h>> \in Seq(E \union {h})
    BY <1>15
  <2> QED BY <1>17, <2>1, <2>2
<1>20. K + 1 \in 2 .. m + 1 /\ x[K + 1] = e
  <2>1. K + 1 - 1 = K /\ K + 1 \in 2 .. m + 1
    BY <1>18
  <2> QED BY <1>18, <1>19, <2>1
<1>21. ASSUME NEW j \in 2 .. m + 1, j # K + 1 PROVE x[j].type # t
  <2>1. j - 1 \in 1 .. m /\ j - 1 # K
    BY <1>18, <1>21
  <2> QED BY <1>18, <1>19, <2>1
<1> QED BY <1>5, <1>19, <1>20, <1>21, Zenon

\* Line K of x is the entry of type t in section s that the reader hands over, and no
\* other entry that it reads there is of that type.
ReadEntry(x, K, s, t, list) ==
  /\ K \in 1 .. Len(x) /\ x[K] = Entry(t, list)
  /\ HandlerAt(x, K) = s /\ Reached(x, K)
  /\ \A i \in 1 .. Len(x) : i # K /\ x[i].kind = "entry" =>
       HandlerAt(x, i) # s \/ x[i].type # t

\* In a text that is written a type that has applications in a section which the reader
\* knows has one entry there.
LEMMA TextEntry ==
  ASSUME NEW trees \in [Section -> Trees], NEW order \in SetToSeqs(MimeType), NEW x,
         x = Text(trees, order), NEW s \in {"added", "default"}, NEW t \in DOMAIN trees[s],
         trees[s][t] # <<>>
  PROVE  \E K : ReadEntry(x, K, s, t, trees[s][t])
<1>1. order \in Seq(MimeType) /\ s \in Section /\ trees[s] \in Trees
  BY OrderCovers DEF Section
<1>2. PICK a, d, r : PartsOf(x, trees, order, a, d, r)
  BY <1>1, TextParts
<1>3. /\ a \in Seq(Line) /\ d \in Seq(Line) /\ r \in Seq(Line)
      /\ x \in Seq(Line) /\ Len(x) = Len(a) + Len(d) + Len(r)
  BY <1>2, Zenon DEF PartsOf
<1>4. PICK k, l, m \in Nat : k = Len(a) /\ l = Len(d) /\ m = Len(r)
  BY <1>3
<1>5. PICK y, b, h : /\ y = SectionText(trees[s], s, order)
                     /\ \/ s = "added" /\ y = a /\ b = 0 /\ h = k
                        \/ s = "default" /\ y = d /\ b = k /\ h = l
  BY <1>2, <1>4, Zenon DEF PartsOf
<1>6. PICK q \in Nat : q = k + l
  OBVIOUS
<1>7. Len(x) = q + m /\ Len(x) \in Nat
  BY <1>3, <1>4, <1>6
<1>8. b \in Nat /\ h \in Nat /\ h = Len(y) /\ b + h <= q
  <2>1. CASE s = "added" /\ y = a /\ b = 0 /\ h = k
    BY <1>4, <1>6, <2>1
  <2>2. CASE s = "default" /\ y = d /\ b = k /\ h = l
    BY <1>4, <1>6, <2>2
  <2> QED BY <1>5, <2>1, <2>2
<1>9. y = SectionText(trees[s], s, order)
  BY <1>5
\* The part, and what is beside it.
<1>10. PartIn(x, y, b, s)
  BY <1>2, <1>4, <1>5, Zenon DEF PartsOf
<1>11. /\ \A i \in 1 .. k : HandlerAt(x, 0 + i) = "added"
       /\ \A i \in 1 .. l : HandlerAt(x, k + i) = "default"
       /\ \A i \in 1 .. m : HandlerAt(x, q + i) = "none"
  BY <1>2, <1>4, <1>6, Zenon DEF PartIn, PartsOf
<1>12. ASSUME NEW i \in 1 .. Len(x)
       PROVE  /\ i <= q => HandlerAt(x, i) \in {"added", "default"}
              /\ i <= b \/ i > b + h => HandlerAt(x, i) # s
  <2>1. CASE i \in 1 .. k
    BY <1>5, <1>11, <2>1
  <2>2. CASE i \in k + 1 .. q
    <3>1. i - k \in 1 .. l /\ k + (i - k) = i
      BY <1>6, <2>2
    <3>2. HandlerAt(x, i) = "default"
      BY <1>11, <3>1
    <3> QED BY <1>5, <1>6, <2>2, <3>2
  <2>3. CASE i > q
    <3>1. i - q \in 1 .. m /\ q + (i - q) = i
      BY <1>7, <2>3
    <3>2. HandlerAt(x, i) = "none"
      BY <1>11, <3>1
    <3> QED BY <2>3, <3>2
  <2> QED BY <1>6, <2>1, <2>2, <2>3
<1>13. PICK list : list = trees[s][t]
  OBVIOUS
<1>14. /\ y # <<>> => y[1] = Header(GroupName(s))
       /\ \A i \in 2 .. Len(y) : EntryOf(trees[s], y[i])
  BY <1>1, <1>9, SectionTextLines
<1>15. PICK j \in 2 .. h : /\ y[j] = Entry(t, list)
                           /\ \A i \in 2 .. h : i # j => y[i].type # t
  BY <1>1, <1>8, <1>9, <1>13, SectionEntry
<1>16. PICK K : K = b + j
  OBVIOUS
<1>17. K \in 1 .. Len(x) /\ K <= q
  <2>1. j \in Nat /\ 2 <= j /\ j <= h
    BY <1>8
  <2> QED BY ONLY <1>7, <1>8, <1>16, <2>1, q \in Nat, m \in Nat
<1>18. x[K] = Entry(t, list) /\ HandlerAt(x, K) = s
  <2>1. j \in 1 .. Len(y)
    BY <1>8
  <2> QED BY <1>10, <1>15, <1>16, <2>1, Zenon DEF PartIn
<1>19. Reached(x, K)
  <2>1. \A i \in 1 .. K : i \in 1 .. Len(x) /\ i <= q
    <3>1. PICK N \in Nat : N = Len(x) /\ K \in 1 .. N /\ K <= q
      BY <1>7, <1>17
    <3>2. \A i \in 1 .. K : i \in 1 .. N /\ i <= q
      BY ONLY <3>1, q \in Nat, N \in Nat
    <3> QED BY <3>1, <3>2, Zenon
  <2>2. "none" \notin {"added", "default"}
    OBVIOUS
  <2> QED BY <1>12, <2>1, <2>2, Zenon DEF Reached
<1>20. ASSUME NEW i \in 1 .. Len(x), i # K, x[i].kind = "entry", HandlerAt(x, i) = s
       PROVE  x[i].type # t
  <2>1. i > b /\ i <= b + h
    <3>1. ~(i <= b \/ i > b + h)
      BY <1>12, <1>20, Zenon
    <3> QED BY <1>8, <3>1
  <2>2. PICK e \in 1 .. h : b + e = i /\ e # j
    <3>1. i \in Nat /\ b \in Nat /\ h \in Nat /\ j \in Nat /\ i # b + j
      BY <1>7, <1>8, <1>16, <1>20
    <3>2. PICK e : e = i - b
      OBVIOUS
    <3>3. e \in 1 .. h /\ b + e = i /\ e # j
      BY ONLY <2>1, <3>1, <3>2
    <3> QED BY <3>3
  <2>3. x[i] = y[e]
    <3>1. e \in 1 .. Len(y)
      BY <1>8
    <3> QED BY <1>10, <2>2, <3>1, Zenon DEF PartIn
  <2>4. e # 1
    <3>1. Header(GroupName(s)).kind = "header"
      BY DEF Header
    <3>2. "header" # "entry" /\ y # <<>>
      BY <1>8, <1>15
    <3> QED BY <1>14, <1>20, <2>3, <3>1, <3>2, Zenon
  <2>5. e \in 2 .. h
    BY <2>2, <2>4
  <2> QED BY <1>15, <2>2, <2>3, <2>5, Zenon
<1> QED BY <1>13, <1>17, <1>18, <1>19, <1>20, Zenon DEF ReadEntry

-----------------------------------------------------------------------------
(* What is written is what is read *)

LEMMA WrittenIsRead ==
  ASSUME NEW x, Readable(x), NEW s, NEW t \in MimeType, NEW apps, NEW V, NEW list \in Seq(V),
         Len(list) <= LineRoom, NEW K, ReadEntry(x, K, s, t, list)
  PROVE  Collected(Mentions(x), s, t, apps) = EachOnce(list, apps)
<1>1. PICK ss \in Seq(Seq(Mention)) : /\ Len(ss) = Len(x)
                                      /\ \A i \in DOMAIN x : ss[i] = OfLine(x, i)
                                      /\ Mentions(x) = FlattenSeq(ss)
  BY MentionsJoin
<1>2. PICK n \in Nat : /\ n = Len(x) /\ n = Len(ss) /\ DOMAIN x = 1 .. n
                       /\ \A i \in 1 .. n : ReadableLine(x[i])
  <2>1. PICK S : x \in Seq(S) /\ \A line \in S : ReadableLine(line)
    BY DEF Readable
  <2> QED BY <1>1, <2>1
<1>3. PICK H : Joins(H, ss) /\ FlattenSeq(ss) = H[n]
  BY <1>2, FlattenJoins
<1>4. K \in 1 .. n /\ x[K] = Entry(t, list)
  BY <1>2, Zenon DEF ReadEntry
<1>5. PICK once : once = EachOnce(list, apps)
  OBVIOUS
\* The entry is read whole, and no other line changes the list.
<1>6. ASSUME NEW i \in 1 .. n, i # K
      PROVE  \A j \in DOMAIN OfLine(x, i) : Elsewhere(OfLine(x, i)[j], s, t)
  <2>1. ASSUME NEW j \in DOMAIN OfLine(x, i) PROVE Elsewhere(OfLine(x, i)[j], s, t)
    <3>1. HandedOver(x, i) /\ MentionAt(x, i, j, OfLine(x, i)[j])
      BY <1>2, LineIsRead
    <3>2. HandlerAt(x, i) # s \/ x[i].type # t
      BY <1>2, <1>6, <3>1, Zenon DEF HandedOver, ReadEntry
    <3>3. PICK m : m = OfLine(x, i)[j]
      OBVIOUS
    <3>4. m.section = HandlerAt(x, i) /\ m.type = x[i].type
      BY <3>1, <3>3 DEF MentionAt
    <3> QED BY <3>2, <3>3, <3>4, Zenon DEF Elsewhere
  <2> QED BY <2>1
<1>7. /\ Len(OfLine(x, K)) = Len(list)
      /\ \A j \in DOMAIN OfLine(x, K) :
           /\ OfLine(x, K)[j].section = s /\ OfLine(x, K)[j].type = t
           /\ OfLine(x, K)[j].app = list[j]
  <2>1. x[K].kind = "entry" /\ x[K].type = t /\ x[K].values = list
    BY <1>4 DEF Entry
  <2>2. Chunk(list) = list
    BY Zenon DEF Chunk
  <2>3. PICK of : of = OfLine(x, K)
    OBVIOUS
  <2>4. of = [j \in 1 .. Len(list) |-> [section |-> s, type |-> t, app |-> list[j]]]
    BY <2>1, <2>2, <2>3, Zenon DEF OfLine, ReadEntry
  <2>5. /\ Len(of) = Len(list)
        /\ \A j \in DOMAIN of : of[j].section = s /\ of[j].type = t /\ of[j].app = list[j]
    BY <2>4
  <2> QED BY <2>3, <2>5, Zenon
<1> DEFINE T == {k \in Nat : /\ H[k] \in Seq(Mention)
                             /\ k < K => Collected(H[k], s, t, apps) = <<>>
                             /\ k >= K => Collected(H[k], s, t, apps) = once}
<1>8. 0 \in T
  <2>1. PICK f : f = H[0]
    OBVIOUS
  <2>2. f = <<>>
    BY <1>3, <2>1 DEF Joins
  <2>3. f \in Seq(Mention) /\ Len(f) = 0
    BY <2>2
  <2>4. PICK G : Collects(G, f, s, t, apps) /\ Collected(f, s, t, apps) = G[0]
    BY <2>3, FoldCollects
  <2>5. Collected(f, s, t, apps) = <<>>
    BY <2>4, Zenon DEF Collects
  <2>6. ~(0 >= K)
    BY <1>4
  <2> QED BY <2>1, <2>3, <2>5, <2>6, Zenon
<1>9. ASSUME NEW k \in 0 .. n - 1, k \in T PROVE k + 1 \in T
  <2>1. PICK l \in 1 .. n : l = k + 1 /\ l - 1 = k
    OBVIOUS
  <2>2. PICK f, g, y : f = H[k] /\ g = H[l] /\ y = OfLine(x, l)
    OBVIOUS
  <2>3. g = f \o y
    <3>1. H[l] = H[l - 1] \o ss[l]
      BY <1>2, <1>3, <2>1, Zenon DEF Joins
    <3> QED BY <1>1, <1>2, <2>1, <2>2, <3>1, Zenon
  <2>4. /\ f \in Seq(Mention)
        /\ k < K => Collected(f, s, t, apps) = <<>>
        /\ k >= K => Collected(f, s, t, apps) = once
    BY <1>9, <2>2
  <2>5. /\ l \in Nat /\ ~(l < K /\ l >= K) /\ (l < K \/ l >= K)
        /\ (l < K => k < K /\ l # K) /\ (l >= K /\ l # K => k >= K) /\ (l = K => k < K)
    <3>1. k \in Nat /\ l \in Nat /\ K \in Nat /\ l = k + 1
      BY <1>4, <2>1
    <3> QED BY ONLY <3>1
  <2>6. y \in Seq(Mention)
    BY <1>2, <2>2, LineIsRead
  <2>7. g \in Seq(Mention)
    BY ONLY <2>3, <2>4, <2>6
  <2>8. CASE l = K
    <3>1. Collected(f \o y, s, t, apps) = EachOnce(list, apps)
      <4>1. Len(y) = Len(list)
        BY <1>7, <2>2, <2>8, Zenon
      <4>2. \A j \in DOMAIN y : y[j].section = s /\ y[j].type = t /\ y[j].app = list[j]
        BY <1>7, <2>2, <2>8, Zenon
      <4>3. Collected(f, s, t, apps) = <<>>
        BY <2>4, <2>5, <2>8, Zenon
      <4> HIDE DEF T
      <4> QED BY <2>4, <2>6, <4>1, <4>2, <4>3, ListCollected, SMTT(30)
    <3>2. Collected(g, s, t, apps) = once
      BY <1>5, <2>3, <3>1, Zenon
    <3>3. /\ H[l] \in Seq(Mention)
          /\ l < K => Collected(H[l], s, t, apps) = <<>>
          /\ l >= K => Collected(H[l], s, t, apps) = once
      BY <2>2, <2>5, <2>7, <2>8, <3>2, Zenon
    <3> QED BY <2>1, <2>5, <3>3, Zenon
  <2>9. CASE l # K
    <3>1. \A j \in DOMAIN y : Elsewhere(y[j], s, t)
      BY <1>6, <2>2, <2>9, Zenon
    <3>2. Collected(g, s, t, apps) = Collected(f, s, t, apps)
      <4> HIDE DEF T
      <4> QED BY <2>3, <2>4, <2>6, <3>1, NothingCollected
    <3>3. /\ H[l] \in Seq(Mention)
          /\ l < K => Collected(H[l], s, t, apps) = <<>>
          /\ l >= K => Collected(H[l], s, t, apps) = once
      BY <2>2, <2>4, <2>5, <2>7, <2>9, <3>2, Zenon
    <3> QED BY <2>1, <2>5, <3>3, Zenon
  <2> QED BY <2>8, <2>9
<1>10. n \in T
  <2> HIDE DEF T
  <2>1. n \in 0 .. n
    OBVIOUS
  <2> QED BY <1>8, <1>9, <2>1, Induct
<1>11. Collected(H[n], s, t, apps) = once
  <2>1. n >= K
    BY <1>4
  <2> QED BY <1>10, <2>1
<1> QED BY <1>1, <1>3, <1>5, <1>11, Zenon

LEMMA NothingIsRead ==
  ASSUME NEW trees \in [Section -> Trees], NEW order \in Seq(MimeType), NEW x,
         x = Text(trees, order), NEW s \in {"added", "default"}, NEW t \in MimeType,
         ListOf(trees[s], t) = <<>>, NEW apps
  PROVE  Collected(Mentions(x), s, t, apps) = <<>>
<1>1. Readable(x)
  BY WrittenIsReadable
<1>2. PICK ms, L : ms = Mentions(x) /\ L = Collected(ms, s, t, apps)
  OBVIOUS
<1>3. ms \in Seq(Mention)
  BY <1>1, <1>2, MentionsAre
<1>4. /\ L \in Seq(apps)
      /\ \A i \in DOMAIN L : \E k \in DOMAIN ms : ms[k].section = s /\ ms[k].type = t
  BY <1>2, <1>3, CollectedIsMentioned
<1>5. ASSUME NEW k \in DOMAIN ms, ms[k].section = s, ms[k].type = t PROVE FALSE
  <2>1. PICK m : m = ms[k]
    OBVIOUS
  <2>2. PICK i \in DOMAIN x : /\ HandedOver(x, i)
                              /\ \E j \in DOMAIN Chunk(x[i].values) : MentionAt(x, i, j, m)
    BY <1>1, <1>2, <2>1, MentionsAre, Zenon
  <2>3. PICK j \in DOMAIN Chunk(x[i].values) : MentionAt(x, i, j, m)
    BY <2>2
  <2>4. HandlerAt(x, i) = s /\ x[i].type = t
    <3>1. m.section = HandlerAt(x, i) /\ m.type = x[i].type
      BY <2>3 DEF MentionAt
    <3> QED BY <1>5, <2>1, <3>1
  <2>5. x \in Seq(Line)
    BY TextLines
  <2>6. i \in 1 .. Len(x)
    BY <2>5
  <2>7. PICK u \in Section : HandlerAt(x, i) = SectionOf(GroupName(u)) /\ EntryOf(trees[u], x[i])
    BY <2>2, <2>6, TextLines, Zenon DEF HandedOver
  <2>8. u = s
    <3>1. u = "added" \/ u = "default" \/ u = "removed"
      BY DEF Section
    <3>2. "none" \notin {"added", "default"} /\ (s = "added" \/ s = "default")
      OBVIOUS
    <3> QED BY <2>4, <2>7, <3>1, <3>2, GroupNames, Zenon
  <2>9. PICK v \in DOMAIN trees[s] : x[i] = Entry(v, trees[s][v])
    BY <2>7, <2>8, Zenon DEF EntryOf
  <2>10. x[i].type = v /\ x[i].values = trees[s][v]
    BY <2>9 DEF Entry
  <2>11. x[i].values = <<>>
    BY <2>4, <2>9, <2>10, Zenon DEF ListOf
  <2>12. Chunk(<<>>) = <<>>
    BY LineRoomAssumption DEF Chunk
  <2>13. Chunk(x[i].values) = <<>>
    BY <2>11, <2>12, Zenon
  <2> QED BY <2>3, <2>13
<1>6. L = <<>>
  <2>1. DOMAIN L = {}
    BY <1>4, <1>5, Zenon
  <2> QED BY <1>4, <2>1
<1> QED BY <1>2, <1>6

LEMMA NothingOnce ==
  ASSUME NEW apps
  PROVE  EachOnce(<<>>, apps) = <<>>
<1>1. PICK list : list = <<>>
  OBVIOUS
<1> DEFINE ss == [i \in DOMAIN list |->
                    IF list[i] \in apps /\ \A j \in 1 .. i - 1 : list[j] # list[i]
                    THEN <<list[i]>> ELSE <<>>]
<1>2. EachOnce(list, apps) = FlattenSeq(ss)
  BY Zenon DEF EachOnce
<1>3. DOMAIN list = 1 .. 0
  BY <1>1
<1>4. ss \in Seq(Seq(apps)) /\ Len(ss) = 0
  BY <1>3
<1> HIDE DEF ss
<1>5. PICK H : Joins(H, ss) /\ FlattenSeq(ss) = H[0]
  BY <1>4, FlattenJoins
<1> QED BY <1>1, <1>2, <1>5, Zenon DEF Joins

\* What a load finds in a text that was written: for every type of a section that the
\* reader knows the applications of the lists that are installed, in their order.
LEMMA Reloaded ==
  ASSUME NEW trees \in [Section -> Trees], NEW order \in SetToSeqs(MimeType), NEW x,
         x = Text(trees, order), NEW s \in {"added", "default"}, NEW t \in MimeType, NEW apps,
         NEW list, list = ListOf(trees[s], t), Len(list) <= LineRoom
  PROVE  ListOf(UserLists(x, apps)[s], t) = EachOnce(list, apps)
<1>1. order \in Seq(MimeType) /\ s \in Section
  BY OrderCovers DEF Section
<1>2. PICK loaded : loaded = UserLists(x, apps)[s]
  OBVIOUS
<1>3. loaded = [u \in UserTypes(x, s) |-> Collected(Mentions(x), s, u, apps)]
  BY <1>1, <1>2, Zenon DEF UserLists
<1>4. CASE list = <<>>
  <2>1. Collected(Mentions(x), s, t, apps) = <<>>
    BY <1>1, <1>4, NothingIsRead
  <2>2. ListOf(loaded, t) = <<>>
    <3>1. CASE t \in UserTypes(x, s)
      BY <1>3, <2>1, <3>1, Zenon DEF ListOf
    <3>2. CASE t \notin UserTypes(x, s)
      BY <1>3, <3>2, Zenon DEF ListOf
    <3> QED BY <3>1, <3>2
  <2>3. EachOnce(list, apps) = <<>>
    BY <1>4, NothingOnce, Zenon
  <2> QED BY <1>2, <2>2, <2>3
<1>5. CASE list # <<>>
  <2>1. t \in DOMAIN trees[s] /\ list = trees[s][t]
    BY <1>5, Zenon DEF ListOf
  <2>2. PICK K : ReadEntry(x, K, s, t, list)
    BY <1>5, <2>1, TextEntry
  <2>3. list \in Seq(App)
    <3>1. trees[s] \in Trees
      BY <1>1
    <3>2. PICK S \in SUBSET MimeType : trees[s] \in [S -> Seq(App)]
      BY <3>1 DEF Trees
    <3> QED BY <2>1, <3>2
  <2>4. Readable(x)
    BY <1>1, WrittenIsReadable
  <2>5. Collected(Mentions(x), s, t, apps) = EachOnce(list, apps)
    BY <2>2, <2>3, <2>4, WrittenIsRead
  <2>6. t \in UserTypes(x, s)
    <3>1. x[K].kind = "entry" /\ x[K].type = t
      <4>1. x[K] = Entry(t, list)
        BY <2>2, Zenon DEF ReadEntry
      <4> QED BY <4>1 DEF Entry
    <3> QED BY <2>2, <3>1, Zenon DEF ReadEntry, UserTypes
  <2>7. ListOf(loaded, t) = EachOnce(list, apps)
    BY <1>3, <2>5, <2>6, Zenon DEF ListOf
  <2> QED BY <1>2, <2>7
<1> QED BY <1>4, <1>5

-----------------------------------------------------------------------------
(* Theorems *)

LEMMA NextInv == IInv /\ [Next]_vars => IInv'
<1> SUFFICES ASSUME IInv, [Next]_vars PROVE IInv'
  OBVIOUS
<1>1. ASSUME NEW p \in Program, Load(p) PROVE IInv'
  BY <1>1, LoadInv
<1>2. ASSUME NEW p \in Program, Free(p) PROVE IInv'
  BY <1>2, FreeInv
<1>3. ASSUME NEW p \in Program, SaveOpen(p) PROVE IInv'
  BY <1>3, SaveOpenInv
<1>4. ASSUME NEW p \in Program, SaveClose(p) PROVE IInv'
  BY <1>4, SaveCloseInv
<1>5. ASSUME NEW p \in Program, Kill(p) PROVE IInv'
  BY <1>5, KillInv
<1>6. ASSUME NEW p \in Program, NEW s \in Section, NEW t \in MimeType, Create(p, s, t)
      PROVE  IInv'
  BY <1>6, CreateInv
<1>7. ASSUME NEW p \in Program, NEW s \in Section, NEW t \in MimeType, NEW a \in App,
             Insert(p, s, t, a)
      PROVE  IInv'
  BY <1>7, InsertInv
<1>8. ASSUME NEW p \in Program, NEW s \in Section, NEW t \in MimeType, NEW i,
             RemoveItem(p, s, t, i)
      PROVE  IInv'
  BY <1>8, RemoveItemInv
<1>9. ASSUME NEW p \in Program, NEW s \in Section, NEW t \in MimeType, NEW i, NEW j,
             SwapItems(p, s, t, i, j)
      PROVE  IInv'
  BY <1>9, SwapItemsInv
<1>10. ASSUME NEW a \in App, Install(a) PROVE IInv'
  BY <1>10, InstallInv
<1>11. ASSUME UNCHANGED vars PROVE IInv'
  BY <1>11 DEF vars, IInv, Types, Apart, SavesAlone, Lines
<1> QED BY <1>1, <1>2, <1>3, <1>4, <1>5, <1>6, <1>7, <1>8, <1>9, <1>10, <1>11, Zenon DEF Next

LEMMA InvHolds == Spec => []IInv
BY InitInv, NextInv, PTL DEF Spec

\* The lists of programs hold applications for types, and the text of the file stays one
\* that can be read.
THEOREM TypeCorrect == Spec => []TypeOK
<1>1. IInv => TypeOK
  <2> SUFFICES ASSUME IInv PROVE TypeOK
    OBVIOUS
  <2>1. ASSUME NEW p \in Program, lists[p] # None, NEW s \in Section
        PROVE  /\ DOMAIN lists[p][s] \subseteq MimeType
               /\ \A t \in DOMAIN lists[p][s] : lists[p][s][t] \in Seq(App)
    <3>1. lists[p][s] \in Trees
      BY <2>1 DEF IInv, Types
    <3>2. PICK S \in SUBSET MimeType : lists[p][s] \in [S -> Seq(App)]
      BY <3>1 DEF Trees
    <3> QED BY <3>2
  <2> QED BY <2>1 DEF TypeOK, IInv, Types
<1> QED BY <1>1, InvHolds, PTL

\* Whatever programs load, edit and save, none of them alone moves an application to a
\* section or a type where nobody has put it.
THEOREM NoneMovesApart == Spec => []SectionsStayApart
<1>1. IInv => SectionsStayApart
  BY Zenon DEF IInv, Apart, AllPut, SectionsStayApart
<1> QED BY <1>1, InvHolds, PTL

\* The file holds what a program has written from its lists, if one alone did.
SavedIsText ==
  saved # None =>
    /\ saved \in [Section -> Trees]
    /\ \E order \in SetToSeqs(MimeType) : file = Text(saved, order)

LEMMA TextInv == IInv /\ SavedIsText /\ [Next]_vars => SavedIsText'
<1> SUFFICES ASSUME IInv, SavedIsText, [Next]_vars PROVE SavedIsText'
  OBVIOUS
<1>1. ASSUME UNCHANGED <<file, saved>> PROVE SavedIsText'
  BY <1>1, Zenon DEF SavedIsText
<1>2. ASSUME NEW p \in Program, SaveOpen(p) PROVE SavedIsText'
  BY <1>2, Zenon DEF SaveOpen, SavedIsText
<1>3. ASSUME NEW p \in Program, SaveClose(p) PROVE SavedIsText'
  <2>1. CASE mixed
    BY <1>3, <2>1, Zenon DEF SaveClose, SavedIsText
  <2>2. CASE ~mixed
    <3>1. PICK trees : trees = lists[p]
      OBVIOUS
    <3>2. p \in saving /\ saved' = trees
      BY <1>3, <2>2, <3>1, Zenon DEF SaveClose
    <3>3. trees \in [Section -> Trees]
      BY <3>1, <3>2 DEF IInv, Types
    <3>4. Lines(file) = <<>>
      BY <2>2, <3>2 DEF IInv, Apart, SavesAlone
    <3>5. PICK order \in SetToSeqs(MimeType) : file' \in Overlaid(Text(trees, order), <<>>)
      BY <1>3, <3>1, <3>4, Zenon DEF SaveClose
    <3>6. PICK x : x = Text(trees, order)
      OBVIOUS
    <3>7. x \in Seq(Line)
      BY <3>3, <3>6, OrderCovers, TextLines
    <3>8. file' = x
      BY <3>5, <3>6, <3>7, OverlaidEmpty
    <3> QED BY <3>2, <3>3, <3>6, <3>8, Zenon DEF SavedIsText
  <2> QED BY <2>1, <2>2
<1>4. ASSUME NEW p \in Program, Load(p) \/ Free(p) \/ Kill(p) PROVE UNCHANGED <<file, saved>>
  BY <1>4 DEF Load, Free, Kill, history
<1>5. ASSUME NEW p \in Program, NEW s \in Section, NEW t \in MimeType,
             \/ Create(p, s, t)
             \/ \E a \in App : Insert(p, s, t, a)
             \/ \E i : RemoveItem(p, s, t, i) \/ \E j : SwapItems(p, s, t, i, j)
      PROVE  UNCHANGED <<file, saved>>
  <2>1. \A newLists : Edit(p, newLists) => UNCHANGED <<file, saved>>
    BY DEF Edit
  <2> QED BY <1>5, <2>1, Zenon DEF Create, Insert, RemoveItem, SwapItems
<1>6. ASSUME NEW a \in App, Install(a) PROVE UNCHANGED <<file, saved>>
  BY <1>6 DEF Install, history
<1>7. ASSUME UNCHANGED vars PROVE UNCHANGED <<file, saved>>
  BY <1>7 DEF vars
<1> QED BY <1>1, <1>2, <1>3, <1>4, <1>5, <1>6, <1>7, Zenon DEF Next

\* What a program saves, with no other save at the same time, the next load finds: in the
\* sections whose headers the reader knows, for every type, the applications that are
\* installed by then, in their order and each once, unless the list is longer than a line.
THEOREM WhatIsSavedIsLoaded == Spec => []SavedIsReloaded
<1>1. Init => SavedIsText
  BY Zenon DEF Init, SavedIsText
<1>2. SavedIsText => SavedIsReloaded
  <2> SUFFICES ASSUME SavedIsText, saved # None,
                      NEW s \in {"added", "default"}, NEW t \in MimeType,
                      NEW list, list = ListOf(saved[s], t), Len(list) <= LineRoom
               PROVE  ListOf(UserLists(file, installed)[s], t) = EachOnce(list, installed)
    BY Zenon DEF SavedIsReloaded
  <2>1. PICK order \in SetToSeqs(MimeType) : file = Text(saved, order)
    BY Zenon DEF SavedIsText
  <2>2. PICK trees, x : trees = saved /\ x = file
    OBVIOUS
  <2>3. trees \in [Section -> Trees] /\ x = Text(trees, order) /\ list = ListOf(trees[s], t)
    BY <2>1, <2>2, Zenon DEF SavedIsText
  <2>4. ListOf(UserLists(x, installed)[s], t) = EachOnce(list, installed)
    BY <2>3, Reloaded
  <2> QED BY <2>2, <2>4, Zenon
<1> QED BY <1>1, <1>2, InvHolds, TextInv, PTL DEF Spec
=============================================================================
