------------------------------ MODULE Themes_proofs -----------------------------
(***************************************************************************)
(* Proofs about Themes, for any environments, index files, icon files and  *)
(* requests, and any number of changes: a search passes over no icon that  *)
(* was there all the time.                                                 *)
(*                                                                         *)
(* The first part is about reading: whatever the order of the files, the   *)
(* themes get the parents that the files name.  Of the search there is no  *)
(* record but its stack: a call has searched its theme and, below it, all  *)
(* themes that follow from those it has gone on to, and found nothing.     *)
(***************************************************************************)
EXTENDS Themes, TLAPS, FiniteSetTheorems, SequenceTheorems, WellFoundedInduction

-----------------------------------------------------------------------------
(* Recursion over the naturals *)

\* Of naturals there is a least one.
LEMMA LeastNatural ==
  ASSUME NEW T, T \subseteq Nat, T # {}
  PROVE  \E x \in T : \A y \in T : x <= y
<1> DEFINE Below(x) == 0 .. x - 1
           U == {Below(x) : x \in T}
<1>1. \A x \in T : Below(x) \in SUBSET Nat /\ IsFiniteSet(Below(x))
  BY FS_Interval
<1> HIDE DEF Below
<1>2. U \subseteq FiniteSubsetsOf(Nat) /\ U # {}
  BY <1>1 DEF FiniteSubsetsOf
<1>3. PICK b \in U : \A c \in U : ~(<<c, b>> \in StrictSubsetOrdering(Nat))
  <2> HIDE DEF U
  <2> QED BY <1>2, WFMin, FS_StrictSubsetOrderingWellFounded
<1>4. PICK x \in T : b = Below(x)
  OBVIOUS
<1>5. ASSUME NEW y \in T, y < x PROVE FALSE
  <2>1. Below(y) \subseteq Below(x) /\ y \in Below(x) /\ y \notin Below(y)
    BY <1>5 DEF Below
  <2>2. <<Below(y), Below(x)>> \in StrictSubsetOrdering(Nat)
    BY <1>1, <2>1 DEF StrictSubsetOrdering
  <2> QED BY <1>3, <1>4, <2>2
<1> QED BY <1>5

\* Induction over the first n naturals, with a set for the predicate.
LEMMA Induct ==
  ASSUME NEW n \in Nat, NEW T, 0 \in T, \A k \in 0 .. n - 1 : k \in T => k + 1 \in T
  PROVE  \A k \in 0 .. n : k \in T
<1> DEFINE U == {k \in 0 .. n : k \notin T}
<1> SUFFICES ASSUME U # {} PROVE FALSE
  OBVIOUS
<1>1. PICK k \in U : \A j \in U : k <= j
  <2>1. U \subseteq Nat
    OBVIOUS
  <2> HIDE DEF U
  <2> QED BY <2>1, LeastNatural
<1>2. k # 0 /\ k - 1 \in 0 .. n - 1 /\ k - 1 \notin U
  BY <1>1
<1> QED BY <1>1, <1>2

-----------------------------------------------------------------------------
(* Sequences *)

\* What is in two sequences one after the other.
LEMMA ConcatElements ==
  ASSUME NEW U, NEW a \in Seq(U), NEW b \in Seq(U)
  PROVE  a \o b \in Seq(U) /\ ToSet(a \o b) = ToSet(a) \union ToSet(b)
<1>1. a \o b \in Seq(U) /\ Len(a \o b) = Len(a) + Len(b) /\ Len(a) \in Nat /\ Len(b) \in Nat
  OBVIOUS
<1>2. DOMAIN a = 1 .. Len(a) /\ DOMAIN b = 1 .. Len(b) /\ DOMAIN (a \o b) = 1 .. Len(a) + Len(b)
  BY <1>1
<1>3. \A i \in 1 .. Len(a) : (a \o b)[i] = a[i] /\ i \in 1 .. Len(a) + Len(b)
  BY <1>1
<1>4. \A i \in 1 .. Len(b) : (a \o b)[Len(a) + i] = b[i] /\ Len(a) + i \in 1 .. Len(a) + Len(b)
  BY <1>1
<1>5. ASSUME NEW x \in ToSet(a \o b) PROVE x \in ToSet(a) \union ToSet(b)
  <2>1. PICK i \in 1 .. Len(a) + Len(b) : x = (a \o b)[i]
    BY <1>2, <1>5 DEF ToSet
  <2>2. CASE i \in 1 .. Len(a)
    BY <1>2, <1>3, <2>1, <2>2 DEF ToSet
  <2>3. CASE i \notin 1 .. Len(a)
    <3>1. PICK j : j = i - Len(a)
      OBVIOUS
    <3>2. j \in 1 .. Len(b) /\ i = Len(a) + j
      BY <1>1, <2>1, <2>3, <3>1
    <3>3. x = b[j]
      BY <1>4, <2>1, <3>2
    <3> QED BY <1>2, <3>2, <3>3 DEF ToSet
  <2> QED BY <2>2, <2>3
<1>6. ASSUME NEW x \in ToSet(a) PROVE x \in ToSet(a \o b)
  BY <1>2, <1>3, <1>6, Zenon DEF ToSet
<1>7. ASSUME NEW x \in ToSet(b) PROVE x \in ToSet(a \o b)
  BY <1>2, <1>4, <1>7, Zenon DEF ToSet
<1> QED BY <1>1, <1>5, <1>6, <1>7, Zenon

\* A sequence is one of whatever its elements are in.
LEMMA SeqIs ==
  ASSUME NEW s, IsSeq(s), NEW U, ToSet(s) \subseteq U
  PROVE  s \in Seq(U)
<1>1. Len(s) \in Nat /\ s = [i \in 1 .. Len(s) |-> s[i]]
  BY DEF IsSeq
<1>2. PICK n \in Nat : s = [i \in 1 .. n |-> s[i]]
  BY <1>1, Zenon
<1>3. \A i \in 1 .. n : s[i] \in U
  <2>1. DOMAIN s = 1 .. n
    BY <1>2
  <2> QED BY <2>1 DEF ToSet
<1>4. s \in [1 .. n -> U]
  BY <1>2, <1>3
<1> QED BY <1>4, SeqDef

\* F holds what the sequences make together, F[k] the first k of them.
JoinsTo(F, ss, k) == F = [i \in 1 .. k |-> IF i = 1 THEN ss[i] ELSE F[i - 1] \o ss[i]]

\* There is such a function for every length.
LEMMA JoinsExist ==
  ASSUME NEW ss, NEW n \in Nat
  PROVE  \E F : JoinsTo(F, ss, n)
<1> DEFINE T == {k \in Nat : \E F : JoinsTo(F, ss, k)}
<1>1. 0 \in T
  <2> DEFINE F0 == [i \in 1 .. 0 |-> <<>>]
  <2>1. 1 .. 0 = {}
    OBVIOUS
  <2>2. JoinsTo(F0, ss, 0)
    BY <2>1 DEF JoinsTo
  <2> QED BY <2>2
<1>2. ASSUME NEW k \in 0 .. n - 1, k \in T PROVE k + 1 \in T
  <2>1. PICK F1 : JoinsTo(F1, ss, k)
    BY <1>2
  <2> DEFINE F2 == [i \in 1 .. k + 1 |->
                      IF i = k + 1 THEN IF i = 1 THEN ss[i] ELSE F1[k] \o ss[i] ELSE F1[i]]
  <2>2. ASSUME NEW i \in 1 .. k + 1
        PROVE  F2[i] = IF i = 1 THEN ss[i] ELSE F2[i - 1] \o ss[i]
    <3>1. CASE i = k + 1
      <4>1. i = 1 \/ (i - 1 \in 1 .. k + 1 /\ i - 1 # k + 1 /\ i - 1 = k)
        BY <3>1
      <4> QED BY <3>1, <4>1
    <3>2. CASE i # k + 1
      <4>1. i \in 1 .. k /\ (i = 1 \/ (i - 1 \in 1 .. k + 1 /\ i - 1 # k + 1))
        BY <3>2
      <4>2. F1[i] = IF i = 1 THEN ss[i] ELSE F1[i - 1] \o ss[i]
        BY <2>1, <4>1 DEF JoinsTo
      <4> QED BY <3>2, <4>1, <4>2
    <3> QED BY <3>1, <3>2
  <2>3. F2 = [i \in 1 .. k + 1 |-> F2[i]]
    OBVIOUS
  <2> HIDE DEF F2
  <2>4. JoinsTo(F2, ss, k + 1)
    BY <2>2, <2>3, Zenon DEF JoinsTo
  <2> QED BY <2>4
<1> HIDE DEF T
<1>3. n \in T
  BY <1>1, <1>2, Induct
<1> QED BY <1>3 DEF T

\* What is in the sequence they make is what is in them.
LEMMA FlattenElements ==
  ASSUME NEW U, NEW ss \in Seq(Seq(U))
  PROVE  /\ FlattenSeq(ss) \in Seq(U)
         /\ ToSet(FlattenSeq(ss)) = UNION {ToSet(ss[i]) : i \in DOMAIN ss}
<1> DEFINE n == Len(ss)
           F == CHOOSE F : JoinsTo(F, ss, n)
           Of(k) == UNION {ToSet(ss[i]) : i \in 1 .. k}
           T == {k \in 0 .. n : k # 0 => F[k] \in Seq(U) /\ ToSet(F[k]) = Of(k)}
<1>1. n \in Nat /\ DOMAIN ss = 1 .. n /\ \A i \in 1 .. n : ss[i] \in Seq(U)
  OBVIOUS
<1> HIDE DEF n
<1>2. JoinsTo(F, ss, n)
  BY <1>1, JoinsExist
<1>3. n # 0 => FlattenSeq(ss) = F[n]
  <2> USE DEF n
  <2> QED BY Zenon DEF FlattenSeq, JoinsTo
<1> HIDE DEF F
<1>4. 0 \in T
  BY <1>1
<1>5. ASSUME NEW k \in 0 .. n - 1, k \in T PROVE k + 1 \in T
  <2>1. k + 1 \in 1 .. n /\ k \in Nat
    BY <1>1
  <2>2. PICK l \in 1 .. n : l = k + 1 /\ l - 1 = k /\ (l = 1 <=> k = 0)
    BY <2>1
  <2>3. F[l] = IF l = 1 THEN ss[l] ELSE F[l - 1] \o ss[l]
    BY <1>2 DEF JoinsTo
  <2>4. Of(l) = Of(k) \union ToSet(ss[l])
    <3>1. 1 .. l = 1 .. k \union {l}
      BY <2>1, <2>2
    <3> QED BY <3>1
  <2>5. k = 0 => Of(k) = {}
    OBVIOUS
  <2>6. CASE k = 0
    BY <1>1, <2>2, <2>3, <2>4, <2>5, <2>6
  <2>7. CASE k # 0
    <3>1. F[l] = F[k] \o ss[l] /\ F[k] \in Seq(U) /\ ToSet(F[k]) = Of(k) /\ ss[l] \in Seq(U)
      BY <1>1, <1>5, <2>2, <2>3, <2>7
    <3>2. F[l] \in Seq(U) /\ ToSet(F[l]) = Of(l)
      <4> HIDE DEF Of
      <4> QED BY <2>4, <3>1, ConcatElements
    <3>3. l \in 0 .. n
      BY <1>1
    <3> QED BY <2>2, <3>2, <3>3
  <2> QED BY <2>6, <2>7
<1>6. n \in T
  <2> HIDE DEF T
  <2>1. n \in 0 .. n
    BY <1>1
  <2> QED BY <1>1, <1>4, <1>5, <2>1, Induct
<1>7. CASE n = 0
  <2>1. ss = <<>>
    BY <1>7 DEF n
  <2>2. FlattenSeq(ss) = ss
    BY <1>7, Zenon DEF FlattenSeq, n
  <2>3. ToSet(ss) = {} /\ {ToSet(ss[i]) : i \in DOMAIN ss} = {}
    BY <1>1, <1>7 DEF ToSet
  <2>4. ss \in Seq(U)
    BY <2>1
  <2> QED BY <2>2, <2>3, <2>4
<1>8. CASE n # 0
  <2>1. F[n] \in Seq(U) /\ ToSet(F[n]) = Of(n)
    BY <1>6, <1>8
  <2> QED BY <1>1, <1>3, <1>8, <2>1
<1> QED BY <1>7, <1>8

\* The sequence of a finite set has its elements and no others.
LEMMA SetToSeqElements ==
  ASSUME NEW S, IsFiniteSet(S)
  PROVE  SetToSeq(S) \in Seq(S) /\ ToSet(SetToSeq(S)) = S
<1> DEFINE n == Cardinality(S)
           f == SetToSeq(S)
<1>1. n \in Nat /\ ExistsBijection(1 .. n, S)
  BY FS_CardinalityType
<1> HIDE DEF n
<1>2. \E g \in [1 .. n -> S] : IsInjective(g)
  <2>1. PICK g \in Bijection(1 .. n, S) : TRUE
    BY <1>1 DEF ExistsBijection
  <2>2. g \in [1 .. n -> S] /\ \A a, b \in 1 .. n : g[a] = g[b] => a = b
    BY <2>1 DEF Bijection, Injection, IsInjective
  <2> QED BY <2>2 DEF IsInjective
<1>3. f \in [1 .. n -> S] /\ IsInjective(f)
  BY <1>2, Zenon DEF SetToSeq, n
<1> HIDE DEF f
<1> DEFINE R == {f[i] : i \in 1 .. n}
<1>4. f \in Surjection(1 .. n, R) /\ f \in Injection(1 .. n, R)
  <2>1. f \in [1 .. n -> R]
    BY <1>3
  <2>2. \A r \in R : \E i \in 1 .. n : f[i] = r
    BY <1>3
  <2> HIDE DEF R
  <2> QED BY <1>3, <2>1, <2>2, Zenon DEF Surjection, Injection
<1>5. IsFiniteSet(1 .. n) /\ Cardinality(1 .. n) = n
  BY <1>1, FS_Interval
<1>6. Cardinality(R) = n
  <2> HIDE DEF R
  <2> QED BY <1>4, <1>5, FS_Surjection
<1>7. R \subseteq S
  BY <1>3
<1>8. R = S
  <2> HIDE DEF R
  <2> QED BY <1>6, <1>7, FS_Subset DEF n
<1>9. f \in Seq(S) /\ DOMAIN f = 1 .. n
  BY <1>1, <1>3, SeqDef
<1> QED BY <1>8, <1>9 DEF ToSet, f

-----------------------------------------------------------------------------
(* What reading an index file adds *)

\* The values of the entries of a theme are in U.
Grouped(groups, U) == \A g \in DOMAIN groups : \A k \in DOMAIN groups[g] : groups[g][k] \in Seq(U)

\* Neither a new group nor a new entry changes what the values are.
LEMMA GroupsStayGrouped ==
  ASSUME NEW groups, NEW U, Grouped(groups, U), NEW theme, theme.groups = groups, NEW g
  PROVE  /\ Grouped(<<>>, U)
         /\ Grouped([h \in DOMAIN groups \union {g} |-> IF h \in DOMAIN groups THEN groups[h]
              ELSE <<>>], U)
         /\ \A key : \A values \in Seq(U) :
              Grouped([groups EXCEPT ![g] = WithValues(groups[g], key, values)], U)
<1>1. DOMAIN <<>> = {} /\ <<>> \in Seq(U)
  OBVIOUS
<1>2. Grouped(<<>>, U)
  BY <1>1 DEF Grouped
<1>3. Grouped([h \in DOMAIN groups \union {g} |-> IF h \in DOMAIN groups THEN groups[h] ELSE <<>>],
        U)
  BY <1>1 DEF Grouped
<1>4. ASSUME NEW key, NEW values \in Seq(U)
      PROVE  Grouped([groups EXCEPT ![g] = WithValues(groups[g], key, values)], U)
  <2> DEFINE new == [groups EXCEPT ![g] = WithValues(groups[g], key, values)]
  <2>1. ASSUME NEW h \in DOMAIN new, NEW k \in DOMAIN new[h] PROVE new[h][k] \in Seq(U)
    <3>1. h \in DOMAIN groups
      OBVIOUS
    <3>2. CASE h # g
      <4>1. new[h] = groups[h]
        BY <3>1, <3>2
      <4> HIDE DEF new
      <4> QED BY <2>1, <3>1, <4>1, Zenon DEF Grouped
    <3>3. CASE h = g
      <4>1. new[h] = WithValues(groups[g], key, values)
        BY <3>1, <3>3
      <4> HIDE DEF new
      <4>2. At(groups[g], key) \in Seq(U)
        BY <1>1, <3>1, <3>3, Zenon DEF At, Grouped
      <4>3. At(groups[g], key) \o values \in Seq(U)
        BY <4>2
      <4>4. new[h] = [j \in DOMAIN groups[g] \union {key} |->
                       IF j = key THEN At(groups[g], key) \o values ELSE groups[g][j]]
        BY <4>1, Zenon DEF WithValues
      <4>5. CASE k = key
        BY <2>1, <4>3, <4>4, <4>5
      <4>6. CASE k # key
        <5>1. k \in DOMAIN groups[g] /\ new[h][k] = groups[g][k]
          BY <2>1, <4>4, <4>6
        <5> QED BY <3>1, <3>3, <5>1, Zenon DEF Grouped
      <4> QED BY <4>5, <4>6
    <3> QED BY <3>2, <3>3
  <2> HIDE DEF new
  <2>2. Grouped(new, U)
    BY <2>1 DEF Grouped
  <2> QED BY <2>2 DEF new
<1> QED BY <1>2, <1>3, <1>4

\* The themes that were read, with values and parents in U.
IsThemes(ts, U) ==
  /\ ts = [n \in DOMAIN ts |-> ts[n]]
  /\ \A n \in DOMAIN ts : /\ ts[n] = [groups |-> ts[n].groups, parents |-> ts[n].parents]
                          /\ ts[n].parents \in Seq(U) /\ Grouped(ts[n].groups, U)

ParentsIn(ts, n) == IF n \in DOMAIN ts THEN ToSet(ts[n].parents) ELSE {}

\* ts2 has these names and all of ts1 besides, and theme name these parents more.
Adds(ts1, ts2, names, name, parents) ==
  /\ DOMAIN ts2 = DOMAIN ts1 \union names
  /\ \A n : ParentsIn(ts2, n) = ParentsIn(ts1, n) \union (IF n = name THEN parents ELSE {})

\* Themes are added without values and parents.
LEMMA WithThemesAdds ==
  ASSUME NEW ts, NEW U, IsThemes(ts, U), NEW names, NEW name
  PROVE  IsThemes(WithThemes(ts, names), U) /\ Adds(ts, WithThemes(ts, names), names, name, {})
<1> DEFINE new == WithThemes(ts, names)
<1>1. /\ new = [n \in DOMAIN ts \union names |-> IF n \in DOMAIN ts THEN ts[n] ELSE Bare]
  BY DEF WithThemes
<1> HIDE DEF new
<1>2. DOMAIN new = DOMAIN ts \union names
  BY <1>1
<1>3. \A n \in DOMAIN ts : new[n] = ts[n] /\ n \in DOMAIN new
  BY <1>1, <1>2
<1>4. \A n \in DOMAIN new \ DOMAIN ts : new[n] = Bare
  BY <1>1, <1>2
<1>5. /\ Bare = [groups |-> Bare.groups, parents |-> Bare.parents]
      /\ Bare.parents \in Seq(U) /\ ToSet(Bare.parents) = {} /\ Grouped(Bare.groups, U)
  <2>1. Bare.parents = <<>> /\ Bare.groups = <<>> /\
          Bare = [groups |-> Bare.groups, parents |-> Bare.parents]
    BY DEF Bare
  <2>2. DOMAIN <<>> = {}
    OBVIOUS
  <2> QED BY <2>1, <2>2 DEF ToSet, Grouped
<1>6. IsThemes(new, U)
  <2>1. new = [n \in DOMAIN new |-> new[n]]
    BY <1>1, <1>2
  <2>2. ASSUME NEW n \in DOMAIN new
        PROVE  /\ new[n] = [groups |-> new[n].groups, parents |-> new[n].parents]
               /\ new[n].parents \in Seq(U) /\ Grouped(new[n].groups, U)
    BY <1>3, <1>4, <1>5, <2>2, Zenon DEF IsThemes
  <2> QED BY <2>1, <2>2, Zenon DEF IsThemes
<1>7. ASSUME NEW n PROVE ParentsIn(new, n) = ParentsIn(ts, n)
  BY <1>2, <1>3, <1>4, <1>5, Zenon DEF ParentsIn
<1>8. Adds(ts, new, names, name, {})
  BY <1>2, <1>7 DEF Adds
<1> QED BY <1>6, <1>8 DEF new

\* A theme gets other groups, and perhaps more parents.
LEMMA ThemeAdds ==
  ASSUME NEW ts, NEW U, IsThemes(ts, U), NEW name \in DOMAIN ts, NEW theme,
         theme = [groups |-> theme.groups, parents |-> theme.parents], NEW more \in Seq(U),
         theme.parents = ts[name].parents \o more, Grouped(theme.groups, U)
  PROVE  /\ IsThemes([ts EXCEPT ![name] = theme], U)
         /\ Adds(ts, [ts EXCEPT ![name] = theme], {}, name, ToSet(more))
<1> DEFINE new == [ts EXCEPT ![name] = theme]
<1>1. ts = [n \in DOMAIN ts |-> ts[n]]
  BY DEF IsThemes
<1>2. /\ DOMAIN new = DOMAIN ts
      /\ new[name] = theme
      /\ \A n \in DOMAIN ts \ {name} : new[n] = ts[n]
      /\ new = [n \in DOMAIN new |-> new[n]]
  OBVIOUS
<1> HIDE DEF new
<1>3. theme.parents \in Seq(U) /\ ToSet(theme.parents) = ToSet(ts[name].parents) \union ToSet(more)
  <2>1. ts[name].parents \in Seq(U)
    BY DEF IsThemes
  <2> QED BY <2>1, ConcatElements
<1>4. IsThemes(new, U)
  <2>1. ASSUME NEW n \in DOMAIN new
        PROVE  /\ new[n] = [groups |-> new[n].groups, parents |-> new[n].parents]
               /\ new[n].parents \in Seq(U) /\ Grouped(new[n].groups, U)
    BY <1>2, <1>3, <2>1, Zenon DEF IsThemes
  <2> QED BY <1>2, <2>1, Zenon DEF IsThemes
<1>5. ASSUME NEW n
      PROVE  ParentsIn(new, n) = ParentsIn(ts, n) \union (IF n = name THEN ToSet(more) ELSE {})
  <2>1. CASE n = name
    BY <1>2, <1>3, <2>1 DEF ParentsIn
  <2>2. CASE n # name
    BY <1>2, <2>2 DEF ParentsIn
  <2> QED BY <2>1, <2>2
<1>6. Adds(ts, new, {}, name, ToSet(more))
  BY <1>2, <1>5 DEF Adds
<1> QED BY <1>4, <1>6 DEF new

\* What two steps add, one after the other.
LEMMA AddsJoin ==
  ASSUME NEW a, NEW b, NEW c, NEW names1, NEW names2, NEW name, NEW parents1, NEW parents2,
         Adds(a, b, names1, name, parents1), Adds(b, c, names2, name, parents2)
  PROVE  Adds(a, c, names1 \union names2, name, parents1 \union parents2)
  BY DEF Adds

\* The lines before the i-th put a reader below a header with "]", ...
InGroup(lines, i) ==
  \E h \in 1 .. i : IsHeader(lines[h]) /\ lines[h].header # Null /\
    \A k \in (h + 1) .. i : ~IsHeader(lines[k])

\* ... and these parents and sub directories are named in the lines up to the i-th.
Told(lines, i) ==
  UNION {ToSet(Chunk(lines[j].values)) : j \in {j \in 1 .. i : NamesParents(lines, j)}}
DirsTold(lines, i) ==
  UNION {ToSet(Chunk(lines[j].values)) : j \in {j \in 1 .. i : NamesSubDirs(lines, j)}}

\* The lines of an index file: what is read of the values of its entries is in U.
Readable(lines, U) ==
  /\ Len(lines) \in Nat
  /\ \A i \in 1 .. Len(lines) : ~IsHeader(lines[i]) => Chunk(lines[i].values) \in Seq(U)

\* What the buffer leaves of values is some of them, and the name it has cut.
LEMMA ChunkIs ==
  ASSUME NEW U, CutName \in U, NEW values \in Seq(U)
  PROVE  Chunk(values) \in Seq(U)
<1> USE LineRoomAssumption
<1>1. CASE Len(values) <= LineRoom
  BY <1>1 DEF Chunk
<1>2. CASE ~(Len(values) <= LineRoom)
  <2>1. PICK c : c = SubSeq(values, 1, LineRoom)
    OBVIOUS
  <2>2. c \in Seq(U)
    BY <1>2, <2>1
  <2>3. Chunk(values) = c \o <<CutName>>
    BY <1>2, <2>1, Zenon DEF Chunk
  <2> QED BY <2>2, <2>3
<1> QED BY <1>1, <1>2

\* What one more line makes of that.
LEMMA IsReadNext ==
  ASSUME NEW lines, NEW i \in Nat
  PROVE  /\ IsRead(lines, 0) /\ ~InGroup(lines, 0) /\ Told(lines, 0) = {}
         /\ IsRead(lines, i + 1) <=>
              IsRead(lines, i) /\ (IsHeader(lines[i + 1]) \/ InGroup(lines, i + 1))
         /\ IsHeader(lines[i + 1]) => (InGroup(lines, i + 1) <=> lines[i + 1].header # Null)
         /\ ~IsHeader(lines[i + 1]) => (InGroup(lines, i + 1) <=> InGroup(lines, i))
         /\ Told(lines, i + 1) = Told(lines, i) \union
              (IF NamesParents(lines, i + 1) THEN ToSet(Chunk(lines[i + 1].values)) ELSE {})
<1>1. \A m \in Nat : IsRead(lines, m) <=> \A j \in 1 .. m : IsHeader(lines[j]) \/ InGroup(lines, j)
  BY Zenon DEF IsRead, InGroup
<1>2. 1 .. 0 = {}
  OBVIOUS
<1>3. PICK l \in Nat : l = i + 1
  OBVIOUS
<1>4. 1 .. l = 1 .. i \union {l} /\ l \in 1 .. l /\ l \notin 1 .. i
  BY <1>3
<1>5. IsRead(lines, 0) /\ ~InGroup(lines, 0) /\ Told(lines, 0) = {}
  <2>1. IsRead(lines, 0) /\ ~InGroup(lines, 0)
    BY <1>1, <1>2 DEF InGroup
  <2>2. Told(lines, 0) = {}
    BY <1>2 DEF Told
  <2> QED BY <2>1, <2>2
<1>6. IsRead(lines, l) <=> IsRead(lines, i) /\ (IsHeader(lines[l]) \/ InGroup(lines, l))
  BY <1>1, <1>4, Zenon
<1>7. IsHeader(lines[l]) => (InGroup(lines, l) <=> lines[l].header # Null)
  <2>1. \A h \in 1 .. i : l \in (h + 1) .. l
    BY <1>3
  <2>2. (l + 1) .. l = {}
    BY <1>3
  <2> QED BY <1>4, <2>1, <2>2, Zenon DEF InGroup
<1>8. ~IsHeader(lines[l]) => (InGroup(lines, l) <=> InGroup(lines, i))
  <2>1. \A h \in 1 .. i : (h + 1) .. l = (h + 1) .. i \union {l}
    BY <1>3
  <2> QED BY <1>4, <2>1, Zenon DEF InGroup
<1>9. Told(lines, l) =
        Told(lines, i) \union (IF NamesParents(lines, l) THEN ToSet(Chunk(lines[l].values)) ELSE {})
  <2>1. {j \in 1 .. l : NamesParents(lines, j)} =
          {j \in 1 .. i : NamesParents(lines, j)} \union
            (IF NamesParents(lines, l) THEN {l} ELSE {})
    BY <1>4
  <2> QED BY <2>1 DEF Told
<1> QED BY <1>3, <1>5, <1>6, <1>7, <1>8, <1>9, Zenon

\* The same of the sub directories.
LEMMA DirsNext ==
  ASSUME NEW lines, NEW i \in Nat
  PROVE  /\ ~InIconTheme(lines, 0) /\ DirsTold(lines, 0) = {}
         /\ IsHeader(lines[i + 1]) =>
              (InIconTheme(lines, i + 1) <=> lines[i + 1].header = MainGroup)
         /\ ~IsHeader(lines[i + 1]) => (InIconTheme(lines, i + 1) <=> InIconTheme(lines, i))
         /\ DirsTold(lines, i + 1) = DirsTold(lines, i) \union
              (IF NamesSubDirs(lines, i + 1) THEN ToSet(Chunk(lines[i + 1].values)) ELSE {})
<1>1. 1 .. 0 = {}
  OBVIOUS
<1>2. PICK l \in Nat : l = i + 1
  OBVIOUS
<1>3. 1 .. l = 1 .. i \union {l} /\ l \in 1 .. l /\ l \notin 1 .. i
  BY <1>2
<1>4. ~InIconTheme(lines, 0)
  BY <1>1 DEF InIconTheme
<1>5. DirsTold(lines, 0) = {}
  BY <1>1 DEF DirsTold
<1>6. IsHeader(lines[l]) => (InIconTheme(lines, l) <=> lines[l].header = MainGroup)
  <2>1. \A h \in 1 .. i : l \in (h + 1) .. l
    BY <1>2
  <2>2. (l + 1) .. l = {}
    BY <1>2
  <2> QED BY <1>3, <2>1, <2>2, Zenon DEF InIconTheme
<1>7. ~IsHeader(lines[l]) => (InIconTheme(lines, l) <=> InIconTheme(lines, i))
  <2>1. \A h \in 1 .. i : (h + 1) .. l = (h + 1) .. i \union {l}
    BY <1>2
  <2> QED BY <1>3, <2>1, Zenon DEF InIconTheme
<1>8. DirsTold(lines, l) = DirsTold(lines, i) \union
        (IF NamesSubDirs(lines, l) THEN ToSet(Chunk(lines[l].values)) ELSE {})
  <2>1. {j \in 1 .. l : NamesSubDirs(lines, j)} =
          {j \in 1 .. i : NamesSubDirs(lines, j)} \union
            (IF NamesSubDirs(lines, l) THEN {l} ELSE {})
    BY <1>3
  <2> QED BY <2>1 DEF DirsTold
<1> QED BY <1>2, <1>4, <1>5, <1>6, <1>7, <1>8, Zenon

\* The reader of a theme after i lines.
ReaderAt(reader, ts, name, lines, i, U) ==
  /\ reader = [themes |-> reader.themes, name |-> name, group |-> reader.group,
       state |-> reader.state]
  /\ reader.state \in {"open", "closed"} /\ (reader.state = "closed" <=> ~IsRead(lines, i))
  /\ reader.state = "open" => (reader.group # Null <=> InGroup(lines, i))
  /\ IsThemes(reader.themes, U)
  /\ Adds(ts, reader.themes, {name} \union Told(lines, i), name, Told(lines, i))

\* A file is opened with its theme, and nothing read.
LEMMA OpenedAt ==
  ASSUME NEW ts, NEW U, IsThemes(ts, U), NEW name, NEW lines
  PROVE  ReaderAt(Opened(ts, name), ts, name, lines, 0, U)
<1>1. IsThemes(WithThemes(ts, {name}), U) /\ Adds(ts, WithThemes(ts, {name}), {name}, name, {})
  BY WithThemesAdds
<1>2. IsRead(lines, 0) /\ ~InGroup(lines, 0) /\ Told(lines, 0) = {}
  BY IsReadNext
<1> DEFINE o == Opened(ts, name)
<1>3. o.themes = WithThemes(ts, {name}) /\ o.group = Null /\ o.state = "open"
  BY DEF Opened
<1>4. o = [themes |-> o.themes, name |-> name, group |-> o.group, state |-> o.state]
  BY DEF Opened
<1> HIDE DEF o
<1>5. {name} \union {} = {name}
  OBVIOUS
<1>6. ReaderAt(o, ts, name, lines, 0, U)
  BY <1>1, <1>2, <1>3, <1>4, <1>5, Zenon DEF ReaderAt
<1> QED BY <1>6 DEF o

\* A reader from its parts, and what its steps make of them.
Reader(t, n, g, e) == [themes |-> t, name |-> n, group |-> g, state |-> e]

GoesOn(reader, t, n, g, e) ==
  /\ reader.themes = t /\ reader.name = n /\ reader.group = g /\ reader.state = e
  /\ \A h : ReadHeader(reader, h) =
       Reader([t EXCEPT ![n] = IF h = Null THEN t[n] ELSE WithGroup(t[n], h)], n, h, e)
  /\ \A line : ReadEntry(reader, line) =
       Reader(WithThemes([t EXCEPT ![n] = WithEntry(t[n], g, line)], ParentsNamed(line)), n, g, e)
  /\ [reader EXCEPT !.state = "closed"] = Reader(t, n, g, "closed")

\* The reader of a theme changes as a record of its parts.
LEMMA ReaderAfter ==
  ASSUME NEW t, NEW n, NEW g, NEW e, NEW reader, reader = Reader(t, n, g, e)
  PROVE  GoesOn(reader, t, n, g, e)
<1>1. reader.themes = t /\ reader.name = n /\ reader.group = g /\ reader.state = e
  BY DEF Reader
<1>2. ASSUME NEW h
      PROVE  ReadHeader(reader, h) =
               Reader([t EXCEPT ![n] = IF h = Null THEN t[n] ELSE WithGroup(t[n], h)], n, h, e)
  <2>1. ReadHeader(reader, h) =
          [reader EXCEPT !.group = h, !.themes[n] = IF h = Null THEN @ ELSE WithGroup(@, h)]
    BY <1>1 DEF ReadHeader
  <2> QED BY <2>1 DEF Reader
<1>3. ASSUME NEW line
      PROVE  ReadEntry(reader, line) =
               Reader(WithThemes([t EXCEPT ![n] = WithEntry(t[n], g, line)], ParentsNamed(line)),
                 n, g, e)
  <2>1. PICK x : x = WithThemes([t EXCEPT ![n] = WithEntry(t[n], g, line)], ParentsNamed(line))
    OBVIOUS
  <2>2. [reader.themes EXCEPT ![reader.name] = WithEntry(@, reader.group, line)] =
          [t EXCEPT ![n] = WithEntry(t[n], g, line)]
    BY <1>1
  <2>3. ReadEntry(reader, line) = [reader EXCEPT !.themes = x]
    BY <2>1, <2>2, Zenon DEF ReadEntry
  <2>4. [reader EXCEPT !.themes = x] = Reader(x, n, g, e)
    BY DEF Reader
  <2> QED BY <2>1, <2>3, <2>4, Zenon
<1>4. [reader EXCEPT !.state = "closed"] = Reader(t, n, g, "closed")
  BY DEF Reader
<1> QED BY <1>1, <1>2, <1>3, <1>4, Zenon DEF GoesOn

\* One line is read as the properties say that it counts.
LEMMA ReadLineAt ==
  ASSUME NEW ts, NEW U, NEW name, NEW lines, Readable(lines, U),
         NEW i \in Nat, i + 1 <= Len(lines), NEW reader, ReaderAt(reader, ts, name, lines, i, U)
  PROVE  ReaderAt(ReadLine(reader, lines[i + 1]), ts, name, lines, i + 1, U)
<1>1. PICK l \in Nat : l = i + 1
  OBVIOUS
<1> DEFINE line == lines[l]
           new == ReadLine(reader, line)
           told == IF NamesParents(lines, l) THEN ToSet(Chunk(line.values)) ELSE {}
<1>2. ~IsHeader(line) => Chunk(line.values) \in Seq(U)
  <2>1. l \in 1 .. Len(lines)
    BY <1>1 DEF Readable
  <2> QED BY <2>1 DEF Readable
<1>3. /\ IsRead(lines, l) <=> IsRead(lines, i) /\ (IsHeader(line) \/ InGroup(lines, l))
      /\ IsHeader(line) => (InGroup(lines, l) <=> line.header # Null)
      /\ ~IsHeader(line) => (InGroup(lines, l) <=> InGroup(lines, i))
      /\ Told(lines, l) = Told(lines, i) \union told
  BY <1>1, IsReadNext, Zenon
<1>4. name \in DOMAIN reader.themes
  BY DEF ReaderAt, Adds
<1> HIDE DEF line
<1>5. PICK was : was = reader.themes[name]
  OBVIOUS
<1>6. /\ was = [groups |-> was.groups, parents |-> was.parents] /\ was.parents \in Seq(U)
      /\ Grouped(was.groups, U)
  BY <1>4, <1>5, Zenon DEF ReaderAt, IsThemes
<1>7. <<>> \in Seq(U) /\ was.parents = was.parents \o <<>> /\ ToSet(<<>>) = {}
  BY <1>6 DEF ToSet
<1>8. ASSUME NEW themes2, NEW group, NEW state \in {"open", "closed"},
             new = Reader(themes2, name, group, state),
             state = "closed" <=> ~IsRead(lines, l),
               state = "open" => (group # Null <=> InGroup(lines, l)),
             IsThemes(themes2, U), Adds(reader.themes, themes2, told, name, told)
      PROVE  ReaderAt(new, ts, name, lines, l, U)
  <2>1. Adds(ts, reader.themes, {name} \union Told(lines, i), name, Told(lines, i))
    BY DEF ReaderAt
  <2>2. Adds(ts, themes2, ({name} \union Told(lines, i)) \union told, name, Told(lines, i) \union
          told)
    <3> HIDE DEF told
    <3> QED BY <1>8, <2>1, AddsJoin
  <2>3. ({name} \union Told(lines, i)) \union told = {name} \union Told(lines, l)
    BY <1>3
  <2>4. Adds(ts, themes2, {name} \union Told(lines, l), name, Told(lines, l))
    BY <1>3, <2>2, <2>3, Zenon
  <2>5. /\ new.themes = themes2 /\ new.group = group /\ new.state = state
        /\ new = [themes |-> new.themes, name |-> name, group |-> new.group, state |-> new.state]
    <3> HIDE DEF new
    <3> QED BY <1>8 DEF Reader
  <2> HIDE DEF new, told
  <2> QED BY <1>8, <2>4, <2>5, Zenon DEF ReaderAt
<1>9. /\ reader = [themes |-> reader.themes, name |-> name, group |-> reader.group,
           state |-> reader.state]
      /\ reader.state \in {"open", "closed"} /\ (reader.state = "closed" <=> ~IsRead(lines, i))
      /\ reader.state = "open" => (reader.group # Null <=> InGroup(lines, i))
      /\ IsThemes(reader.themes, U)
  BY DEF ReaderAt
<1>10. PICK t, g, e : reader = Reader(t, name, g, e)
  BY <1>9 DEF Reader
<1>11. GoesOn(reader, t, name, g, e)
  BY <1>10, ReaderAfter
<1>12. reader.themes = t /\ reader.name = name /\ reader.group = g /\ reader.state = e
  BY <1>11, Zenon DEF GoesOn
<1>13. NamesParents(lines, l) <=> ~IsHeader(line) /\ line.key = "Inherits" /\ IsRead(lines, l)
  BY DEF NamesParents, line
<1>14. Adds(reader.themes, reader.themes, {}, name, {})
  BY DEF Adds
<1>15. CASE reader.state = "closed"
  <2>1. new = reader
    BY <1>15, Zenon DEF ReadLine
  <2>2. ~IsRead(lines, l) /\ told = {}
    BY <1>3, <1>9, <1>13, <1>15
  <2>3. ReaderAt(new, ts, name, lines, l, U)
    <3>1. new = Reader(reader.themes, name, reader.group, reader.state)
      BY <1>10, <1>12, <2>1, Zenon
    <3> HIDE DEF told, new
    <3> QED BY <1>8, <1>9, <1>14, <1>15, <2>2, <3>1, Zenon
  <2> QED BY <1>1, <2>3 DEF line
<1>16. CASE reader.state = "open" /\ IsHeader(line)
  <2> DEFINE theme == IF line.header = Null THEN was ELSE WithGroup(was, line.header)
             themes2 == [reader.themes EXCEPT ![name] = theme]
  <2>1. told = {}
    BY <1>13, <1>16
  <2>2. /\ theme = [groups |-> theme.groups, parents |-> theme.parents] /\
             theme.parents = was.parents
        /\ Grouped(theme.groups, U)
    <3>1. CASE line.header = Null
      BY <1>6, <3>1
    <3>2. CASE line.header # Null
      <4> DEFINE grown == [h \in DOMAIN was.groups \union {line.header} |->
                            IF h \in DOMAIN was.groups THEN was.groups[h] ELSE <<>>]
      <4>1. Grouped(grown, U)
        <5>1. PICK old, h : old = was.groups /\ h = line.header
          OBVIOUS
        <5>2. Grouped([j \in DOMAIN old \union {h} |-> IF j \in DOMAIN old THEN old[j] ELSE <<>>],
                U)
          BY <1>6, <5>1, GroupsStayGrouped
        <5> QED BY <5>1, <5>2, Zenon
      <4>2. WithGroup(was, line.header) = [was EXCEPT !.groups = grown]
        BY Zenon DEF WithGroup
      <4> HIDE DEF grown
      <4>3. PICK groups : WithGroup(was, line.header) = [was EXCEPT !.groups = groups] /\
                            Grouped(groups, U)
        BY <4>1, <4>2, Zenon
      <4>4. [was EXCEPT !.groups = groups] = [groups |-> groups, parents |-> was.parents]
        BY <1>6
      <4>5. theme = [groups |-> groups, parents |-> was.parents]
        BY <3>2, <4>3, <4>4
      <4> HIDE DEF theme
      <4> QED BY <4>3, <4>5
    <3> QED BY <3>1, <3>2
  <2>3. new = Reader(themes2, name, line.header, "open")
    <3>1. new = ReadHeader(reader, line.header)
      BY <1>16, Zenon DEF ReadLine
    <3>2. ReadHeader(reader, line.header) =
            Reader([t EXCEPT ![name] = IF line.header = Null THEN t[name]
              ELSE WithGroup(t[name], line.header)],
                   name, line.header, e)
      BY <1>11, Zenon DEF GoesOn
    <3> HIDE DEF new
    <3> QED BY <1>5, <1>16, <1>12, <3>1, <3>2, Zenon
  <2>4. IsThemes(themes2, U) /\ Adds(reader.themes, themes2, {}, name, {})
    <3>1. theme.parents = reader.themes[name].parents \o <<>>
      BY <1>5, <1>7, <2>2
    <3> HIDE DEF theme
    <3>2. PICK more : more = <<>>
      OBVIOUS
    <3>3. IsThemes(themes2, U) /\ Adds(reader.themes, themes2, {}, name, ToSet(more))
      BY <1>4, <1>7, <1>9, <2>2, <3>1, <3>2, ThemeAdds
    <3> QED BY <1>7, <3>2, <3>3, Zenon
  <2>5. IsRead(lines, l) /\ (line.header # Null <=> InGroup(lines, l))
    BY <1>3, <1>9, <1>16
  <2>6. ReaderAt(new, ts, name, lines, l, U)
    <3> HIDE DEF told, new, themes2
    <3> QED BY <1>8, <2>1, <2>3, <2>4, <2>5, Zenon
  <2> QED BY <1>1, <2>6 DEF line
<1>17. CASE reader.state = "open" /\ ~IsHeader(line) /\ reader.group = Null
  <2>1. new = Reader(reader.themes, name, reader.group, "closed")
    <3>1. new = [reader EXCEPT !.state = "closed"]
      BY <1>17, Zenon DEF ReadLine
    <3>2. [reader EXCEPT !.state = "closed"] = Reader(t, name, g, "closed")
      BY <1>11, Zenon DEF GoesOn
    <3> HIDE DEF new
    <3> QED BY <1>12, <3>1, <3>2, Zenon
  <2>2. ~IsRead(lines, l) /\ told = {}
    BY <1>3, <1>9, <1>13, <1>17
  <2>3. ReaderAt(new, ts, name, lines, l, U)
    <3> HIDE DEF told, new
    <3> QED BY <1>8, <1>9, <1>14, <2>1, <2>2, Zenon
  <2> QED BY <1>1, <2>3 DEF line
<1>18. CASE reader.state = "open" /\ ~IsHeader(line) /\ reader.group # Null
  <2> DEFINE theme == WithEntry(was, reader.group, line)
             more == IF line.key = "Inherits" THEN Chunk(line.values) ELSE <<>>
             themes1 == [reader.themes EXCEPT ![name] = theme]
             themes2 == WithThemes(themes1, ParentsNamed(line))
  <2>1. IsRead(lines, l) /\ InGroup(lines, l)
    BY <1>3, <1>9, <1>18
  <2>2. ToSet(more) = told /\ ParentsNamed(line) = told /\ more \in Seq(U)
    <3>1. NamesParents(lines, l) <=> line.key = "Inherits"
      BY <1>13, <1>18, <2>1
    <3>2. ParentsNamed(line) = told
      BY <3>1, Zenon DEF ParentsNamed
    <3>3. ToSet(more) = told
      BY <1>7, <3>1, Zenon
    <3>4. more \in Seq(U)
      BY <1>2, <1>7, <1>18, Zenon
    <3> QED BY <3>2, <3>3, <3>4
  <2>3. /\ theme = [groups |-> theme.groups, parents |-> theme.parents] /\
             theme.parents = was.parents \o more
        /\ Grouped(theme.groups, U)
    <3>1. PICK old, h, key : old = was.groups /\ h = reader.group /\ key = line.key
      OBVIOUS
    <3>2. Grouped([old EXCEPT ![h] = WithValues(old[h], key, Chunk(line.values))], U)
      BY <1>2, <1>6, <1>18, <3>1, GroupsStayGrouped
    <3>3. [was.groups EXCEPT ![reader.group] = WithValues(@, line.key, Chunk(line.values))] =
            [old EXCEPT ![h] = WithValues(old[h], key, Chunk(line.values))]
      BY <3>1
    <3>4. Grouped([was.groups EXCEPT ![reader.group] = WithValues(@, line.key, Chunk(line.values))], U)
      BY <3>2, <3>3, Zenon
    <3>5. PICK groups : /\ Grouped(groups, U)
                        /\ theme = [groups |-> groups,
                                    parents |-> IF line.key = "Inherits"
                                      THEN Inherited(was.parents, Chunk(line.values))
                                                ELSE was.parents]
      BY <3>4, Zenon DEF WithEntry
    <3>6. theme.parents = IF line.key = "Inherits" THEN was.parents \o Chunk(line.values)
                            ELSE was.parents
      BY <3>5 DEF Inherited
    <3>7. theme = [groups |-> theme.groups, parents |-> theme.parents]
      <4> HIDE DEF theme
      <4> QED BY <3>5
    <3>8. Grouped(theme.groups, U)
      <4> HIDE DEF theme
      <4> QED BY <3>5
    <3> QED BY <1>7, <3>6, <3>7, <3>8, Zenon
  <2>4. new = Reader(themes2, name, reader.group, "open")
    <3>1. new = ReadEntry(reader, line)
      BY <1>18, Zenon DEF ReadLine
    <3>2. ReadEntry(reader, line) =
            Reader(WithThemes([t EXCEPT ![name] = WithEntry(t[name], g, line)],
              ParentsNamed(line)), name, g, e)
      BY <1>11, Zenon DEF GoesOn
    <3> HIDE DEF new
    <3> QED BY <1>5, <1>18, <1>12, <3>1, <3>2, Zenon
  <2>5. IsThemes(themes1, U) /\ Adds(reader.themes, themes1, {}, name, told)
    <3>1. theme.parents = reader.themes[name].parents \o more
      BY <1>5, <2>3
    <3> HIDE DEF theme, more, told
    <3> QED BY <1>4, <1>9, <2>2, <2>3, <3>1, ThemeAdds
  <2>6. IsThemes(themes2, U) /\ Adds(themes1, themes2, told, name, {})
    <3> HIDE DEF themes1, told
    <3> QED BY <2>2, <2>5, WithThemesAdds
  <2>7. Adds(reader.themes, themes2, told, name, told)
    <3> HIDE DEF themes1, themes2, told
    <3>1. Adds(reader.themes, themes2, {} \union told, name, told \union {})
      BY <2>5, <2>6, AddsJoin
    <3>2. {} \union told = told /\ told \union {} = told
      OBVIOUS
    <3> QED BY <3>1, <3>2, Zenon
  <2>8. ReaderAt(new, ts, name, lines, l, U)
    <3> HIDE DEF told, new, themes2
    <3> QED BY <1>8, <1>18, <2>1, <2>4, <2>6, <2>7, Zenon
  <2> QED BY <1>1, <2>8 DEF line
<1> QED BY <1>1, <1>9, <1>15, <1>16, <1>17, <1>18

\* The sub directories of theme n that were read.
DirsOf(ts, n) == IF n \in DOMAIN ts THEN ToSet(Listed(ts[n])) ELSE {}

\* ts2 has all of ts1, and theme name these besides.
KeepsDirs(ts1, ts2, name, dirs) ==
  \A n : DirsOf(ts1, n) \union (IF n = name THEN dirs ELSE {}) \subseteq DirsOf(ts2, n)

\* Themes are added without sub directories, and a theme with more groups and
\* entries has those that it had.
LEMMA DirsAreKept ==
  ASSUME NEW ts, NEW U, IsThemes(ts, U), NEW name
  PROVE  /\ \A names : KeepsDirs(ts, WithThemes(ts, names), name, {})
         /\ \A theme, dirs :
              name \in DOMAIN ts /\ ToSet(Listed(ts[name])) \union dirs \subseteq ToSet(Listed(theme)) =>
                KeepsDirs(ts, [ts EXCEPT ![name] = theme], name, dirs)
<1>1. ASSUME NEW names PROVE KeepsDirs(ts, WithThemes(ts, names), name, {})
  <2> DEFINE new == WithThemes(ts, names)
  <2>1. new = [n \in DOMAIN ts \union names |-> IF n \in DOMAIN ts THEN ts[n] ELSE Bare]
    BY DEF WithThemes
  <2> HIDE DEF new
  <2>2. \A n \in DOMAIN ts : n \in DOMAIN new /\ new[n] = ts[n]
    BY <2>1
  <2>3. ASSUME NEW n PROVE DirsOf(ts, n) \union {} \subseteq DirsOf(new, n)
    BY <2>2 DEF DirsOf
  <2>4. KeepsDirs(ts, new, name, {})
    BY <2>3 DEF KeepsDirs
  <2> QED BY <2>4 DEF new
<1>2. ASSUME NEW theme, NEW dirs, name \in DOMAIN ts,
             ToSet(Listed(ts[name])) \union dirs \subseteq ToSet(Listed(theme))
      PROVE  KeepsDirs(ts, [ts EXCEPT ![name] = theme], name, dirs)
  <2> DEFINE new == [ts EXCEPT ![name] = theme]
  <2>1. /\ DOMAIN new = DOMAIN ts /\ new[name] = theme
        /\ \A n \in DOMAIN ts \ {name} : new[n] = ts[n]
    BY <1>2 DEF IsThemes
  <2> HIDE DEF new
  <2>2. DirsOf(ts, name) = ToSet(Listed(ts[name])) /\ DirsOf(new, name) = ToSet(Listed(theme))
    BY <1>2, <2>1, Zenon DEF DirsOf
  <2>3. \A n : n # name => DirsOf(new, n) = DirsOf(ts, n)
    BY <2>1, Zenon DEF DirsOf
  <2>4. KeepsDirs(ts, new, name, dirs)
    BY <1>2, <2>2, <2>3 DEF KeepsDirs
  <2> QED BY <2>4 DEF new
<1> QED BY <1>1, <1>2

\* What two steps keep, one after the other.
LEMMA KeepsJoin ==
  ASSUME NEW a, NEW b, NEW c, NEW name, NEW dirs1, NEW dirs2,
         KeepsDirs(a, b, name, dirs1), KeepsDirs(b, c, name, dirs2)
  PROVE  KeepsDirs(a, c, name, dirs1 \union dirs2)
  BY DEF KeepsDirs

\* A header adds its group, and to no list of sub directories.
LEMMA HeaderDirs ==
  ASSUME NEW theme, theme = [groups |-> theme.groups, parents |-> theme.parents], NEW g
  PROVE  /\ Listed(WithGroup(theme, g)) = Listed(theme)
         /\ g \in DOMAIN WithGroup(theme, g).groups
<1>1. PICK groups : groups = theme.groups
  OBVIOUS
<1> DEFINE grown == [h \in DOMAIN groups \union {g} |-> IF h \in DOMAIN groups THEN groups[h]
                       ELSE <<>>]
<1>2. WithGroup(theme, g) = [theme EXCEPT !.groups = grown]
  BY <1>1, Zenon DEF WithGroup
<1>3. WithGroup(theme, g).groups = grown
  <2> HIDE DEF grown
  <2> QED BY <1>2
<1>4. g \in DOMAIN grown
  OBVIOUS
<1>5. At(grown, MainGroup) = At(groups, MainGroup)
  BY DEF At
<1> HIDE DEF grown
<1>6. Listed(WithGroup(theme, g)) = Listed(theme)
  BY <1>1, <1>3, <1>5, Zenon DEF Listed
<1> QED BY <1>3, <1>4, <1>6, Zenon

\* An entry adds to the list of its own group and key.
LEMMA EntryDirs ==
  ASSUME NEW theme, NEW U, Grouped(theme.groups, U), NEW g \in DOMAIN theme.groups,
         NEW line, Chunk(line.values) \in Seq(U)
  PROVE  /\ DOMAIN WithEntry(theme, g, line).groups = DOMAIN theme.groups
         /\ ToSet(Listed(theme)) \union
              (IF g = MainGroup /\ line.key = "Directories" THEN ToSet(Chunk(line.values)) ELSE {})
            \subseteq ToSet(Listed(WithEntry(theme, g, line)))
<1>1. PICK old, values, key, new :
        /\ old = theme.groups /\ values = Chunk(line.values) /\ key = line.key
        /\ new = [old EXCEPT ![g] = WithValues(@, key, values)]
  OBVIOUS
<1>2. WithEntry(theme, g, line).groups = new
  BY <1>1 DEF WithEntry
<1>3. g \in DOMAIN old /\ Grouped(old, U) /\ values \in Seq(U) /\ DOMAIN new = DOMAIN old
  BY <1>1
<1> DEFINE was == At(At(old, MainGroup), "Directories")
           is == At(At(new, MainGroup), "Directories")
<1>4. Listed(theme) = was /\ Listed(WithEntry(theme, g, line)) = is
  BY <1>1, <1>2, Zenon DEF Listed
<1>5. CASE g # MainGroup
  <2>1. At(new, MainGroup) = At(old, MainGroup)
    BY <1>1, <1>5 DEF At
  <2>2. is = was
    BY <2>1
  <2> HIDE DEF is, was
  <2> QED BY <1>1, <1>2, <1>3, <1>4, <1>5, <2>2
<1>6. CASE g = MainGroup
  <2>1. PICK group : group = old[g]
    OBVIOUS
  <2>2. new[g] = WithValues(group, key, values)
    BY <1>1, <1>3, <2>1
  <2>3. At(new, MainGroup) = WithValues(group, key, values) /\ At(old, MainGroup) = group
    BY <1>3, <1>6, <2>1, <2>2 DEF At
  <2>4. PICK grown : grown = WithValues(group, key, values)
    OBVIOUS
  <2>5. grown = [k \in DOMAIN group \union {key} |-> IF k = key THEN At(group, key) \o values
                   ELSE group[k]]
    BY <2>4, Zenon DEF WithValues
  <2>6. was = At(group, "Directories") /\ is = At(grown, "Directories")
    BY <2>3, <2>4, Zenon
  <2> HIDE DEF is, was
  <2>7. was \in Seq(U)
    <3>1. \A k \in DOMAIN group : group[k] \in Seq(U)
      BY <1>3, <2>1 DEF Grouped
    <3>2. <<>> \in Seq(U)
      OBVIOUS
    <3> QED BY <2>6, <3>1, <3>2, Zenon DEF At
  <2>8. CASE key = "Directories"
    <3>1. is = was \o values
      BY <2>5, <2>6, <2>8 DEF At
    <3>2. ToSet(is) = ToSet(was) \union ToSet(values)
      BY <1>3, <2>7, <3>1, ConcatElements
    <3> QED BY <1>1, <1>2, <1>3, <1>4, <3>2
  <2>9. CASE key # "Directories"
    <3>1. is = was
      BY <2>5, <2>6, <2>9 DEF At
    <3> QED BY <1>1, <1>2, <1>3, <1>4, <2>9, <3>1
  <2> QED BY <2>8, <2>9
<1> QED BY <1>5, <1>6

\* What the reader of a theme has of its sub directories after i lines.
DirsAt(reader, ts, name, lines, i) ==
  /\ reader.state = "open" /\ reader.group # Null => reader.group \in DOMAIN reader.themes[name].groups
  /\ reader.state = "open" => (reader.group = MainGroup <=> InIconTheme(lines, i))
  /\ KeepsDirs(ts, reader.themes, name, DirsTold(lines, i))

\* A file is opened with none.
LEMMA OpenedDirs ==
  ASSUME NEW ts, NEW U, IsThemes(ts, U), NEW name, NEW lines
  PROVE  DirsAt(Opened(ts, name), ts, name, lines, 0)
<1> DEFINE o == Opened(ts, name)
<1>1. o.themes = WithThemes(ts, {name}) /\ o.group = Null /\ o.state = "open"
  BY DEF Opened
<1> HIDE DEF o
<1>2. ~InIconTheme(lines, 0) /\ DirsTold(lines, 0) = {}
  BY DirsNext
<1>3. KeepsDirs(ts, WithThemes(ts, {name}), name, {})
  BY DirsAreKept
<1>4. DirsAt(o, ts, name, lines, 0)
  <2>1. KeepsDirs(ts, o.themes, name, DirsTold(lines, 0))
    BY <1>1, <1>2, <1>3, Zenon
  <2>2. o.group # MainGroup
    BY <1>1, Zenon DEF MainGroup, Null
  <2> QED BY <1>1, <1>2, <2>1, <2>2, Zenon DEF DirsAt
<1> QED BY <1>4 DEF o

\* One line is read as the properties say that it counts.
LEMMA ReadLineDirs ==
  ASSUME NEW ts, NEW U, NEW name, NEW lines, Readable(lines, U),
         NEW i \in Nat, i + 1 <= Len(lines), NEW reader, ReaderAt(reader, ts, name, lines, i, U),
         DirsAt(reader, ts, name, lines, i)
  PROVE  DirsAt(ReadLine(reader, lines[i + 1]), ts, name, lines, i + 1)
<1>1. PICK l \in Nat : l = i + 1
  OBVIOUS
<1> DEFINE line == lines[l]
           new == ReadLine(reader, line)
           told == IF NamesSubDirs(lines, l) THEN ToSet(Chunk(line.values)) ELSE {}
<1>2. ~IsHeader(line) => Chunk(line.values) \in Seq(U)
  <2>1. l \in 1 .. Len(lines)
    BY <1>1 DEF Readable
  <2> QED BY <2>1 DEF Readable
<1>3. IsRead(lines, l) <=> IsRead(lines, i) /\ (IsHeader(line) \/ InGroup(lines, l))
  BY <1>1, IsReadNext, Zenon
<1>4. ~IsHeader(line) => (InGroup(lines, l) <=> InGroup(lines, i))
  BY <1>1, IsReadNext, Zenon
<1>5. /\ IsHeader(line) => (InIconTheme(lines, l) <=> line.header = MainGroup)
      /\ ~IsHeader(line) => (InIconTheme(lines, l) <=> InIconTheme(lines, i))
      /\ DirsTold(lines, l) = DirsTold(lines, i) \union told
  BY <1>1, DirsNext, Zenon
<1>6. NamesSubDirs(lines, l) <=> /\ ~IsHeader(line) /\ line.key = "Directories"
                                 /\ IsRead(lines, l) /\ InIconTheme(lines, l)
  BY DEF NamesSubDirs
<1> HIDE DEF line
<1>7. /\ reader = [themes |-> reader.themes, name |-> name, group |-> reader.group,
           state |-> reader.state]
      /\ reader.state \in {"open", "closed"} /\ (reader.state = "closed" <=> ~IsRead(lines, i))
      /\ reader.state = "open" => (reader.group # Null <=> InGroup(lines, i))
      /\ IsThemes(reader.themes, U) /\ name \in DOMAIN reader.themes
  BY DEF ReaderAt, Adds
<1>8. PICK t, g, e : reader = Reader(t, name, g, e)
  BY <1>7 DEF Reader
<1>9. GoesOn(reader, t, name, g, e)
  BY <1>8, ReaderAfter
<1>10. reader.themes = t /\ reader.name = name /\ reader.group = g /\ reader.state = e
  BY <1>9, Zenon DEF GoesOn
<1>11. PICK was : was = t[name]
  OBVIOUS
<1>12. was = [groups |-> was.groups, parents |-> was.parents] /\ Grouped(was.groups, U)
  BY <1>7, <1>10, <1>11, Zenon DEF IsThemes
<1>13. /\ IsThemes(t, U) /\ name \in DOMAIN t /\ e \in {"open", "closed"}
       /\ e = "closed" <=> ~IsRead(lines, i)
       /\ e = "open" => (g # Null <=> InGroup(lines, i))
       /\ e = "open" /\ g # Null => g \in DOMAIN was.groups
       /\ e = "open" => (g = MainGroup <=> InIconTheme(lines, i))
       /\ KeepsDirs(ts, t, name, DirsTold(lines, i))
  BY <1>7, <1>10, <1>11, Zenon DEF DirsAt
<1>14. ASSUME NEW themes2, NEW group, NEW state, new = Reader(themes2, name, group, state),
              state = "open" /\ group # Null => group \in DOMAIN themes2[name].groups,
              state = "open" => (group = MainGroup <=> InIconTheme(lines, l)),
              KeepsDirs(t, themes2, name, told)
       PROVE  DirsAt(new, ts, name, lines, l)
  <2>1. new.themes = themes2 /\ new.group = group /\ new.state = state
    <3> HIDE DEF new
    <3> QED BY <1>14 DEF Reader
  <2>2. KeepsDirs(ts, themes2, name, DirsTold(lines, l))
    <3> HIDE DEF told
    <3>1. KeepsDirs(ts, themes2, name, DirsTold(lines, i) \union told)
      BY <1>13, <1>14, KeepsJoin
    <3> QED BY <1>5, <3>1
  <2> HIDE DEF new, told
  <2> QED BY <1>14, <2>1, <2>2, Zenon DEF DirsAt
<1>15. KeepsDirs(t, t, name, {})
  BY DEF KeepsDirs
<1>16. CASE e = "closed"
  <2>1. new = Reader(t, name, g, e)
    BY <1>8, <1>10, <1>16, Zenon DEF ReadLine
  <2>2. told = {}
    BY <1>3, <1>6, <1>13, <1>16
  <2>3. e # "open"
    BY <1>16
  <2>4. DirsAt(new, ts, name, lines, l)
    <3> HIDE DEF told, new
    <3> QED BY <1>14, <1>15, <2>1, <2>2, <2>3, Zenon
  <2> QED BY <1>1, <2>4 DEF line
<1>17. CASE e = "open" /\ IsHeader(line)
  <2>1. PICK h, theme : h = line.header /\ theme = IF h = Null THEN was ELSE WithGroup(was, h)
    OBVIOUS
  <2>2. new = Reader([t EXCEPT ![name] = theme], name, h, e)
    <3>1. new = ReadHeader(reader, h)
      BY <1>10, <1>17, <2>1 DEF ReadLine
    <3> HIDE DEF new
    <3>2. ReadHeader(reader, h) =
            Reader([t EXCEPT ![name] = IF h = Null THEN was ELSE WithGroup(was, h)], name, h, e)
      BY <1>9, <1>11, Zenon DEF GoesOn
    <3> QED BY <2>1, <3>1, <3>2, Zenon
  <2>3. told = {}
    BY <1>6, <1>17
  <2>4. Listed(theme) = Listed(was) /\ (h # Null => h \in DOMAIN theme.groups)
    BY <1>12, <2>1, HeaderDirs, Zenon
  <2>5. KeepsDirs(t, [t EXCEPT ![name] = theme], name, {})
    <3>1. ToSet(Listed(t[name])) \union {} \subseteq ToSet(Listed(theme))
      BY <1>11, <2>4
    <3> QED BY <1>13, <3>1, DirsAreKept
  <2>6. [t EXCEPT ![name] = theme][name] = theme
    BY <1>13 DEF IsThemes
  <2>7. DirsAt(new, ts, name, lines, l)
    <3>1. h = MainGroup <=> InIconTheme(lines, l)
      BY <1>5, <1>17, <2>1
    <3> HIDE DEF told, new
    <3> QED BY <1>14, <2>2, <2>3, <2>4, <2>5, <2>6, <3>1, Zenon
  <2> QED BY <1>1, <2>7 DEF line
<1>18. CASE e = "open" /\ ~IsHeader(line) /\ g = Null
  <2>1. new = Reader(t, name, g, "closed")
    <3>1. new = [reader EXCEPT !.state = "closed"]
      BY <1>10, <1>18 DEF ReadLine
    <3> HIDE DEF new
    <3> QED BY <1>9, <3>1, Zenon DEF GoesOn
  <2>2. told = {}
    BY <1>3, <1>4, <1>6, <1>13, <1>18
  <2>3. DirsAt(new, ts, name, lines, l)
    <3> HIDE DEF told, new
    <3> QED BY <1>14, <1>15, <2>1, <2>2
  <2> QED BY <1>1, <2>3 DEF line
<1>19. CASE e = "open" /\ ~IsHeader(line) /\ g # Null
  <2>1. PICK theme, names : theme = WithEntry(was, g, line) /\ names = ParentsNamed(line)
    OBVIOUS
  <2>2. PICK themes1, themes2 : /\ themes1 = [t EXCEPT ![name] = theme]
                                /\ themes2 = WithThemes(themes1, names)
    OBVIOUS
  <2>3. new = Reader(themes2, name, g, e)
    <3>1. new = ReadEntry(reader, line)
      BY <1>10, <1>19 DEF ReadLine
    <3> HIDE DEF new
    <3> QED BY <1>9, <1>11, <2>1, <2>2, <3>1, Zenon DEF GoesOn
  <2>4. told = IF g = MainGroup /\ line.key = "Directories" THEN ToSet(Chunk(line.values)) ELSE {}
    BY <1>3, <1>4, <1>5, <1>6, <1>13, <1>19
  <2>5. /\ DOMAIN theme.groups = DOMAIN was.groups
        /\ ToSet(Listed(was)) \union told \subseteq ToSet(Listed(theme))
    <3>1. Chunk(line.values) \in Seq(U) /\ g \in DOMAIN was.groups
      BY <1>2, <1>13, <1>19
    <3>2. /\ DOMAIN WithEntry(was, g, line).groups = DOMAIN was.groups
          /\ ToSet(Listed(was)) \union
               (IF g = MainGroup /\ line.key = "Directories" THEN ToSet(Chunk(line.values)) ELSE {})
             \subseteq ToSet(Listed(WithEntry(was, g, line)))
      BY <1>12, <3>1, EntryDirs
    <3> HIDE DEF told
    <3> QED BY <2>1, <2>4, <3>2, Zenon
  <2> HIDE DEF told
  <2>6. KeepsDirs(t, themes1, name, told)
    <3>1. ToSet(Listed(t[name])) \union told \subseteq ToSet(Listed(theme))
      BY <1>11, <2>5
    <3> QED BY <1>13, <2>2, <3>1, DirsAreKept
  <2>7. DOMAIN themes1 = DOMAIN t /\ themes1[name] = theme /\ \A n \in DOMAIN t \ {name} : themes1[n] = t[n]
    BY <1>13, <2>2
  <2>8. themes2 = [n \in DOMAIN themes1 \union names |-> IF n \in DOMAIN themes1 THEN themes1[n] ELSE Bare]
    BY <2>2, Zenon DEF WithThemes
  <2>9. themes2[name] = theme
    BY <1>13, <2>7, <2>8
  <2>10. KeepsDirs(themes1, themes2, name, {})
    <3>1. ASSUME NEW n PROVE DirsOf(themes1, n) \subseteq DirsOf(themes2, n)
      <4>1. n \in DOMAIN themes1 => n \in DOMAIN themes2 /\ themes2[n] = themes1[n]
        BY <2>8
      <4> QED BY <4>1 DEF DirsOf
    <3> QED BY <3>1 DEF KeepsDirs
  <2>11. KeepsDirs(t, themes2, name, told)
    <3>1. KeepsDirs(t, themes2, name, told \union {})
      BY <2>6, <2>10, KeepsJoin
    <3> QED BY <3>1
  <2>12. DirsAt(new, ts, name, lines, l)
    <3>1. g \in DOMAIN themes2[name].groups
      BY <1>13, <1>19, <2>5, <2>9
    <3>2. g = MainGroup <=> InIconTheme(lines, l)
      BY <1>5, <1>13, <1>19
    <3> HIDE DEF new
    <3> QED BY <1>14, <2>3, <2>11, <3>1, <3>2, Zenon
  <2> QED BY <1>1, <2>12 DEF line
<1> QED BY <1>13, <1>16, <1>17, <1>18, <1>19

\* F holds the reader of a file, F[i] after i lines.
ReadsTo(F, ts, name, lines, n) ==
  F = [i \in 0 .. n |-> IF i = 0 THEN Opened(ts, name) ELSE ReadLine(F[i - 1], lines[i])]

\* There is such a function for every length.
LEMMA ReadsExist ==
  ASSUME NEW ts, NEW name, NEW lines, NEW n \in Nat
  PROVE  \E F : ReadsTo(F, ts, name, lines, n)
<1> DEFINE T == {k \in Nat : \E F : ReadsTo(F, ts, name, lines, k)}
<1>1. 0 \in T
  <2> DEFINE F0 == [i \in 0 .. 0 |-> Opened(ts, name)]
  <2>1. F0 = [i \in 0 .. 0 |-> IF i = 0 THEN Opened(ts, name) ELSE ReadLine(F0[i - 1], lines[i])]
    OBVIOUS
  <2> HIDE DEF F0
  <2>2. ReadsTo(F0, ts, name, lines, 0)
    BY <2>1, Zenon DEF ReadsTo
  <2> QED BY <2>2
<1>2. ASSUME NEW k \in 0 .. n - 1, k \in T PROVE k + 1 \in T
  <2>1. PICK F1 : ReadsTo(F1, ts, name, lines, k)
    BY <1>2
  <2> DEFINE F2 == [i \in 0 .. k + 1 |-> IF i = k + 1 THEN ReadLine(F1[k], lines[i]) ELSE F1[i]]
  <2>2. ASSUME NEW i \in 0 .. k + 1
        PROVE  F2[i] = IF i = 0 THEN Opened(ts, name) ELSE ReadLine(F2[i - 1], lines[i])
    <3>1. CASE i = k + 1
      <4>1. i # 0 /\ i - 1 \in 0 .. k + 1 /\ i - 1 # k + 1 /\ i - 1 = k
        BY <3>1
      <4> QED BY <3>1, <4>1
    <3>2. CASE i # k + 1
      <4>1. i \in 0 .. k /\ (i = 0 \/ (i - 1 \in 0 .. k + 1 /\ i - 1 # k + 1))
        BY <3>2
      <4>2. F1[i] = IF i = 0 THEN Opened(ts, name) ELSE ReadLine(F1[i - 1], lines[i])
        BY <2>1, <4>1 DEF ReadsTo
      <4> QED BY <3>2, <4>1, <4>2
    <3> QED BY <3>1, <3>2
  <2>3. F2 = [i \in 0 .. k + 1 |-> F2[i]]
    OBVIOUS
  <2> HIDE DEF F2
  <2>4. ReadsTo(F2, ts, name, lines, k + 1)
    BY <2>2, <2>3, Zenon DEF ReadsTo
  <2> QED BY <2>4
<1> HIDE DEF T
<1>3. n \in T
  BY <1>1, <1>2, Induct
<1> QED BY <1>3 DEF T

\* A file adds its theme, and to it the parents and sub directories that are named
\* in its lines.
LEMMA ReadFileAdds ==
  ASSUME NEW ts, NEW U, IsThemes(ts, U), NEW name, NEW lines, Readable(lines, U)
  PROVE  /\ IsThemes(ReadThemeFile(ts, name, lines), U)
         /\ Adds(ts, ReadThemeFile(ts, name, lines), {name} \union Told(lines, Len(lines)), name,
                 Told(lines, Len(lines)))
         /\ KeepsDirs(ts, ReadThemeFile(ts, name, lines), name, DirsTold(lines, Len(lines)))
<1> DEFINE n == Len(lines)
           F == CHOOSE F : ReadsTo(F, ts, name, lines, n)
           T == {k \in 0 .. n : /\ ReaderAt(F[k], ts, name, lines, k, U)
                                /\ DirsAt(F[k], ts, name, lines, k)}
<1>1. n \in Nat
  BY DEF Readable
<1> HIDE DEF n
<1>2. ReadsTo(F, ts, name, lines, n)
  BY <1>1, ReadsExist
<1>3. ReadThemeFile(ts, name, lines) =
        IF name \in DOMAIN ts /\ lines = <<>> THEN ts ELSE F[n].themes
  <2> USE DEF n
  <2> QED BY Zenon DEF ReadThemeFile, ReadsTo
<1> HIDE DEF F
<1>4. 0 \in T
  <2>1. 0 \in 0 .. n
    BY <1>1
  <2>2. F[0] = Opened(ts, name)
    BY <1>2, <2>1, Zenon DEF ReadsTo
  <2> QED BY <2>1, <2>2, OpenedAt, OpenedDirs
<1>5. ASSUME NEW k \in 0 .. n - 1, k \in T PROVE k + 1 \in T
  <2>1. PICK l \in 0 .. n : l = k + 1 /\ l # 0 /\ l - 1 = k /\ k \in Nat /\ l <= n
    BY <1>1
  <2>2. F[l] = ReadLine(F[k], lines[l])
    BY <1>2, <2>1 DEF ReadsTo
  <2>3. ReaderAt(F[l], ts, name, lines, l, U)
    <3>1. ReaderAt(ReadLine(F[k], lines[k + 1]), ts, name, lines, k + 1, U)
      BY <1>5, <2>1, ReadLineAt DEF n
    <3> QED BY <2>1, <2>2, <3>1
  <2>4. DirsAt(F[l], ts, name, lines, l)
    <3>1. DirsAt(ReadLine(F[k], lines[k + 1]), ts, name, lines, k + 1)
      BY <1>5, <2>1, ReadLineDirs DEF n
    <3> QED BY <2>1, <2>2, <3>1
  <2> QED BY <2>1, <2>3, <2>4
<1>6. n \in T
  <2> HIDE DEF T
  <2>1. n \in 0 .. n
    BY <1>1
  <2> QED BY <1>1, <1>4, <1>5, <2>1, Induct
<1>7. CASE name \in DOMAIN ts /\ lines = <<>>
  <2>1. Told(lines, Len(lines)) = {}
    <3>1. Len(lines) = 0
      BY <1>7
    <3> QED BY <3>1, IsReadNext
  <2>2. ReadThemeFile(ts, name, lines) = ts
    BY <1>3, <1>7, Zenon
  <2>3. DirsTold(lines, Len(lines)) = {}
    <3>1. Len(lines) = 0
      BY <1>7
    <3> QED BY <3>1, DirsNext
  <2>4. KeepsDirs(ts, ts, name, {})
    BY DEF KeepsDirs
  <2>5. IsThemes(ts, U) /\ Adds(ts, ts, {name}, name, {})
    BY <1>7 DEF Adds
  <2>6. {name} \union {} = {name}
    OBVIOUS
  <2> QED BY <2>1, <2>2, <2>3, <2>4, <2>5, <2>6, Zenon
<1>8. CASE ~(name \in DOMAIN ts /\ lines = <<>>)
  <2>1. ReadThemeFile(ts, name, lines) = F[n].themes
    BY <1>3, <1>8, Zenon
  <2> QED BY <1>6, <2>1, Zenon DEF ReaderAt, DirsAt, n
<1> QED BY <1>7, <1>8

-----------------------------------------------------------------------------
(* What reading all index files makes of them *)

\* There always is a base directory: Pixmaps.
LEMMA ThemeDirsType ==
  ASSUME NEW e \in Environments
  PROVE  (\E D : ThemeDirs(e) \in Seq(D)) /\ Len(ThemeDirs(e)) \in Nat \ {0}
<1> DEFINE parts == IF e.dataDirs = Unset THEN <<"/usr/local/share", "/usr/share">> ELSE e.dataDirs
           P == {<<parts[i], "icons">> : i \in DOMAIN parts}
           D == P \union {<<e.dataHome, "">>, <<e.home, ".icons">>, Pixmaps}
           home == HomeDirs(e, ".icons")
           ss == [i \in DOMAIN parts |-> IF parts[i] = "" THEN <<>>
             ELSE << <<parts[i], "icons">> >>]
           listed == ListedDirs(e, "icons")
<1>1. DOMAIN parts = 1 .. Len(parts) /\ Len(parts) \in Nat
  <2>1. CASE e.dataDirs = Unset
    BY <2>1
  <2>2. CASE e.dataDirs # Unset
    <3>1. IsSeq(e.dataDirs) /\ parts = e.dataDirs
      BY <2>2, EnvironmentsAssumption
    <3> QED BY <3>1 DEF IsSeq
  <2> QED BY <2>1, <2>2
<1>2. ss \in Seq(Seq(D))
  <2>1. ASSUME NEW i \in DOMAIN parts
        PROVE  (IF parts[i] = "" THEN <<>> ELSE << <<parts[i], "icons">> >>) \in Seq(D)
    <3>1. PICK d : d = <<parts[i], "icons">>
      OBVIOUS
    <3>2. d \in D
      BY <3>1
    <3>3. <<d>> \in Seq(D) /\ <<>> \in Seq(D)
      <4> HIDE DEF D
      <4> QED BY <3>2
    <3> HIDE DEF parts, D
    <3> QED BY <3>1, <3>3, Zenon
  <2>2. PICK n \in Nat : n = Len(parts)
    BY <1>1
  <2>3. ss \in [1 .. n -> Seq(D)]
    <3> HIDE DEF parts, D
    <3> QED BY <1>1, <2>1, <2>2
  <2> HIDE DEF ss, D
  <2> QED BY <2>3, SeqDef
<1>3. listed = FlattenSeq(ss)
  BY Zenon DEF ListedDirs
<1>4. listed \in Seq(D)
  <2> HIDE DEF ss, D, listed
  <2> QED BY <1>2, <1>3, FlattenElements
<1>5. home \in Seq(D)
  <2>1. PICK d, h : d = <<e.dataHome, "">> /\ h = <<e.home, ".icons">>
    OBVIOUS
  <2>2. d \in D /\ h \in D
    BY <2>1
  <2>3. <<d>> \in Seq(D) /\ <<h>> \in Seq(D) /\ <<>> \in Seq(D)
    <3> HIDE DEF D
    <3> QED BY <2>2
  <2>4. home = <<d>> \/ home = <<h>> \/ home = <<>>
    BY <2>1, Zenon DEF HomeDirs
  <2> HIDE DEF home, D
  <2> QED BY <2>3, <2>4
<1>6. Pixmaps \in D
  OBVIOUS
<1>7. ThemeDirs(e) = home \o listed \o <<Pixmaps>>
  BY Zenon DEF ThemeDirs
<1> HIDE DEF home, listed, D
<1>8. ThemeDirs(e) \in Seq(D) /\ Len(ThemeDirs(e)) \in Nat \ {0}
  BY <1>4, <1>5, <1>6, <1>7
<1> QED BY <1>8

FilesRead(files, e) == {f \in files : f.base \in ToSet(ThemeDirs(e))}

\* The files that are read are those below a base directory.
LEMMA FilesInOrderElements ==
  ASSUME NEW files \in IndexFiles, NEW e \in Environments
  PROVE  FilesInOrder(files, e) \in Seq(files) /\
           ToSet(FilesInOrder(files, e)) = FilesRead(files, e)
<1> DEFINE dirs == ThemeDirs(e)
           In(d) == {f \in files : f.base = d}
           ss == [i \in DOMAIN dirs |-> SetToSeq(In(dirs[i]))]
<1>1. DOMAIN dirs = 1 .. Len(dirs) /\ Len(dirs) \in Nat
  <2>1. PICK D : dirs \in Seq(D)
    BY ThemeDirsType
  <2> HIDE DEF dirs
  <2> QED BY <2>1
<1> HIDE DEF dirs
<1>2. ASSUME NEW d PROVE SetToSeq(In(d)) \in Seq(files) /\ ToSet(SetToSeq(In(d))) = In(d)
  <2>1. IsFiniteSet(files) /\ In(d) \in SUBSET files
    BY IndexFilesAssumption
  <2> HIDE DEF In
  <2>2. IsFiniteSet(In(d))
    BY <2>1, FS_Subset
  <2>3. SetToSeq(In(d)) \in Seq(In(d)) /\ ToSet(SetToSeq(In(d))) = In(d)
    BY <2>2, SetToSeqElements
  <2> QED BY <2>1, <2>3
<1> HIDE DEF In
<1>3. ss \in Seq(Seq(files)) /\ DOMAIN ss = DOMAIN dirs
  <2>1. ss \in [1 .. Len(dirs) -> Seq(files)]
    BY <1>1, <1>2
  <2> HIDE DEF ss
  <2> QED BY <1>1, <2>1, SeqDef
<1>4. FilesInOrder(files, e) = FlattenSeq(ss)
  BY Zenon DEF FilesInOrder, dirs, In
<1>5. \A i \in DOMAIN dirs : ToSet(ss[i]) = In(dirs[i])
  BY <1>2
<1> HIDE DEF ss
<1>6. FlattenSeq(ss) \in Seq(files) /\
        ToSet(FlattenSeq(ss)) = UNION {ToSet(ss[i]) : i \in DOMAIN ss}
  BY <1>3, FlattenElements
<1>7. UNION {ToSet(ss[i]) : i \in DOMAIN ss} = UNION {In(dirs[i]) : i \in DOMAIN dirs}
  BY <1>3, <1>5
<1>8. UNION {In(dirs[i]) : i \in DOMAIN dirs} = FilesRead(files, e)
  BY DEF In, FilesRead, ToSet, dirs
<1> QED BY <1>4, <1>6, <1>7, <1>8

AllTold(f) == Told(f.lines, Len(f.lines))
AllDirs(f) == DirsTold(f.lines, Len(f.lines))

\* The themes after k of the files.
LoadedAt(ts, order, k, U) ==
  /\ IsThemes(ts, U)
  /\ DOMAIN ts = UNION {{order[j].theme} \union AllTold(order[j]) : j \in 1 .. k}
  /\ \A n : ParentsIn(ts, n) = UNION {AllTold(order[j]) : j \in {j \in 1 .. k : order[j].theme = n}}
  /\ \A j \in 1 .. k : AllDirs(order[j]) \subseteq DirsOf(ts, order[j].theme)

LoadsTo(F, order, n) ==
  F = [i \in 0 .. n |-> IF i = 0 THEN <<>>
    ELSE ReadThemeFile(F[i - 1], order[i].theme, order[i].lines)]

\* There is such a function for every length.
LEMMA LoadsExist ==
  ASSUME NEW order, NEW n \in Nat
  PROVE  \E F : LoadsTo(F, order, n)
<1> DEFINE T == {k \in Nat : \E F : LoadsTo(F, order, k)}
<1>1. 0 \in T
  <2> DEFINE F0 == [i \in 0 .. 0 |-> <<>>]
  <2>1. F0 = [i \in 0 .. 0 |-> IF i = 0 THEN <<>>
          ELSE ReadThemeFile(F0[i - 1], order[i].theme, order[i].lines)]
    OBVIOUS
  <2> HIDE DEF F0
  <2>2. LoadsTo(F0, order, 0)
    BY <2>1, Zenon DEF LoadsTo
  <2> QED BY <2>2
<1>2. ASSUME NEW k \in 0 .. n - 1, k \in T PROVE k + 1 \in T
  <2>1. PICK F1 : LoadsTo(F1, order, k)
    BY <1>2
  <2> DEFINE F2 == [i \in 0 .. k + 1 |->
                      IF i = k + 1 THEN ReadThemeFile(F1[k], order[i].theme, order[i].lines)
                        ELSE F1[i]]
  <2>2. ASSUME NEW i \in 0 .. k + 1
        PROVE  F2[i] = IF i = 0 THEN <<>>
                 ELSE ReadThemeFile(F2[i - 1], order[i].theme, order[i].lines)
    <3>1. CASE i = k + 1
      <4>1. i # 0 /\ i - 1 \in 0 .. k + 1 /\ i - 1 # k + 1 /\ i - 1 = k
        BY <3>1
      <4> QED BY <3>1, <4>1
    <3>2. CASE i # k + 1
      <4>1. i \in 0 .. k /\ (i = 0 \/ (i - 1 \in 0 .. k + 1 /\ i - 1 # k + 1))
        BY <3>2
      <4>2. F1[i] = IF i = 0 THEN <<>> ELSE ReadThemeFile(F1[i - 1], order[i].theme, order[i].lines)
        BY <2>1, <4>1 DEF LoadsTo
      <4> QED BY <3>2, <4>1, <4>2
    <3> QED BY <3>1, <3>2
  <2>3. F2 = [i \in 0 .. k + 1 |-> F2[i]]
    OBVIOUS
  <2> HIDE DEF F2
  <2>4. LoadsTo(F2, order, k + 1)
    BY <2>2, <2>3, Zenon DEF LoadsTo
  <2> QED BY <2>4
<1> HIDE DEF T
<1>3. n \in T
  BY <1>1, <1>2, Induct
<1> QED BY <1>3 DEF T

\* One more file adds what it says.
LEMMA LoadedNext ==
  ASSUME NEW ts, NEW order, NEW k \in Nat, NEW U, LoadedAt(ts, order, k, U), NEW f,
           f = order[k + 1],
         Readable(f.lines, U)
  PROVE  LoadedAt(ReadThemeFile(ts, f.theme, f.lines), order, k + 1, U)
<1> DEFINE new == ReadThemeFile(ts, f.theme, f.lines)
           Named(j) == {order[j].theme} \union AllTold(order[j])
<1>1. /\ IsThemes(new, U) /\ Adds(ts, new, {f.theme} \union AllTold(f), f.theme, AllTold(f))
      /\ KeepsDirs(ts, new, f.theme, AllDirs(f))
  BY ReadFileAdds, Zenon DEF LoadedAt, AllTold, AllDirs
<1> HIDE DEF new
<1>2. PICK l : l = k + 1
  OBVIOUS
<1>3. 1 .. l = 1 .. k \union {l} /\ f = order[l]
  BY <1>2
<1>4. DOMAIN new = UNION {Named(j) : j \in 1 .. l}
  <2>1. DOMAIN new = (UNION {Named(j) : j \in 1 .. k}) \union Named(l)
    BY <1>1, <1>3, Zenon DEF Adds, LoadedAt
  <2> HIDE DEF Named
  <2> QED BY <1>3, <2>1
<1>5. ASSUME NEW n
      PROVE  ParentsIn(new, n) =
               UNION {AllTold(order[j]) : j \in {j \in 1 .. l : order[j].theme = n}}
  <2>1. ParentsIn(new, n) = (UNION {AllTold(order[j]) : j \in {j \in 1 .. k : order[j].theme = n}})
                              \union (IF n = f.theme THEN AllTold(f) ELSE {})
    BY <1>1, Zenon DEF Adds, LoadedAt
  <2> QED BY <1>3, <2>1
<1>6. ASSUME NEW j \in 1 .. l PROVE AllDirs(order[j]) \subseteq DirsOf(new, order[j].theme)
  <2>1. CASE j = l
    BY <1>1, <1>3, <2>1 DEF KeepsDirs
  <2>2. CASE j # l
    <3>1. AllDirs(order[j]) \subseteq DirsOf(ts, order[j].theme)
      BY <1>3, <2>2 DEF LoadedAt
    <3> QED BY <1>1, <3>1 DEF KeepsDirs
  <2> QED BY <2>1, <2>2
<1>7. LoadedAt(new, order, l, U)
  BY <1>1, <1>4, <1>5, <1>6, Zenon DEF LoadedAt
<1> QED BY <1>2, <1>7 DEF new

\* Every theme has the parents that the index files say and all sub directories
\* besides, and no other themes but those with files and their parents were read.
LEMMA ThemesAre ==
  ASSUME NEW files \in IndexFiles, NEW e \in Environments
  PROVE  \E U : /\ IsThemes(LoadThemes(files, e), U)
                /\ DOMAIN LoadThemes(files, e) =
                     UNION {{f.theme} \union AllTold(f) : f \in FilesRead(files, e)}
                /\ \A n : ParentsIn(LoadThemes(files, e), n) =
                            UNION {AllTold(f) : f \in {f \in FilesRead(files, e) : f.theme = n}}
                /\ \A f \in FilesRead(files, e) :
                     AllDirs(f) \subseteq DirsOf(LoadThemes(files, e), f.theme)
<1> DEFINE order == FilesInOrder(files, e)
           n == Len(order)
           Values(f) == UNION {ToSet(f.lines[i].values) : i \in DOMAIN f.lines}
           U == {CutName} \union UNION {Values(f) : f \in files}
           F == CHOOSE F : LoadsTo(F, order, n)
           T == {k \in 0 .. n : LoadedAt(F[k], order, k, U)}
<1>1. order \in Seq(files) /\ ToSet(order) = FilesRead(files, e)
  BY FilesInOrderElements
<1> HIDE DEF order
<1>2. n \in Nat /\ DOMAIN order = 1 .. n /\ \A j \in 1 .. n : order[j] \in files
  BY <1>1
<1> HIDE DEF n
<1>3. ASSUME NEW f \in files PROVE Readable(f.lines, U)
  <2>1. IsSeq(f.lines) /\ \A i \in DOMAIN f.lines : ~IsHeader(f.lines[i]) =>
          IsSeq(f.lines[i].values)
    BY IndexFilesAssumption
  <2>2. Len(f.lines) \in Nat /\ DOMAIN f.lines = 1 .. Len(f.lines)
    <3>1. Len(f.lines) \in Nat /\ f.lines = [i \in 1 .. Len(f.lines) |-> f.lines[i]]
      BY <2>1, Zenon DEF IsSeq
    <3> QED BY <3>1
  <2>3. ASSUME NEW i \in DOMAIN f.lines, ~IsHeader(f.lines[i])
        PROVE  Chunk(f.lines[i].values) \in Seq(U)
    <3>1. PICK values : values = f.lines[i].values
      OBVIOUS
    <3>2. ToSet(values) \subseteq U /\ CutName \in U
      BY <3>1
    <3> HIDE DEF U
    <3>3. values \in Seq(U)
      BY <2>1, <2>3, <3>1, <3>2, SeqIs
    <3> QED BY <3>1, <3>2, <3>3, ChunkIs
  <2> QED BY <2>2, <2>3 DEF Readable
<1> HIDE DEF U
<1>4. LoadsTo(F, order, n)
  BY <1>2, LoadsExist
<1>5. LoadThemes(files, e) = F[n]
  BY Zenon DEF LoadThemes, LoadsTo, order, n
<1> HIDE DEF F
<1>6. 0 \in T
  <2>1. 0 \in 0 .. n /\ F[0] = <<>>
    <3>1. 0 \in 0 .. n
      BY <1>2
    <3> QED BY <1>4, <3>1, Zenon DEF LoadsTo
  <2>2. DOMAIN <<>> = {} /\ 1 .. 0 = {}
    OBVIOUS
  <2>3. IsThemes(<<>>, U)
    BY <2>2 DEF IsThemes
  <2>4. LoadedAt(<<>>, order, 0, U)
    BY <2>2, <2>3 DEF LoadedAt, ParentsIn
  <2> QED BY <2>1, <2>4
<1>7. ASSUME NEW k \in 0 .. n - 1, k \in T PROVE k + 1 \in T
  <2>1. PICK l \in 0 .. n : l = k + 1 /\ l # 0 /\ l - 1 = k /\ k \in Nat /\ l \in 1 .. n
    BY <1>2
  <2>2. F[l] = ReadThemeFile(F[k], order[l].theme, order[l].lines)
    BY <1>4, <2>1 DEF LoadsTo
  <2>3. PICK f : f = order[l]
    OBVIOUS
  <2>4. f = order[k + 1] /\ Readable(f.lines, U)
    BY <1>2, <1>3, <2>1, <2>3
  <2>5. LoadedAt(ReadThemeFile(F[k], f.theme, f.lines), order, k + 1, U)
    BY <1>7, <2>1, <2>4, LoadedNext
  <2>6. LoadedAt(F[l], order, l, U)
    BY <2>1, <2>2, <2>3, <2>5, Zenon
  <2> QED BY <2>1, <2>6
<1>8. n \in T
  <2> HIDE DEF T
  <2>1. n \in 0 .. n
    BY <1>2
  <2> QED BY <1>2, <1>6, <1>7, <2>1, Induct
<1>9. LoadedAt(F[n], order, n, U)
  BY <1>8
<1>10. {order[j] : j \in 1 .. n} = FilesRead(files, e)
  BY <1>1, <1>2 DEF ToSet
<1>11. UNION {{order[j].theme} \union AllTold(order[j]) : j \in 1 .. n} =
         UNION {{f.theme} \union AllTold(f) : f \in FilesRead(files, e)}
  BY <1>10
<1>12. \A m : UNION {AllTold(order[j]) : j \in {j \in 1 .. n : order[j].theme = m}} =
              UNION {AllTold(f) : f \in {f \in FilesRead(files, e) : f.theme = m}}
  BY <1>10
<1>13. \A f \in FilesRead(files, e) : AllDirs(f) \subseteq DirsOf(F[n], f.theme)
  <2>1. \A j \in 1 .. n : AllDirs(order[j]) \subseteq DirsOf(F[n], order[j].theme)
    BY <1>9, Zenon DEF LoadedAt
  <2> QED BY <1>10, <2>1
<1> QED BY <1>5, <1>9, <1>11, <1>12, <1>13, Zenon DEF LoadedAt

-----------------------------------------------------------------------------
(* The inductive invariant *)

\* What the themes were read from and what was read.
World == [index |-> index, env |-> env, themes |-> themes]

Loaded(w) == /\ w.index \in IndexFiles /\ w.env \in Environments
             /\ w.themes = LoadThemes(w.index, w.env)

Dirs(w) == ThemeDirs(w.env)
Parents(w, name) == UNION {AllTold(f) : f \in {f \in FilesRead(w.index, w.env) : f.theme = name}}
NamesIn(w) == {Hicolor} \union {f.theme : f \in w.index} \union
                UNION {Parents(w, f.theme) : f \in w.index}
AfterIn(w) ==
  [name \in NamesIn(w) |-> IF Parents(w, name) = {} THEN {Hicolor} \ {name} ELSE Parents(w, name)]

GoesOnTo(w, name) ==
  IF w.themes[name].parents # <<>> THEN w.themes[name].parents
  ELSE IF name # Hicolor THEN <<Hicolor>> ELSE <<>>

ExactIn(w, r, name) == Matching(w.themes[name], r.size, r.context)
ClosestIn(w, r, name) == Closest(w.themes[name], r.size, r.context)
PassesIn(w, r, name) ==
  IF ExactIn(w, r, name) = {} THEN <<>>
  ELSE IF ClosestIn(w, r, name) = {} THEN <<ExactIn(w, r, name)>>
  ELSE <<ExactIn(w, r, name), ClosestIn(w, r, name)>>

\* The file is in one of these places of the theme, ...
At3(w, name, places, f) == \E i \in places : f[3] = Listed(w.themes[name])[i]
Fits(w, name, places, dir, icon, f) ==
  f[1] = dir /\ f[2] = name /\ f[4] = icon /\ At3(w, name, places, f)

\* ... and among the files S one that the search is to find.
FoundIn(w, S, r, name, icon) ==
  {f \in S : /\ f[1] \in ToSet(Dirs(w)) /\ f[2] = name /\ f[4] = icon
             /\ At3(w, name, Directories(w.themes[name], r.context), f)
             /\ ExactIn(w, r, name) # {}
             /\ \/ MatchesSize(w.themes[f[2]].groups[f[3]], r.size)
                \/ At3(w, name, ClosestIn(w, r, name), f)}

\* Nothing is to be found in this theme and those after it.
Done(w, S, r, name, icon) ==
  \A t \in Closure(AfterIn(w), {name}) : FoundIn(w, S, r, t, icon) = {}

\* The calls lead from one to the next, ...
IsStack(w, r, s) ==
  /\ s \in Seq([theme : DOMAIN w.themes, tried : Nat]) /\ Len(s) > 0
  /\ s[1].theme = r.theme
  /\ \A i \in 1 .. Len(s) : s[i].tried <= Len(GoesOnTo(w, s[i].theme))
  /\ \A i \in 1 .. Len(s) - 1 :
       s[i].tried > 0 /\ s[i + 1].theme = GoesOnTo(w, s[i].theme)[s[i].tried]

\* ... and all that was searched had nothing.
Failed(w, S, r, s, icon) ==
  /\ \A i \in 1 .. Len(s) - 1 :
       /\ FoundIn(w, S, r, s[i].theme, icon) = {}
       /\ \A k \in 1 .. s[i].tried - 1 : Done(w, S, r, GoesOnTo(w, s[i].theme)[k], icon)
  /\ \A k \in 1 .. s[Len(s)].tried : Done(w, S, r, GoesOnTo(w, s[Len(s)].theme)[k], icon)

\* Of the passes those before pass p and its base directories before b had nothing.
Looked(w, S, name, ps, p, b, icon) ==
  \A f \in S, q \in 1 .. Len(ps), c \in 1 .. Len(Dirs(w)) :
    q < p \/ (q = p /\ c < b) => ~Fits(w, name, ps[q], Dirs(w)[c], icon, f)

\* The search in the theme of this call is at pass p and base directory b.
Place(w, S, r, call, ps, p, b, icon) ==
  /\ Len(ps) \in Nat /\ p \in Nat \ {0} /\ b \in 1 .. Len(Dirs(w))
  /\ p <= Len(ps) => /\ ps = PassesIn(w, r, call.theme) /\ call.tried = 0
                     /\ Looked(w, S, call.theme, ps, p, b, icon)
  /\ p > Len(ps) => FoundIn(w, S, r, call.theme, icon) = {}

\* The search has come so far, and nothing before is to be found.
Progress(w, S, r, n, s, ps, p, b) ==
  /\ Hicolor \in DOMAIN w.themes /\ r.theme \in DOMAIN w.themes
  /\ Len(r.names) \in Nat /\ n \in 1 .. Len(r.names)
  /\ \A m \in 1 .. n - 1 : Done(w, S, r, r.theme, r.names[m])
  /\ IsStack(w, r, s)
  /\ Failed(w, S, r, s, r.names[n])
  /\ Place(w, S, r, s[Len(s)], ps, p, b, r.names[n])

\* The file is in the place that was searched last.
IsThere(w, s, ps, p, b, icon, f) ==
  p <= Len(ps) /\ Fits(w, s[Len(s)].theme, ps[p], Dirs(w)[b], icon, f)

\* ... or is at its end.
NoneHas(w, S, r, n) ==
  r.theme \in DOMAIN w.themes /\ \A m \in 1 .. n : Done(w, S, r, r.theme, r.names[m])

\* Where a search is tells where it has been.
IInv ==
  /\ Loaded(World)
  /\ \A f \in icons : IsIconFile(f)
  /\ pc = "idle" => request = NoRequest
  /\ pc \in {"search", "found"} =>
       steady \subseteq icons /\ Progress(World, steady, request, turn, stack, passes, pass, base)
  /\ pc = "found" => IsThere(World, stack, passes, pass, base, request.names[turn], file)
  /\ pc = "none" => request = NoRequest \/ NoneHas(World, steady, request, turn)

-----------------------------------------------------------------------------
(* Where the search goes *)

\* The base directories are numbered from 1.
LEMMA DirsAre ==
  ASSUME NEW w, Loaded(w)
  PROVE  Len(Dirs(w)) \in Nat \ {0} /\ DOMAIN Dirs(w) = 1 .. Len(Dirs(w))
<1>1. PICK D : ThemeDirs(w.env) \in Seq(D)
  BY ThemeDirsType, Zenon DEF Loaded
<1>2. Len(ThemeDirs(w.env)) \in Nat \ {0}
  BY ThemeDirsType, Zenon DEF Loaded
<1>3. PICK dirs : dirs = ThemeDirs(w.env)
  OBVIOUS
<1>4. DOMAIN dirs = 1 .. Len(dirs)
  BY <1>1, <1>3
<1> QED BY <1>2, <1>3, <1>4, Zenon DEF Dirs

\* The themes are those that the index files lead to, with the parents that these name.
LEMMA NamesAre ==
  ASSUME NEW w, Loaded(w)
  PROVE  /\ \E U : IsThemes(w.themes, U)
         /\ \A n : ParentsIn(w.themes, n) = Parents(w, n) /\ Parents(w, n) \subseteq DOMAIN w.themes
         /\ DOMAIN w.themes \subseteq NamesIn(w)
<1>1. w.index \in IndexFiles /\ w.env \in Environments /\ w.themes = LoadThemes(w.index, w.env)
  BY DEF Loaded
<1> DEFINE read == FilesRead(w.index, w.env)
<1>2. PICK U : /\ IsThemes(w.themes, U)
               /\ DOMAIN w.themes = UNION {{f.theme} \union AllTold(f) : f \in read}
               /\ \A n : ParentsIn(w.themes, n) =
                    UNION {AllTold(f) : f \in {f \in read : f.theme = n}}
  <2>1. PICK files \in IndexFiles, e \in Environments : files = w.index /\ e = w.env
    BY <1>1
  <2>2. \E U : /\ IsThemes(LoadThemes(files, e), U)
               /\ DOMAIN LoadThemes(files, e) =
                    UNION {{f.theme} \union AllTold(f) : f \in FilesRead(files, e)}
               /\ \A n : ParentsIn(LoadThemes(files, e), n) =
                            UNION {AllTold(f) : f \in {f \in FilesRead(files, e) : f.theme = n}}
    BY ThemesAre
  <2>3. w.themes = LoadThemes(files, e) /\ read = FilesRead(files, e)
    BY <1>1, <2>1
  <2> HIDE DEF read
  <2> QED BY <2>2, <2>3
<1>3. \A n : ParentsIn(w.themes, n) = Parents(w, n)
  BY <1>2, Zenon DEF Parents
<1>4. ASSUME NEW n PROVE Parents(w, n) \subseteq DOMAIN w.themes
  <2>1. \A f \in read : AllTold(f) \subseteq DOMAIN w.themes
    <3> HIDE DEF read
    <3> QED BY <1>2
  <2> QED BY <2>1 DEF Parents
<1>5. read \subseteq w.index
  BY DEF FilesRead
<1>6. \A f \in read : AllTold(f) \subseteq Parents(w, f.theme)
  BY DEF Parents
<1>7. DOMAIN w.themes \subseteq NamesIn(w)
  <2> HIDE DEF read
  <2>1. ASSUME NEW t \in DOMAIN w.themes PROVE t \in NamesIn(w)
    <3>1. PICK f \in read : t \in {f.theme} \union AllTold(f)
      BY <1>2, <2>1
    <3>2. f \in w.index /\ (t = f.theme \/ t \in Parents(w, f.theme))
      BY <1>5, <1>6, <3>1
    <3> QED BY <3>2 DEF NamesIn
  <2> QED BY <2>1
<1> QED BY <1>2, <1>3, <1>4, <1>7

\* The sub directories that the index files name were read.
LEMMA DirsAreRead ==
  ASSUME NEW w, Loaded(w), NEW f \in FilesRead(w.index, w.env)
  PROVE  AllDirs(f) \subseteq DirsOf(w.themes, f.theme)
<1>1. PICK files \in IndexFiles, e \in Environments : files = w.index /\ e = w.env
  BY DEF Loaded
<1>2. \A g \in FilesRead(files, e) : AllDirs(g) \subseteq DirsOf(LoadThemes(files, e), g.theme)
  BY ThemesAre
<1>3. w.themes = LoadThemes(files, e) /\ f \in FilesRead(files, e)
  BY <1>1 DEF Loaded
<1> QED BY <1>2, <1>3, Zenon

\* The themes after those there may be are among them.
LEMMA AfterAre ==
  ASSUME NEW w, Loaded(w)
  PROVE  DOMAIN AfterIn(w) = NamesIn(w) /\ \A t \in NamesIn(w) : AfterIn(w)[t] \subseteq NamesIn(w)
<1>1. \A n : Parents(w, n) \subseteq NamesIn(w)
  BY NamesAre, Zenon
<1>2. Hicolor \in NamesIn(w)
  BY DEF NamesIn
<1>3. \A t \in NamesIn(w) :
        AfterIn(w)[t] = IF Parents(w, t) = {} THEN {Hicolor} \ {t} ELSE Parents(w, t)
  BY DEF AfterIn
<1>4. DOMAIN AfterIn(w) = NamesIn(w)
  BY DEF AfterIn
<1>5. ASSUME NEW t \in NamesIn(w) PROVE AfterIn(w)[t] \subseteq NamesIn(w)
  BY <1>1, <1>2, <1>3
<1> QED BY <1>4, <1>5

\* A call goes on to the themes after its own.
LEMMA GoesOnAre ==
  ASSUME NEW w, Loaded(w), Hicolor \in DOMAIN w.themes, NEW name \in DOMAIN w.themes
  PROVE  /\ GoesOnTo(w, name) \in Seq(DOMAIN w.themes)
         /\ {GoesOnTo(w, name)[k] : k \in 1 .. Len(GoesOnTo(w, name))} = AfterIn(w)[name]
<1>1. PICK U : IsThemes(w.themes, U)
  BY NamesAre
<1>2. PICK parents : parents = w.themes[name].parents
  OBVIOUS
<1>3. parents \in Seq(U) /\ ToSet(parents) = Parents(w, name)
  <2>1. parents \in Seq(U)
    BY <1>1, <1>2, Zenon DEF IsThemes
  <2>2. ParentsIn(w.themes, name) = ToSet(parents)
    BY <1>2, Zenon DEF ParentsIn
  <2> QED BY <2>1, <2>2, NamesAre
<1>4. Parents(w, name) \subseteq DOMAIN w.themes /\ name \in NamesIn(w)
  BY NamesAre
<1>5. AfterIn(w)[name] = IF Parents(w, name) = {} THEN {Hicolor} \ {name} ELSE Parents(w, name)
  BY <1>4 DEF AfterIn
<1>6. GoesOnTo(w, name) = IF parents # <<>> THEN parents
        ELSE IF name # Hicolor THEN <<Hicolor>> ELSE <<>>
  BY <1>2, Zenon DEF GoesOnTo
<1>7. ToSet(parents) = {parents[k] : k \in 1 .. Len(parents)}
  BY <1>3 DEF ToSet
<1>8. CASE parents = <<>>
  <2>1. Parents(w, name) = {}
    BY <1>3, <1>7, <1>8
  <2>2. PICK next : next = GoesOnTo(w, name)
    OBVIOUS
  <2>3. CASE name = Hicolor
    <3>1. next = <<>> /\ AfterIn(w)[name] = {}
      BY <1>5, <1>6, <1>8, <2>1, <2>2, <2>3
    <3> QED BY <2>2, <3>1
  <2>4. CASE name # Hicolor
    <3>1. next = <<Hicolor>> /\ AfterIn(w)[name] = {Hicolor}
      BY <1>5, <1>6, <1>8, <2>1, <2>2, <2>4
    <3>2. next \in Seq(DOMAIN w.themes) /\ Len(next) = 1 /\ next[1] = Hicolor
      <4>1. PICK h, T : h = Hicolor /\ T = DOMAIN w.themes
        OBVIOUS
      <4>2. h \in T /\ next = <<h>>
        BY <3>1, <4>1
      <4>3. next \in Seq(T) /\ Len(next) = 1 /\ next[1] = h
        BY ONLY <4>2
      <4> QED BY <4>1, <4>3
    <3>3. {next[k] : k \in 1 .. Len(next)} = {Hicolor}
      BY <3>2
    <3> QED BY <2>2, <3>1, <3>2, <3>3
  <2> QED BY <2>3, <2>4
<1>9. CASE parents # <<>>
  <2>1. Parents(w, name) # {}
    <3>1. Len(parents) \in Nat /\ Len(parents) # 0
      BY <1>3, <1>9
    <3>2. 1 \in 1 .. Len(parents)
      BY <3>1
    <3>3. parents[1] \in ToSet(parents)
      BY <1>7, <3>2
    <3> QED BY <1>3, <3>3
  <2>2. parents \in Seq(DOMAIN w.themes)
    <3>1. \A k \in 1 .. Len(parents) : parents[k] \in DOMAIN w.themes
      BY <1>3, <1>4, <1>7
    <3> QED BY <1>3, <3>1
  <2> QED BY <1>3, <1>5, <1>6, <1>7, <1>9, <2>1, <2>2
<1> QED BY <1>8, <1>9

Closed(after, from, S) == S \subseteq DOMAIN after /\ from \subseteq S /\
                            \A t \in S : after[t] \subseteq S

\* What follows from a theme is the theme and what follows from those after it.
LEMMA ClosureStep ==
  ASSUME NEW after, \A t \in DOMAIN after : after[t] \subseteq DOMAIN after
  PROVE  /\ \A T \in DOMAIN after :
              Closure(after, {T}) \subseteq {T} \union UNION {Closure(after, {k}) : k \in after[T]}
         /\ \A from \in SUBSET DOMAIN after :
              Closure(after, from) \subseteq UNION {Closure(after, {k}) : k \in from}
<1>1. ASSUME NEW from
      PROVE  /\ \A t \in Closure(after, from) : t \in DOMAIN after
             /\ \A t \in Closure(after, from) : \A S : Closed(after, from, S) => t \in S
             /\ \A t \in DOMAIN after :
                  (\A S : Closed(after, from, S) => t \in S) => t \in Closure(after, from)
  BY DEF Closure, Closed
<1>2. ASSUME NEW k \in DOMAIN after PROVE k \in Closure(after, {k})
  BY <1>1 DEF Closed
<1>3. ASSUME NEW from, NEW t \in Closure(after, from)
      PROVE  after[t] \subseteq Closure(after, from)
  <2>1. ASSUME NEW u \in after[t] PROVE u \in Closure(after, from)
    <3>1. t \in DOMAIN after /\ u \in DOMAIN after
      BY <1>1, <1>3
    <3>2. ASSUME NEW S, Closed(after, from, S) PROVE u \in S
      <4>1. t \in S
        BY <1>1, <1>3, <3>2
      <4> QED BY <3>2, <4>1 DEF Closed
    <3> QED BY <1>1, <3>1, <3>2
  <2> QED BY <2>1
<1>4. ASSUME NEW from \in SUBSET DOMAIN after
      PROVE  Closure(after, from) \subseteq UNION {Closure(after, {k}) : k \in from}
  <2> DEFINE S == UNION {Closure(after, {k}) : k \in from}
  <2>1. S \subseteq DOMAIN after
    BY <1>1
  <2>2. from \subseteq S
    BY <1>2
  <2>3. \A t \in S : after[t] \subseteq S
    BY <1>3
  <2> HIDE DEF S
  <2>4. Closed(after, from, S)
    BY <2>1, <2>2, <2>3 DEF Closed
  <2>5. Closure(after, from) \subseteq S
    BY <1>1, <2>4
  <2> QED BY <2>5 DEF S
<1>5. ASSUME NEW T \in DOMAIN after
      PROVE  Closure(after, {T}) \subseteq {T} \union UNION {Closure(after, {k}) : k \in after[T]}
  <2> DEFINE S == {T} \union UNION {Closure(after, {k}) : k \in after[T]}
  <2>1. S \subseteq DOMAIN after
    BY <1>1
  <2>2. {T} \subseteq S
    OBVIOUS
  <2>3. after[T] \subseteq S
    BY <1>2
  <2>4. \A t \in S : after[t] \subseteq S
    <3>1. ASSUME NEW k \in after[T], NEW t \in Closure(after, {k}) PROVE after[t] \subseteq S
      <4>1. after[t] \subseteq Closure(after, {k})
        BY <1>3, <3>1
      <4> QED BY <3>1, <4>1
    <3> QED BY <2>3, <3>1
  <2> HIDE DEF S
  <2>5. Closed(after, {T}, S)
    BY <2>1, <2>2, <2>4 DEF Closed
  <2>6. Closure(after, {T}) \subseteq S
    BY <1>1, <2>5
  <2> QED BY <2>6 DEF S
<1> QED BY <1>4, <1>5

\* A theme is done when it has nothing and those it goes on to are done.
LEMMA ThemeDone ==
  ASSUME NEW w, Loaded(w), Hicolor \in DOMAIN w.themes, NEW name \in DOMAIN w.themes, NEW S, NEW r,
           NEW icon,
         FoundIn(w, S, r, name, icon) = {},
         \A k \in 1 .. Len(GoesOnTo(w, name)) : Done(w, S, r, GoesOnTo(w, name)[k], icon)
  PROVE  Done(w, S, r, name, icon)
<1> DEFINE after == AfterIn(w)
<1>1. DOMAIN after = NamesIn(w) /\ \A t \in NamesIn(w) : after[t] \subseteq NamesIn(w)
  BY AfterAre
<1>2. name \in NamesIn(w)
  BY NamesAre
<1>3. after[name] = {GoesOnTo(w, name)[k] : k \in 1 .. Len(GoesOnTo(w, name))}
  BY GoesOnAre
<1>4. \A k \in after[name] : \A t \in Closure(after, {k}) : FoundIn(w, S, r, t, icon) = {}
  BY <1>3 DEF Done
<1> HIDE DEF after
<1>5. Closure(after, {name}) \subseteq {name} \union UNION {Closure(after, {k}) : k \in after[name]}
  BY <1>1, <1>2, ClosureStep
<1>6. \A t \in Closure(after, {name}) : FoundIn(w, S, r, t, icon) = {}
  BY <1>4, <1>5
<1> QED BY <1>6 DEF Done, after

-----------------------------------------------------------------------------
(* One theme *)

\* The greatest of some numbers is one of them.
LEMMA MaxIsMember ==
  ASSUME NEW n \in Nat, NEW S, S \subseteq 1 .. n, S # {}
  PROVE  Max(S) \in S
<1> DEFINE T == {n - x : x \in S}
<1>1. PICK y \in T : \A z \in T : y <= z
  <2>1. T \subseteq Nat /\ T # {}
    <3>1. \A x \in S : n - x \in Nat
      OBVIOUS
    <3> QED BY <3>1
  <2> HIDE DEF T
  <2> QED BY <2>1, LeastNatural
<1>2. PICK x \in S : y = n - x
  OBVIOUS
<1>3. \A z \in S : x >= z
  <2>1. \A z \in S : n - x <= n - z
    BY <1>1, <1>2
  <2> QED BY <2>1
<1> QED BY <1>3, Zenon DEF Max

\* The least of some naturals is one of them.
LEMMA MinIsLeast ==
  ASSUME NEW S, S \subseteq Nat, S # {}
  PROVE  Min(S) \in S /\ \A y \in S : Min(S) <= y
<1>1. \E x \in S : \A y \in S : x <= y
  BY LeastNatural
<1> QED BY <1>1, Zenon DEF Min

\* The sub directories of a theme are numbered from 1.
LEMMA ListedIs ==
  ASSUME NEW w, Loaded(w), NEW name \in DOMAIN w.themes
  PROVE  /\ Len(Listed(w.themes[name])) \in Nat
         /\ DOMAIN Listed(w.themes[name]) = 1 .. Len(Listed(w.themes[name]))
<1>1. PICK U : IsThemes(w.themes, U)
  BY NamesAre
<1>2. PICK groups : groups = w.themes[name].groups
  OBVIOUS
<1>3. Grouped(groups, U)
  BY <1>1, <1>2, Zenon DEF IsThemes
<1>4. PICK listed : listed = At(At(groups, MainGroup), "Directories")
  OBVIOUS
<1>5. listed \in Seq(U)
  <2>1. DOMAIN <<>> = {} /\ <<>> \in Seq(U)
    OBVIOUS
  <2>2. CASE MainGroup \in DOMAIN groups
    BY <1>3, <1>4, <2>1, <2>2, Zenon DEF At, Grouped
  <2>3. CASE MainGroup \notin DOMAIN groups
    BY <1>3, <1>4, <2>1, <2>3, Zenon DEF At, Grouped
  <2> QED BY <2>2, <2>3
<1>6. Listed(w.themes[name]) = listed
  BY <1>2, <1>4, Zenon DEF Listed
<1>7. Len(listed) \in Nat /\ DOMAIN listed = 1 .. Len(listed)
  BY <1>5
<1> QED BY <1>6, <1>7, Zenon

\* What a base directory is found to have in these places of a theme is there, and
\* when nothing is found nothing is there.
LEMMA IconInIs ==
  ASSUME Loaded(World), \A f \in icons : IsIconFile(f), NEW dir, NEW name \in DOMAIN themes,
         NEW places \in SUBSET DOMAIN Listed(themes[name]), NEW icon
  PROVE  /\ IconIn(dir, name, places, icon) = NoFile =>
              \A f \in icons : ~Fits(World, name, places, dir, icon, f)
         /\ IconIn(dir, name, places, icon) # NoFile =>
              Fits(World, name, places, dir, icon, IconIn(dir, name, places, icon))
<1> DEFINE listed == Listed(themes[name])
           Has(i, e) == <<dir, name, listed[i], icon, Extensions[e]>> \in icons
           have == {i \in places : \E e \in DOMAIN Extensions : Has(i, e)}
           last == Max(have)
           first == Min({e \in DOMAIN Extensions : Has(last, e)})
           is == <<dir, name, listed[last], icon, Extensions[first]>>
           result == IconIn(dir, name, places, icon)
<1>1. result = IF have = {} THEN NoFile ELSE is
  BY Zenon DEF IconIn
<1>2. World.themes = themes
  BY DEF World
<1>3. have # {} => last \in have
  <2>1. PICK n \in Nat : DOMAIN listed = 1 .. n
    BY <1>2, ListedIs
  <2>2. have \subseteq 1 .. n
    BY <2>1
  <2> HIDE DEF have
  <2> QED BY <2>1, <2>2, MaxIsMember
<1>4. is # NoFile /\ is[1] = dir /\ is[2] = name /\ is[3] = listed[last] /\ is[4] = icon
  <2> HIDE DEF listed, last, first
  <2> QED BY DEF NoFile
<1>5. ASSUME result = NoFile, NEW f \in icons, Fits(World, name, places, dir, icon, f) PROVE FALSE
  <2>1. have = {}
    <3> HIDE DEF have, is, result
    <3> QED BY <1>1, <1>4, <1>5
  <2>2. f[1] = dir /\ f[2] = name /\ f[4] = icon
    BY <1>5 DEF Fits
  <2>3. PICK i \in places : f[3] = listed[i]
    BY <1>2, <1>5, Zenon DEF Fits, At3
  <2>4. f = <<f[1], f[2], f[3], f[4], f[5]>> /\ f[5] \in ToSet(Extensions)
    BY <1>5, Zenon DEF IsIconFile
  <2>5. PICK e \in DOMAIN Extensions : f[5] = Extensions[e]
    BY <2>4, Zenon DEF ToSet
  <2>6. Has(i, e)
    <3>1. f = <<dir, name, listed[i], icon, Extensions[e]>>
      <4> HIDE DEF listed
      <4> QED BY <2>2, <2>3, <2>4, <2>5, Zenon
    <3> QED BY <1>5, <3>1
  <2> HIDE DEF Has
  <2> QED BY <2>1, <2>3, <2>5, <2>6
<1>6. ASSUME result # NoFile PROVE Fits(World, name, places, dir, icon, result)
  <2>1. have # {} /\ result = is
    <3> HIDE DEF have, is, result
    <3> QED BY <1>1, <1>6
  <2>2. last \in places
    <3> HIDE DEF last
    <3> QED BY <1>3, <2>1
  <2> HIDE DEF last, is, result, have
  <2>3. At3(World, name, places, result)
    BY <1>2, <1>4, <2>1, <2>2, Zenon DEF At3
  <2> QED BY <1>4, <2>1, <2>3, Zenon DEF Fits
<1> QED BY <1>5, <1>6

\* The places a theme is searched in are places of its list, ...
LEMMA PlacesAre ==
  ASSUME NEW w, NEW r, NEW name
  PROVE  /\ Directories(w.themes[name], r.context) \subseteq DOMAIN Listed(w.themes[name])
         /\ ExactIn(w, r, name) \subseteq Directories(w.themes[name], r.context)
         /\ ClosestIn(w, r, name) \subseteq Directories(w.themes[name], r.context)
         /\ Len(PassesIn(w, r, name)) \in {0, 1, 2}
         /\ ExactIn(w, r, name) = {} <=> Len(PassesIn(w, r, name)) = 0
         /\ Len(PassesIn(w, r, name)) > 0 => PassesIn(w, r, name)[1] = ExactIn(w, r, name)
         /\ ExactIn(w, r, name) # {} /\ ClosestIn(w, r, name) # {} => Len(PassesIn(w, r, name)) = 2
         /\ Len(PassesIn(w, r, name)) = 2 => PassesIn(w, r, name)[2] = ClosestIn(w, r, name)
<1>1. Directories(w.themes[name], r.context) \subseteq DOMAIN Listed(w.themes[name])
  BY Zenon DEF Directories
<1>2. ExactIn(w, r, name) \subseteq Directories(w.themes[name], r.context)
  BY Zenon DEF ExactIn, Matching
<1>3. ClosestIn(w, r, name) \subseteq Directories(w.themes[name], r.context)
  BY Zenon DEF ClosestIn, Closest
<1>4. PICK exact, closest : exact = ExactIn(w, r, name) /\ closest = ClosestIn(w, r, name)
  OBVIOUS
<1>5. PICK ps : ps = PassesIn(w, r, name)
  OBVIOUS
<1>6. ps = IF exact = {} THEN <<>> ELSE IF closest = {} THEN <<exact>> ELSE <<exact, closest>>
  BY <1>4, <1>5, Zenon DEF PassesIn
<1>7. /\ Len(ps) \in {0, 1, 2} /\ (exact = {} <=> Len(ps) = 0) /\ (Len(ps) > 0 => ps[1] = exact)
      /\ (exact # {} /\ closest # {} => Len(ps) = 2) /\ (Len(ps) = 2 => ps[2] = closest)
  BY <1>6
<1> QED BY <1>1, <1>2, <1>3, <1>4, <1>5, <1>7, Zenon

\* The file is in a directory of the right size.
InSizeOf(w, r, f) == MatchesSize(w.themes[f[2]].groups[f[3]], r.size)

\* ... those of the first pass are of the right size, and those of the second are not, ...
LEMMA PassSizes ==
  ASSUME NEW w, NEW r, NEW name, NEW f, f[2] = name
  PROVE  /\ At3(w, name, ExactIn(w, r, name), f) => InSizeOf(w, r, f)
         /\ At3(w, name, ClosestIn(w, r, name), f) => ~InSizeOf(w, r, f)
         /\ At3(w, name, Directories(w.themes[name], r.context), f) /\ InSizeOf(w, r, f) =>
              At3(w, name, ExactIn(w, r, name), f)
<1>1. ASSUME NEW i, f[3] = Listed(w.themes[name])[i]
      PROVE  InSizeOf(w, r, f) <=> MatchesSize(GroupAt(w.themes[name], i), r.size)
  BY <1>1, Zenon DEF InSizeOf, GroupAt
<1> DEFINE dirs == Directories(w.themes[name], r.context)
           FitsAt(i) == MatchesSize(GroupAt(w.themes[name], i), r.size)
<1>2. ExactIn(w, r, name) = {i \in dirs : FitsAt(i)}
  BY Zenon DEF ExactIn, Matching
<1>3. ClosestIn(w, r, name) \subseteq dirs \ ExactIn(w, r, name)
  BY Zenon DEF ClosestIn, Closest, ExactIn
<1> HIDE DEF dirs, FitsAt
<1>4. ASSUME At3(w, name, ExactIn(w, r, name), f) PROVE InSizeOf(w, r, f)
  <2>1. PICK i \in ExactIn(w, r, name) : f[3] = Listed(w.themes[name])[i]
    BY <1>4 DEF At3
  <2> QED BY <1>1, <1>2, <2>1, Zenon DEF FitsAt
<1>5. ASSUME At3(w, name, ClosestIn(w, r, name), f) PROVE ~InSizeOf(w, r, f)
  <2>1. PICK i \in ClosestIn(w, r, name) : f[3] = Listed(w.themes[name])[i]
    BY <1>5 DEF At3
  <2>2. ~FitsAt(i)
    BY <1>2, <1>3, <2>1
  <2> QED BY <1>1, <2>1, <2>2, Zenon DEF FitsAt
<1>6. ASSUME At3(w, name, dirs, f), InSizeOf(w, r, f) PROVE At3(w, name, ExactIn(w, r, name), f)
  <2>1. PICK i \in dirs : f[3] = Listed(w.themes[name])[i]
    BY <1>6 DEF At3
  <2>2. FitsAt(i)
    BY <1>1, <1>6, <2>1, Zenon DEF FitsAt
  <2>3. i \in ExactIn(w, r, name)
    BY <1>2, <2>1, <2>2
  <2> QED BY <2>1, <2>3 DEF At3
<1> QED BY <1>4, <1>5, <1>6 DEF dirs

\* ... so that what is to be found is found in the pass for its size.
LEMMA FoundInPass ==
  ASSUME NEW w, Loaded(w), NEW S, NEW r, NEW name, NEW icon, NEW f \in FoundIn(w, S, r, name, icon),
         NEW ps, ps = PassesIn(w, r, name)
  PROVE  /\ f \in S /\ f[2] = name /\ Len(ps) \in {1, 2}
         /\ \E c \in 1 .. Len(Dirs(w)) : f[1] = Dirs(w)[c]
         /\ \A c \in 1 .. Len(Dirs(w)) : f[1] = Dirs(w)[c] =>
              \E q \in 1 .. Len(ps) : /\ Fits(w, name, ps[q], Dirs(w)[c], icon, f)
                                      /\ q = 1 <=> InSizeOf(w, r, f)
<1>1. /\ f \in S /\ f[1] \in ToSet(Dirs(w)) /\ f[2] = name /\ f[4] = icon
      /\ At3(w, name, Directories(w.themes[name], r.context), f)
      /\ ExactIn(w, r, name) # {}
      /\ InSizeOf(w, r, f) \/ At3(w, name, ClosestIn(w, r, name), f)
  BY Zenon DEF FoundIn, InSizeOf
<1>2. \E c \in 1 .. Len(Dirs(w)) : f[1] = Dirs(w)[c]
  BY <1>1, DirsAre, Zenon DEF ToSet
<1>3. /\ Len(ps) \in {1, 2} /\ ps[1] = ExactIn(w, r, name)
      /\ (ClosestIn(w, r, name) # {} => Len(ps) = 2) /\
           (Len(ps) = 2 => ps[2] = ClosestIn(w, r, name))
  <2>1. PICK exact, closest : exact = ExactIn(w, r, name) /\ closest = ClosestIn(w, r, name)
    OBVIOUS
  <2>2. /\ Len(ps) \in {0, 1, 2} /\ (exact = {} <=> Len(ps) = 0) /\ (Len(ps) > 0 => ps[1] = exact)
        /\ (exact # {} /\ closest # {} => Len(ps) = 2) /\ (Len(ps) = 2 => ps[2] = closest)
    BY <2>1, PlacesAre
  <2> QED BY <1>1, <2>1, <2>2
<1>4. ASSUME NEW c, f[1] = Dirs(w)[c]
      PROVE  \E q \in 1 .. Len(ps) : /\ Fits(w, name, ps[q], Dirs(w)[c], icon, f)
                                     /\ q = 1 <=> InSizeOf(w, r, f)
  <2>1. CASE InSizeOf(w, r, f)
    <3>1. At3(w, name, ps[1], f)
      BY <1>1, <1>3, <2>1, PassSizes, ZenonT(40)
    <3>2. Fits(w, name, ps[1], Dirs(w)[c], icon, f)
      BY <1>1, <1>4, <3>1, Zenon DEF Fits
    <3>3. 1 \in 1 .. Len(ps)
      BY <1>3
    <3> QED BY <2>1, <3>2, <3>3
  <2>2. CASE ~InSizeOf(w, r, f)
    <3>1. At3(w, name, ClosestIn(w, r, name), f)
      BY <1>1, <2>2
    <3>2. ClosestIn(w, r, name) # {}
      BY <3>1, Zenon DEF At3
    <3>3. Fits(w, name, ps[2], Dirs(w)[c], icon, f)
      BY <1>1, <1>3, <1>4, <3>1, <3>2, Zenon DEF Fits
    <3>4. 2 \in 1 .. Len(ps)
      BY <1>3, <3>2
    <3> QED BY <2>2, <3>3, <3>4
  <2> QED BY <2>1, <2>2
<1> QED BY <1>1, <1>2, <1>3, <1>4

-----------------------------------------------------------------------------
(* The steps of a search *)

\* When fewer icons were there all the time less is to be found.
LEMMA FewerIcons ==
  ASSUME NEW w, NEW S, NEW S2 \in SUBSET S, NEW r
  PROVE  /\ \A name, icon : FoundIn(w, S2, r, name, icon) \subseteq FoundIn(w, S, r, name, icon)
         /\ \A name, icon : Done(w, S, r, name, icon) => Done(w, S2, r, name, icon)
         /\ \A s, icon : Failed(w, S, r, s, icon) => Failed(w, S2, r, s, icon)
         /\ \A n, s, ps, p,
              b : Progress(w, S, r, n, s, ps, p, b) => Progress(w, S2, r, n, s, ps, p, b)
<1>1. ASSUME NEW name, NEW icon
      PROVE  FoundIn(w, S2, r, name, icon) \subseteq FoundIn(w, S, r, name, icon)
  BY Zenon DEF FoundIn
<1>2. ASSUME NEW name, NEW icon, FoundIn(w, S, r, name, icon) = {}
      PROVE  FoundIn(w, S2, r, name, icon) = {}
  BY <1>1, <1>2
<1>3. ASSUME NEW name, NEW icon, Done(w, S, r, name, icon) PROVE Done(w, S2, r, name, icon)
  BY <1>2, <1>3, Zenon DEF Done
<1>4. ASSUME NEW s, NEW icon, Failed(w, S, r, s, icon) PROVE Failed(w, S2, r, s, icon)
  BY <1>2, <1>3, <1>4, Zenon DEF Failed
<1>5. ASSUME NEW name, NEW ps, NEW p, NEW b, NEW icon, Looked(w, S, name, ps, p, b, icon)
      PROVE  Looked(w, S2, name, ps, p, b, icon)
  BY <1>5, Zenon DEF Looked
<1>6. ASSUME NEW call, NEW ps, NEW p, NEW b, NEW icon, Place(w, S, r, call, ps, p, b, icon)
      PROVE  Place(w, S2, r, call, ps, p, b, icon)
  BY <1>2, <1>5, <1>6, Zenon DEF Place
<1>7. ASSUME NEW n, NEW s, NEW ps, NEW p, NEW b, Progress(w, S, r, n, s, ps, p, b)
      PROVE  Progress(w, S2, r, n, s, ps, p, b)
  BY <1>3, <1>4, <1>6, <1>7, Zenon DEF Progress
<1> QED BY <1>1, <1>3, <1>4, <1>7, Zenon

\* A call begins with the first base directory of its first pass.
LEMMA CallPlace ==
  ASSUME NEW w, Loaded(w), NEW S, NEW r, NEW name, NEW icon, NEW call, call.theme = name,
           call.tried = 0
  PROVE  Place(w, S, r, call, PassesIn(w, r, name), 1, 1, icon)
<1>1. PICK ps : ps = PassesIn(w, r, name)
  OBVIOUS
<1>2. Len(ps) \in {0, 1, 2} /\ (ExactIn(w, r, name) = {} <=> Len(ps) = 0)
  BY <1>1, PlacesAre
<1>3. 1 \in 1 .. Len(Dirs(w))
  BY DirsAre
<1>4. Looked(w, S, name, ps, 1, 1, icon)
  <2>1. \A q \in 1 .. Len(ps), c \in 1 .. Len(Dirs(w)) : ~(q < 1 \/ (q = 1 /\ c < 1))
    BY <1>2, DirsAre
  <2> QED BY <2>1, Zenon DEF Looked
<1>5. 1 > Len(ps) => FoundIn(w, S, r, name, icon) = {}
  <2>1. 1 > Len(ps) => ExactIn(w, r, name) = {}
    BY <1>2
  <2> QED BY <2>1, Zenon DEF FoundIn
<1>6. Len(ps) \in Nat /\ 1 \in Nat \ {0}
  BY <1>2
<1> QED BY <1>1, <1>3, <1>4, <1>5, <1>6, Zenon DEF Place

\* A base directory without the icon is passed over.
LEMMA PlaceNext ==
  ASSUME NEW w, Loaded(w), NEW S, NEW r, NEW call, NEW ps, NEW p, NEW b, NEW icon,
         Place(w, S, r, call, ps, p, b, icon), p <= Len(ps),
         \A f \in S : ~Fits(w, call.theme, ps[p], Dirs(w)[b], icon, f)
  PROVE  Place(w, S, r, call, ps, IF b < Len(Dirs(w)) THEN p ELSE p + 1,
               IF b < Len(Dirs(w)) THEN b + 1 ELSE 1, icon)
<1>1. PICK d \in Nat \ {0} : d = Len(Dirs(w))
  BY DirsAre
<1>2. /\ Len(ps) \in Nat /\ p \in Nat \ {0} /\ b \in 1 .. d
      /\ ps = PassesIn(w, r, call.theme) /\ call.tried = 0
      /\ Looked(w, S, call.theme, ps, p, b, icon)
  BY <1>1, Zenon DEF Place
<1>3. PICK p2, b2 : p2 = (IF b < d THEN p ELSE p + 1) /\ b2 = (IF b < d THEN b + 1 ELSE 1)
  OBVIOUS
<1>4. p2 \in Nat \ {0} /\ b2 \in 1 .. d
  BY <1>2, <1>3
<1>5. Looked(w, S, call.theme, ps, p2, b2, icon)
  <2>1. ASSUME NEW f \in S, NEW q \in 1 .. Len(ps), NEW c \in 1 .. d, q < p2 \/ (q = p2 /\ c < b2)
        PROVE  ~Fits(w, call.theme, ps[q], Dirs(w)[c], icon, f)
    <3>1. q < p \/ (q = p /\ c < b) \/ (q = p /\ c = b)
      BY <1>2, <1>3, <2>1
    <3>2. CASE q = p /\ c = b
      BY <3>2
    <3>3. CASE q < p \/ (q = p /\ c < b)
      BY <1>1, <1>2, <3>3, Zenon DEF Looked
    <3> QED BY <3>1, <3>2, <3>3
  <2> QED BY <1>1, <2>1, Zenon DEF Looked
<1>6. ASSUME p2 > Len(ps) PROVE FoundIn(w, S, r, call.theme, icon) = {}
  <2>1. ASSUME NEW f \in FoundIn(w, S, r, call.theme, icon) PROVE FALSE
    <3>1. f \in S /\ \E c \in 1 .. d : f[1] = Dirs(w)[c]
      BY <1>1, <1>2, <2>1, FoundInPass
    <3>2. PICK c \in 1 .. d : f[1] = Dirs(w)[c]
      BY <3>1
    <3>3. PICK q \in 1 .. Len(ps) : Fits(w, call.theme, ps[q], Dirs(w)[c], icon, f)
      BY <1>1, <1>2, <2>1, <3>2, FoundInPass
    <3>4. q < p2
      BY <1>2, <1>4, <1>6
    <3> QED BY <1>1, <1>5, <3>1, <3>3, <3>4, Zenon DEF Looked
  <2> QED BY <2>1
<1> QED BY <1>1, <1>2, <1>3, <1>4, <1>5, <1>6, Zenon DEF Place

Call0(name) == [theme |-> name, tried |-> 0]

\* A search begins with the theme that was asked for.
LEMMA SearchStarts ==
  ASSUME NEW w, Loaded(w), NEW S, NEW r, Hicolor \in DOMAIN w.themes, r.theme \in DOMAIN w.themes,
         Len(r.names) \in Nat, NEW n \in 1 .. Len(r.names),
         \A m \in 1 .. n - 1 : Done(w, S, r, r.theme, r.names[m])
  PROVE  Progress(w, S, r, n, <<Call0(r.theme)>>, PassesIn(w, r, r.theme), 1, 1)
<1>1. PICK name, c : name = r.theme /\ c = Call0(name)
  OBVIOUS
<1>2. c.theme = name /\ c.tried = 0 /\ c \in [theme : DOMAIN w.themes, tried : Nat]
  BY <1>1 DEF Call0
<1>3. PICK s : s = <<c>>
  OBVIOUS
<1>4. s \in Seq([theme : DOMAIN w.themes, tried : Nat]) /\ Len(s) = 1 /\ s[1] = c
  <2>1. PICK C : C = [theme : DOMAIN w.themes, tried : Nat]
    OBVIOUS
  <2>2. s \in Seq(C) /\ Len(s) = 1 /\ s[1] = c
    BY <1>2, <1>3, <2>1
  <2> QED BY <2>1, <2>2
<1>5. IsStack(w, r, s)
  <2>1. Len(GoesOnTo(w, name)) \in Nat
    BY <1>1, GoesOnAre
  <2>2. \A i \in 1 .. Len(s) : s[i].tried <= Len(GoesOnTo(w, s[i].theme))
    BY <1>2, <1>4, <2>1
  <2>3. 1 .. Len(s) - 1 = {} /\ Len(s) > 0
    BY <1>4
  <2>4. s[1].theme = r.theme
    BY <1>1, <1>2, <1>4
  <2> QED BY <1>4, <2>2, <2>3, <2>4, Zenon DEF IsStack
<1>6. Failed(w, S, r, s, r.names[n])
  <2>1. 1 .. Len(s) - 1 = {} /\ 1 .. s[Len(s)].tried = {}
    BY <1>2, <1>4
  <2> QED BY <2>1, Zenon DEF Failed
<1>7. Place(w, S, r, s[Len(s)], PassesIn(w, r, name), 1, 1, r.names[n])
  BY <1>2, <1>4, CallPlace
<1> QED BY <1>1, <1>3, <1>5, <1>6, <1>7, Zenon DEF Progress

\* After its passes a call goes on to the next of the themes.
LEMMA SearchDescends ==
  ASSUME NEW w, Loaded(w), NEW S, NEW r, NEW n, NEW s, NEW ps, NEW p, NEW b,
         Progress(w, S, r, n, s, ps, p, b), p > Len(ps),
         NEW top, top = s[Len(s)], top.tried < Len(GoesOnTo(w, top.theme)),
         NEW next, next = GoesOnTo(w, top.theme)[top.tried + 1]
  PROVE  Progress(w, S, r, n, Append([s EXCEPT ![Len(s)].tried = NextTried(@)], Call0(next)),
                  PassesIn(w, r, next), 1, 1)
<1> DEFINE C == [theme : DOMAIN w.themes, tried : Nat]
<1>1. s \in Seq(C) /\ Len(s) \in Nat \ {0}
  BY DEF Progress, IsStack
<1>2. PICK l \in Nat \ {0} : l = Len(s)
  BY <1>1
<1>3. top \in C /\ l \in 1 .. l /\ DOMAIN s = 1 .. l /\ \A i \in 1 .. l : s[i] \in C
  <2> HIDE DEF C
  <2> QED BY <1>1, <1>2
<1>4. top.theme \in DOMAIN w.themes /\ top.tried \in Nat /\
        top = [theme |-> top.theme, tried |-> top.tried]
  BY <1>3
<1>5. Hicolor \in DOMAIN w.themes
  BY DEF Progress
<1>6. PICK t : t = [theme |-> top.theme, tried |-> top.tried + 1]
  OBVIOUS
<1>7. t \in C /\ t.theme = top.theme /\ t.tried = top.tried + 1
  BY <1>4, <1>6
<1>8. [s EXCEPT ![Len(s)].tried = NextTried(@)] = [s EXCEPT ![l] = t]
  <2>1. [s[l] EXCEPT !.tried = NextTried(@)] = t
    BY <1>2, <1>4, <1>6 DEF NextTried
  <2> QED BY <1>2, <2>1
<1>9. PICK c : c = Call0(next)
  OBVIOUS
<1>10. PICK to : to = GoesOnTo(w, top.theme)
  OBVIOUS
<1>11. to \in Seq(DOMAIN w.themes) /\ top.tried + 1 \in 1 .. Len(to)
  BY <1>4, <1>5, <1>10, GoesOnAre
<1>12. next \in DOMAIN w.themes
  BY <1>10, <1>11
<1>13. c \in C /\ c.theme = next /\ c.tried = 0
  BY <1>9, <1>12 DEF Call0
<1>14. PICK s2 : s2 = Append([s EXCEPT ![l] = t], c)
  OBVIOUS
<1>15. /\ s2 \in Seq(C) /\ Len(s2) = l + 1 /\ s2[l + 1] = c /\ s2[l] = t
       /\ \A i \in 1 .. l - 1 : s2[i] = s[i]
  <2> HIDE DEF C
  <2>1. PICK u : u = [s EXCEPT ![l] = t]
    OBVIOUS
  <2>2. u \in Seq(C) /\ Len(u) = l /\ u[l] = t /\ \A i \in 1 .. l - 1 : u[i] = s[i]
    BY <1>1, <1>2, <1>7, <2>1
  <2>3. s2 = Append(u, c)
    BY <1>14, <2>1
  <2> QED BY <1>13, <2>2, <2>3, SMTT(30)
<1>16. /\ s[1].theme = r.theme
       /\ \A i \in 1 .. l : s[i].tried <= Len(GoesOnTo(w, s[i].theme))
       /\ \A i \in 1 .. l - 1 :
            s[i].tried > 0 /\ s[i + 1].theme = GoesOnTo(w, s[i].theme)[s[i].tried]
  BY <1>2, Zenon DEF Progress, IsStack
<1>17. IsStack(w, r, s2)
  <2>1. s2[1].theme = r.theme
    <3>1. CASE l = 1
      BY <1>2, <1>7, <1>15, <1>16, <3>1
    <3>2. CASE l # 1
      <4>1. 1 \in 1 .. l - 1
        BY <3>2
      <4> QED BY <1>15, <1>16, <4>1
    <3> QED BY <3>1, <3>2
  <2>2. ASSUME NEW i \in 1 .. l + 1 PROVE s2[i].tried <= Len(GoesOnTo(w, s2[i].theme))
    <3>1. CASE i = l + 1
      <4>1. Len(GoesOnTo(w, next)) \in Nat
        BY <1>5, <1>12, GoesOnAre
      <4> QED BY <1>13, <1>15, <3>1, <4>1
    <3>2. CASE i = l
      <4>1. s2[i].tried = top.tried + 1 /\ s2[i].theme = top.theme
        BY <1>7, <1>15, <3>2
      <4>2. top.tried + 1 <= Len(to)
        BY <1>11
      <4> QED BY <1>10, <4>1, <4>2
    <3>3. CASE i \in 1 .. l - 1
      <4>1. i \in 1 .. l /\ s2[i] = s[i]
        BY <1>15, <3>3
      <4> QED BY <1>16, <4>1, Zenon
    <3>4. i = l + 1 \/ i = l \/ i \in 1 .. l - 1
      OBVIOUS
    <3> QED BY <3>1, <3>2, <3>3, <3>4
  <2>3. ASSUME NEW i \in 1 .. l
        PROVE  s2[i].tried > 0 /\ s2[i + 1].theme = GoesOnTo(w, s2[i].theme)[s2[i].tried]
    <3>1. CASE i = l
      <4>1. s2[i] = t /\ s2[i + 1] = c
        BY <1>15, <3>1
      <4>2. t.tried > 0
        BY <1>4, <1>7
      <4> QED BY <1>7, <1>13, <4>1, <4>2
    <3>2. CASE i # l
      <4>1. i \in 1 .. l - 1 /\ i + 1 \in 1 .. l
        BY <3>2
      <4>2. s2[i + 1].theme = s[i + 1].theme
        <5>1. CASE i + 1 = l
          BY <1>2, <1>7, <1>15, <5>1
        <5>2. CASE i + 1 # l
          <6>1. i + 1 \in 1 .. l - 1
            BY <4>1, <5>2
          <6> QED BY <1>15, <6>1
        <5> QED BY <5>1, <5>2
      <4> QED BY <1>15, <1>16, <4>1, <4>2
    <3> QED BY <3>1, <3>2
  <2>4. Len(s2) - 1 = l /\ Len(s2) > 0
    BY <1>15
  <2> QED BY <1>15, <2>1, <2>2, <2>3, <2>4, Zenon DEF IsStack
<1> DEFINE icon == r.names[n]
<1>18. /\ \A i \in 1 .. l - 1 :
            /\ FoundIn(w, S, r, s[i].theme, icon) = {}
            /\ \A k \in 1 .. s[i].tried - 1 : Done(w, S, r, GoesOnTo(w, s[i].theme)[k], icon)
       /\ \A k \in 1 .. top.tried : Done(w, S, r, GoesOnTo(w, top.theme)[k], icon)
       /\ FoundIn(w, S, r, top.theme, icon) = {}
  BY <1>2, Zenon DEF Progress, Failed, Place
<1>19. Failed(w, S, r, s2, icon)
  <2> HIDE DEF icon
  <2>1. ASSUME NEW i \in 1 .. l
        PROVE  /\ FoundIn(w, S, r, s2[i].theme, icon) = {}
               /\ \A k \in 1 .. s2[i].tried - 1 : Done(w, S, r, GoesOnTo(w, s2[i].theme)[k], icon)
    <3>1. CASE i = l
      <4>1. s2[i] = t
        BY <1>15, <3>1, Zenon
      <4>2. PICK m \in Nat : m = top.tried
        BY <1>4
      <4>3. t.theme = top.theme /\ t.tried - 1 = top.tried
        BY <1>7, <4>2
      <4> QED BY <1>18, <4>1, <4>3, Zenon
    <3>2. CASE i # l
      <4>1. i \in 1 .. l - 1 /\ s2[i] = s[i]
        BY <1>15, <3>2
      <4> QED BY <1>18, <4>1, Zenon
    <3> QED BY <3>1, <3>2
  <2>2. Len(s2) - 1 = l /\ 1 .. s2[Len(s2)].tried = {}
    BY <1>13, <1>15
  <2> QED BY <2>1, <2>2, Zenon DEF Failed
<1>20. Place(w, S, r, s2[Len(s2)], PassesIn(w, r, next), 1, 1, icon)
  <2>1. s2[Len(s2)].theme = next /\ s2[Len(s2)].tried = 0
    BY <1>13, <1>15
  <2> HIDE DEF icon
  <2> QED BY <2>1, CallPlace
<1>21. s2 = Append([s EXCEPT ![Len(s)].tried = NextTried(@)], Call0(next))
  BY <1>8, <1>9, <1>14, Zenon
<1> QED BY <1>17, <1>19, <1>20, <1>21, Zenon DEF Progress

\* After the themes it goes on to a call returns.
LEMMA SearchReturns ==
  ASSUME NEW w, Loaded(w), NEW S, NEW r, NEW n, NEW s, NEW ps, NEW p, NEW b,
         Progress(w, S, r, n, s, ps, p, b), p > Len(ps),
           s[Len(s)].tried = Len(GoesOnTo(w, s[Len(s)].theme))
  PROVE  /\ Len(s) > 1 => Progress(w, S, r, n, Front(s), ps, p, b)
         /\ Len(s) = 1 => Done(w, S, r, r.theme, r.names[n])
<1> DEFINE C == [theme : DOMAIN w.themes, tried : Nat]
           icon == r.names[n]
<1>1. s \in Seq(C) /\ Len(s) \in Nat \ {0}
  BY DEF Progress, IsStack
<1>2. PICK l \in Nat \ {0} : l = Len(s)
  BY <1>1
<1>3. l \in 1 .. l /\ \A i \in 1 .. l : s[i] \in C
  <2> HIDE DEF C
  <2> QED BY <1>1, <1>2
<1>4. \A i \in 1 .. l : s[i].theme \in DOMAIN w.themes /\ s[i].tried \in Nat
  BY <1>3
<1>5. Hicolor \in DOMAIN w.themes
  BY DEF Progress
<1>6. /\ s[1].theme = r.theme
      /\ \A i \in 1 .. l : s[i].tried <= Len(GoesOnTo(w, s[i].theme))
      /\ \A i \in 1 .. l - 1 :
           s[i].tried > 0 /\ s[i + 1].theme = GoesOnTo(w, s[i].theme)[s[i].tried]
  BY <1>2, Zenon DEF Progress, IsStack
<1>7. /\ \A i \in 1 .. l - 1 :
           /\ FoundIn(w, S, r, s[i].theme, icon) = {}
           /\ \A k \in 1 .. s[i].tried - 1 : Done(w, S, r, GoesOnTo(w, s[i].theme)[k], icon)
      /\ \A k \in 1 .. s[l].tried : Done(w, S, r, GoesOnTo(w, s[l].theme)[k], icon)
      /\ FoundIn(w, S, r, s[l].theme, icon) = {}
  BY <1>2, Zenon DEF Progress, Failed, Place
<1>8. Done(w, S, r, s[l].theme, icon)
  <2>1. s[l].theme \in DOMAIN w.themes /\ s[l].tried = Len(GoesOnTo(w, s[l].theme))
    BY <1>2, <1>3, <1>4
  <2> HIDE DEF icon
  <2> QED BY <1>5, <1>7, <2>1, ThemeDone
<1>9. ASSUME l > 1 PROVE Progress(w, S, r, n, Front(s), ps, p, b)
  <2>1. PICK m \in Nat \ {0} : m = l - 1
    BY <1>9
  <2>2. PICK s2 : s2 = Front(s)
    OBVIOUS
  <2>3. s2 \in Seq(C) /\ Len(s2) = m /\ \A i \in 1 .. m : s2[i] = s[i]
    <3> HIDE DEF C
    <3> QED BY <1>1, <1>2, <1>9, <2>1, <2>2 DEF Front
  <2>4. m \in 1 .. l - 1 /\ m \in 1 .. m /\ m \in 1 .. l /\ m + 1 = l /\ 1 \in 1 .. m
    BY <2>1
  <2>5. IsStack(w, r, s2)
    <3>1. s2[1].theme = r.theme /\ Len(s2) > 0
      BY <1>6, <2>3, <2>4
    <3>2. ASSUME NEW i \in 1 .. m PROVE s2[i].tried <= Len(GoesOnTo(w, s2[i].theme))
      <4>1. i \in 1 .. l /\ s2[i] = s[i]
        BY <2>1, <2>3
      <4> QED BY <1>6, <4>1, Zenon
    <3>3. ASSUME NEW i \in 1 .. m - 1
          PROVE  s2[i].tried > 0 /\ s2[i + 1].theme = GoesOnTo(w, s2[i].theme)[s2[i].tried]
      <4>1. i \in 1 .. l - 1 /\ i \in 1 .. m /\ i + 1 \in 1 .. m
        BY <2>1
      <4> QED BY <1>6, <2>3, <4>1
    <3> QED BY <2>3, <3>1, <3>2, <3>3, Zenon DEF IsStack
  <2>6. Failed(w, S, r, s2, icon)
    <3> HIDE DEF icon
    <3>1. ASSUME NEW i \in 1 .. m - 1
          PROVE  /\ FoundIn(w, S, r, s2[i].theme, icon) = {}
                 /\ \A k \in 1 .. s2[i].tried - 1 : Done(w, S, r, GoesOnTo(w, s2[i].theme)[k], icon)
      <4>1. i \in 1 .. l - 1 /\ s2[i] = s[i]
        BY <2>1, <2>3, SMTT(30)
      <4> QED BY <1>7, <4>1, Zenon
    <3>2. ASSUME NEW k \in 1 .. s[m].tried PROVE Done(w, S, r, GoesOnTo(w, s[m].theme)[k], icon)
      <4>1. CASE k = s[m].tried
        <5>1. s[l].theme = GoesOnTo(w, s[m].theme)[k]
          BY <1>6, <2>4, <4>1
        <5> QED BY <1>8, <5>1
      <4>2. CASE k # s[m].tried
        <5>1. k \in 1 .. s[m].tried - 1
          BY <1>4, <2>4, <4>2
        <5> QED BY <1>7, <2>4, <5>1, Zenon
      <4> QED BY <4>1, <4>2
    <3>3. s2[Len(s2)] = s[m]
      BY <2>3, <2>4
    <3> QED BY <2>3, <3>1, <3>2, <3>3, Zenon DEF Failed
  <2>7. Place(w, S, r, s2[Len(s2)], ps, p, b, icon)
    <3>1. FoundIn(w, S, r, s[m].theme, icon) = {}
      BY <1>7, <2>4, Zenon
    <3>2. s2[Len(s2)] = s[m]
      BY <2>3, <2>4
    <3>3. Len(ps) \in Nat /\ p \in Nat \ {0} /\ b \in 1 .. Len(Dirs(w))
      BY Zenon DEF Progress, Place
    <3>4. ~(p <= Len(ps))
      BY <3>3
    <3> QED BY <3>1, <3>2, <3>3, <3>4, Zenon DEF Place
  <2> QED BY <2>2, <2>5, <2>6, <2>7, Zenon DEF Progress
<1>10. ASSUME l = 1 PROVE Done(w, S, r, r.theme, icon)
  BY <1>6, <1>8, <1>10
<1> QED BY <1>2, <1>9, <1>10

-----------------------------------------------------------------------------
(* The module's operators in these terms *)

\* They say the same of the present state.
LEMMA WorldIs ==
  /\ World.index = index /\ World.env = env /\ World.themes = themes
  /\ \A name : LeadsTo(name) = GoesOnTo(World, name)
  /\ \A name, r : Passes(name, r) = PassesIn(World, r, name)
  /\ Dirs(World) = ThemeDirs(env)
<1>1. World.index = index /\ World.env = env /\ World.themes = themes
  BY DEF World
<1>2. ASSUME NEW name PROVE LeadsTo(name) = GoesOnTo(World, name)
  BY <1>1, Zenon DEF LeadsTo, GoesOnTo
<1>3. ASSUME NEW name, NEW r PROVE Passes(name, r) = PassesIn(World, r, name)
  BY <1>1, Zenon DEF Passes, Exact, PassesIn, ExactIn, ClosestIn
<1>4. Dirs(World) = ThemeDirs(env)
  BY <1>1, Zenon DEF Dirs
<1> QED BY <1>1, <1>2, <1>3, <1>4, Zenon

\* The themes after each that the properties know of.
LEMMA AfterIs ==
  ASSUME Loaded(World)
  PROVE  After = AfterIn(World)
<1>1. \A f \in index : DOMAIN f.lines = 1 .. Len(f.lines)
  <2>1. index \in IndexFiles
    BY WorldIs DEF Loaded
  <2>2. ASSUME NEW f \in index PROVE DOMAIN f.lines = 1 .. Len(f.lines)
    <3>1. IsSeq(f.lines)
      BY <2>1, IndexFilesAssumption
    <3>2. f.lines = [i \in 1 .. Len(f.lines) |-> f.lines[i]]
      BY <3>1, Zenon DEF IsSeq
    <3> QED BY <3>2
  <2> QED BY <2>2
<1> DEFINE Of(theme) == {f \in ReadFiles : f.theme = theme}
           Lines(f) == {f.lines[i] : i \in {i \in DOMAIN f.lines : NamesParents(f.lines, i)}}
<1>2. ReadFiles = FilesRead(index, env)
  BY Zenon DEF ReadFiles, FilesRead
<1>3. ASSUME NEW f \in index
      PROVE  AllTold(f) = UNION {ToSet(Chunk(line.values)) : line \in Lines(f)}
  <2>1. {j \in 1 .. Len(f.lines) : NamesParents(f.lines, j)} =
          {i \in DOMAIN f.lines : NamesParents(f.lines, i)}
    BY <1>1, Zenon
  <2>2. AllTold(f) = UNION {ToSet(Chunk(f.lines[j].values)) :
                              j \in {j \in 1 .. Len(f.lines) : NamesParents(f.lines, j)}}
    BY Zenon DEF AllTold, Told
  <2> QED BY <2>1, <2>2
<1>4. ASSUME NEW theme PROVE InheritsFrom(theme) = Parents(World, theme)
  <2>1. InheritLines(theme) = UNION {Lines(f) : f \in Of(theme)}
    BY Zenon DEF InheritLines
  <2>2. Parents(World, theme) = UNION {AllTold(f) : f \in Of(theme)}
    BY <1>2, WorldIs, Zenon DEF Parents
  <2>3. Of(theme) \subseteq index
    BY DEF ReadFiles
  <2> HIDE DEF Of, Lines
  <2>4. InheritsFrom(theme) =
          UNION {ToSet(Chunk(line.values)) : line \in UNION {Lines(f) : f \in Of(theme)}}
    BY <2>1, Zenon DEF InheritsFrom
  <2>5. ASSUME NEW x \in InheritsFrom(theme) PROVE x \in Parents(World, theme)
    <3>1. \E f \in Of(theme) : \E line \in Lines(f) : x \in ToSet(Chunk(line.values))
      BY <2>4, <2>5
    <3>2. PICK f \in Of(theme) : \E line \in Lines(f) : x \in ToSet(Chunk(line.values))
      BY <3>1
    <3>3. x \in AllTold(f)
      BY <1>3, <2>3, <3>2
    <3> QED BY <2>2, <3>3
  <2>6. ASSUME NEW x \in Parents(World, theme) PROVE x \in InheritsFrom(theme)
    <3>1. PICK f \in Of(theme) : x \in AllTold(f)
      BY <2>2, <2>6
    <3>2. PICK line \in Lines(f) : x \in ToSet(Chunk(line.values))
      BY <1>3, <2>3, <3>1
    <3> QED BY <2>4, <3>1, <3>2
  <2> QED BY <2>5, <2>6
<1>5. Names = NamesIn(World)
  <2>1. {InheritsFrom(f.theme) : f \in index} = {Parents(World, f.theme) : f \in index}
    BY <1>4
  <2> QED BY <2>1, WorldIs, Zenon DEF Names, NamesIn
<1> QED BY <1>4, <1>5, Zenon DEF After, AfterIn

\* A sub directory that the index files name for a theme is in its list, ...
LEMMA SubDirsAre ==
  ASSUME Loaded(World), NEW name, NEW dir \in SubDirs(name)
  PROVE  name \in DOMAIN themes /\ \E i \in DOMAIN Listed(themes[name]) : dir = Listed(themes[name])[i]
<1> DEFINE Of == {f \in ReadFiles : f.theme = name}
           Lines(f) == {f.lines[i] : i \in {i \in DOMAIN f.lines : NamesSubDirs(f.lines, i)}}
<1>1. SubDirLines(name) = UNION {Lines(f) : f \in Of}
  BY Zenon DEF SubDirLines
<1>2. PICK f \in Of : \E line \in Lines(f) : dir \in ToSet(Chunk(line.values))
  BY <1>1 DEF SubDirs
<1>3. f \in FilesRead(index, env) /\ f \in index /\ f.theme = name
  BY DEF ReadFiles, FilesRead
<1>4. PICK i \in DOMAIN f.lines : NamesSubDirs(f.lines, i) /\ dir \in ToSet(Chunk(f.lines[i].values))
  BY <1>2
<1>5. DOMAIN f.lines = 1 .. Len(f.lines)
  <2>1. IsSeq(f.lines)
    BY <1>3, WorldIs, IndexFilesAssumption DEF Loaded
  <2>2. f.lines = [k \in 1 .. Len(f.lines) |-> f.lines[k]]
    BY <2>1, Zenon DEF IsSeq
  <2> QED BY <2>2
<1>6. dir \in AllDirs(f)
  <2>1. AllDirs(f) = UNION {ToSet(Chunk(f.lines[j].values)) :
                              j \in {j \in 1 .. Len(f.lines) : NamesSubDirs(f.lines, j)}}
    BY Zenon DEF AllDirs, DirsTold
  <2> QED BY <1>2, <1>4, <1>5, <2>1
<1>7. dir \in DirsOf(themes, name)
  <2>1. AllDirs(f) \subseteq DirsOf(World.themes, f.theme)
    <3>1. f \in FilesRead(World.index, World.env)
      BY <1>3, WorldIs
    <3> QED BY <3>1, DirsAreRead
  <2> QED BY <1>3, <1>6, <2>1, WorldIs
<1> QED BY <1>7, Zenon DEF DirsOf, ToSet

\* ... so that what a search in a theme is to find is among what it looks for.
LEMMA FindableIs ==
  ASSUME Loaded(World), NEW name, NEW icon
  PROVE  Findable(name, icon) \subseteq FoundIn(World, steady, request, name, icon)
<1> DEFINE listed == Listed(themes[name])
           subs == {dir \in SubDirs(name) : Suits(name, dir)}
           dirs == Directories(themes[name], request.context)
           near == Closest(themes[name], request.size, request.context)
           exact == Matching(themes[name], request.size, request.context)
           closest == {listed[i] : i \in near}
<1>1. Findable(name, icon) =
        {f \in steady : /\ f[1] \in ToSet(ThemeDirs(env)) /\ f[2] = name /\ f[4] = icon
                        /\ f[3] \in subs
                        /\ \E dir \in subs : MatchesSize(themes[name].groups[dir], request.size)
                        /\ InSize(f) \/ f[3] \in closest}
  BY Zenon DEF Findable
<1>2. ASSUME NEW dir \in subs
      PROVE  \E i \in dirs : /\ dir = listed[i]
                             /\ GroupAt(themes[name], i) = themes[name].groups[dir]
  <2>1. PICK i \in DOMAIN listed : dir = listed[i]
    BY SubDirsAre
  <2>2. Suits(name, dir)
    OBVIOUS
  <2>3. GroupAt(themes[name], i) = themes[name].groups[dir]
    BY <2>1, Zenon DEF GroupAt
  <2>4. /\ listed[i] \in DOMAIN themes[name].groups
        /\ FirstValue(GroupAt(themes[name], i), "Context") = request.context
        /\ IsSized(GroupAt(themes[name], i))
    BY <2>1, <2>2, <2>3, Zenon DEF Suits
  <2>5. i \in dirs
    BY <2>1, <2>4, Zenon DEF Directories
  <2> QED BY <2>1, <2>3, <2>5
<1>3. \A f : InSize(f) <=> MatchesSize(World.themes[f[2]].groups[f[3]], request.size)
  BY WorldIs, Zenon DEF InSize
<1>4. /\ Directories(World.themes[name], request.context) = dirs
      /\ ClosestIn(World, request, name) = near /\ ExactIn(World, request, name) = exact
      /\ Dirs(World) = ThemeDirs(env) /\ World.themes = themes
  BY WorldIs, Zenon DEF ClosestIn, ExactIn
<1>5. ASSUME NEW dir \in subs, MatchesSize(themes[name].groups[dir], request.size)
      PROVE  exact # {}
  <2>1. PICK i \in dirs : GroupAt(themes[name], i) = themes[name].groups[dir]
    BY <1>2
  <2>2. i \in exact
    BY <1>5, <2>1, Zenon DEF Matching
  <2> QED BY <2>2
<1>6. ASSUME NEW f, f[3] \in subs PROVE At3(World, name, dirs, f)
  <2>1. PICK i \in dirs : f[3] = listed[i]
    BY <1>2, <1>6
  <2> QED BY <1>4, <2>1, Zenon DEF At3
<1>7. ASSUME NEW f, f[3] \in closest PROVE At3(World, name, near, f)
  <2>1. PICK i \in near : f[3] = listed[i]
    BY <1>7
  <2> QED BY <1>4, <2>1, Zenon DEF At3
<1> HIDE DEF subs, dirs, near, exact, closest
<1>8. ASSUME NEW f \in Findable(name, icon)
      PROVE  f \in FoundIn(World, steady, request, name, icon)
  <2>1. /\ f \in steady /\ f[1] \in ToSet(ThemeDirs(env)) /\ f[2] = name /\ f[4] = icon
        /\ f[3] \in subs
        /\ InSize(f) \/ f[3] \in closest
    BY <1>1
  <2>2. exact # {}
    <3>1. \E dir \in subs : MatchesSize(themes[name].groups[dir], request.size)
      BY <1>1
    <3> QED BY <1>5, <3>1, Zenon
  <2>3. At3(World, name, dirs, f)
    BY <1>6, <2>1, Zenon
  <2>4. \/ MatchesSize(World.themes[f[2]].groups[f[3]], request.size)
        \/ At3(World, name, near, f)
    BY <1>3, <1>7, <2>1, Zenon
  <2> QED BY <1>4, <2>1, <2>2, <2>3, <2>4, Zenon DEF FoundIn
<1> QED BY <1>8

\* When some themes are done nothing is to be found in what follows from them.
LEMMA DoneHasNone ==
  ASSUME Loaded(World), NEW from \in SUBSET DOMAIN themes, NEW icon,
         \A t \in from : Done(World, steady, request, t, icon)
  PROVE  HasNone(from, icon)
<1> DEFINE after == AfterIn(World)
<1>1. DOMAIN after = NamesIn(World) /\ \A t \in NamesIn(World) : after[t] \subseteq NamesIn(World)
  BY AfterAre
<1>2. from \subseteq DOMAIN after
  BY <1>1, NamesAre, WorldIs
<1>3. Closure(after, from) \subseteq UNION {Closure(after, {k}) : k \in from}
  <2> HIDE DEF after
  <2> QED BY <1>1, <1>2, ClosureStep
<1>4. Reachable(from) = Closure(after, from)
  BY AfterIs, Zenon DEF Reachable
<1>5. ASSUME NEW t \in Reachable(from) PROVE Findable(t, icon) = {}
  <2>1. PICK k \in from : t \in Closure(after, {k})
    <3> HIDE DEF after
    <3> QED BY <1>3, <1>4, <1>5
  <2>2. FoundIn(World, steady, request, t, icon) = {}
    BY <2>1, Zenon DEF Done
  <2> QED BY <2>2, FindableIs
<1> QED BY <1>5, Zenon DEF HasNone

\* The first of the base directories with this name.
FirstAt(w, x) == Min({i \in 1 .. Len(Dirs(w)) : Dirs(w)[i] = x})

\* It has the name and none before it has.
LEMMA FirstIs ==
  ASSUME NEW w, Loaded(w), NEW c \in 1 .. Len(Dirs(w)), NEW x, x = Dirs(w)[c]
  PROVE  FirstAt(w, x) \in 1 .. Len(Dirs(w)) /\ Dirs(w)[FirstAt(w, x)] = x /\ FirstAt(w, x) <= c
<1> DEFINE T == {i \in 1 .. Len(Dirs(w)) : Dirs(w)[i] = x}
<1>1. T \subseteq Nat /\ c \in T
  BY DirsAre
<1>2. Min(T) \in T /\ Min(T) <= c
  <2> HIDE DEF T
  <2> QED BY <1>1, MinIsLeast
<1> QED BY <1>2 DEF FirstAt

\* The icon file that is preferred is of the right size, or in an earlier base directory.
LEMMA NearerIs ==
  ASSUME NEW f, NEW g, IsNearer(f, g), NEW c \in 1 .. Len(Dirs(World)), f[1] = Dirs(World)[c],
         NEW d \in 1 .. Len(Dirs(World)), g[1] = Dirs(World)[d]
  PROVE  \/ InSizeOf(World, request, f) /\ ~InSizeOf(World, request, g)
         \/ /\ InSizeOf(World, request, f) <=> InSizeOf(World, request, g)
            /\ FirstAt(World, f[1]) < FirstAt(World, g[1])
<1> DEFINE dirs == ThemeDirs(env)
           I(h) == {i \in 1 .. Len(dirs) : dirs[i] = h[1]}
           Base(h) == IF I(h) # {} THEN Min(I(h)) ELSE 0
<1>1. \/ InSize(f) /\ ~InSize(g)
      \/ (InSize(f) <=> InSize(g)) /\ Base(f) < Base(g)
  BY DEF IsNearer, SelectInSeq
<1>2. ASSUME NEW h PROVE InSize(h) <=> InSizeOf(World, request, h)
  BY WorldIs, Zenon DEF InSize, InSizeOf
<1>3. Dirs(World) = dirs
  BY WorldIs
<1>4. c \in I(f) /\ d \in I(g)
  BY <1>3, Zenon
<1>5. Base(f) = FirstAt(World, f[1]) /\ Base(g) = FirstAt(World, g[1])
  <2>1. Base(f) = Min(I(f)) /\ Base(g) = Min(I(g))
    <3> HIDE DEF I
    <3> QED BY <1>4
  <2> HIDE DEF Base
  <2> QED BY <1>3, <2>1, Zenon DEF FirstAt
<1> HIDE DEF Base
<1> QED BY <1>1, <1>2, <1>5, Zenon

\* What the search returns is the nearest of what is to be found.
LEMMA FoundIsNearest ==
  ASSUME Loaded(World), Progress(World, steady, request, turn, stack, passes, pass, base),
         IsThere(World, stack, passes, pass, base, request.names[turn], file),
         NEW f \in Findable(stack[Len(stack)].theme, request.names[turn]), IsNearer(f, file)
  PROVE  FALSE
<1> DEFINE name == stack[Len(stack)].theme
           icon == request.names[turn]
<1>1. PICK w : w = World
  OBVIOUS
<1>2. PICK n \in Nat \ {0} : n = Len(Dirs(w))
  BY <1>1, DirsAre
<1>3. /\ pass <= Len(passes)
      /\ Fits(w, name, passes[pass], Dirs(w)[base], icon, file)
  BY <1>1, Zenon DEF IsThere
<1>4. /\ Len(passes) \in Nat /\ pass \in Nat \ {0} /\ base \in 1 .. n
      /\ passes = PassesIn(w, request, name)
      /\ Looked(w, steady, name, passes, pass, base, icon)
  BY <1>1, <1>2, <1>3, Zenon DEF Progress, Place
<1>5. file[1] = Dirs(w)[base] /\ file[2] = name /\ At3(w, name, passes[pass], file)
  BY <1>3, Zenon DEF Fits
<1>6. f \in FoundIn(w, steady, request, name, icon)
  BY <1>1, FindableIs
<1> HIDE DEF name, icon
<1>7. f \in steady /\ Len(passes) \in {1, 2} /\ \E c \in 1 .. n : f[1] = Dirs(w)[c]
  BY <1>1, <1>2, <1>4, <1>6, FoundInPass
<1>8. PICK c \in 1 .. n : f[1] = Dirs(w)[c]
  BY <1>7
<1>9. \/ InSizeOf(w, request, f) /\ ~InSizeOf(w, request, file)
      \/ /\ InSizeOf(w, request, f) <=> InSizeOf(w, request, file)
         /\ FirstAt(w, f[1]) < FirstAt(w, file[1])
  BY <1>1, <1>2, <1>4, <1>5, <1>8, NearerIs
<1>10. PICK e \in 1 .. n : e = FirstAt(w, f[1]) /\ f[1] = Dirs(w)[e]
  BY <1>1, <1>2, <1>8, FirstIs
<1>11. FirstAt(w, file[1]) \in 1 .. n /\ FirstAt(w, file[1]) <= base
  BY <1>1, <1>2, <1>4, <1>5, FirstIs
<1>12. PICK q \in 1 .. Len(passes) : /\ Fits(w, name, passes[q], Dirs(w)[e], icon, f)
                                     /\ q = 1 <=> InSizeOf(w, request, f)
  <2>1. \A d \in 1 .. Len(Dirs(w)) : f[1] = Dirs(w)[d] =>
          \E q \in 1 .. Len(passes) : /\ Fits(w, name, passes[q], Dirs(w)[d], icon, f)
                                      /\ q = 1 <=> InSizeOf(w, request, f)
    BY <1>1, <1>4, <1>6, FoundInPass
  <2> QED BY <1>2, <1>10, <2>1, Zenon
<1>13. pass = 1 <=> InSizeOf(w, request, file)
  <2>1. PICK exact, closest : exact = ExactIn(w, request, name) /\
                                closest = ClosestIn(w, request, name)
    OBVIOUS
  <2>2. (Len(passes) > 0 => passes[1] = exact) /\ (Len(passes) = 2 => passes[2] = closest)
    BY <1>4, <2>1, PlacesAre
  <2>3. CASE pass = 1
    <3>1. passes[pass] = exact
      BY <1>7, <2>2, <2>3
    <3>2. InSizeOf(w, request, file)
      BY <1>5, <2>1, <3>1, PassSizes, Zenon
    <3> QED BY <2>3, <3>2
  <2>4. CASE pass = 2
    <3>1. passes[pass] = closest
      BY <1>3, <1>7, <2>2, <2>4
    <3>2. ~InSizeOf(w, request, file)
      BY <1>5, <2>1, <3>1, PassSizes, Zenon
    <3> QED BY <2>4, <3>2
  <2> QED BY <1>3, <1>4, <1>7, <2>3, <2>4
<1>14. q < pass \/ (q = pass /\ e < base)
  <2>1. CASE InSizeOf(w, request, f) /\ ~InSizeOf(w, request, file)
    BY <1>4, <1>12, <1>13, <2>1
  <2>2. CASE (InSizeOf(w, request, f) <=> InSizeOf(w, request, file)) /\
          FirstAt(w, f[1]) < FirstAt(w, file[1])
    <3>1. q = pass
      BY <1>3, <1>4, <1>7, <1>12, <1>13, <2>2
    <3>2. e < base
      BY <1>4, <1>10, <1>11, <2>2
    <3> QED BY <3>1, <3>2
  <2> QED BY <1>9, <2>1, <2>2
<1> QED BY <1>2, <1>4, <1>7, <1>12, <1>14, Zenon DEF Looked

\* The invariant is what a search needs to miss nothing.
LEMMA InvariantIsEnough ==
  ASSUME IInv
  PROVE  NothingNearerIsMissed
<1>1. Loaded(World)
  BY DEF IInv
<1>2. ASSUME pc = "found"
      PROVE  /\ Progress(World, steady, request, turn, stack, passes, pass, base)
             /\ IsThere(World, stack, passes, pass, base, request.names[turn], file)
  BY <1>2 DEF IInv
<1>3. ASSUME NEW name \in DOMAIN themes, NEW icon, Done(World, steady, request, name, icon)
      PROVE  HasNone({name}, icon)
  BY <1>1, <1>3, DoneHasNone
<1>4. ASSUME pc \in {"found", "none"}, request # NoRequest, NEW n \in 1 .. turn,
               ~(n = turn /\ pc = "found")
      PROVE  HasNone({request.theme}, request.names[n])
  <2>1. CASE pc = "found"
    <3>1. /\ request.theme \in DOMAIN themes /\ turn \in 1 .. Len(request.names)
          /\ \A m \in 1 .. turn - 1 : Done(World, steady, request, request.theme, request.names[m])
      BY <1>2, <2>1, WorldIs DEF Progress
    <3>2. n \in 1 .. turn - 1
      BY <1>4, <2>1, <3>1
    <3> QED BY <1>3, <3>1, <3>2
  <2>2. CASE pc = "none"
    <3>1. NoneHas(World, steady, request, turn) /\ request.theme \in DOMAIN themes
      BY <1>4, <2>2, WorldIs DEF IInv, NoneHas
    <3>2. Done(World, steady, request, request.theme, request.names[n])
      BY <3>1, Zenon DEF NoneHas
    <3> QED BY <1>3, <3>1, <3>2
  <2> QED BY <1>4, <2>1, <2>2
<1>5. ASSUME pc = "found"
      PROVE  /\ file[4] = request.names[turn] /\ file[2] = Theme
             /\ ~\E f \in Findable(Theme, request.names[turn]) : IsNearer(f, file)
             /\ \A i \in 1 .. (Len(stack) - 1) :
                  /\ Findable(stack[i].theme, request.names[turn]) = {}
                  /\ HasNone({LeadsTo(stack[i].theme)[k] : k \in 1 .. (stack[i].tried - 1)},
                             request.names[turn])
  <2> DEFINE icon == request.names[turn]
  <2>1. file[4] = icon /\ file[2] = Theme
    BY <1>2, <1>5, Zenon DEF IsThere, Fits, Theme
  <2>2. ~\E f \in Findable(Theme, icon) : IsNearer(f, file)
    BY <1>1, <1>2, <1>5, FoundIsNearest, Zenon DEF Theme
  <2>3. /\ Failed(World, steady, request, stack, icon) /\ IsStack(World, request, stack)
        /\ Hicolor \in DOMAIN themes
    BY <1>2, <1>5, WorldIs, Zenon DEF Progress
  <2> HIDE DEF icon
  <2>4. ASSUME NEW i \in 1 .. Len(stack) - 1
        PROVE  /\ Findable(stack[i].theme, icon) = {}
               /\ HasNone({LeadsTo(stack[i].theme)[k] : k \in 1 .. (stack[i].tried - 1)}, icon)
    <3>1. PICK name, tried : name = stack[i].theme /\ tried = stack[i].tried
      OBVIOUS
    <3>2. /\ FoundIn(World, steady, request, name, icon) = {}
          /\ \A k \in 1 .. tried - 1 : Done(World, steady, request, GoesOnTo(World, name)[k], icon)
      BY <2>3, <3>1, Zenon DEF Failed
    <3>3. name \in DOMAIN themes /\ tried \in Nat /\ tried <= Len(GoesOnTo(World, name))
      <4>1. stack \in Seq([theme : DOMAIN World.themes, tried : Nat])
        BY <2>3 DEF IsStack
      <4>2. i \in 1 .. Len(stack)
        BY <4>1
      <4>3. stack[i] \in [theme : DOMAIN World.themes, tried : Nat]
        <5>1. PICK C : C = [theme : DOMAIN World.themes, tried : Nat]
          OBVIOUS
        <5>2. stack \in Seq(C)
          BY <4>1, <5>1, Zenon
        <5>3. stack[i] \in C
          BY <4>2, <5>2
        <5> QED BY <5>1, <5>3, Zenon
      <4>4. tried <= Len(GoesOnTo(World, name))
        BY <2>3, <3>1, <4>2, Zenon DEF IsStack
      <4> QED BY <3>1, <4>3, <4>4, WorldIs
    <3>4. PICK to : to = GoesOnTo(World, name)
      OBVIOUS
    <3>5. to \in Seq(DOMAIN themes)
      BY <1>1, <2>3, <3>3, <3>4, GoesOnAre, WorldIs
    <3>6. {to[k] : k \in 1 .. (tried - 1)} \subseteq DOMAIN themes
      <4>1. \A k \in 1 .. (tried - 1) : k \in 1 .. Len(to)
        BY <3>3, <3>4, <3>5
      <4> QED BY <3>5, <4>1
    <3>7. \A t \in {to[k] : k \in 1 .. (tried - 1)} : Done(World, steady, request, t, icon)
      BY <3>2, <3>4
    <3>8. HasNone({to[k] : k \in 1 .. (tried - 1)}, icon)
      BY <1>1, <3>6, <3>7, DoneHasNone
    <3>9. LeadsTo(name) = to
      BY <3>4, WorldIs
    <3>10. Findable(name, icon) = {}
      BY <1>1, <3>2, FindableIs
    <3> QED BY <3>1, <3>8, <3>9, <3>10, Zenon
  <2> QED BY <2>1, <2>2, <2>4 DEF icon
<1> QED BY <1>4, <1>5, Zenon DEF NothingNearerIsMissed

-----------------------------------------------------------------------------
(* The invariant *)

\* Reading the themes begins it.
LEMMA InitHolds ==
  ASSUME Init
  PROVE  IInv
<1>1. Loaded(World)
  <2>1. index \in IndexFiles /\ env \in Environments /\ themes = LoadThemes(index, env)
    BY DEF Init
  <2> QED BY <2>1, WorldIs, Zenon DEF Loaded
<1>2. \A f \in icons : IsIconFile(f)
  BY IconFilesAssumption DEF Init
<1>3. pc = "idle" /\ request = NoRequest
  BY DEF Init
<1> QED BY <1>1, <1>2, <1>3 DEF IInv

SameWorld == UNCHANGED <<env, index, themes>>

\* What was read does not change.
LEMMA WorldStays ==
  ASSUME SameWorld
  PROVE  World' = World
BY DEF SameWorld, World

\* A lookup searches a theme that was read, or returns NULL at once.
LEMMA BeginKeeps ==
  ASSUME IInv, NEW r, Len(r.names) \in Nat \ {0}, Begin(r)
  PROVE  IInv'
<1>1. /\ pc = "idle" /\ icons' = icons /\ steady' = icons /\ SameWorld
      /\ Loaded(World) /\ (\A f \in icons : IsIconFile(f)) /\ request = NoRequest
  BY DEF IInv, Begin, SameWorld
<1>2. PICK w : w = World /\ World' = w
  BY <1>1, WorldStays
<1>3. CASE Hicolor \in DOMAIN themes /\ r.theme \in DOMAIN themes
  <2>1. /\ pc' = "search" /\ request' = r /\ turn' = 1
        /\ stack' = <<[theme |-> r.theme, tried |-> 0]>>
        /\ Call(r.theme, r)
    BY <1>3 DEF Begin
  <2>2. stack' = <<Call0(r.theme)>> /\ passes' = PassesIn(w, r, r.theme) /\ pass' = 1 /\ base' = 1
    BY <1>2, <2>1, WorldIs, Zenon DEF Call, Call0
  <2>3. Progress(w, icons, r, 1, <<Call0(r.theme)>>, PassesIn(w, r, r.theme), 1, 1)
    <3>1. 1 \in 1 .. Len(r.names) /\ 1 .. 1 - 1 = {} /\ Len(r.names) \in Nat
      OBVIOUS
    <3>2. Loaded(w) /\ Hicolor \in DOMAIN w.themes /\ r.theme \in DOMAIN w.themes
      BY <1>1, <1>2, <1>3, WorldIs
    <3> QED BY <3>1, <3>2, SearchStarts
  <2>4. Progress(World', steady', request', turn', stack', passes', pass', base')
    BY <1>1, <1>2, <2>1, <2>2, <2>3, Zenon
  <2> QED BY <1>1, <1>2, <2>1, <2>4 DEF IInv
<1>4. CASE ~(Hicolor \in DOMAIN themes /\ r.theme \in DOMAIN themes)
  <2>1. pc' = "none" /\ request' = request
    BY <1>4 DEF Begin, lookup
  <2> QED BY <1>1, <1>2, <2>1 DEF IInv
<1> QED BY <1>3, <1>4

\* All lookups begin in this way, or have nothing to search for.
LEMMA LookupsKeep ==
  ASSUME IInv, NEW theme, NEW size,
         \/ \E icon \in Icon, context \in Context : IconLookup(icon, size, context, theme)
         \/ \E mime \in MimeType : MimeTypeIconLookup(mime, size, theme)
         \/ \E app \in DOMAIN Apps : AppIconLookup(app, size, theme)
  PROVE  IInv'
<1>1. ASSUME NEW icon, NEW context, IconLookup(icon, size, context, theme) PROVE IInv'
  <2>1. PICK r : r = [names |-> <<icon>>, size |-> size, context |-> context, theme |-> theme]
    OBVIOUS
  <2>2. Begin(r)
    BY <1>1, <2>1 DEF IconLookup
  <2>3. Len(r.names) \in Nat \ {0}
    BY <2>1
  <2> QED BY <2>2, <2>3, BeginKeeps
<1>2. ASSUME NEW mime, MimeTypeIconLookup(mime, size, theme) PROVE IInv'
  <2>1. PICK r : r = [names |-> MimeIcons(mime), size |-> size, context |-> "MimeTypes",
                   theme |-> theme]
    OBVIOUS
  <2>2. Begin(r)
    BY <1>2, <2>1 DEF MimeTypeIconLookup
  <2>3. Len(MimeIcons(mime)) = 2
    BY DEF MimeIcons
  <2>4. Len(r.names) \in Nat \ {0}
    <3>1. r.names = MimeIcons(mime)
      BY <2>1
    <3> QED BY <2>3, <3>1, SMTT(30)
  <2> QED BY <2>2, <2>4, BeginKeeps
<1>3. ASSUME NEW app, AppIconLookup(app, size, theme) PROVE IInv'
  <2>1. CASE Apps[app] # NoGroups /\ Apps[app] # <<>>
    <3>1. IconLookup(Head(Apps[app]), size, "Applications", theme)
      BY <1>3, <2>1, Zenon DEF AppIconLookup
    <3> QED BY <1>1, <3>1
  <2>2. CASE ~(Apps[app] # NoGroups /\ Apps[app] # <<>>)
    <3>1. /\ pc = "idle" /\ pc' \in {"dead", "none"}
          /\ UNCHANGED <<env, index, themes, icons, lookup, steady, cyclic, changes>>
      BY <1>3, <2>2 DEF AppIconLookup
    <3>2. SameWorld /\ icons' = icons /\ request' = request /\ request = NoRequest
      BY <3>1 DEF SameWorld, lookup, IInv
    <3>3. World' = World
      BY <3>2, WorldStays
    <3>4. Loaded(World) /\ \A f \in icons : IsIconFile(f)
      BY DEF IInv
    <3> QED BY <3>1, <3>2, <3>3, <3>4 DEF IInv
  <2> QED BY <2>1, <2>2
<1> QED BY <1>1, <1>2, <1>3

\* What holds of a search that goes on.
Searching ==
  /\ Loaded(World) /\ (\A f \in icons : IsIconFile(f)) /\ steady \subseteq icons
  /\ Progress(World, steady, request, turn, stack, passes, pass, base)

\* It does so between any two steps of a search.
LEMMA IsSearching ==
  ASSUME IInv, pc = "search"
  PROVE  Searching
BY DEF IInv, Searching

\* In a base directory the icon is found, or nothing that was there all the time.
LEMMA SearchBaseKeeps ==
  ASSUME IInv, SearchBase
  PROVE  IInv'
<1>1. /\ pc = "search" /\ pass <= Len(passes) /\ SameWorld /\ icons' = icons /\ steady' = steady
      /\ request' = request /\ turn' = turn /\ stack' = stack /\ passes' = passes
  BY DEF SearchBase, SameWorld
<1>2. Searching
  BY <1>1, IsSearching
<1>3. PICK w : w = World /\ World' = w
  BY <1>1, WorldStays
<1>4. PICK name, icon, places, d :
        name = stack[Len(stack)].theme /\ icon = request.names[turn] /\ places = passes[pass] /\
          d = Dirs(w)[base]
  OBVIOUS
<1>5. PICK found : found = IconIn(d, name, places, icon)
  OBVIOUS
<1>6. Progress(w, steady, request, turn, stack, passes, pass, base) /\ Loaded(w)
  BY <1>2, <1>3 DEF Searching
<1>7. Place(w, steady, request, stack[Len(stack)], passes, pass, base, icon)
  BY <1>4, <1>6, Zenon DEF Progress
<1>8. name \in DOMAIN themes /\ places \in SUBSET DOMAIN Listed(themes[name])
  <2>1. /\ Len(passes) \in Nat /\ pass \in Nat \ {0} /\ passes = PassesIn(w, request, name)
    BY <1>1, <1>4, <1>7, Zenon DEF Place
  <2>2. PICK exact, closest : exact = ExactIn(w, request, name) /\
                                closest = ClosestIn(w, request, name)
    OBVIOUS
  <2>3. /\ Len(passes) \in {0, 1, 2} /\ (Len(passes) > 0 => passes[1] = exact)
        /\ (Len(passes) = 2 => passes[2] = closest)
    BY <2>1, <2>2, PlacesAre
  <2>4. places = exact \/ places = closest
    <3>1. (pass = 1 /\ Len(passes) > 0) \/ (pass = 2 /\ Len(passes) = 2)
      <4>1. PICK n, p : n = Len(passes) /\ p = pass
        OBVIOUS
      <4>2. n \in {0, 1, 2} /\ p \in Nat \ {0} /\ p <= n
        BY <1>1, <2>1, <2>3, <4>1
      <4>3. (p = 1 /\ n > 0) \/ (p = 2 /\ n = 2)
        BY ONLY <4>2
      <4> QED BY <4>1, <4>3
    <3> QED BY <1>4, <2>3, <3>1
  <2>5. exact \subseteq DOMAIN Listed(themes[name]) /\ closest \subseteq DOMAIN Listed(themes[name])
    <3>1. PICK dirs, listed : /\ dirs = Directories(w.themes[name], request.context)
                              /\ listed = DOMAIN Listed(w.themes[name])
      OBVIOUS
    <3>2. dirs \subseteq listed /\ exact \subseteq dirs /\ closest \subseteq dirs
      BY <2>2, <3>1, PlacesAre, Zenon
    <3>3. listed = DOMAIN Listed(themes[name])
      BY <1>3, <3>1, WorldIs, Zenon
    <3> QED BY <3>2, <3>3
  <2>6. name \in DOMAIN themes
    <3>1. PICK C : C = [theme : DOMAIN w.themes, tried : Nat]
      OBVIOUS
    <3>2. stack \in Seq(C) /\ Len(stack) > 0
      BY <1>6, <3>1, Zenon DEF Progress, IsStack
    <3>3. stack[Len(stack)] \in C
      BY <3>2
    <3>4. name \in DOMAIN w.themes
      BY <1>4, <3>1, <3>3
    <3> QED BY <1>3, <3>4, WorldIs
  <2> QED BY <2>4, <2>5, <2>6
<1>9. /\ found = NoFile => \A f \in icons : ~Fits(w, name, places, d, icon, f)
      /\ found # NoFile => Fits(w, name, places, d, icon, found)
  BY <1>2, <1>3, <1>5, <1>8, IconInIs, Zenon DEF Searching
<1>10. /\ found # NoFile => pc' = "found" /\ file' = found /\ pass' = pass /\ base' = base
       /\ found = NoFile => /\ pass' = (IF base < Len(Dirs(w)) THEN pass ELSE pass + 1)
                            /\ base' = (IF base < Len(Dirs(w)) THEN base + 1 ELSE 1)
                            /\ pc' = pc
  <2>1. Dirs(w) = ThemeDirs(env) /\ Theme = name
    BY <1>3, <1>4, WorldIs DEF Theme
  <2>2. found = IconIn(ThemeDirs(env)[base], Theme, passes[pass], request.names[turn])
    BY <1>4, <1>5, <2>1, Zenon
  <2> QED BY <2>1, <2>2, Zenon DEF SearchBase
<1>11. CASE found # NoFile
  <2>1. Progress(World', steady', request', turn', stack', passes', pass', base')
    BY <1>1, <1>3, <1>6, <1>10, <1>11, Zenon
  <2>2. IsThere(World', stack', passes', pass', base', request'.names[turn'], file')
    BY <1>1, <1>3, <1>4, <1>9, <1>10, <1>11, Zenon DEF IsThere
  <2> QED BY <1>1, <1>2, <1>3, <1>6, <1>10, <1>11, <2>1, <2>2 DEF IInv, Searching
<1>12. CASE found = NoFile
  <2>1. \A f \in steady : ~Fits(w, stack[Len(stack)].theme, passes[pass], Dirs(w)[base], icon, f)
    BY <1>2, <1>4, <1>9, <1>12 DEF Searching
  <2>2. PICK call : call = stack[Len(stack)]
    OBVIOUS
  <2>3. Place(w, steady, request, call, passes, pass', base', icon)
    <3>1. Place(w, steady, request, call, passes,
                IF base < Len(Dirs(w)) THEN pass ELSE pass + 1,
                  IF base < Len(Dirs(w)) THEN base + 1 ELSE 1, icon)
      BY <1>1, <1>6, <1>7, <2>1, <2>2, PlaceNext
    <3> QED BY <1>10, <1>12, <3>1, Zenon
  <2>4. Progress(w, steady, request, turn, stack, passes, pass', base')
    BY <1>4, <1>6, <2>2, <2>3, Zenon DEF Progress
  <2>5. Progress(World', steady', request', turn', stack', passes', pass', base')
    BY <1>1, <1>3, <2>4, Zenon
  <2> QED BY <1>1, <1>2, <1>3, <1>6, <1>10, <1>12, <2>5 DEF IInv, Searching
<1> QED BY <1>11, <1>12

\* The search goes on to the next of the themes, or dies.
LEMMA DescendKeeps ==
  ASSUME IInv, Descend
  PROVE  IInv'
<1>1. /\ pc = "search" /\ pass > Len(passes) /\ SameWorld /\ icons' = icons /\ steady' = steady
      /\ request' = request /\ turn' = turn
  BY DEF Descend, SameWorld
<1>2. Searching
  BY <1>1, IsSearching
<1>3. PICK w : w = World /\ World' = w
  BY <1>1, WorldStays
<1>4. Progress(w, steady, request, turn, stack, passes, pass, base) /\ Loaded(w)
  BY <1>2, <1>3 DEF Searching
<1>5. PICK top : top = stack[Len(stack)]
  OBVIOUS
<1>6. CASE Len(stack) = MaxDepth
  <2>1. pc' = "dead"
    BY <1>6 DEF Descend
  <2> QED BY <1>1, <1>2, <1>3, <1>4, <2>1 DEF IInv, Searching
<1>7. CASE Len(stack) # MaxDepth
  <2>1. /\ top.tried < Len(LeadsTo(top.theme)) /\ pc' = pc
        /\ \E next : /\ next = LeadsTo(top.theme)[NextTried(top.tried)]
                     /\ stack' = Append([stack EXCEPT ![Len(stack)].tried = NextTried(@)],
                                        [theme |-> next, tried |-> 0])
                     /\ Call(next, request)
    BY <1>5, <1>7, Zenon DEF Descend
  <2>2. PICK next : /\ next = LeadsTo(top.theme)[NextTried(top.tried)]
                    /\ stack' = Append([stack EXCEPT ![Len(stack)].tried = NextTried(@)],
                                       [theme |-> next, tried |-> 0])
                    /\ Call(next, request)
    BY <2>1
  <2>3. LeadsTo(top.theme) = GoesOnTo(w, top.theme) /\
          Passes(next, request) = PassesIn(w, request, next)
    BY <1>3, WorldIs
  <2>4. next = GoesOnTo(w, top.theme)[top.tried + 1]
    BY <2>2, <2>3, Zenon DEF NextTried
  <2>5. Progress(w, steady, request, turn,
                 Append([stack EXCEPT ![Len(stack)].tried = NextTried(@)], Call0(next)),
                 PassesIn(w, request, next), 1, 1)
    BY <1>1, <1>4, <1>5, <2>1, <2>3, <2>4, SearchDescends
  <2>6. /\ stack' = Append([stack EXCEPT ![Len(stack)].tried = NextTried(@)], Call0(next))
        /\ passes' = PassesIn(w, request, next) /\ pass' = 1 /\ base' = 1
    BY <2>2, <2>3, Zenon DEF Call0, Call
  <2>7. Progress(World', steady', request', turn', stack', passes', pass', base')
    BY <1>1, <1>3, <2>5, <2>6, Zenon
  <2> QED BY <1>1, <1>2, <1>3, <1>4, <2>1, <2>7 DEF IInv, Searching
<1> QED BY <1>6, <1>7

\* The search returns from a theme that is done.
LEMMA ReturnKeeps ==
  ASSUME IInv, Return
  PROVE  IInv'
<1>1. /\ pc = "search" /\ pass > Len(passes) /\ Len(stack) > 1 /\ SameWorld
      /\ icons' = icons /\ steady' = steady /\ stack' = Front(stack) /\ pc' = pc
      /\ request' = request /\ turn' = turn /\ passes' = passes /\ pass' = pass /\ base' = base
      /\ stack[Len(stack)].tried = Len(LeadsTo(stack[Len(stack)].theme))
  BY DEF Return, SameWorld, Theme
<1>2. Searching
  BY <1>1, IsSearching
<1>3. PICK w : w = World /\ World' = w
  BY <1>1, WorldStays
<1>4. Progress(w, steady, request, turn, stack, passes, pass, base) /\ Loaded(w)
  BY <1>2, <1>3 DEF Searching
<1>5. stack[Len(stack)].tried = Len(GoesOnTo(w, stack[Len(stack)].theme))
  BY <1>1, <1>3, WorldIs
<1>6. Progress(w, steady, request, turn, Front(stack), passes, pass, base)
  BY <1>1, <1>4, <1>5, SearchReturns
<1>7. Progress(World', steady', request', turn', stack', passes', pass', base')
  BY <1>1, <1>3, <1>6, Zenon
<1> QED BY <1>1, <1>2, <1>3, <1>4, <1>7 DEF IInv, Searching

\* The search ends, or begins again with the next name.
LEMMA NextNameKeeps ==
  ASSUME IInv, NextName
  PROVE  IInv'
<1>1. /\ pc = "search" /\ pass > Len(passes) /\ Len(stack) = 1 /\ SameWorld
      /\ icons' = icons /\ steady' = steady /\ request' = request
      /\ stack[Len(stack)].tried = Len(LeadsTo(stack[Len(stack)].theme))
  BY DEF NextName, SameWorld, Theme
<1>2. Searching
  BY <1>1, IsSearching
<1>3. PICK w : w = World /\ World' = w
  BY <1>1, WorldStays
<1>4. Progress(w, steady, request, turn, stack, passes, pass, base) /\ Loaded(w)
  BY <1>2, <1>3 DEF Searching
<1>5. stack[Len(stack)].tried = Len(GoesOnTo(w, stack[Len(stack)].theme))
  BY <1>1, <1>3, WorldIs
<1>6. Done(w, steady, request, request.theme, request.names[turn])
  BY <1>1, <1>4, <1>5, SearchReturns
<1>7. /\ Hicolor \in DOMAIN w.themes /\ request.theme \in DOMAIN w.themes
      /\ Len(request.names) \in Nat /\ turn \in 1 .. Len(request.names)
      /\ \A m \in 1 .. turn - 1 : Done(w, steady, request, request.theme, request.names[m])
  BY <1>4, Zenon DEF Progress
<1>8. \A m \in 1 .. turn : Done(w, steady, request, request.theme, request.names[m])
  <2>1. \A m \in 1 .. turn : m = turn \/ m \in 1 .. turn - 1
    BY <1>7
  <2> QED BY <1>6, <1>7, <2>1, Zenon
<1>9. CASE turn = Len(request.names)
  <2>1. pc' = "none" /\ turn' = turn
    BY <1>9 DEF NextName
  <2>2. NoneHas(World', steady', request', turn')
    BY <1>1, <1>3, <1>7, <1>8, <2>1, Zenon DEF NoneHas
  <2> QED BY <1>1, <1>2, <1>3, <1>4, <2>1, <2>2 DEF IInv, Searching
<1>10. CASE turn # Len(request.names) /\ request.names[turn + 1] = NullPointer
  <2>1. pc' = "dead"
    BY <1>10 DEF NextName
  <2> QED BY <1>1, <1>2, <1>3, <1>4, <2>1 DEF IInv, Searching
<1>11. CASE turn # Len(request.names) /\ request.names[turn + 1] # NullPointer
  <2>1. /\ turn' = turn + 1 /\ pc' = pc /\ Call(request.theme, request)
        /\ stack' = <<[theme |-> request.theme, tried |-> 0]>>
    BY <1>11, Zenon DEF NextName
  <2>2. /\ stack' = <<Call0(request.theme)>> /\ pass' = 1 /\ base' = 1
        /\ passes' = PassesIn(w, request, request.theme)
    BY <1>3, <2>1, WorldIs, Zenon DEF Call, Call0
  <2>3. PICK n \in 1 .. Len(request.names) : n = turn + 1 /\ n - 1 = turn
    BY <1>7, <1>11
  <2>4. Progress(w, steady, request, n, <<Call0(request.theme)>>,
          PassesIn(w, request, request.theme), 1, 1)
    BY <1>4, <1>7, <1>8, <2>3, SearchStarts
  <2>5. Progress(World', steady', request', turn', stack', passes', pass', base')
    BY <1>1, <1>3, <2>1, <2>2, <2>3, <2>4, Zenon
  <2> QED BY <1>1, <1>2, <1>3, <1>4, <2>1, <2>5 DEF IInv, Searching
<1> QED BY <1>9, <1>10, <1>11

\* Icons that come or go are not among those that were there all the time.
LEMMA ChangeIconKeeps ==
  ASSUME IInv, NEW f \in IconFiles, ChangeIcon(f)
  PROVE  IInv'
<1>1. /\ pc = "search" /\ SameWorld /\ pc' = pc
      /\ icons' = (IF f \in icons THEN icons \ {f} ELSE icons \union {f}) /\ steady' = steady \ {f}
      /\ request' = request /\ turn' = turn /\ stack' = stack
      /\ passes' = passes /\ pass' = pass /\ base' = base
  BY DEF ChangeIcon, SameWorld, lookup
<1>2. Searching
  BY <1>1, IsSearching
<1>3. PICK w : w = World /\ World' = w
  BY <1>1, WorldStays
<1>4. Progress(w, steady, request, turn, stack, passes, pass, base) /\ Loaded(w)
  BY <1>2, <1>3 DEF Searching
<1>5. steady' \in SUBSET steady /\ steady' \subseteq icons' /\ \A g \in icons' : IsIconFile(g)
  BY <1>1, <1>2, IconFilesAssumption DEF Searching
<1>6. Progress(w, steady', request, turn, stack, passes, pass, base)
  BY <1>4, <1>5, FewerIcons, Zenon
<1>7. Progress(World', steady', request', turn', stack', passes', pass', base')
  BY <1>1, <1>3, <1>6, Zenon
<1> QED BY <1>1, <1>3, <1>4, <1>5, <1>7 DEF IInv

\* Every step keeps it.
LEMMA StepKeeps ==
  ASSUME IInv, [Next]_vars
  PROVE  IInv'
<1>1. Loaded(World) /\ \A f \in icons : IsIconFile(f)
  BY DEF IInv
<1>2. CASE Over
  <2>1. pc' = "idle" /\ request' = NoRequest /\ icons' = icons /\ SameWorld
    BY <1>2 DEF Over, SameWorld
  <2>2. World' = World
    BY <2>1, WorldStays
  <2> QED BY <1>1, <2>1, <2>2 DEF IInv
<1>3. CASE Search
  BY <1>3, SearchBaseKeeps, DescendKeeps, ReturnKeeps, NextNameKeeps DEF Search
<1>4. ASSUME NEW theme \in ThemeName, NEW size \in Size,
             \/ \E icon \in Icon, context \in Context : IconLookup(icon, size, context, theme)
             \/ \E mime \in MimeType : MimeTypeIconLookup(mime, size, theme)
             \/ \E app \in DOMAIN Apps : AppIconLookup(app, size, theme)
      PROVE  IInv'
  BY <1>4, LookupsKeep
<1>5. ASSUME NEW f \in IconFiles, ChangeIcon(f) PROVE IInv'
  BY <1>5, ChangeIconKeeps
<1>6. CASE UNCHANGED vars
  <2>1. /\ SameWorld /\ icons' = icons /\ pc' = pc /\ request' = request /\ turn' = turn /\
             stack' = stack
        /\ passes' = passes /\ pass' = pass /\ base' = base /\ file' = file /\ steady' = steady
    BY <1>6 DEF vars, lookup, SameWorld
  <2>2. World' = World
    BY <2>1, WorldStays
  <2> QED BY <2>1, <2>2, Zenon DEF IInv
<1>7. CASE Next
  BY <1>2, <1>3, <1>4, <1>5, <1>7, Zenon DEF Next
<1> QED BY <1>6, <1>7

\* Whatever icons come and go meanwhile, no search passes over one that was there
\* all the time: not for a later name, a theme further off, a size that fits less
\* or a later base directory, and when it returns NULL there was none at all
\* (_xdg_mime_find_icon_helper, _xdg_mime_lookup_icon, xdg_mime_type_icon_lookup).
\* It is to find what the lines of the index files name before the buffer cuts them,
\* wherever that is.
THEOREM SearchMissesNothing == Spec => []NothingNearerIsMissed
<1>1. Init => IInv
  BY InitHolds
<1>2. IInv /\ [Next]_vars => IInv'
  BY StepKeeps
<1>3. IInv => NothingNearerIsMissed
  BY InvariantIsEnough
<1> QED BY <1>1, <1>2, <1>3, PTL DEF Spec
=============================================================================
