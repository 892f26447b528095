--------------------------- MODULE AppFolders_proofs ---------------------------
(***************************************************************************)
(* Proofs about AppFolders, for any number of folders and applications and *)
(* any number of changes: only a shutdown reads what is freed, the folders *)
(* agree, the user's files win, and a refresh follows the disk.            *)
(***************************************************************************)
EXTENDS AppFolders, TLAPS

-----------------------------------------------------------------------------
(* The inductive invariant *)

Position == 1 .. Len(Order)
top == Order[1]

\* The folders that were loaded since the start have maps that lookups follow.
SeenLoaded ==
  /\ pc \in {"refresh", "link", "up"} => \A f \in Folder : Seen(f) # None
  /\ pc = "init" => \A i \in Position : i < turn => Seen(Order[i]) # None

\* Only the app items of the maps that are linked have groups of another item,
\* and these only after the links were made.
LinksInChosen ==
  \A f \in Folder, s \in Store, a \in App :
    \/ pc \in {"link", "up", "shutdown"} /\ s = Chosen(f) /\ a \in ChosenNames(f)
    \/ groups[f][s][a] \in {NULL, <<f, s, a>>}

NoneDangle ==
  pc # "shutdown" => \A f \in Folder, s \in Store, a \in App : groups[f][s][a] # Dangling

\* Nothing is left of the folders that a shutdown has freed, and nothing dangles
\* before it has freed one.
ShutdownLoop ==
  pc = "shutdown" =>
    /\ \A i \in Position, s \in Store : i < turn =>
         loaded[Order[i]][s] = None /\ \A a \in App : groups[Order[i]][s][a] = NULL
    /\ turn = 1 => \A f \in Folder, s \in Store, a \in App : groups[f][s][a] # Dangling

\* The first folder has no folder before it that could overwrite its groups.
TopKeepsOwn ==
  \A s \in Store, a \in App :
    loaded[top][s] # None /\ loaded[top][s].files[a] # 0 => groups[top][s][a] = <<top, s, a>>

\* A snapshot is not newer than the disk, and where it has the directory's time
\* stamp nothing was added since it was taken.
OlderThanDisk(snapshot, f) ==
  /\ snapshot.dir <= stamp
  /\ snapshot.dir = disk[f].dir =>
       \A a \in App : snapshot.files[a] = 0 => disk[f].files[a] = 0

SnapshotsAreOld ==
  \A f \in Folder :
    /\ disk[f].dir <= stamp
    /\ cacheFile[f] \in Snapshot => OlderThanDisk(cacheFile[f], f)
    /\ \A s \in Store : loaded[f][s] # None => OlderThanDisk(loaded[f][s], f)

-----------------------------------------------------------------------------
(* The loop over pairs of folders, for one application *)

\* The folders that have it, and where their items of it lead to.
Named(a) == {k \in Position : a \in ChosenNames(Order[k])}
Leads(a) == [k \in Position |-> groups[Order[k]][Chosen(Order[k])][a]]

\* How far the loop has come: all folders once it is done with the first one that
\* has the application, those it has been compared with before.
Reached(named, i, j) ==
  IF \E k \in named : k < i THEN Len(Order) + 1 ELSE IF i \in named THEN j ELSE i

\* There is one item that all lead to, but for those that lead nowhere yet and
\* that will meet a later one that leads to it.
Converges(named, leads, i, j, v) ==
  \A k \in named : k < Reached(named, i, j) =>
    \/ leads[k] = v
    \/ /\ leads[k] = NULL /\ i <= k
       /\ \E m \in named : /\ k < m /\ m < Reached(named, i, j) /\ leads[m] = v
                           /\ k = i => j <= m

LinkLoop ==
  pc = "link" =>
    /\ turn < next /\ turn <= Len(Order)
    /\ \A a \in App : \E v : Converges(Named(a), Leads(a), turn, next, v)

\* FoldersAgree for the maps that are linked, until a shutdown frees the first.
ChosenAgree ==
  pc = "up" \/ (pc = "shutdown" /\ turn = 1) =>
    \A f, g \in Folder : \A a \in ChosenNames(f) \intersect ChosenNames(g) :
      groups[f][Chosen(f)][a] = groups[g][Chosen(g)][a]

Inv ==
  /\ TypeOK
  /\ SeenLoaded
  /\ LinksInChosen
  /\ NoneDangle
  /\ TopKeepsOwn
  /\ SnapshotsAreOld
  /\ LinkLoop
  /\ ShutdownLoop
  /\ ChosenAgree

-----------------------------------------------------------------------------
(* Lemmas *)

LEMMA OrderFacts ==
  /\ Len(Order) \in Nat /\ Len(Order) >= 1
  /\ top \in Folder
  /\ \A i \in Position : Order[i] \in Folder
  /\ \A f \in Folder : \E i \in Position : f = Order[i]
  /\ \A i, j \in Position : Order[i] = Order[j] => i = j
<1>1. Len(Order) \in Nat /\ Len(Order) >= 1
  BY OrderAssumption
<1> QED BY <1>1, OrderAssumption DEF Position, Folder, top

LEMMA SnapshotFacts ==
  ASSUME NEW x \in Snapshot
  PROVE  /\ x # None /\ x # Empty
         /\ x.dir \in Int /\ x.dir >= 1
         /\ \A a \in App : x.files[a] \in Nat
<1>1. x # None /\ x # Empty
  BY NoneAssumption
<1> QED BY <1>1, StampAssumption DEF Snapshot, Stamp

\* Where all items have their own groups or none, replacing the maps of a store
\* leaves nothing behind.
LEMMA ReloadFacts ==
  ASSUME TypeOK, NEW f \in Folder, NEW s \in Store, NEW snapshot \in Snapshot,
         Reload(f, s, snapshot),
         \A h \in Folder, t \in Store, a \in App : groups[h][t][a] \in {NULL, <<h, t, a>>}
  PROVE  /\ loaded' \in [Folder -> [Store -> Snapshot \union {None}]]
         /\ groups' \in [Folder -> [Store -> [App -> Item \union {NULL, Dangling}]]]
         /\ loaded'[f][s] = snapshot
         /\ \A h \in Folder, t \in Store :
              (h # f \/ t # s) => loaded'[h][t] = loaded[h][t] /\ groups'[h][t] = groups[h][t]
         /\ \A a \in App : groups'[f][s][a] = IF snapshot.files[a] # 0 THEN <<f, s, a>> ELSE NULL
<1>1. /\ loaded' \in [Folder -> [Store -> Snapshot \union {None}]]
      /\ loaded'[f][s] = snapshot
      /\ \A h \in Folder, t \in Store : (h # f \/ t # s) => loaded'[h][t] = loaded[h][t]
  BY DEF Reload, TypeOK
<1> DEFINE swept == [h \in Folder |-> [t \in Store |-> [a \in App |->
                       IF \E b \in App : groups[h][t][a] = <<f, s, b>>
                       THEN Dangling ELSE groups[h][t][a]]]]
<1>2. groups' = [swept EXCEPT ![f][s] = OwnGroups(f, s, snapshot)]
  BY DEF Reload
<1>3. swept \in [Folder -> [Store -> [App -> Item \union {NULL, Dangling}]]]
  BY DEF TypeOK
<1>4. OwnGroups(f, s, snapshot) \in [App -> Item \union {NULL, Dangling}]
  BY DEF OwnGroups, Item
<1>5. groups' \in [Folder -> [Store -> [App -> Item \union {NULL, Dangling}]]]
  <2> HIDE DEF swept
  <2> QED BY <1>2, <1>3, <1>4
<1>6. ASSUME NEW h \in Folder, NEW t \in Store, h # f \/ t # s
      PROVE  groups'[h][t] = groups[h][t]
  <2>1. groups'[h][t] = swept[h][t]
    <3> HIDE DEF swept
    <3> QED BY <1>2, <1>3, <1>6
  <2>2. ASSUME NEW a \in App PROVE swept[h][t][a] = groups[h][t][a]
    <3>1. \A b \in App : <<f, s, b>> \in Item /\ <<f, s, b>> # <<h, t, a>>
      BY <1>6 DEF Item
    <3>2. \A b \in App : groups[h][t][a] # <<f, s, b>>
      BY <3>1, NullAssumption
    <3> QED BY <3>2
  <2>3. groups[h][t] \in [App -> Item \union {NULL, Dangling}]
    BY DEF TypeOK
  <2>4. swept[h][t] = [a \in App |-> swept[h][t][a]]
    OBVIOUS
  <2> QED BY <2>1, <2>2, <2>3, <2>4
<1>7. groups'[f][s] = OwnGroups(f, s, snapshot)
  <2> HIDE DEF swept
  <2> QED BY <1>2, <1>3
<1> QED BY <1>1, <1>5, <1>6, <1>7 DEF OwnGroups

\* One step of the loop, for one application: the items of folders i and j are
\* linked if both have it.
Fixed(named, leads, i, j) ==
  IF i \notin named \/ j \notin named THEN leads
  ELSE IF leads[i] = NULL THEN [leads EXCEPT ![i] = leads[j]]
  ELSE [leads EXCEPT ![j] = leads[i]]

LEMMA FixedConverges ==
  ASSUME NEW named \in SUBSET Position, NEW leads, leads = [k \in Position |-> leads[k]],
         NEW i \in Position, NEW j \in Position, i < j,
         \E v : Converges(named, leads, i, j, v)
  PROVE  \E v : Converges(named, Fixed(named, leads, i, j), i, j + 1, v)
<1> DEFINE after == Fixed(named, leads, i, j)
           early == \E k \in named : k < i
<1>0. /\ Len(Order) \in Nat
      /\ \A k \in named : k \in Nat /\ 1 <= k /\ k <= Len(Order)
      /\ i \in Nat /\ j \in Nat
  BY OrderFacts DEF Position
<1>1. PICK v : Converges(named, leads, i, j, v)
  OBVIOUS
<1>2. CASE i \notin named
  <2>1. after = leads
    BY <1>2 DEF Fixed
  <2>2. Reached(named, i, j + 1) = Reached(named, i, j)
    BY <1>2 DEF Reached
  <2>3. Converges(named, after, i, j + 1, v)
    BY <1>1, <1>2, <2>1, <2>2, <1>0 DEF Converges
  <2> QED BY <2>3
<1>3. CASE i \in named /\ j \notin named
  <2>1. after = leads
    BY <1>3 DEF Fixed
  <2>2. \A k \in named : k < Reached(named, i, j + 1) <=> k < Reached(named, i, j)
    BY <1>3, <1>0 DEF Reached
  <2>3. \A m \in named : j <= m => j + 1 <= m
    BY <1>3, <1>0
  <2>4. Converges(named, after, i, j + 1, v)
    BY <1>1, <2>1, <2>2, <2>3 DEF Converges
  <2> QED BY <2>4
<1>4. CASE i \in named /\ j \in named /\ early
  <2>1. Reached(named, i, j) = Len(Order) + 1 /\ Reached(named, i, j + 1) = Len(Order) + 1
    BY <1>4 DEF Reached
  <2>2. \A k \in named : k < Reached(named, i, j) /\ k < Reached(named, i, j + 1)
    BY <2>1, <1>0
  <2>3. \A k \in named :
          \/ leads[k] = v
          \/ /\ leads[k] = NULL /\ i <= k
             /\ \E m \in named : k < m /\ leads[m] = v /\ (k = i => j <= m)
    BY <1>1, <2>2 DEF Converges
  <2>4. CASE leads[i] = NULL
    <3>1. after = [leads EXCEPT ![i] = leads[j]]
      BY <1>4, <2>4 DEF Fixed
    <3>2. after[i] = leads[j] /\ \A k \in Position : k # i => after[k] = leads[k]
      BY <3>1
    <3>3. leads[j] = v \/ leads[j] = NULL
      BY <2>3, <1>4
    <3>4. \A k \in named :
            \/ after[k] = v
            \/ /\ after[k] = NULL /\ i <= k
               /\ \E m \in named : k < m /\ after[m] = v /\ (k = i => j + 1 <= m)
      <4> SUFFICES ASSUME NEW k \in named, after[k] # v
                   PROVE  /\ after[k] = NULL /\ i <= k
                          /\ \E m \in named : k < m /\ after[m] = v /\ (k = i => j + 1 <= m)
        OBVIOUS
      <4>1. CASE k # i
        <5>1. leads[k] = after[k]
          BY <4>1, <3>2
        <5>2. PICK m \in named : k < m /\ leads[m] = v /\ leads[k] = NULL /\ i <= k
          BY <5>1, <2>3
        <5>3. m # i
          BY <5>2, <1>0
        <5> QED BY <5>1, <5>2, <5>3, <3>2, <4>1
      <4>2. CASE k = i
        <5>1. leads[j] # v /\ leads[j] = NULL
          BY <4>2, <3>2, <3>3
        <5>2. leads[i] # v
          BY <5>1, <2>4
        <5>3. PICK m \in named : i < m /\ leads[m] = v /\ j <= m
          BY <5>2, <2>3, <1>4
        <5>4. m # j /\ m # i
          BY <5>1, <5>3, <1>0
        <5>5. after[m] = v /\ j + 1 <= m
          BY <5>3, <5>4, <3>2, <1>0
        <5> QED BY <5>1, <5>3, <5>5, <4>2, <3>2, <1>0
      <4> QED BY <4>1, <4>2
    <3>5. Converges(named, after, i, j + 1, v)
      BY <3>4, <2>2 DEF Converges
    <3> QED BY <3>5
  <2>5. CASE leads[i] # NULL
    <3>1. after = [leads EXCEPT ![j] = leads[i]] /\ leads[i] = v
      BY <1>4, <2>5, <2>3 DEF Fixed
    <3>2. after[j] = v /\ \A k \in Position : k # j => after[k] = leads[k]
      BY <3>1
    <3>3. \A k \in Position : leads[k] = v => after[k] = v
      BY <3>2
    <3>4. \A k \in named :
            \/ after[k] = v
            \/ /\ after[k] = NULL /\ i <= k
               /\ \E m \in named : k < m /\ after[m] = v /\ (k = i => j + 1 <= m)
      <4> SUFFICES ASSUME NEW k \in named, after[k] # v
                   PROVE  /\ after[k] = NULL /\ i <= k
                          /\ \E m \in named : k < m /\ after[m] = v /\ (k = i => j + 1 <= m)
        OBVIOUS
      <4>1. k # i /\ k # j /\ leads[k] # v /\ after[k] = leads[k]
        BY <3>1, <3>2, <3>3
      <4>2. PICK m \in named : k < m /\ leads[m] = v /\ leads[k] = NULL /\ i <= k
        BY <4>1, <2>3
      <4> QED BY <4>1, <4>2, <3>3
    <3>5. Converges(named, after, i, j + 1, v)
      BY <3>4, <2>2 DEF Converges
    <3> QED BY <3>5
  <2> QED BY <2>4, <2>5
<1>5. CASE i \in named /\ j \in named /\ ~early
  <2>1. Reached(named, i, j) = j /\ Reached(named, i, j + 1) = j + 1
    BY <1>5 DEF Reached
  <2>2. \A k \in named : i <= k
    BY <1>5, <1>0
  <2>3. leads[i] = v
    <3>1. ~ \E m \in named : i < m /\ m < j /\ j <= m
      BY <1>0
    <3> QED BY <3>1, <1>1, <2>1, <1>5 DEF Converges
  <2>4. \A k \in named : k < j => \/ leads[k] = v
                                  \/ leads[k] = NULL /\ \E m \in named : k < m /\ m < j /\ leads[m] = v
    BY <1>1, <2>1 DEF Converges
  <2>5. CASE leads[i] = NULL
    <3>1. after = [leads EXCEPT ![i] = leads[j]]
      BY <1>5, <2>5 DEF Fixed
    <3>2. after[i] = leads[j] /\ \A k \in Position : k # i => after[k] = leads[k]
      BY <3>1
    <3>3. \A k \in named : k < j + 1 =>
            \/ after[k] = leads[j]
            \/ /\ after[k] = NULL /\ i <= k /\ k < j /\ after[j] = leads[j] /\ k # i
      <4> SUFFICES ASSUME NEW k \in named, k < j + 1, k # i, k # j
                   PROVE  after[k] = NULL /\ i <= k /\ k < j
        BY <3>2, <1>0, <2>2, <1>5
      <4>1. k < j
        BY <1>0
      <4>2. leads[k] = NULL
        BY <4>1, <2>3, <2>4, <2>5
      <4> QED BY <4>1, <4>2, <2>2, <3>2
    <3>4. j < j + 1 /\ j \in named
      BY <1>5, <1>0
    <3>5. \A k \in named : k < j + 1 =>
            \/ after[k] = leads[j]
            \/ /\ after[k] = NULL /\ i <= k /\ k # i
               /\ \E m \in named : k < m /\ m < j + 1 /\ after[m] = leads[j]
      BY <3>3, <3>4
    <3>6. Converges(named, after, i, j + 1, leads[j])
      BY <3>5, <2>1 DEF Converges
    <3> QED BY <3>6
  <2>6. CASE leads[i] # NULL
    <3>1. after = [leads EXCEPT ![j] = leads[i]]
      BY <1>5, <2>6 DEF Fixed
    <3>2. after[j] = v /\ \A k \in Position : k # j => after[k] = leads[k]
      BY <3>1, <2>3
    <3>3. \A k \in named : k < j + 1 => k < j \/ k = j
      BY <1>0
    <3>4. \A k \in named : k < j + 1 =>
            \/ after[k] = v
            \/ /\ after[k] = NULL /\ i <= k /\ k # i
               /\ \E m \in named : k < m /\ m < j + 1 /\ after[m] = v
      <4> SUFFICES ASSUME NEW k \in named, k < j + 1, after[k] # v
                   PROVE  /\ after[k] = NULL /\ i <= k /\ k # i
                          /\ \E m \in named : k < m /\ m < j + 1 /\ after[m] = v
        OBVIOUS
      <4>1. k < j /\ k # j /\ leads[k] # v /\ after[k] = leads[k]
        BY <3>2, <3>3, <1>0
      <4>2. PICK m \in named : k < m /\ m < j /\ leads[m] = v /\ leads[k] = NULL
        BY <4>1, <2>4
      <4>3. after[m] = v /\ m < j + 1
        BY <4>2, <3>2, <1>0
      <4> QED BY <4>1, <4>2, <4>3, <2>2, <2>3
    <3>5. Converges(named, after, i, j + 1, v)
      BY <3>4, <2>1 DEF Converges
    <3> QED BY <3>5
  <2> QED BY <2>5, <2>6
<1> QED BY <1>2, <1>3, <1>4, <1>5

-----------------------------------------------------------------------------
(* The invariant holds initially, and other programs keep it *)

MemoryInv ==
  SeenLoaded /\ LinksInChosen /\ NoneDangle /\ TopKeepsOwn /\ LinkLoop /\ ShutdownLoop /\ ChosenAgree

LEMMA MemoryUnchanged ==
  ASSUME MemoryInv, UNCHANGED <<memoryVars, loopVars>>
  PROVE  MemoryInv'
<1>1. UNCHANGED <<loaded, lookup, groups, pc, turn, next>>
  BY DEF memoryVars, loopVars
<1>2. SeenLoaded'
  BY <1>1 DEF MemoryInv, SeenLoaded, Seen
<1>3. LinksInChosen' /\ NoneDangle' /\ TopKeepsOwn'
  BY <1>1 DEF MemoryInv, LinksInChosen, NoneDangle, TopKeepsOwn, Chosen, ChosenNames
<1>4. LinkLoop'
  <2>1. \A a \in App : Named(a)' = Named(a) /\ Leads(a)' = Leads(a)
    BY <1>1 DEF Named, Leads, Chosen, ChosenNames
  <2> QED BY <1>1, <2>1 DEF MemoryInv, LinkLoop
<1>5. ShutdownLoop' /\ ChosenAgree'
  BY <1>1 DEF MemoryInv, ShutdownLoop, ChosenAgree, Chosen, ChosenNames
<1> QED BY <1>2, <1>3, <1>4, <1>5 DEF MemoryInv

LEMMA InitInv == Init => Inv
<1> SUFFICES ASSUME Init PROVE Inv
  OBVIOUS
<1>1. 1 \in Stamp /\ {0, 1} \subseteq {0} \union Stamp
  BY StampAssumption DEF Stamp
<1>2. disk \in [Folder -> Snapshot] /\ \A f \in Folder : disk[f].dir = 1
  BY <1>1 DEF Init, Snapshot
<1>3. TypeOK
  <2>1. cacheFile \in [Folder -> Snapshot \union {None, Empty}]
    BY <1>2 DEF Init
  <2>2. /\ loaded \in [Folder -> [Store -> Snapshot \union {None}]]
        /\ lookup \in [Folder -> Store]
        /\ groups \in [Folder -> [Store -> [App -> Item \union {NULL, Dangling}]]]
    BY DEF Init, NothingLoaded, NoGroups, Store
  <2>3. turn \in 1 .. Len(Order) + 1 /\ next \in 2 .. Len(Order) + 1
    BY OrderFacts DEF Init
  <2> QED BY <1>1, <1>2, <2>1, <2>2, <2>3 DEF Init, TypeOK
<1>4. SnapshotsAreOld
  <2>1. \A f \in Folder : cacheFile[f] \in Snapshot => cacheFile[f] = disk[f]
    <3>1. None \notin Snapshot /\ Empty \notin Snapshot
      BY NoneAssumption
    <3> QED BY <3>1 DEF Init
  <2>2. \A f \in Folder, s \in Store : loaded[f][s] = None
    BY DEF Init, NothingLoaded
  <2> QED BY <1>2, <2>1, <2>2 DEF Init, SnapshotsAreOld, OlderThanDisk
<1>5. \A f \in Folder, s \in Store, a \in App : groups[f][s][a] = NULL /\ loaded[f][s] = None
  BY DEF Init, NoGroups, NothingLoaded
<1>6. NoneDangle /\ LinksInChosen /\ TopKeepsOwn
  BY <1>5, NullAssumption, OrderFacts DEF NoneDangle, LinksInChosen, TopKeepsOwn
<1> QED BY <1>3, <1>4, <1>6 DEF Init, Inv, SeenLoaded, LinkLoop, ShutdownLoop, ChosenAgree

\* What other programs do to a directory: a new stamp, or nothing is added.
LEMMA DiskChange ==
  ASSUME TypeOK, NEW f \in Folder,
         \/ \E a \in App : Edit(f, a)
         \/ RebuildOpen(f) \/ RebuildWrite(f) \/ DeleteCache(f)
  PROVE  /\ disk' \in [Folder -> Snapshot]
         /\ stamp' \in Stamp
         /\ \A g \in Folder : g # f => disk'[g] = disk[g]
         /\ \/ stamp' = stamp + 1 /\ disk'[f].dir = stamp'
            \/ /\ stamp' = stamp \/ stamp' = stamp + 1
               /\ disk'[f].dir = disk[f].dir
               /\ \A b \in App : disk[f].files[b] = 0 => disk'[f].files[b] = 0
<1>1. /\ disk \in [Folder -> Snapshot] /\ stamp \in Stamp
      /\ disk[f].dir \in Stamp /\ disk[f].files \in [App -> {0} \union Stamp]
  BY DEF TypeOK, Snapshot
<1>2. stamp < MaxStamp => stamp + 1 \in Stamp
  BY <1>1, StampAssumption DEF Stamp
<1>3. CASE \E a \in App : Edit(f, a)
  <2>1. PICK a \in App : Edit(f, a)
    BY <1>3
  <2>2. PICK content \in {0, stamp'} \ {disk[f].files[a]} :
          disk' = [disk EXCEPT ![f] =
                    [dir |-> IF content # 0 /\ @.files[a] # 0 THEN @.dir ELSE stamp',
                     files |-> [@.files EXCEPT ![a] = content]]]
    BY <2>1 DEF Edit
  <2> DEFINE dir == IF content # 0 /\ disk[f].files[a] # 0 THEN disk[f].dir ELSE stamp'
             files == [disk[f].files EXCEPT ![a] = content]
  <2>3. stamp' = stamp + 1 /\ stamp' \in Stamp
    BY <1>2, <2>1 DEF Edit
  <2>4. dir \in Stamp /\ files \in [App -> {0} \union Stamp]
    BY <1>1, <2>3
  <2>5. content # 0 /\ disk[f].files[a] # 0 =>
          dir = disk[f].dir /\ \A b \in App : disk[f].files[b] = 0 => files[b] = 0
    BY <1>1
  <2>6. content = 0 \/ disk[f].files[a] = 0 => dir = stamp'
    OBVIOUS
  <2>7. disk' = [disk EXCEPT ![f] = [dir |-> dir, files |-> files]]
    BY <2>2
  <2> HIDE DEF dir, files
  <2>8. [dir |-> dir, files |-> files] \in Snapshot
    BY <2>4 DEF Snapshot
  <2>9. disk'[f] = [dir |-> dir, files |-> files] /\ \A g \in Folder : g # f => disk'[g] = disk[g]
    BY <1>1, <2>7
  <2>10. disk'[f].dir = dir /\ disk'[f].files = files
    BY <2>9
  <2> QED BY <1>1, <2>3, <2>5, <2>6, <2>7, <2>8, <2>9, <2>10
<1>4. ASSUME NEW d \in Stamp, disk' = [disk EXCEPT ![f].dir = d]
      PROVE  /\ disk' \in [Folder -> Snapshot] /\ disk'[f].dir = d
             /\ \A g \in Folder : g # f => disk'[g] = disk[g]
  <2>1. [disk[f] EXCEPT !.dir = d] \in Snapshot /\ [disk[f] EXCEPT !.dir = d].dir = d
    BY <1>1 DEF Snapshot
  <2>2. disk' = [disk EXCEPT ![f] = [disk[f] EXCEPT !.dir = d]]
    BY <1>4
  <2> QED BY <1>1, <2>1, <2>2
<1>5. CASE RebuildOpen(f)
  <2>1. CASE cacheFile[f] = None
    BY <1>1, <1>2, <1>4, <1>5, <2>1 DEF RebuildOpen
  <2>2. CASE cacheFile[f] # None
    BY <1>1, <1>5, <2>2 DEF RebuildOpen
  <2> QED BY <2>1, <2>2
<1>6. CASE DeleteCache(f)
  BY <1>1, <1>2, <1>4, <1>6 DEF DeleteCache
<1>7. CASE RebuildWrite(f)
  BY <1>1, <1>7 DEF RebuildWrite
<1> QED BY <1>3, <1>5, <1>6, <1>7

LEMMA OutsideStep ==
  ASSUME Inv, Outside
  PROVE  Inv'
<1>1. PICK f \in Folder : \/ \E a \in App : Edit(f, a)
                          \/ RebuildOpen(f) \/ RebuildWrite(f) \/ DeleteCache(f)
  BY DEF Outside
<1>2. UNCHANGED <<memoryVars, loopVars>>
  BY <1>1 DEF Edit, RebuildOpen, RebuildWrite, DeleteCache
<1>3. MemoryInv'
  BY <1>2, MemoryUnchanged DEF Inv, MemoryInv
<1>4. stamp \in Int /\ disk \in [Folder -> Snapshot]
  BY StampAssumption DEF Inv, TypeOK, Stamp
<1>5. /\ disk' \in [Folder -> Snapshot]
      /\ stamp' \in Stamp
      /\ \A g \in Folder : g # f => disk'[g] = disk[g]
      /\ \/ stamp' = stamp + 1 /\ disk'[f].dir = stamp'
         \/ /\ stamp' = stamp \/ stamp' = stamp + 1
            /\ disk'[f].dir = disk[f].dir
            /\ \A b \in App : disk[f].files[b] = 0 => disk'[f].files[b] = 0
  BY <1>1, DiskChange DEF Inv
<1>6. TypeOK'
  <2>1. cacheFile' \in [Folder -> Snapshot \union {None, Empty}]
    BY <1>1 DEF Edit, RebuildOpen, RebuildWrite, DeleteCache, Inv, TypeOK
  <2> QED BY <1>2, <1>5, <2>1 DEF Inv, TypeOK, memoryVars, loopVars
<1>7. ASSUME NEW g \in Folder, NEW x \in Snapshot, OlderThanDisk(x, g)
      PROVE  x.dir <= stamp' /\ (x.dir = disk'[g].dir =>
                                   \A a \in App : x.files[a] = 0 => disk'[g].files[a] = 0)
  <2>1. x.dir \in Int /\ x.dir <= stamp
    BY <1>7, SnapshotFacts DEF OlderThanDisk
  <2>2. CASE g # f
    BY <1>4, <1>5, <1>7, <2>1, <2>2 DEF OlderThanDisk
  <2>3. CASE g = f /\ stamp' = stamp + 1 /\ disk'[f].dir = stamp'
    BY <1>4, <2>1, <2>3
  <2>4. CASE /\ g = f
             /\ stamp' = stamp \/ stamp' = stamp + 1
             /\ disk'[f].dir = disk[f].dir
             /\ \A b \in App : disk[f].files[b] = 0 => disk'[f].files[b] = 0
    BY <1>4, <1>7, <2>1, <2>4 DEF OlderThanDisk
  <2> QED BY <1>5, <2>2, <2>3, <2>4
<1>8. ASSUME NEW g \in Folder PROVE disk'[g].dir <= stamp' /\ OlderThanDisk(disk[g], g)
  <2>1. disk[g] \in Snapshot /\ disk[g].dir \in Int /\ disk[g].dir <= stamp
    BY SnapshotFacts DEF Inv, TypeOK, SnapshotsAreOld
  <2> QED BY <1>4, <1>5, <2>1 DEF OlderThanDisk
<1>9. \A g \in Folder : cacheFile'[g] \in Snapshot => OlderThanDisk(cacheFile'[g], g)
  <2> SUFFICES ASSUME NEW g \in Folder, cacheFile'[g] \in Snapshot
               PROVE  OlderThanDisk(cacheFile'[g], g)
    OBVIOUS
  <2>1. cacheFile'[g] = cacheFile[g] \/ cacheFile'[g] = disk[g] \/ cacheFile'[g] \in {None, Empty}
    BY <1>1 DEF Edit, RebuildOpen, RebuildWrite, DeleteCache, Inv, TypeOK
  <2>2. cacheFile'[g] \notin {None, Empty}
    BY SnapshotFacts
  <2> QED BY <1>8, <2>1, <2>2 DEF Inv, SnapshotsAreOld
<1>10. \A g \in Folder, s \in Store : loaded'[g][s] # None =>
         loaded'[g][s] \in Snapshot /\ OlderThanDisk(loaded'[g][s], g)
  BY <1>2 DEF memoryVars, Inv, TypeOK, SnapshotsAreOld
<1>11. SnapshotsAreOld'
  BY <1>7, <1>8, <1>9, <1>10 DEF SnapshotsAreOld, OlderThanDisk
<1> QED BY <1>3, <1>6, <1>11 DEF Inv, MemoryInv

-----------------------------------------------------------------------------
(* Loading folders *)

\* Before links are made, and while maps are replaced, there are none.
LEMMA OnlyOwn ==
  ASSUME Inv, pc \notin {"link", "up", "shutdown"}
  PROVE  \A f \in Folder, s \in Store, a \in App : groups[f][s][a] \in {NULL, <<f, s, a>>}
BY DEF Inv, LinksInChosen

\* A file or a cache that is read now is as old as the disk.
LEMMA LoadedNow ==
  ASSUME Inv, NEW f \in Folder
  PROVE  /\ disk[f] \in Snapshot /\ OlderThanDisk(disk[f], f)
         /\ Readable(f) => cacheFile[f] \in Snapshot /\ OlderThanDisk(cacheFile[f], f)
<1>1. disk[f] \in Snapshot /\ cacheFile[f] \in Snapshot \union {None, Empty}
  BY DEF Inv, TypeOK
<1> QED BY <1>1 DEF Inv, SnapshotsAreOld, OlderThanDisk, Readable

\* What loading or keeping the folder whose turn it is does to the invariant.
LEMMA FolderStep ==
  ASSUME Inv, pc \in {"init", "refresh"}, turn \in Position, NEW f, f = Order[turn],
         \/ UNCHANGED memoryVars /\ pc = "refresh"
         \/ \E s \in Store, x \in Snapshot : Reload(f, s, x) /\ OlderThanDisk(x, f),
         lookup' \in [Folder -> Store],
         \A g \in Folder : g # f => lookup'[g] = lookup[g],
         Seen(f)' # None,
         turn' = turn + 1, UNCHANGED <<diskVars, pc, next>>
  PROVE  Inv'
<1>1. f \in Folder
  BY OrderFacts
<1>2. UNCHANGED <<disk, cacheFile, stamp, pc, next>>
  BY DEF diskVars
<1>3. \A h \in Folder, t \in Store, a \in App : groups[h][t][a] \in {NULL, <<h, t, a>>}
  BY OnlyOwn
<1>4. /\ loaded' \in [Folder -> [Store -> Snapshot \union {None}]]
      /\ groups' \in [Folder -> [Store -> [App -> Item \union {NULL, Dangling}]]]
      /\ \A g \in Folder : g # f => loaded'[g] = loaded[g]
      /\ \A g \in Folder, t \in Store : loaded'[g][t] # None => OlderThanDisk(loaded'[g][t], g)
      /\ \A h \in Folder, t \in Store, a \in App : groups'[h][t][a] \in {NULL, <<h, t, a>>}
      /\ \A t \in Store, a \in App :
           loaded'[top][t] # None /\ loaded'[top][t].files[a] # 0 => groups'[top][t][a] = <<top, t, a>>
  <2>1. CASE UNCHANGED memoryVars
    <3>1. UNCHANGED <<loaded, groups>>
      BY <2>1 DEF memoryVars
    <3>2. \A g \in Folder, t \in Store : loaded[g][t] # None => OlderThanDisk(loaded[g][t], g)
      BY DEF Inv, SnapshotsAreOld
    <3> QED BY <3>1, <3>2, <1>3 DEF Inv, TypeOK, TopKeepsOwn
  <2>2. CASE \E s \in Store, x \in Snapshot : Reload(f, s, x) /\ OlderThanDisk(x, f)
    <3>1. PICK s \in Store, x \in Snapshot : Reload(f, s, x) /\ OlderThanDisk(x, f)
      BY <2>2
    <3>2. /\ loaded' \in [Folder -> [Store -> Snapshot \union {None}]]
          /\ groups' \in [Folder -> [Store -> [App -> Item \union {NULL, Dangling}]]]
          /\ loaded'[f][s] = x
          /\ \A h \in Folder, t \in Store :
               (h # f \/ t # s) => loaded'[h][t] = loaded[h][t] /\ groups'[h][t] = groups[h][t]
          /\ \A a \in App : groups'[f][s][a] = IF x.files[a] # 0 THEN <<f, s, a>> ELSE NULL
      BY <1>1, <1>3, <3>1, ReloadFacts DEF Inv
    <3>3. \A g \in Folder : g # f => loaded'[g] = loaded[g]
      BY <3>1, <1>1 DEF Reload, Inv, TypeOK
    <3>4. ASSUME NEW g \in Folder, NEW t \in Store, loaded'[g][t] # None
          PROVE  OlderThanDisk(loaded'[g][t], g)
      <4>1. CASE g = f /\ t = s
        BY <3>1, <3>2, <4>1
      <4>2. CASE g # f \/ t # s
        <5>1. loaded'[g][t] = loaded[g][t]
          BY <3>2, <4>2
        <5> QED BY <3>4, <5>1 DEF Inv, SnapshotsAreOld
      <4> QED BY <4>1, <4>2
    <3>5. \A h \in Folder, t \in Store, a \in App : groups'[h][t][a] \in {NULL, <<h, t, a>>}
      BY <3>2, <1>3
    <3>6. \A t \in Store, a \in App :
            loaded'[top][t] # None /\ loaded'[top][t].files[a] # 0 => groups'[top][t][a] = <<top, t, a>>
      <4> SUFFICES ASSUME NEW t \in Store, NEW a \in App,
                          loaded'[top][t] # None, loaded'[top][t].files[a] # 0
                   PROVE  groups'[top][t][a] = <<top, t, a>>
        OBVIOUS
      <4>1. CASE top = f /\ t = s
        BY <3>2, <4>1
      <4>2. CASE top # f \/ t # s
        <5>1. loaded'[top][t] = loaded[top][t] /\ groups'[top][t] = groups[top][t]
          BY <3>2, <4>2, OrderFacts
        <5> QED BY <5>1 DEF Inv, TopKeepsOwn
      <4> QED BY <4>1, <4>2
    <3> QED BY <3>2, <3>3, <3>4, <3>5, <3>6
  <2> QED BY <2>1, <2>2
<1>5. TypeOK'
  <2>1. turn' \in 1 .. Len(Order) + 1
    BY OrderFacts DEF Inv, TypeOK, Position
  <2> QED BY <1>2, <1>4, <2>1 DEF Inv, TypeOK
<1>6. SeenLoaded'
  <2>1. \A g \in Folder : g # f => Seen(g)' = Seen(g)
    BY <1>4 DEF Seen
  <2>2. CASE pc = "init"
    <3>1. ASSUME NEW i \in Position, i < turn + 1 PROVE Seen(Order[i])' # None
      <4>1. CASE i = turn
        BY <4>1
      <4>2. CASE i < turn
        <5>1. Order[i] \in Folder
          BY OrderFacts
        <5> QED BY <2>1, <2>2, <4>2, <5>1 DEF Inv, SeenLoaded
      <4> QED BY <3>1, <4>1, <4>2, OrderFacts DEF Position
    <3> QED BY <1>2, <2>2, <3>1 DEF SeenLoaded
  <2>3. CASE pc = "refresh"
    BY <1>2, <2>1, <2>3 DEF Inv, SeenLoaded
  <2> QED BY <2>2, <2>3
<1>7. NoneDangle'
  <2>1. \A h \in Folder, t \in Store, a \in App : <<h, t, a>> # Dangling
    BY NullAssumption DEF Item
  <2> QED BY <1>4, <2>1, NullAssumption DEF NoneDangle
<1>8. LinksInChosen' /\ TopKeepsOwn' /\ LinkLoop' /\ ShutdownLoop' /\ ChosenAgree'
  BY <1>2, <1>4 DEF LinksInChosen, TopKeepsOwn, LinkLoop, ShutdownLoop, ChosenAgree
<1>9. SnapshotsAreOld'
  BY <1>2, <1>4 DEF Inv, SnapshotsAreOld, OlderThanDisk
<1> QED BY <1>5, <1>6, <1>7, <1>8, <1>9 DEF Inv

LEMMA InitFolderStep ==
  ASSUME Inv, NEW f \in Folder, InitFolder(f)
  PROVE  Inv'
<1>1. turn \in Position
  BY OrderFacts DEF InitFolder, Inv, TypeOK, Position
<1>2. \E s \in Store, x \in Snapshot :
        /\ Reload(f, s, x) /\ OlderThanDisk(x, f)
        /\ lookup' = [lookup EXCEPT ![f] = s]
  BY LoadedNow DEF InitFolder, LoadCache, ScanFolder, Store
<1>3. PICK s \in Store, x \in Snapshot :
        /\ Reload(f, s, x) /\ OlderThanDisk(x, f)
        /\ lookup' = [lookup EXCEPT ![f] = s]
  BY <1>2
<1>4. /\ lookup' \in [Folder -> Store] /\ lookup'[f] = s
      /\ \A g \in Folder : g # f => lookup'[g] = lookup[g]
  BY <1>3 DEF Inv, TypeOK
<1>5. Seen(f)' = x
  BY <1>3, <1>4 DEF Seen, Reload, Inv, TypeOK
<1>6. Seen(f)' # None
  BY <1>5, SnapshotFacts
<1> QED BY <1>1, <1>3, <1>4, <1>6, FolderStep DEF InitFolder

LEMMA RefreshFolderStep ==
  ASSUME Inv, NEW f \in Folder, RefreshFolder(f)
  PROVE  Inv'
<1>1. turn \in Position
  BY OrderFacts DEF RefreshFolder, Inv, TypeOK, Position
<1>2. Seen(f) # None /\ lookup \in [Folder -> Store]
  BY DEF RefreshFolder, Inv, SeenLoaded, TypeOK
<1>3. CASE UNCHANGED memoryVars
  <2>1. Seen(f)' = Seen(f) /\ lookup' = lookup
    BY <1>3 DEF memoryVars, Seen
  <2> QED BY <1>1, <1>2, <1>3, <2>1, FolderStep DEF RefreshFolder
<1>4. CASE LoadCache(f)
  <2>1. /\ Reload(f, "cache", cacheFile[f]) /\ cacheFile[f] \in Snapshot
        /\ OlderThanDisk(cacheFile[f], f)
    BY <1>4, LoadedNow DEF LoadCache
  <2>2. /\ lookup' \in [Folder -> Store] /\ lookup'[f] = "cache"
        /\ \A g \in Folder : g # f => lookup'[g] = lookup[g]
    BY <1>2, <1>4 DEF LoadCache, Store
  <2>3. Seen(f)' = cacheFile[f]
    BY <2>1, <2>2 DEF Seen, Reload, Inv, TypeOK, Store
  <2>4. Seen(f)' # None /\ "cache" \in Store
    BY <2>1, <2>3, SnapshotFacts DEF Store
  <2> QED BY <1>1, <2>1, <2>2, <2>4, FolderStep DEF RefreshFolder
<1>5. CASE ScanFolder(f) /\ UNCHANGED lookup
  <2>1. Reload(f, "data", disk[f]) /\ disk[f] \in Snapshot /\ OlderThanDisk(disk[f], f)
    BY <1>5, LoadedNow DEF ScanFolder
  <2>2. Seen(f)' = disk[f] \/ Seen(f)' = Seen(f)
    BY <1>5, <2>1 DEF Seen, Reload, Inv, TypeOK, Store
  <2>3. Seen(f)' # None /\ "data" \in Store
    BY <1>2, <2>1, <2>2, SnapshotFacts DEF Store
  <2> QED BY <1>1, <1>2, <1>5, <2>1, <2>3, FolderStep DEF RefreshFolder
<1> QED BY <1>3, <1>4, <1>5 DEF RefreshFolder

-----------------------------------------------------------------------------
(* Linking folders *)

\* The disk is as it was, and so are the maps.
LEMMA OldStays ==
  ASSUME Inv, UNCHANGED <<diskVars, loaded>>
  PROVE  SnapshotsAreOld'
BY DEF diskVars, Inv, SnapshotsAreOld, OlderThanDisk

LEMMA ChosenStays ==
  ASSUME UNCHANGED loaded
  PROVE  /\ \A f \in Folder : Chosen(f)' = Chosen(f) /\ ChosenNames(f)' = ChosenNames(f)
         /\ \A a \in App : Named(a)' = Named(a)
<1>1. \A f \in Folder : Chosen(f)' = Chosen(f) /\ ChosenNames(f)' = ChosenNames(f)
  BY DEF Chosen, ChosenNames
<1>2. \A k \in Position, a \in App : a \in ChosenNames(Order[k])' <=> a \in ChosenNames(Order[k])
  BY <1>1, OrderFacts
<1> QED BY <1>1, <1>2 DEF Named

LEMMA ChosenIsStore == \A f \in Folder : Chosen(f) \in Store
BY DEF Chosen, Store

LEMMA FixPairFacts ==
  ASSUME TypeOK, NEW f \in Folder, NEW h \in Folder, f # h, groups' = FixPair(groups, f, h)
  PROVE  LET both == ChosenNames(f) \intersect ChosenNames(h)
             Of(g, a) == groups[g][Chosen(g)][a]
         IN  /\ groups' \in [Folder -> [Store -> [App -> Item \union {NULL, Dangling}]]]
             /\ \A a \in App : groups'[f][Chosen(f)][a] =
                               IF a \in both /\ Of(f, a) = NULL THEN Of(h, a) ELSE Of(f, a)
             /\ \A a \in App : groups'[h][Chosen(h)][a] =
                               IF a \in both /\ Of(f, a) # NULL THEN Of(f, a) ELSE Of(h, a)
             /\ \A g \in Folder, r \in Store :
                  ~(g = f /\ r = Chosen(f)) /\ ~(g = h /\ r = Chosen(h)) =>
                    groups'[g][r] = groups[g][r]
<1> DEFINE both == ChosenNames(f) \intersect ChosenNames(h)
           s == Chosen(f)
           t == Chosen(h)
           first == [a \in App |-> IF a \in both /\ groups[f][s][a] = NULL
                                  THEN groups[h][t][a] ELSE groups[f][s][a]]
           second == [a \in App |-> IF a \in both /\ groups[f][s][a] # NULL
                                   THEN groups[f][s][a] ELSE groups[h][t][a]]
<1>1. groups' = [groups EXCEPT ![f][s] = first, ![h][t] = second]
  BY DEF FixPair
<1>2. s \in Store /\ t \in Store
  BY ChosenIsStore
<1>3. groups \in [Folder -> [Store -> [App -> Item \union {NULL, Dangling}]]]
  BY DEF TypeOK
<1>4. first \in [App -> Item \union {NULL, Dangling}] /\ second \in [App -> Item \union {NULL, Dangling}]
  BY <1>2, <1>3
<1>5. /\ \A a \in App : first[a] = IF a \in both /\ groups[f][s][a] = NULL
                                  THEN groups[h][t][a] ELSE groups[f][s][a]
      /\ \A a \in App : second[a] = IF a \in both /\ groups[f][s][a] # NULL
                                   THEN groups[f][s][a] ELSE groups[h][t][a]
  OBVIOUS
<1> HIDE DEF first, second, s, t, both
<1> DEFINE middle == [groups EXCEPT ![f][s] = first]
<1>6. /\ middle \in [Folder -> [Store -> [App -> Item \union {NULL, Dangling}]]]
      /\ middle[f][s] = first
      /\ \A g \in Folder, r \in Store : ~(g = f /\ r = s) => middle[g][r] = groups[g][r]
  BY <1>2, <1>3, <1>4
<1>7. groups' = [middle EXCEPT ![h][t] = second]
  BY <1>1
<1> HIDE DEF middle
<1>8. /\ groups' \in [Folder -> [Store -> [App -> Item \union {NULL, Dangling}]]]
      /\ groups'[h][t] = second
      /\ \A g \in Folder, r \in Store : ~(g = h /\ r = t) => groups'[g][r] = middle[g][r]
  BY <1>2, <1>4, <1>6, <1>7
<1>9. /\ groups'[f][s] = first
      /\ \A g \in Folder, r \in Store :
           ~(g = f /\ r = s) /\ ~(g = h /\ r = t) => groups'[g][r] = groups[g][r]
  BY <1>2, <1>6, <1>8
<1> QED BY <1>5, <1>8, <1>9 DEF both, s, t

LEMMA BeginLinksStep ==
  ASSUME Inv, BeginLinks
  PROVE  Inv'
<1>1. /\ UNCHANGED <<disk, cacheFile, stamp, loaded, lookup, groups>>
      /\ pc' = "link" /\ turn' = 1 /\ next' = 2
      /\ pc \in {"init", "refresh"} /\ turn > Len(Order)
  BY DEF BeginLinks, diskVars, memoryVars
<1>2. TypeOK'
  BY <1>1, OrderFacts DEF Inv, TypeOK
<1>3. SeenLoaded'
  <2>1. \A f \in Folder : Seen(f) # None
    <3>1. CASE pc = "init"
      <4>1. \A i \in Position : i < turn
        BY <1>1, OrderFacts DEF Position, Inv, TypeOK
      <4> QED BY <3>1, <4>1, OrderFacts DEF Inv, SeenLoaded
    <3>2. CASE pc = "refresh"
      BY <3>2 DEF Inv, SeenLoaded
    <3> QED BY <1>1, <3>1, <3>2
  <2> QED BY <1>1, <2>1 DEF SeenLoaded, Seen
<1>4. LinksInChosen' /\ NoneDangle' /\ TopKeepsOwn' /\ ShutdownLoop' /\ ChosenAgree'
  BY <1>1, OnlyOwn DEF Inv, LinksInChosen, NoneDangle, TopKeepsOwn, ShutdownLoop, ChosenAgree
<1>5. LinkLoop'
  <2>1. ASSUME NEW a \in App
        PROVE  Converges(Named(a), Leads(a), 1, 2, Leads(a)[1])
    <3>1. \A k \in Named(a) : k < Reached(Named(a), 1, 2) => k = 1
      <4>1. \A k \in Named(a) : k \in Nat /\ k >= 1
        BY OrderFacts DEF Named, Position
      <4> QED BY <4>1 DEF Reached
    <3> QED BY <3>1 DEF Converges
  <2>2. \A a \in App : Named(a)' = Named(a) /\ Leads(a)' = Leads(a)
    BY <1>1, ChosenStays, OrderFacts DEF Leads
  <2>3. \A a \in App : \E v : Converges(Named(a), Leads(a), 1, 2, v)
    BY <2>1
  <2> QED BY <1>1, <2>2, <2>3, OrderFacts DEF LinkLoop
<1>6. SnapshotsAreOld'
  BY <1>1, OldStays DEF diskVars
<1> QED BY <1>2, <1>3, <1>4, <1>5, <1>6 DEF Inv

LEMMA LinkPairStep ==
  ASSUME Inv, LinkPair
  PROVE  Inv'
<1> DEFINE f == Order[turn]
           h == Order[next]
<1>1. /\ UNCHANGED <<disk, cacheFile, stamp, loaded, lookup, pc, turn>>
      /\ pc = "link" /\ next' = next + 1
      /\ turn \in Position /\ next \in Position /\ turn < next /\ next # 1
  BY OrderFacts DEF LinkPair, diskVars, Inv, TypeOK, LinkLoop, Position
<1>2. f \in Folder /\ h \in Folder /\ f # h /\ h # top
  BY <1>1, OrderFacts DEF Inv, TypeOK, top, Position
<1>3. groups' = FixPair(groups, f, h)
  BY DEF LinkPair
<1>4. LET both == ChosenNames(f) \intersect ChosenNames(h)
          Of(g, a) == groups[g][Chosen(g)][a]
      IN  /\ groups' \in [Folder -> [Store -> [App -> Item \union {NULL, Dangling}]]]
          /\ \A a \in App : groups'[f][Chosen(f)][a] =
                            IF a \in both /\ Of(f, a) = NULL THEN Of(h, a) ELSE Of(f, a)
          /\ \A a \in App : groups'[h][Chosen(h)][a] =
                            IF a \in both /\ Of(f, a) # NULL THEN Of(f, a) ELSE Of(h, a)
          /\ \A g \in Folder, r \in Store :
               ~(g = f /\ r = Chosen(f)) /\ ~(g = h /\ r = Chosen(h)) =>
                 groups'[g][r] = groups[g][r]
  <2> HIDE DEF f, h
  <2> QED BY <1>2, <1>3, FixPairFacts DEF Inv
<1>5. Chosen(f) \in Store /\ Chosen(h) \in Store
  BY <1>2, ChosenIsStore
<1>6. TypeOK'
  <2>1. next' \in 2 .. Len(Order) + 1
    BY <1>1, OrderFacts DEF Position, Inv, TypeOK
  <2>2. groups' \in [Folder -> [Store -> [App -> Item \union {NULL, Dangling}]]]
    BY <1>4
  <2> QED BY <1>1, <2>1, <2>2 DEF Inv, TypeOK
<1>7. SeenLoaded' /\ ShutdownLoop' /\ ChosenAgree' /\ SnapshotsAreOld'
  BY <1>1, OldStays DEF Inv, SeenLoaded, Seen, ShutdownLoop, ChosenAgree, diskVars
<1>8. LinksInChosen'
  <2> SUFFICES ASSUME NEW g \in Folder, NEW r \in Store, NEW a \in App,
                      ~(r = Chosen(g) /\ a \in ChosenNames(g))
               PROVE  groups'[g][r][a] \in {NULL, <<g, r, a>>}
    <3>1. \A g \in Folder : Chosen(g)' = Chosen(g) /\ ChosenNames(g)' = ChosenNames(g)
      BY <1>1, ChosenStays
    <3> QED BY <1>1, <3>1 DEF LinksInChosen
  <2>1. groups[g][r][a] \in {NULL, <<g, r, a>>}
    BY DEF Inv, LinksInChosen
  <2>2. groups'[g][r][a] = groups[g][r][a]
    BY <1>4
  <2> QED BY <2>1, <2>2
<1>9. NoneDangle'
  <2>1. \A g \in Folder, r \in Store, a \in App : groups[g][r][a] # Dangling
    BY <1>1 DEF Inv, NoneDangle
  <2>2. ASSUME NEW g \in Folder, NEW r \in Store, NEW a \in App PROVE groups'[g][r][a] # Dangling
    <3>1. groups[f][Chosen(f)][a] # Dangling /\ groups[h][Chosen(h)][a] # Dangling
      BY <2>1, <1>2, <1>5
    <3>2. CASE g = f /\ r = Chosen(f)
      BY <1>4, <3>1, <3>2
    <3>3. CASE g = h /\ r = Chosen(h)
      BY <1>4, <3>1, <3>3
    <3>4. CASE ~(g = f /\ r = Chosen(f)) /\ ~(g = h /\ r = Chosen(h))
      BY <1>4, <2>1, <3>4
    <3> QED BY <3>2, <3>3, <3>4
  <2> QED BY <2>2 DEF NoneDangle
<1>10. TopKeepsOwn'
  <2> SUFFICES ASSUME NEW s \in Store, NEW a \in App, loaded[top][s] # None, loaded[top][s].files[a] # 0
               PROVE  groups'[top][s][a] = <<top, s, a>>
    BY <1>1 DEF TopKeepsOwn
  <2>1. groups[top][s][a] = <<top, s, a>> /\ groups[top][s][a] # NULL
    <3>1. <<top, s, a>> \in Item
      BY OrderFacts DEF Item
    <3>2. <<top, s, a>> # NULL
      BY <3>1, NullAssumption
    <3> QED BY <3>2 DEF Inv, TopKeepsOwn
  <2>2. CASE top = f /\ s = Chosen(f)
    BY <1>4, <2>1, <2>2
  <2>3. CASE ~(top = f /\ s = Chosen(f))
    BY <1>2, <1>4, <2>1, <2>3, OrderFacts
  <2> QED BY <2>2, <2>3
<1>11. LinkLoop'
  <2>1. ASSUME NEW a \in App
        PROVE  \E v : Converges(Named(a)', Leads(a)', turn', next', v)
    <3> DEFINE named == Named(a)
               leads == Leads(a)
    <3>1. named \in SUBSET Position /\ leads = [k \in Position |-> leads[k]]
      BY DEF Named, Leads
    <3>2. \E v : Converges(named, leads, turn, next, v)
      BY <1>1 DEF Inv, LinkLoop
    <3>3. \E v : Converges(named, Fixed(named, leads, turn, next), turn, next + 1, v)
      <4> HIDE DEF named, leads
      <4> QED BY <1>1, <3>1, <3>2, FixedConverges
    <3>4. Named(a)' = named
      BY <1>1, ChosenStays
    <3>5. Leads(a)' = Fixed(named, leads, turn, next)
      <4>1. Leads(a)' = [k \in Position |-> groups'[Order[k]][Chosen(Order[k])][a]]
        BY <1>1, ChosenStays, OrderFacts DEF Leads
      <4>2. /\ leads[turn] = groups[f][Chosen(f)][a] /\ leads[next] = groups[h][Chosen(h)][a]
            /\ turn \in named <=> a \in ChosenNames(f)
            /\ next \in named <=> a \in ChosenNames(h)
        BY <1>1 DEF Leads, Named
      <4>3. ASSUME NEW k \in Position, k # turn, k # next
            PROVE  groups'[Order[k]][Chosen(Order[k])][a] = leads[k]
        <5>1. Order[k] \in Folder /\ Order[k] # f /\ Order[k] # h
          BY <1>1, <4>3, OrderFacts
        <5>2. Chosen(Order[k]) \in Store
          BY <5>1, ChosenIsStore
        <5>3. groups'[Order[k]][Chosen(Order[k])] = groups[Order[k]][Chosen(Order[k])]
          BY <1>4, <5>1, <5>2
        <5> QED BY <5>3 DEF Leads
      <4>4. /\ groups'[f][Chosen(f)][a] =
                 IF turn \in named /\ next \in named /\ leads[turn] = NULL THEN leads[next] ELSE leads[turn]
            /\ groups'[h][Chosen(h)][a] =
                 IF turn \in named /\ next \in named /\ leads[turn] # NULL THEN leads[turn] ELSE leads[next]
        BY <1>4, <4>2
      <4> HIDE DEF named, leads
      <4>5. \A k \in Position :
              groups'[Order[k]][Chosen(Order[k])][a] = Fixed(named, leads, turn, next)[k]
        <5> SUFFICES ASSUME NEW k \in Position
                     PROVE  groups'[Order[k]][Chosen(Order[k])][a] = Fixed(named, leads, turn, next)[k]
          OBVIOUS
        <5>1. CASE k = turn
          BY <1>1, <3>1, <4>4, <5>1 DEF Fixed, Inv, TypeOK
        <5>2. CASE k = next
          BY <1>1, <3>1, <4>4, <5>2 DEF Fixed, Inv, TypeOK
        <5>3. CASE k # turn /\ k # next
          BY <3>1, <4>3, <5>3 DEF Fixed
        <5> QED BY <5>1, <5>2, <5>3
      <4>6. Fixed(named, leads, turn, next) = [k \in Position |-> Fixed(named, leads, turn, next)[k]]
        BY <3>1 DEF Fixed
      <4> QED BY <4>1, <4>5, <4>6
    <3> QED BY <1>1, <3>3, <3>4, <3>5
  <2>2. turn' < next' /\ turn' <= Len(Order)
    BY <1>1, OrderFacts DEF Position, Inv, TypeOK
  <2> QED BY <2>1, <2>2 DEF LinkLoop
<1> QED BY <1>6, <1>7, <1>8, <1>9, <1>10, <1>11 DEF Inv

LEMMA LinkNextFolderStep ==
  ASSUME Inv, LinkNextFolder
  PROVE  Inv'
<1>1. /\ UNCHANGED <<disk, cacheFile, stamp, loaded, lookup, groups>>
      /\ pc = "link" /\ turn < next /\ turn \in Position /\ next = Len(Order) + 1
      /\ IF turn < Len(Order)
         THEN turn' = turn + 1 /\ next' = turn + 2 /\ pc' = "link"
         ELSE pc' = "up" /\ turn' = turn /\ next' = next /\ turn = Len(Order)
  BY OrderFacts DEF LinkNextFolder, diskVars, memoryVars, Inv, TypeOK, LinkLoop, Position
<1>2. TypeOK'
  BY <1>1, OrderFacts DEF Inv, TypeOK, Position
<1>3. SeenLoaded' /\ SnapshotsAreOld'
  BY <1>1, OldStays DEF Inv, SeenLoaded, Seen, diskVars
<1>4. NoneDangle' /\ TopKeepsOwn' /\ ShutdownLoop'
  BY <1>1 DEF Inv, NoneDangle, TopKeepsOwn, ShutdownLoop
<1>5. /\ \A g \in Folder : Chosen(g)' = Chosen(g) /\ ChosenNames(g)' = ChosenNames(g)
      /\ \A a \in App : Named(a)' = Named(a) /\ Leads(a)' = Leads(a)
  BY <1>1, ChosenStays, OrderFacts DEF Leads
<1>6. LinksInChosen'
  BY <1>1, <1>5 DEF Inv, LinksInChosen
<1>7. \A a \in App : \E v : Converges(Named(a), Leads(a), turn, next, v)
  BY <1>1 DEF Inv, LinkLoop
<1>8. \A a \in App : \A k \in Named(a) : k \in Nat /\ 1 <= k /\ k <= Len(Order)
  BY OrderFacts DEF Named, Position
<1>9. turn \in Nat /\ Len(Order) \in Nat
  BY <1>1, OrderFacts DEF Position
<1>10. LinkLoop'
  <2>1. ASSUME NEW a \in App, turn < Len(Order)
        PROVE  \E v : Converges(Named(a), Leads(a), turn + 1, turn + 2, v)
    <3> DEFINE named == Named(a)
               leads == Leads(a)
    <3>1. PICK v : Converges(named, leads, turn, next, v)
      BY <1>7
    <3> HIDE DEF named, leads
    <3>2. \A k \in named : k \in Nat /\ 1 <= k /\ k <= Len(Order)
      BY <1>8 DEF named
    <3>3. CASE \E k \in named : k <= turn
      <4>1. Reached(named, turn, next) = Len(Order) + 1 /\ Reached(named, turn + 1, turn + 2) = Len(Order) + 1
        BY <1>1, <1>9, <3>2, <3>3 DEF Reached
      <4>2. \A k \in named :
              \/ leads[k] = v
              \/ /\ leads[k] = NULL /\ turn + 1 <= k
                 /\ \E m \in named : k < m /\ m < Len(Order) + 1 /\ leads[m] = v
        <5> SUFFICES ASSUME NEW k \in named, leads[k] # v
                     PROVE  /\ leads[k] = NULL /\ turn + 1 <= k
                            /\ \E m \in named : k < m /\ m < Len(Order) + 1 /\ leads[m] = v
          OBVIOUS
        <5>1. k < Len(Order) + 1
          BY <3>2, <1>9
        <5>2. PICK m \in named : /\ leads[k] = NULL /\ turn <= k
                                 /\ k < m /\ m < Len(Order) + 1 /\ leads[m] = v
                                 /\ k = turn => next <= m
          BY <3>1, <4>1, <5>1 DEF Converges
        <5>3. k \in Nat /\ m \in Nat
          BY <3>2
        <5>4. k # turn
          <6>1. next = Len(Order) + 1
            BY <1>1
          <6> QED BY <5>2, <5>3, <6>1, <1>9
        <5>5. turn + 1 <= k
          BY <5>2, <5>3, <5>4, <1>9
        <5> QED BY <5>2, <5>5
      <4>3. \A k, m \in named : k < m /\ k = turn + 1 => turn + 2 <= m
        BY <3>2, <1>9
      <4>4. Converges(named, leads, turn + 1, turn + 2, v)
        BY <4>1, <4>2, <4>3 DEF Converges
      <4> QED BY <4>4 DEF named, leads
    <3>4. CASE ~ \E k \in named : k <= turn
      <4>1. \A k \in named : k < Reached(named, turn + 1, turn + 2) => k = turn + 1
        BY <1>9, <3>2, <3>4 DEF Reached
      <4>2. Converges(named, leads, turn + 1, turn + 2, leads[turn + 1])
        BY <4>1 DEF Converges
      <4> QED BY <4>2 DEF named, leads
    <3> QED BY <3>3, <3>4
  <2>2. CASE turn < Len(Order)
    <3>1. turn' < next' /\ turn' <= Len(Order)
      BY <1>1, <1>9, <2>2
    <3> QED BY <1>1, <1>5, <2>1, <2>2, <3>1 DEF LinkLoop
  <2>3. CASE ~(turn < Len(Order))
    BY <1>1, <2>3 DEF LinkLoop
  <2> QED BY <2>2, <2>3
<1>11. ChosenAgree'
  <2>1. CASE turn < Len(Order)
    BY <1>1, <2>1 DEF ChosenAgree
  <2>2. CASE ~(turn < Len(Order))
    <3>1. ASSUME NEW a \in App
          PROVE  \E v : \A k \in Named(a) : Leads(a)[k] = v
      <4>1. PICK v : Converges(Named(a), Leads(a), turn, next, v)
        BY <1>7
      <4>2. ASSUME NEW k \in Named(a), Leads(a)[k] # v
            PROVE  FALSE
        <5>1. k < Reached(Named(a), turn, next) /\ Reached(Named(a), turn, next) = Len(Order) + 1
          BY <1>1, <1>8, <1>9, <2>2 DEF Reached
        <5>2. PICK m \in Named(a) : turn <= k /\ k < m
          BY <4>1, <4>2, <5>1 DEF Converges
        <5> QED BY <5>2, <1>1, <1>8, <1>9, <2>2
      <4> QED BY <4>2
    <3>2. ASSUME NEW f \in Folder, NEW g \in Folder, NEW a \in ChosenNames(f) \intersect ChosenNames(g), a \in App
          PROVE  groups[f][Chosen(f)][a] = groups[g][Chosen(g)][a]
      <4>1. PICK i \in Position, j \in Position : f = Order[i] /\ g = Order[j]
        BY OrderFacts
      <4>2. i \in Named(a) /\ j \in Named(a)
        BY <4>1, <3>2 DEF Named
      <4>3. Leads(a)[i] = Leads(a)[j]
        BY <3>1, <3>2, <4>2
      <4> QED BY <4>1, <4>3 DEF Leads
    <3>3. \A f \in Folder : ChosenNames(f) \subseteq App
      BY ListedAssumption DEF ChosenNames, Names
    <3> QED BY <1>1, <1>5, <3>2, <3>3 DEF ChosenAgree
  <2> QED BY <2>1, <2>2
<1> QED BY <1>2, <1>3, <1>4, <1>6, <1>10, <1>11 DEF Inv

-----------------------------------------------------------------------------
(* The other calls *)

LEMMA StartStep ==
  ASSUME Inv, Start
  PROVE  Inv'
<1>1. /\ UNCHANGED <<disk, cacheFile, stamp, loaded, lookup, groups, next>>
      /\ pc = "down" /\ pc' = "init" /\ turn' = 1
  BY DEF Start, diskVars, memoryVars
<1>2. TypeOK'
  BY <1>1, OrderFacts DEF Inv, TypeOK
<1>3. SeenLoaded'
  BY <1>1, OrderFacts DEF SeenLoaded, Position
<1>4. LinksInChosen' /\ NoneDangle' /\ TopKeepsOwn' /\ LinkLoop' /\ ShutdownLoop' /\ ChosenAgree'
  BY <1>1, OnlyOwn
  DEF Inv, LinksInChosen, NoneDangle, TopKeepsOwn, LinkLoop, ShutdownLoop, ChosenAgree
<1>5. SnapshotsAreOld'
  BY <1>1, OldStays DEF diskVars
<1> QED BY <1>2, <1>3, <1>4, <1>5 DEF Inv

LEMMA RefreshStep ==
  ASSUME Inv, Refresh
  PROVE  Inv'
<1>1. /\ UNCHANGED <<disk, cacheFile, stamp, loaded, lookup, next>>
      /\ pc = "up" /\ pc' = "refresh" /\ turn' = 1 /\ groups' = WithoutLinks
  BY DEF Refresh, diskVars
<1>2. ASSUME NEW f \in Folder, NEW s \in Store, NEW a \in App
      PROVE  /\ groups'[f][s][a] \in {NULL, <<f, s, a>>}
             /\ groups[f][s][a] = <<f, s, a>> => groups'[f][s][a] = <<f, s, a>>
  <2>1. groups'[f][s][a] = IF s = Chosen(f) /\ a \in ChosenNames(f) /\ groups[f][s][a] # <<f, s, a>>
                           THEN NULL ELSE groups[f][s][a]
    BY <1>1 DEF WithoutLinks
  <2>2. \/ s = Chosen(f) /\ a \in ChosenNames(f)
        \/ groups[f][s][a] \in {NULL, <<f, s, a>>}
    BY DEF Inv, LinksInChosen
  <2> QED BY <2>1, <2>2
<1>3. groups' \in [Folder -> [Store -> [App -> Item \union {NULL, Dangling}]]]
  <2>1. \A f \in Folder, s \in Store, a \in App : groups'[f][s][a] \in Item \union {NULL, Dangling}
    BY <1>2 DEF Item
  <2> QED BY <1>1, <2>1 DEF WithoutLinks
<1>4. TypeOK'
  BY <1>1, <1>3, OrderFacts DEF Inv, TypeOK
<1>5. SeenLoaded' /\ LinkLoop' /\ ShutdownLoop' /\ ChosenAgree' /\ SnapshotsAreOld'
  BY <1>1, OldStays DEF Inv, SeenLoaded, Seen, LinkLoop, ShutdownLoop, ChosenAgree, diskVars
<1>6. LinksInChosen' /\ NoneDangle'
  <2>1. \A h \in Folder, t \in Store, a \in App : <<h, t, a>> # Dangling
    BY NullAssumption DEF Item
  <2> QED BY <1>2, <2>1, NullAssumption DEF LinksInChosen, NoneDangle
<1>7. TopKeepsOwn'
  BY <1>1, <1>2, OrderFacts DEF Inv, TopKeepsOwn
<1> QED BY <1>4, <1>5, <1>6, <1>7 DEF Inv

LEMMA ShutdownStep ==
  ASSUME Inv, Shutdown
  PROVE  Inv'
<1>1. /\ UNCHANGED <<disk, cacheFile, stamp, loaded, lookup, groups, next>>
      /\ pc = "up" /\ pc' = "shutdown" /\ turn' = 1
  BY DEF Shutdown, diskVars, memoryVars
<1>2. TypeOK'
  BY <1>1, OrderFacts DEF Inv, TypeOK
<1>3. SeenLoaded' /\ LinkLoop' /\ NoneDangle' /\ TopKeepsOwn'
  BY <1>1 DEF Inv, SeenLoaded, LinkLoop, NoneDangle, TopKeepsOwn
<1>4. ShutdownLoop'
  <2>1. ASSUME NEW i \in Position PROVE ~(i < 1)
    BY DEF Position
  <2> QED BY <1>1, <2>1 DEF Inv, NoneDangle, ShutdownLoop
<1>5. LinksInChosen' /\ ChosenAgree'
  BY <1>1, ChosenStays DEF Inv, LinksInChosen, ChosenAgree
<1>6. SnapshotsAreOld'
  BY <1>1, OldStays DEF diskVars
<1> QED BY <1>2, <1>3, <1>4, <1>5, <1>6 DEF Inv

\* What is left of a folder that is freed, and of the others.
LEMMA FreeFolderFacts ==
  ASSUME TypeOK, NEW f \in Folder, FreeFolder(f)
  PROVE  /\ loaded' \in [Folder -> [Store -> Snapshot \union {None}]]
         /\ lookup' \in [Folder -> Store]
         /\ groups' \in [Folder -> [Store -> [App -> Item \union {NULL, Dangling}]]]
         /\ \A s \in Store : loaded'[f][s] = None /\ \A a \in App : groups'[f][s][a] = NULL
         /\ \A g \in Folder : g # f => loaded'[g] = loaded[g]
         /\ \A g \in Folder, s \in Store, a \in App : g # f =>
              \/ groups'[g][s][a] = groups[g][s][a]
              \/ groups'[g][s][a] = Dangling /\ groups[g][s][a] # NULL /\ groups[g][s][a] # <<g, s, a>>
         /\ \A g \in Folder, s, t \in Store, a, b \in App :
              g # f /\ groups[g][s][a] = <<f, t, b>> => groups'[g][s][a] = Dangling
<1>1. /\ loaded' = [loaded EXCEPT ![f] = [s \in Store |-> None]]
      /\ lookup' = [lookup EXCEPT ![f] = "data"]
  BY DEF FreeFolder, NothingLoaded
<1>2. /\ loaded' \in [Folder -> [Store -> Snapshot \union {None}]]
      /\ loaded'[f] = [s \in Store |-> None]
      /\ \A g \in Folder : g # f => loaded'[g] = loaded[g]
  BY <1>1 DEF TypeOK
<1>3. lookup' \in [Folder -> Store]
  BY <1>1 DEF TypeOK, Store
<1>4. \A g \in Folder, s \in Store, a \in App : groups'[g][s][a] =
        IF g = f THEN NULL
        ELSE IF \E t \in Store, b \in App : groups[g][s][a] = <<f, t, b>>
        THEN Dangling ELSE groups[g][s][a]
  BY DEF FreeFolder
<1>5. groups' \in [Folder -> [Store -> [App -> Item \union {NULL, Dangling}]]]
  <2>1. \A g \in Folder, s \in Store, a \in App : groups'[g][s][a] \in Item \union {NULL, Dangling}
    BY <1>4 DEF TypeOK
  <2> QED BY <2>1 DEF FreeFolder
<1>6. \A t \in Store, b \in App : <<f, t, b>> # NULL
  <2>1. \A t \in Store, b \in App : <<f, t, b>> \in Item
    BY DEF Item
  <2> QED BY <2>1, NullAssumption
<1>7. ASSUME NEW g \in Folder, NEW s \in Store, NEW a \in App, g # f
      PROVE  \/ groups'[g][s][a] = groups[g][s][a]
             \/ /\ groups'[g][s][a] = Dangling
                /\ groups[g][s][a] # NULL /\ groups[g][s][a] # <<g, s, a>>
  <2>1. CASE \E t \in Store, b \in App : groups[g][s][a] = <<f, t, b>>
    <3>1. PICK t \in Store, b \in App : groups[g][s][a] = <<f, t, b>>
      BY <2>1
    <3>2. groups[g][s][a] # NULL /\ groups[g][s][a] # <<g, s, a>>
      BY <1>6, <1>7, <3>1
    <3>3. groups'[g][s][a] = Dangling
      BY <1>4, <1>7, <2>1
    <3> QED BY <3>2, <3>3
  <2>2. CASE ~ \E t \in Store, b \in App : groups[g][s][a] = <<f, t, b>>
    BY <1>4, <1>7, <2>2
  <2> QED BY <2>1, <2>2
<1>8. \A g \in Folder, s, t \in Store, a, b \in App :
        g # f /\ groups[g][s][a] = <<f, t, b>> => groups'[g][s][a] = Dangling
  BY <1>4
<1> QED BY <1>2, <1>3, <1>4, <1>5, <1>7, <1>8

LEMMA FreeFolderStep ==
  ASSUME Inv, NEW f \in Folder, FreeFolder(f)
  PROVE  Inv'
<1>1. /\ UNCHANGED <<disk, cacheFile, stamp, next>>
      /\ pc = "shutdown" /\ pc' = "shutdown" /\ turn \in Position /\ f = Order[turn] /\ turn' = turn + 1
      /\ turn \in Nat /\ turn >= 1
  BY OrderFacts DEF FreeFolder, diskVars, Inv, TypeOK, Position
<1>2. /\ loaded' \in [Folder -> [Store -> Snapshot \union {None}]]
      /\ lookup' \in [Folder -> Store]
      /\ groups' \in [Folder -> [Store -> [App -> Item \union {NULL, Dangling}]]]
      /\ \A s \in Store : loaded'[f][s] = None /\ \A a \in App : groups'[f][s][a] = NULL
      /\ \A g \in Folder : g # f => loaded'[g] = loaded[g]
      /\ \A g \in Folder, s \in Store, a \in App : g # f =>
           \/ groups'[g][s][a] = groups[g][s][a]
           \/ groups'[g][s][a] = Dangling /\ groups[g][s][a] # NULL /\ groups[g][s][a] # <<g, s, a>>
  BY FreeFolderFacts DEF Inv
<1>3. TypeOK'
  <2>1. turn' \in 1 .. Len(Order) + 1
    BY <1>1, OrderFacts DEF Position
  <2> QED BY <1>1, <1>2, <2>1 DEF Inv, TypeOK
<1>4. SeenLoaded' /\ LinkLoop' /\ NoneDangle' /\ ChosenAgree'
  <2>1. turn' # 1
    BY <1>1
  <2> QED BY <1>1, <2>1 DEF SeenLoaded, LinkLoop, NoneDangle, ChosenAgree
<1>5. LinksInChosen'
  <2> SUFFICES ASSUME NEW g \in Folder, NEW s \in Store, NEW a \in App,
                      groups'[g][s][a] \notin {NULL, <<g, s, a>>}
               PROVE  s = Chosen(g)' /\ a \in ChosenNames(g)'
    BY <1>1 DEF LinksInChosen
  <2>1. g # f
    BY <1>2
  <2>2. groups[g][s][a] \notin {NULL, <<g, s, a>>}
    BY <1>2, <2>1
  <2>3. s = Chosen(g) /\ a \in ChosenNames(g)
    BY <2>2 DEF Inv, LinksInChosen
  <2>4. Chosen(g)' = Chosen(g) /\ ChosenNames(g)' = ChosenNames(g)
    BY <1>2, <2>1 DEF Chosen, ChosenNames
  <2> QED BY <2>3, <2>4
<1>6. TopKeepsOwn'
  <2> SUFFICES ASSUME NEW s \in Store, NEW a \in App, loaded'[top][s] # None, loaded'[top][s].files[a] # 0
               PROVE  groups'[top][s][a] = <<top, s, a>>
    BY DEF TopKeepsOwn
  <2>1. top # f /\ top \in Folder
    BY <1>2, OrderFacts
  <2>2. loaded'[top] = loaded[top]
    BY <1>2, <2>1
  <2>3. groups[top][s][a] = <<top, s, a>>
    BY <2>2 DEF Inv, TopKeepsOwn
  <2>4. groups'[top][s][a] = groups[top][s][a]
    BY <1>2, <2>1, <2>3
  <2> QED BY <2>3, <2>4
<1>7. ShutdownLoop'
  <2> SUFFICES ASSUME NEW i \in Position, NEW s \in Store, i < turn + 1
               PROVE  loaded'[Order[i]][s] = None /\ \A a \in App : groups'[Order[i]][s][a] = NULL
    <3>1. turn' # 1
      BY <1>1
    <3> QED BY <1>1, <3>1 DEF ShutdownLoop
  <2>1. CASE i = turn
    BY <1>1, <1>2, <2>1
  <2>2. CASE i # turn
    <3>1. i < turn /\ Order[i] \in Folder /\ Order[i] # f
      BY <1>1, <2>2, OrderFacts DEF Position
    <3>2. loaded[Order[i]][s] = None /\ \A a \in App : groups[Order[i]][s][a] = NULL
      BY <1>1, <3>1 DEF Inv, ShutdownLoop
    <3>3. ASSUME NEW a \in App PROVE groups'[Order[i]][s][a] = NULL
      BY <1>2, <3>1, <3>2
    <3> QED BY <1>2, <3>1, <3>2, <3>3
  <2> QED BY <2>1, <2>2
<1>8. SnapshotsAreOld'
  <2>1. \A g \in Folder, s \in Store : loaded'[g][s] # None => loaded'[g][s] = loaded[g][s]
    BY <1>2
  <2> QED BY <1>1, <2>1 DEF Inv, SnapshotsAreOld, OlderThanDisk
<1> QED BY <1>3, <1>4, <1>5, <1>6, <1>7, <1>8 DEF Inv

\* Whichever way a shutdown ends, nothing is left of the folders.
LEMMA NothingLeft ==
  ASSUME Inv, UNCHANGED diskVars, pc' = "down", TypeOK',
         \A f \in Folder, s \in Store : loaded'[f][s] = None /\ \A a \in App : groups'[f][s][a] = NULL
  PROVE  Inv'
<1>1. SeenLoaded' /\ LinkLoop' /\ ShutdownLoop' /\ ChosenAgree'
  BY DEF SeenLoaded, LinkLoop, ShutdownLoop, ChosenAgree
<1>2. LinksInChosen' /\ NoneDangle' /\ TopKeepsOwn'
  BY OrderFacts, NullAssumption DEF LinksInChosen, NoneDangle, TopKeepsOwn
<1>3. SnapshotsAreOld'
  BY DEF Inv, SnapshotsAreOld, OlderThanDisk, diskVars
<1> QED BY <1>1, <1>2, <1>3 DEF Inv

LEMMA KilledStep ==
  ASSUME Inv, Killed
  PROVE  Inv'
<1>1. /\ UNCHANGED <<disk, cacheFile, stamp, turn, next>> /\ pc' = "down"
      /\ loaded' = NothingLoaded /\ groups' = NoGroups /\ lookup' = [f \in Folder |-> "data"]
  BY DEF Killed, diskVars
<1>2. \A f \in Folder, s \in Store : loaded'[f][s] = None /\ \A a \in App : groups'[f][s][a] = NULL
  BY <1>1 DEF NothingLoaded, NoGroups
<1>3. TypeOK'
  <2>1. /\ loaded' \in [Folder -> [Store -> Snapshot \union {None}]]
        /\ lookup' \in [Folder -> Store]
        /\ groups' \in [Folder -> [Store -> [App -> Item \union {NULL, Dangling}]]]
    BY <1>1 DEF NothingLoaded, NoGroups, Store
  <2> QED BY <1>1, <2>1 DEF Inv, TypeOK
<1> QED BY <1>1, <1>2, <1>3, NothingLeft DEF diskVars

LEMMA ShutdownEndsStep ==
  ASSUME Inv, ShutdownEnds
  PROVE  Inv'
<1>1. /\ UNCHANGED <<disk, cacheFile, stamp, loaded, lookup, groups, turn, next>>
      /\ pc = "shutdown" /\ pc' = "down" /\ turn > Len(Order)
  BY DEF ShutdownEnds, diskVars, memoryVars
<1>2. \A i \in Position : i < turn
  BY <1>1, OrderFacts DEF Position, Inv, TypeOK
<1>3. \A f \in Folder, s \in Store : loaded[f][s] = None /\ \A a \in App : groups[f][s][a] = NULL
  BY <1>1, <1>2, OrderFacts DEF Inv, ShutdownLoop
<1>4. TypeOK'
  BY <1>1 DEF Inv, TypeOK
<1> QED BY <1>1, <1>3, <1>4, NothingLeft DEF diskVars

LEMMA NextStep == Inv /\ [Next]_vars => Inv'
<1> SUFFICES ASSUME Inv, [Next]_vars PROVE Inv'
  OBVIOUS
<1>1. CASE CallStep
  BY <1>1, InitFolderStep, RefreshFolderStep, FreeFolderStep, BeginLinksStep, LinkPairStep,
     LinkNextFolderStep, ShutdownEndsStep DEF CallStep
<1>2. CASE Start
  BY <1>2, StartStep
<1>3. CASE Refresh
  BY <1>3, RefreshStep
<1>4. CASE Shutdown \/ Killed
  BY <1>4, ShutdownStep, KilledStep
<1>5. CASE Outside
  BY <1>5, OutsideStep
<1>6. CASE UNCHANGED vars
  <2>1. UNCHANGED <<memoryVars, loopVars>> /\ UNCHANGED <<diskVars, loaded>>
    BY <1>6 DEF vars, memoryVars, loopVars, diskVars
  <2>2. MemoryInv' /\ SnapshotsAreOld'
    BY <2>1, MemoryUnchanged, OldStays DEF Inv, MemoryInv
  <2>3. TypeOK'
    BY <1>6 DEF vars, Inv, TypeOK
  <2> QED BY <2>2, <2>3 DEF Inv, MemoryInv
<1> QED BY <1>1, <1>2, <1>3, <1>4, <1>5, <1>6 DEF Next

-----------------------------------------------------------------------------
(* Theorems *)

\* The inductive invariant holds in every run, for any number of folders.
THEOREM InvHolds == Spec => []Inv
<1>1. Init => Inv
  BY InitInv
<1>2. Inv /\ [Next]_vars => Inv'
  BY NextStep
<1> QED BY <1>1, <1>2, PTL DEF Spec

\* Every run of xdgapp.c's folders is type correct.
THEOREM TypeCorrect == Spec => []TypeOK
<1>1. Inv => TypeOK
  BY DEF Inv
<1> QED BY <1>1, InvHolds, PTL

\* Lookups follow pointers to maps that are loaded, and no app item keeps a
\* groups pointer into maps that _xdg_load_cache or xdg_app_refresh freed; those
\* that _xdg_app_shutdown leaves are in linked maps of folders it has still to free.
THEOREM OnlyShutdownReadsFreed == Spec => []LookupsSeeLiveMemory
<1>1. ASSUME Inv, NEW f \in Folder, NEW s \in Store, NEW a \in App, groups[f][s][a] = Dangling
      PROVE  /\ pc = "shutdown" /\ s = Chosen(f)
             /\ \E i \in turn .. Len(Order) : i > 1 /\ f = Order[i]
  <2>1. pc = "shutdown"
    BY <1>1 DEF Inv, NoneDangle
  <2>2. s = Chosen(f)
    <3>1. <<f, s, a>> # Dangling /\ NULL # Dangling
      BY NullAssumption DEF Item
    <3> QED BY <1>1, <3>1 DEF Inv, LinksInChosen
  <2>3. PICK i \in Position : f = Order[i]
    BY OrderFacts
  <2>4. ~(i < turn) /\ turn # 1
    BY <1>1, <2>1, <2>3, NullAssumption DEF Inv, ShutdownLoop
  <2>5. i \in turn .. Len(Order) /\ i > 1
    BY <1>1, <2>4, OrderFacts DEF Position, Inv, TypeOK
  <2> QED BY <2>1, <2>2, <2>3, <2>5
<1>2. Inv => LookupsSeeLiveMemory
  BY <1>1 DEF Inv, SeenLoaded, LookupsSeeLiveMemory
<1> QED BY <1>2, InvHolds, PTL

\* Lookups that use the maps that are linked see what holds for these.
LEMMA InStepIsChosen ==
  ASSUME NEW f \in Folder, InStep(f)
  PROVE  lookup[f] = Chosen(f) /\ Seen(f) = loaded[f][Chosen(f)] /\ SeenNames(f) = ChosenNames(f)
BY DEF InStep, Seen, SeenNames, ChosenNames

\* However many folders there are, _xdg_app_fixup_links_to_desktop_files leaves the
\* items of one name that lookups find in folders that are in step with the same
\* groups, and the items lookups find in other folders are not linked.
THEOREM FoldersAgreeHolds == Spec => []FoldersAgree
<1>1. ASSUME Inv, pc = "up", NEW f \in Folder, NEW g \in Folder, InStep(f), InStep(g),
             NEW a \in SeenNames(f) \intersect SeenNames(g)
      PROVE  groups[f][lookup[f]][a] = groups[g][lookup[g]][a]
  <2>1. a \in ChosenNames(f) \intersect ChosenNames(g)
    BY <1>1, InStepIsChosen
  <2>2. groups[f][Chosen(f)][a] = groups[g][Chosen(g)][a]
    BY <1>1, <2>1 DEF Inv, ChosenAgree
  <2> QED BY <1>1, <2>2, InStepIsChosen
<1>2. ASSUME Inv, NEW f \in Folder, ~InStep(f), NEW a \in App
      PROVE  groups[f][lookup[f]][a] \in {NULL, <<f, lookup[f], a>>}
  <2>1. lookup[f] \in Store /\ lookup[f] # Chosen(f)
    BY <1>2 DEF InStep, Inv, TypeOK
  <2> QED BY <1>2, <2>1 DEF Inv, LinksInChosen
<1>3. Inv => FoldersAgree
  BY <1>1, <1>2 DEF FoldersAgree
<1> QED BY <1>3, InvHolds, PTL

\* What the first folder's desktop file does to the linked items of its name.
LEMMA FirstFileWins ==
  ASSUME Inv, pc = "up" \/ (pc = "shutdown" /\ turn = 1), loaded[top][Chosen(top)] # None,
         NEW a \in App, loaded[top][Chosen(top)].files[a] # 0,
         NEW f \in Folder, a \in ChosenNames(f)
  PROVE  groups[f][Chosen(f)][a] = <<top, Chosen(top), a>>
<1>1. top \in Folder /\ Chosen(top) \in Store
  BY OrderFacts, ChosenIsStore
<1>2. groups[top][Chosen(top)][a] = <<top, Chosen(top), a>>
  BY <1>1 DEF Inv, TopKeepsOwn
<1>3. a \in ChosenNames(top)
  BY DEF ChosenNames, Names
<1> QED BY <1>1, <1>2, <1>3 DEF Inv, ChosenAgree

\* And where the first folder has a desktop file and lookups in it are in step, they
\* find the groups of that file under its name in all folders that are in step.
THEOREM UserFileWinsHolds == Spec => []UserFileWins
<1>1. ASSUME Inv, pc = "up", InStep(top), NEW a \in App, Seen(top).files[a] # 0,
             NEW f \in Folder, InStep(f), a \in SeenNames(f)
      PROVE  groups[f][lookup[f]][a] = <<top, lookup[top], a>>
  <2>1. /\ lookup[top] = Chosen(top) /\ Seen(top) = loaded[top][Chosen(top)]
        /\ lookup[f] = Chosen(f) /\ a \in ChosenNames(f)
    BY <1>1, InStepIsChosen, OrderFacts
  <2>2. Seen(top) # None
    BY <1>1, OrderFacts DEF Inv, SeenLoaded
  <2> QED BY <1>1, <2>1, <2>2, FirstFileWins
<1>2. Inv => UserFileWins
  BY <1>1 DEF UserFileWins, top
<1> QED BY <1>2, InvHolds, PTL

\* _xdg_list_clear frees the first folder first: wherever that folder's desktop
\* file has taken the place of one in a folder read from files, _xdg_app_map_item_free
\* will read the owner of groups that are gone.
THEOREM ShutdownReadsFreedHolds == Spec => ShutdownReadsFreed
<1>1. ASSUME Inv, FreeFolder(top), NEW f \in Folder \ {top}, NEW a \in App,
             loaded[top][Chosen(top)] # None, loaded[top][Chosen(top)].files[a] # 0,
             loaded[f]["data"] # None, a \in ChosenNames(f)
      PROVE  groups'[f]["data"][a] = Dangling
  <2>1. pc = "shutdown" /\ turn = 1
    <3>1. turn \in Position /\ Order[turn] = Order[1] /\ 1 \in Position
      BY <1>1, OrderFacts DEF FreeFolder, top, Inv, TypeOK, Position
    <3> QED BY <1>1, <3>1, OrderFacts DEF FreeFolder
  <2>2. Chosen(f) = "data" /\ "data" \in Store
    BY <1>1 DEF Chosen, Store
  <2>3. groups[f]["data"][a] = <<top, Chosen(top), a>>
    BY <1>1, <2>1, <2>2, FirstFileWins
  <2> QED BY <1>1, <2>2, <2>3, FreeFolderFacts, OrderFacts, ChosenIsStore DEF Inv
<1>2. Inv /\ [Next]_vars =>
        [FreeFolder(Order[1]) =>
           \A f \in Folder \ {Order[1]}, a \in App :
             /\ loaded[Order[1]][Chosen(Order[1])] # None
             /\ loaded[Order[1]][Chosen(Order[1])].files[a] # 0
             /\ loaded[f]["data"] # None /\ a \in ChosenNames(f)
             => groups'[f]["data"][a] = Dangling]_vars
  BY <1>1 DEF top
<1> QED BY <1>2, InvHolds, PTL DEF Spec, ShutdownReadsFreed

\* A refresh leaves a folder, where its lookups use the maps it watches, with what
\* is on disk or in the cache file: equal time stamps of the directory and of the
\* files read (_xdg_check_time_stamp) leave no room for another file.
THEOREM RefreshFollowsDiskHolds == Spec => RefreshFollowsDisk
<1>1. ASSUME Inv, NEW f \in Folder, RefreshFolder(f), lookup'[f] = Chosen(f)'
      PROVE  Seen(f)' \in {disk[f], cacheFile[f]}
  <2>1. /\ loaded \in [Folder -> [Store -> Snapshot \union {None}]] /\ lookup \in [Folder -> Store]
        /\ disk[f] \in Snapshot
    BY <1>1 DEF Inv, TypeOK
  <2>2. CASE TimeStampsMatch(loaded[f][Chosen(f)], disk[f]) /\ UNCHANGED memoryVars
    <3>1. /\ Seen(f)' = Seen(f) /\ Seen(f) = loaded[f][Chosen(f)]
      BY <1>1, <2>2 DEF memoryVars, Seen, Chosen
    <3>2. Seen(f) # None /\ Seen(f) \in Snapshot
      BY <1>1, <2>1 DEF RefreshFolder, Inv, SeenLoaded, Seen
    <3> DEFINE x == Seen(f)
    <3>3. x.dir = disk[f].dir /\ \A a \in App : x.files[a] # 0 => x.files[a] = disk[f].files[a]
      BY <2>2, <3>1 DEF TimeStampsMatch
    <3>4. OlderThanDisk(x, f)
      BY <1>1, <2>1, <3>2 DEF Inv, SnapshotsAreOld, Seen
    <3>5. \A a \in App : x.files[a] = disk[f].files[a]
      BY <3>3, <3>4 DEF OlderThanDisk
    <3> HIDE DEF x
    <3>6. x = disk[f]
      <4>1. x \in Snapshot
        BY <3>2 DEF x
      <4>2. x.files = disk[f].files
        BY <2>1, <3>5, <4>1 DEF Snapshot
      <4>3. \A y \in Snapshot : y = [dir |-> y.dir, files |-> y.files]
        BY DEF Snapshot
      <4>4. x = [dir |-> x.dir, files |-> x.files]
        BY <4>1, <4>3
      <4>5. disk[f] = [dir |-> disk[f].dir, files |-> disk[f].files]
        BY <2>1, <4>3
      <4> QED BY <3>3, <4>2, <4>4, <4>5
    <3> QED BY <3>1, <3>6 DEF x
  <2>3. CASE LoadCache(f)
    <3>1. loaded'[f]["cache"] = cacheFile[f] /\ lookup'[f] = "cache"
      BY <2>1, <2>3 DEF LoadCache, Reload, Store
    <3> QED BY <3>1 DEF Seen
  <2>4. CASE ScanFolder(f)
    <3>1. loaded'[f]["data"] = disk[f] /\ disk[f] # None
      BY <2>1, <2>4, SnapshotFacts DEF ScanFolder, Reload, Store
    <3>2. lookup'[f] = "data"
      BY <1>1, <3>1 DEF Chosen
    <3> QED BY <3>1, <3>2 DEF Seen
  <2> QED BY <1>1, <2>2, <2>3, <2>4 DEF RefreshFolder
<1>2. Inv /\ [Next]_vars =>
        [\A f \in Folder : RefreshFolder(f) /\ lookup'[f] = Chosen(f)' =>
           Seen(f)' \in {disk[f], cacheFile[f]}]_vars
  BY <1>1
<1> QED BY <1>2, InvHolds, PTL DEF Spec, RefreshFollowsDisk
=============================================================================
