---------------------------- MODULE MimeReload_proofs ----------------------------
(***************************************************************************)
(* Proofs about MimeReload, for any number of data directories and         *)
(* callbacks: a load leaves a database of the disk, and the list of        *)
(* callbacks leads to one that was freed only from a callback that removed *)
(* itself.                                                                 *)
(***************************************************************************)
EXTENDS MimeReload, TLAPS

-----------------------------------------------------------------------------
(* The inductive invariant *)

Loading == {"init", "up"}

\* EachDirectoryOnce, and UpToDate for the first directories.
OnceUpTo(cs, ts, n) ==
  /\ Read(cs) \union Read(ts) = {Order[i] : i \in 1 .. n - 1}
  /\ Read(cs) \intersect Read(ts) = {}
  /\ Ordered(cs) /\ Ordered(ts)

Holds(base, d, v) == \E k \in DOMAIN base : base[k] = <<d, v>>
CurrentUpTo(cs, ts, n, onDisk) ==
  \A i \in 1 .. n - 1 :
    IF onDisk[Order[i]].cache \in Version THEN Holds(cs, Order[i], onDisk[Order[i]].cache)
                                          ELSE Holds(ts, Order[i], onDisk[Order[i]].text)

\* The database is empty between two loads, and holds the directories the loop has
\* passed; those that have not changed since are up to date.
BaseInv ==
  /\ pc \notin Loading => caches = <<>> /\ texts = <<>>
  /\ pc = "init" => turn <= Len(Order)
  /\ pc = "up" => turn = Len(Order) + 1
  /\ pc \in Loading => OnceUpTo(caches, texts, turn)
  /\ pc \in Loading /\ quiet => CurrentUpTo(caches, texts, turn, disk)

Registered == {e \in Entry : status[e] = "registered"}

\* A set of registered elements that no next pointer leads out of, and in which an
\* element that another one leads to points back to it.
Linked(S) ==
  /\ S \subseteq Registered
  /\ Closed(S)
  /\ \A e \in S : next[e] \in {NULL, e} \/ prev[next[e]] = e

\* Whatever unlinking has done to the list: listed has what a search through it
\* passes, ahead has what the loop over the callbacks passes besides.
SetsOf(listed, ahead) ==
  /\ Linked(listed) /\ Linked(ahead) /\ listed \subseteq ahead
  /\ {head, seeker} \subseteq listed \union {NULL}
  /\ cursor \in ahead \union {NULL} \/ status[cursor] = "freed"
  /\ \A e \in listed : prev[e] \in Registered \union {NULL}

\* What a freed element still points to: while that is registered, it is the last
\* one or its own successor.
FreedLeads ==
  \A e \in Entry : status[e] = "freed" /\ next[e] # NULL =>
    /\ status[next[e]] # "new"
    /\ status[next[e]] = "registered" => next[next[e]] \in {NULL, next[e]}

ListInv ==
  /\ \E listed, ahead \in SUBSET Entry : SetsOf(listed, ahead)
  /\ head # NULL => prev[head] = NULL
  /\ \A e \in Entry : status[e] = "new" => prev[e] = NULL
  /\ FreedLeads

IInv == TypeOK /\ BaseInv /\ ListInv

-----------------------------------------------------------------------------
(* Types *)

Directory == [cache: {Missing, Unusable} \union Version, text: Version]
Base == Seq(Dir \X Version)

LEMMA Constants ==
  /\ Len(Order) \in Nat \ {0} /\ 1 \in 1 .. Len(Order) + 1
  /\ 1 \in Version /\ Missing \notin Version /\ Unusable \notin Version
  /\ <<>> \in Base
  BY OrderAssumption, BoundAssumption DEF Version, Missing, Unusable, Base

LEMMA InitTyped == Init => TypeOK
<1> SUFFICES ASSUME Init PROVE TypeOK
  OBVIOUS
<1>1. [cache: {Missing, Unusable, 1}, text: {1}] \subseteq Directory
  BY Constants DEF Directory
<1>2. disk \in [Dir -> Directory]
  BY <1>1 DEF Init
<1>3. caches \in Base /\ texts \in Base
  BY Constants DEF Init
<1> HIDE DEF Init
<1> QED BY <1>2, <1>3, Constants DEF Init, TypeOK, Directory, Base

LEMMA NextTyped == TypeOK /\ BaseInv /\ [Next]_vars => TypeOK'
<1> SUFFICES ASSUME TypeOK, BaseInv, [Next]_vars PROVE TypeOK'
  OBVIOUS
<1> USE Constants DEF TypeOK, diskVars, baseVars, listVars, seekVars
<1>1. ASSUME NEW d \in Dir, Edit(d) PROVE TypeOK'
  <2>1. version' \in Version
    BY <1>1, BoundAssumption DEF Edit, Version
  <2>2. \/ disk' = [disk EXCEPT ![d] = [disk[d] EXCEPT !.text = version']]
        \/ \E c \in {Missing, Unusable, version'} :
             disk' = [disk EXCEPT ![d] = [disk[d] EXCEPT !.cache = c]]
    BY <1>1 DEF Edit
  <2>3. ASSUME NEW r \in Directory
        PROVE  /\ [r EXCEPT !.text = version'] \in Directory
               /\ \A c \in {Missing, Unusable, version'} : [r EXCEPT !.cache = c] \in Directory
    BY <2>1 DEF Directory
  <2>4. disk \in [Dir -> Directory] /\ disk[d] \in Directory
    BY DEF Directory
  <2>5. disk' \in [Dir -> Directory]
    <3>1. CASE disk' = [disk EXCEPT ![d] = [disk[d] EXCEPT !.text = version']]
      BY <2>3, <2>4, <3>1
    <3>2. ASSUME NEW c \in {Missing, Unusable, version'},
                 disk' = [disk EXCEPT ![d] = [disk[d] EXCEPT !.cache = c]]
          PROVE  disk' \in [Dir -> Directory]
      BY <2>3, <2>4, <3>2
    <3> QED BY <2>2, <3>1, <3>2
  <2> QED BY <1>1, <2>1, <2>5 DEF Edit, Directory
<1>2. CASE StartInit
  BY <1>2 DEF StartInit
<1>3. CASE InitFromDirectory
  <2> DEFINE d == Order[turn]
  <2>1. turn \in 1 .. Len(Order) /\ d \in Dir
    BY <1>3 DEF InitFromDirectory, BaseInv, Dir
  <2>2. <<d, disk[d].text>> \in Dir \X Version
    BY <2>1
  <2>3. disk[d].cache \in Version => <<d, disk[d].cache>> \in Dir \X Version
    BY <2>1
  <2>4. caches' \in Seq(Dir \X Version) /\ texts' \in Seq(Dir \X Version)
    BY <1>3, <2>2, <2>3 DEF InitFromDirectory
  <2> QED BY <1>3, <2>1, <2>4 DEF InitFromDirectory
<1>4. CASE Refresh \/ Shutdown
  <2>1. /\ pc' \in {"refresh", "shutdown"} /\ caches' \in Base /\ texts' \in Base
        /\ cursor' = head
        /\ UNCHANGED <<disk, version, turn, quiet, head, next, prev, status, wanted, seeker>>
    BY <1>4 DEF Refresh, Shutdown, Drop
  <2> QED BY <2>1 DEF Base
<1>5. CASE CallbackReturns \/ Killed
  <2>1. CASE CallbackReturns
    BY <2>1 DEF CallbackReturns
  <2>2. CASE Killed
    BY <2>2 DEF Killed
  <2> QED BY <1>5, <2>1, <2>2
<1>6. CASE CallbacksDone
  <2>1. /\ pc' \in {"init", "down"} /\ turn' \in {1, turn} /\ quiet' \in {TRUE, quiet}
        /\ UNCHANGED <<disk, version, caches, texts, head, next, prev, status, cursor,
                       wanted, seeker>>
    BY <1>6 DEF CallbacksDone
  <2> QED BY <2>1
<1>7. ASSUME NEW e \in Entry, Register(e) PROVE TypeOK'
  BY <1>7 DEF Register
<1>8. ASSUME NEW e \in Entry, RemoveCallback(e) PROVE TypeOK'
  BY <1>8 DEF RemoveCallback
<1>9. CASE SeekOn
  BY <1>9 DEF SeekOn
<1>10. CASE RemoveFound
  BY <1>10 DEF RemoveFound, Unlink
<1>11. CASE RemoveMissed
  BY <1>11 DEF RemoveMissed
<1>12. CASE UNCHANGED vars
  BY <1>12 DEF vars
<1> QED
  BY <1>1, <1>2, <1>3, <1>4, <1>5, <1>6, <1>7, <1>8, <1>9, <1>10, <1>11, <1>12
  DEF Next, LibraryStep

-----------------------------------------------------------------------------
(* The database *)

\* A directory that is read after the others goes to the end of its list.
LEMMA ReadOne ==
  ASSUME NEW base \in Base, NEW n \in 1 .. Len(Order), NEW v \in Version,
         Read(base) \subseteq {Order[i] : i \in 1 .. n - 1}, Ordered(base)
  PROVE  LET new == Append(base, <<Order[n], v>>)
         IN /\ Read(new) = Read(base) \union {Order[n]}
            /\ Ordered(new)
            /\ Holds(new, Order[n], v)
            /\ \A d, w : Holds(base, d, w) => Holds(new, d, w)
<1> DEFINE new == Append(base, <<Order[n], v>>)
           end == Len(base) + 1
<1>1. /\ DOMAIN base = 1 .. Len(base) /\ DOMAIN new = 1 .. end /\ Len(base) \in Nat
      /\ \A k \in 1 .. Len(base) : new[k] = base[k]
      /\ new[end] = <<Order[n], v>>
  BY DEF Base
<1> HIDE DEF new
<1>2. Read(new) = Read(base) \union {Order[n]}
  BY <1>1 DEF Read
<1>3. ASSUME NEW k \in 1 .. end, NEW l \in 1 .. end, k < l
      PROVE  \E i, j \in 1 .. Len(Order) : i < j /\ new[k][1] = Order[i] /\ new[l][1] = Order[j]
  <2>1. CASE l \in 1 .. Len(base)
    <3>1. k \in DOMAIN base /\ l \in DOMAIN base /\ new[k] = base[k] /\ new[l] = base[l]
      BY <1>1, <1>3, <2>1
    <3>2. \E i, j \in 1 .. Len(Order) : i < j /\ base[k][1] = Order[i] /\ base[l][1] = Order[j]
      BY <1>3, <3>1, Zenon DEF Ordered
    <3> QED BY <3>1, <3>2
  <2>2. CASE l = end
    <3>1. k \in 1 .. Len(base) /\ new[k][1] \in Read(base) /\ new[l][1] = Order[n]
      <4>1. k \in 1 .. Len(base)
        BY <1>1, <1>3, <2>2
      <4>2. k \in DOMAIN base /\ new[k] = base[k]
        BY <1>1, <4>1
      <4>3. base[k][1] \in Read(base)
        BY <4>2, Zenon DEF Read
      <4>4. new[l][1] = Order[n]
        BY <1>1, <2>2
      <4> QED BY <4>1, <4>2, <4>3, <4>4
    <3>2. PICK i \in 1 .. n - 1 : new[k][1] = Order[i]
      BY <3>1
    <3>3. i \in 1 .. Len(Order) /\ i < n
      BY <3>2, OrderAssumption
    <3> QED BY <3>1, <3>2, <3>3
  <2> QED BY <1>1, <2>1, <2>2
<1>4. Ordered(new)
  <2> SUFFICES ASSUME NEW k \in DOMAIN new, NEW l \in DOMAIN new, k < l
               PROVE  \E i, j \in 1 .. Len(Order) :
                        i < j /\ new[k][1] = Order[i] /\ new[l][1] = Order[j]
    BY Zenon DEF Ordered
  <2>1. k \in 1 .. end /\ l \in 1 .. end
    BY <1>1
  <2> QED BY <1>3, <2>1, Zenon
<1>5. Holds(new, Order[n], v) /\ \A d, w : Holds(base, d, w) => Holds(new, d, w)
  BY <1>1 DEF Holds
<1> QED BY <1>2, <1>4, <1>5 DEF new

LEMMA PassedAndNext ==
  ASSUME NEW n \in 1 .. Len(Order)
  PROVE  /\ {Order[i] : i \in 1 .. (n + 1) - 1} = {Order[i] : i \in 1 .. n - 1} \union {Order[n]}
         /\ Order[n] \notin {Order[i] : i \in 1 .. n - 1}
<1>1. 1 .. (n + 1) - 1 = (1 .. n - 1) \union {n}
  BY OrderAssumption
<1>2. Order[n] \notin {Order[i] : i \in 1 .. n - 1}
  BY OrderAssumption
<1> QED BY <1>1, <1>2

\* What a turn of the loop adds keeps each directory once, and those that were up
\* to date stay so.
LEMMA CacheAdded ==
  ASSUME NEW cs \in Base, NEW ts \in Base, NEW n \in 1 .. Len(Order), NEW v \in Version,
         OnceUpTo(cs, ts, n)
  PROVE  LET new == Append(cs, <<Order[n], v>>)
         IN /\ OnceUpTo(new, ts, n + 1)
            /\ Holds(new, Order[n], v)
            /\ \A d, w : Holds(cs, d, w) => Holds(new, d, w)
<1> DEFINE new == Append(cs, <<Order[n], v>>)
<1>1. Read(cs) \subseteq {Order[i] : i \in 1 .. n - 1} /\ Ordered(cs)
  BY DEF OnceUpTo
<1>2. /\ Read(new) = Read(cs) \union {Order[n]} /\ Ordered(new) /\ Holds(new, Order[n], v)
      /\ \A d, w : Holds(cs, d, w) => Holds(new, d, w)
  BY <1>1, ReadOne
<1> HIDE DEF new
<1>3. OnceUpTo(new, ts, n + 1)
  BY <1>2, PassedAndNext DEF OnceUpTo
<1> QED BY <1>2, <1>3 DEF new

LEMMA TextAdded ==
  ASSUME NEW cs \in Base, NEW ts \in Base, NEW n \in 1 .. Len(Order), NEW v \in Version,
         OnceUpTo(cs, ts, n)
  PROVE  LET new == Append(ts, <<Order[n], v>>)
         IN /\ OnceUpTo(cs, new, n + 1)
            /\ Holds(new, Order[n], v)
            /\ \A d, w : Holds(ts, d, w) => Holds(new, d, w)
<1> DEFINE new == Append(ts, <<Order[n], v>>)
<1>1. OnceUpTo(ts, cs, n)
  BY DEF OnceUpTo
<1>2. /\ OnceUpTo(new, cs, n + 1) /\ Holds(new, Order[n], v)
      /\ \A d, w : Holds(ts, d, w) => Holds(new, d, w)
  BY <1>1, CacheAdded
<1> QED BY <1>2 DEF OnceUpTo

LEMMA LoadStep ==
  ASSUME TypeOK, BaseInv, InitFromDirectory
  PROVE  BaseInv'
<1> USE Constants
<1> DEFINE d == Order[turn]
           usable == disk[d].cache \in Version
<1>1. /\ pc = "init" /\ turn \in 1 .. Len(Order) /\ turn' = turn + 1
      /\ pc' = IF turn = Len(Order) THEN "up" ELSE "init"
      /\ caches' = IF usable THEN Append(caches, <<d, disk[d].cache>>) ELSE caches
      /\ texts' = IF usable THEN texts ELSE Append(texts, <<d, disk[d].text>>)
      /\ UNCHANGED <<disk, quiet>>
  BY DEF InitFromDirectory, BaseInv, TypeOK, diskVars
<1>2. OnceUpTo(caches, texts, turn) /\ (quiet => CurrentUpTo(caches, texts, turn, disk))
  BY <1>1 DEF BaseInv, Loading
<1>3. caches \in Base /\ texts \in Base
  BY DEF TypeOK, Base
<1>4. d \in Dir /\ disk[d].text \in Version
  BY <1>1 DEF TypeOK, Dir
<1>5. /\ OnceUpTo(caches', texts', turn + 1)
      /\ \A e, w : (Holds(caches, e, w) => Holds(caches', e, w))
                   /\ (Holds(texts, e, w) => Holds(texts', e, w))
      /\ IF usable THEN Holds(caches', d, disk[d].cache) ELSE Holds(texts', d, disk[d].text)
  <2>1. CASE usable
    BY <1>1, <1>2, <1>3, <2>1, CacheAdded
  <2>2. CASE ~usable
    BY <1>1, <1>2, <1>3, <1>4, <2>2, TextAdded
  <2> QED BY <2>1, <2>2
<1>6. quiet => CurrentUpTo(caches', texts', turn + 1, disk)
  <2> SUFFICES ASSUME quiet, NEW i \in 1 .. turn
               PROVE  IF disk[Order[i]].cache \in Version
                      THEN Holds(caches', Order[i], disk[Order[i]].cache)
                      ELSE Holds(texts', Order[i], disk[Order[i]].text)
    BY <1>1 DEF CurrentUpTo
  <2>1. CASE i = turn
    BY <1>5, <2>1
  <2>2. CASE i # turn
    <3>1. i \in 1 .. turn - 1
      BY <1>1, <2>2
    <3>2. IF disk[Order[i]].cache \in Version
          THEN Holds(caches, Order[i], disk[Order[i]].cache)
          ELSE Holds(texts, Order[i], disk[Order[i]].text)
      BY <1>2, <3>1 DEF CurrentUpTo
    <3>3. \A w : Holds(caches, Order[i], w) => Holds(caches', Order[i], w)
      BY <1>5
    <3>4. \A w : Holds(texts, Order[i], w) => Holds(texts', Order[i], w)
      BY <1>5
    <3> QED BY <3>2, <3>3, <3>4
  <2> QED BY <2>1, <2>2
<1> HIDE DEF d, usable
<1>7. /\ OnceUpTo(caches', texts', turn')
      /\ quiet' => CurrentUpTo(caches', texts', turn', disk')
  BY <1>1, <1>5, <1>6
<1>8. /\ pc' \in Loading
      /\ pc' = "init" => turn' <= Len(Order)
      /\ pc' = "up" => turn' = Len(Order) + 1
  BY <1>1 DEF Loading
<1> QED BY <1>7, <1>8 DEF BaseInv

LEMMA EmptyBase == OnceUpTo(<<>>, <<>>, 1) /\ \A onDisk : CurrentUpTo(<<>>, <<>>, 1, onDisk)
  BY DEF OnceUpTo, CurrentUpTo, Read, Ordered

LEMMA BaseStep == TypeOK /\ BaseInv /\ [Next]_vars => BaseInv'
<1> SUFFICES ASSUME TypeOK, BaseInv, [Next]_vars PROVE BaseInv'
  OBVIOUS
<1> USE Constants
<1>1. ASSUME UNCHANGED <<caches, texts, turn, pc>>, quiet' => UNCHANGED <<quiet, disk>>
      PROVE  BaseInv'
  BY <1>1 DEF BaseInv
<1>2. ASSUME NEW d \in Dir, Edit(d) PROVE BaseInv'
  BY <1>1, <1>2 DEF Edit, baseVars
<1>3. CASE StartInit \/ CallbacksDone
  <2>1. /\ caches' = <<>> /\ texts' = <<>>
        /\ (pc' = "init" /\ turn' = 1) \/ pc' = "down"
    BY <1>3 DEF StartInit, CallbacksDone, Dropping, Loading, BaseInv
  <2> QED BY <2>1, EmptyBase DEF BaseInv, Loading
<1>4. CASE InitFromDirectory
  BY <1>4, LoadStep
<1>5. CASE Refresh \/ Shutdown
  BY <1>5 DEF Refresh, Shutdown, Drop, BaseInv, Loading
<1>6. CASE CallbackReturns \/ Killed
  <2>1. CASE CallbackReturns
    BY <1>1, <2>1 DEF CallbackReturns, baseVars, diskVars
  <2>2. CASE Killed
    BY <2>2 DEF Killed, Dropping, BaseInv, Loading, baseVars, diskVars
  <2> QED BY <1>6, <2>1, <2>2
<1>7. ASSUME NEW e \in Entry, Register(e) \/ RemoveCallback(e) PROVE BaseInv'
  BY <1>1, <1>7 DEF Register, RemoveCallback, baseVars, diskVars
<1>8. CASE SeekOn \/ RemoveFound \/ RemoveMissed
  BY <1>1, <1>8 DEF SeekOn, RemoveFound, RemoveMissed, baseVars, diskVars
<1>9. CASE UNCHANGED vars
  BY <1>1, <1>9 DEF vars
<1> QED
  BY <1>2, <1>3, <1>4, <1>5, <1>6, <1>7, <1>8, <1>9 DEF Next, LibraryStep

-----------------------------------------------------------------------------
(* The list of callbacks *)

\* A new element goes before the first one and points to it, which points back.
LEMMA RegisterKeeps ==
  ASSUME TypeOK, ListInv, NEW e \in Entry, Register(e)
  PROVE  ListInv'
<1> USE NullAssumption
<1>1. PICK listed \in SUBSET Entry, ahead \in SUBSET Entry : SetsOf(listed, ahead)
  BY DEF ListInv
<1>2. /\ status[e] = "new" /\ status' = [status EXCEPT ![e] = "registered"]
      /\ next' = [next EXCEPT ![e] = head]
      /\ prev' = IF head # NULL THEN [prev EXCEPT ![head] = e] ELSE prev
      /\ head' = e /\ cursor' \in {cursor, e} /\ wanted' = wanted /\ seeker' = seeker
  BY DEF Register, seekVars
<1>3. /\ next \in [Entry -> Entry \union {NULL}] /\ prev \in [Entry -> Entry \union {NULL}]
      /\ status \in [Entry -> {"new", "registered", "freed"}]
      /\ head \in Entry \union {NULL}
      /\ prev[e] = NULL
      /\ head # NULL => prev[head] = NULL
  BY <1>2 DEF TypeOK, ListInv
<1>4. /\ listed \subseteq ahead /\ ahead \subseteq Registered /\ e \notin ahead
      /\ Closed(listed) /\ Closed(ahead)
      /\ head \in listed \union {NULL} /\ seeker \in listed \union {NULL}
      /\ cursor \in ahead \union {NULL} \/ status[cursor] = "freed"
      /\ \A x \in ahead : next[x] \in {NULL, x} \/ prev[next[x]] = x
      /\ \A x \in listed : prev[x] \in Registered \union {NULL}
  BY <1>1, <1>2 DEF SetsOf, Linked, Registered
<1> DEFINE L == listed \union {e}
           A == ahead \union {e}
<1>5. Registered' = Registered \union {e}
  BY <1>2, <1>3 DEF Registered
<1>6. Closed(L)' /\ Closed(A)'
  BY <1>2, <1>3, <1>4 DEF Closed
<1>7. ASSUME NEW x \in A PROVE next'[x] \in {NULL, x} \/ prev'[next'[x]] = x
  <2>1. CASE x = e
    BY <1>2, <1>3, <1>4, <2>1
  <2>2. CASE x # e
    <3>1. x \in ahead /\ x \in Entry /\ next'[x] = next[x] /\ next[x] \in ahead \union {NULL}
      BY <1>2, <1>3, <1>4, <2>2 DEF Closed
    <3>2. next[x] \notin {NULL, x} => prev[next[x]] = x /\ next[x] # head
      BY <1>3, <1>4, <3>1
    <3> QED BY <1>2, <1>3, <3>1, <3>2
  <2> QED BY <2>1, <2>2
<1>8. Linked(L)' /\ Linked(A)'
  BY <1>4, <1>5, <1>6, <1>7 DEF Linked
<1>9. \A x \in L : prev'[x] \in Registered' \union {NULL}
  BY <1>2, <1>3, <1>4, <1>5
<1>10. SetsOf(L, A)'
  <2>1. cursor' \in A \union {NULL} \/ status'[cursor'] = "freed"
    BY <1>2, <1>3, <1>4 DEF TypeOK
  <2> QED BY <1>2, <1>4, <1>8, <1>9, <2>1 DEF SetsOf
<1>11. prev'[head'] = NULL
  BY <1>2, <1>3, <1>4
<1>12. ASSUME NEW x \in Entry, status'[x] = "new" PROVE prev'[x] = NULL
  BY <1>2, <1>3, <1>4, <1>12 DEF ListInv, Registered
<1>13. FreedLeads'
  BY <1>2, <1>3 DEF ListInv, FreedLeads
<1> HIDE DEF L, A
<1> QED BY <1>10, <1>11, <1>12, <1>13, <1>4 DEF ListInv, L, A

\* Unlinking turns the element before the one that goes into its own successor, or
\* into the last one, and forgets the whole list when the first one goes.  Nothing
\* leads to the freed element after that but what pointed back to it, and the list
\* does not lead there any more.
LEMMA UnlinkKeeps ==
  ASSUME TypeOK, ListInv, RemoveFound
  PROVE  ListInv'
<1> USE NullAssumption
<1> DEFINE e == wanted
           p == prev[e]
           n == IF next[e] # NULL THEN p ELSE NULL
<1>1. PICK listed \in SUBSET Entry, ahead \in SUBSET Entry : SetsOf(listed, ahead)
  BY DEF ListInv
<1>2. /\ e \in Entry /\ seeker = e /\ p \in Entry \union {NULL}
      /\ n \in {NULL, p}
      /\ next' = IF p # NULL THEN [next EXCEPT ![e] = n, ![p] = n] ELSE [next EXCEPT ![e] = n]
      /\ head' = IF p # NULL THEN head ELSE n
      /\ prev' = prev
      /\ status' = [status EXCEPT ![e] = "freed"]
      /\ wanted' = NULL /\ seeker' = NULL /\ cursor' = cursor
  BY DEF RemoveFound, Unlink, TypeOK
<1>3. /\ next \in [Entry -> Entry \union {NULL}] /\ prev \in [Entry -> Entry \union {NULL}]
      /\ status \in [Entry -> {"new", "registered", "freed"}]
      /\ head # NULL => prev[head] = NULL
      /\ cursor \in Entry \union {NULL}
  BY <1>2 DEF TypeOK, ListInv
<1>4. /\ listed \subseteq ahead /\ ahead \subseteq Registered /\ e \in listed
      /\ Closed(listed) /\ Closed(ahead)
      /\ head \in listed \union {NULL}
      /\ cursor \in ahead \union {NULL} \/ status[cursor] = "freed"
      /\ \A x \in ahead : next[x] \in {NULL, x} \/ prev[next[x]] = x
      /\ \A x \in listed : prev[x] \in Registered \union {NULL}
  BY <1>1, <1>2 DEF SetsOf, Linked
<1> HIDE DEF n, p, e
<1>5. /\ Registered' = Registered \ {e}
      /\ \A x \in Entry \ {e} : next'[x] = IF x = p THEN n ELSE next[x]
  BY <1>2, <1>3 DEF Registered
<1>6. PICK L \in SUBSET Entry, A \in SUBSET Entry :
        /\ A = ahead \ {e}
        /\ L = IF p = NULL THEN {} ELSE {x \in listed \ {e} : prev[x] # e}
  OBVIOUS
<1>7. \A x \in A : next[x] = e => x = p
  BY <1>2, <1>4, <1>6 DEF p
<1>8. \A x \in A : next'[x] \in A \union {NULL} /\ (next'[x] \in {NULL, x} \/ prev'[next'[x]] = x)
  BY <1>2, <1>3, <1>4, <1>5, <1>6, <1>7 DEF Closed
<1>9. L \subseteq A /\ \A x \in L : next'[x] \in L \union {NULL}
  <2> SUFFICES ASSUME NEW x \in L, p # NULL PROVE next'[x] \in L \union {NULL}
    BY <1>4, <1>6
  <2>1. x \in listed /\ x # e /\ prev[x] # e /\ x \in Entry /\ next[x] \in listed \union {NULL}
    BY <1>4, <1>6 DEF Closed
  <2>2. CASE x = p
    BY <1>2, <1>5, <1>6, <2>1, <2>2
  <2>3. CASE x # p
    <3>1. next'[x] = next[x] /\ next[x] # e
      BY <1>4, <1>5, <1>6, <1>7, <2>1, <2>3
    <3>2. next[x] \notin {NULL, x} => prev[next[x]] = x
      BY <1>4, <1>6, <2>1
    <3> QED BY <1>4, <1>6, <2>1, <3>1, <3>2
  <2> QED BY <2>2, <2>3
<1>10. Linked(L)' /\ Linked(A)'
  BY <1>4, <1>5, <1>6, <1>8, <1>9 DEF Linked, Closed
<1>11. head' \in L \union {NULL}
  BY <1>2, <1>3, <1>4, <1>6 DEF p
<1>12. \A x \in L : prev'[x] \in Registered' \union {NULL}
  BY <1>2, <1>4, <1>5, <1>6
<1>13. SetsOf(L, A)'
  <2>1. cursor' \in A \union {NULL} \/ status'[cursor'] = "freed"
    BY <1>2, <1>3, <1>4, <1>6
  <2> QED BY <1>2, <1>3, <1>4, <1>6, <1>9, <1>10, <1>11, <1>12, <2>1 DEF SetsOf
<1>14. head' # NULL => prev'[head'] = NULL
  BY <1>2, <1>3
<1>15. \A x \in Entry : status'[x] = "new" => prev'[x] = NULL
  BY <1>2, <1>3 DEF ListInv
<1>16. FreedLeads'
  <2> SUFFICES ASSUME NEW x \in Entry, status'[x] = "freed", next'[x] # NULL
               PROVE  /\ status'[next'[x]] # "new"
                      /\ status'[next'[x]] = "registered" => next'[next'[x]] \in {NULL, next'[x]}
    BY DEF FreedLeads
  <2>1. p # NULL => p \in Registered
    BY <1>4 DEF p
  <2>2. CASE x = e
    <3>1. next'[x] = p /\ p # NULL /\ n = p
      BY <1>2, <1>3, <2>2
    <3> QED BY <1>2, <1>3, <2>1, <3>1 DEF Registered
  <2>3. CASE x # e
    <3>1. status[x] = "freed" /\ x # p /\ next'[x] = next[x]
      BY <1>2, <1>3, <1>5, <2>1, <2>3 DEF Registered
    <3>2. /\ next[x] \in Entry /\ status[next[x]] # "new"
          /\ status[next[x]] = "registered" => next[next[x]] \in {NULL, next[x]}
      BY <1>3, <3>1 DEF ListInv, FreedLeads
    <3>3. CASE next[x] = e
      BY <1>2, <1>3, <3>1, <3>3
    <3>4. CASE next[x] # e
      BY <1>2, <1>3, <1>5, <3>1, <3>2, <3>4
    <3> QED BY <3>3, <3>4
  <2> QED BY <2>2, <2>3
<1> QED BY <1>13, <1>14, <1>15, <1>16 DEF ListInv

\* The other steps leave the list as it is, and go on in it.
LEMMA WalkKeeps ==
  ASSUME ListInv, UNCHANGED listVars,
         \A listed, ahead \in SUBSET Entry :
           SetsOf(listed, ahead) =>
             /\ seeker' \in listed \union {NULL}
             /\ cursor' \in ahead \union {NULL} \/ status[cursor'] = "freed"
  PROVE  ListInv'
<1>1. PICK listed \in SUBSET Entry, ahead \in SUBSET Entry : SetsOf(listed, ahead)
  BY DEF ListInv
<1>2. SetsOf(listed, ahead)'
  BY <1>1 DEF SetsOf, Linked, Registered, Closed, listVars
<1> QED BY <1>2 DEF ListInv, FreedLeads, listVars

\* A loop that goes on from a freed element gets to one that is registered only
\* where that one leads nowhere else.
LEMMA LoopGoesOn ==
  ASSUME TypeOK, ListInv, CallbackReturns
  PROVE  ListInv'
<1> USE NullAssumption
<1>1. /\ UNCHANGED <<listVars, seekVars>> /\ cursor \in Entry
      /\ cursor' = next[cursor] \/ cursor' = NULL \/ status[cursor'] = "freed"
  BY DEF CallbackReturns, TypeOK
<1>2. CASE cursor' = NULL \/ status[cursor'] = "freed"
  BY <1>1, <1>2, WalkKeeps DEF SetsOf, seekVars
<1>3. CASE cursor' = next[cursor] /\ status[cursor] # "freed"
  BY <1>1, <1>3, WalkKeeps DEF SetsOf, Linked, Closed, seekVars
<1>4. CASE cursor' = next[cursor] /\ cursor' # NULL /\ status[cursor] = "freed" /\ status[cursor'] # "freed"
  <2>1. PICK y \in Entry : /\ y = next[cursor] /\ status[y] = "registered"
                           /\ next[y] \in {NULL, y}
    BY <1>1, <1>4 DEF TypeOK, ListInv, FreedLeads
  <2>2. PICK listed \in SUBSET Entry, ahead \in SUBSET Entry : SetsOf(listed, ahead)
    BY DEF ListInv
  <2>3. PICK A \in SUBSET Entry : A = ahead \union {y}
    OBVIOUS
  <2>4. Linked(A)
    BY <2>1, <2>2, <2>3 DEF SetsOf, Linked, Registered, Closed
  <2>5. Linked(listed)' /\ Linked(A)'
    BY <1>1, <2>2, <2>4 DEF SetsOf, Linked, Registered, Closed, listVars
  <2>6. SetsOf(listed, A)'
    BY <1>1, <1>4, <2>1, <2>2, <2>3, <2>5 DEF SetsOf, Registered, listVars, seekVars
  <2> QED BY <1>1, <2>6 DEF ListInv, FreedLeads, listVars
<1> QED BY <1>1, <1>2, <1>3, <1>4

LEMMA ListStep == TypeOK /\ ListInv /\ [Next]_vars => ListInv'
<1> SUFFICES ASSUME TypeOK, ListInv, [Next]_vars PROVE ListInv'
  OBVIOUS
<1>1. ASSUME UNCHANGED <<listVars, cursor, seekVars>> PROVE ListInv'
  BY <1>1, WalkKeeps DEF SetsOf, ListInv, seekVars
<1>2. ASSUME NEW d \in Dir, Edit(d) PROVE ListInv'
  BY <1>1, <1>2 DEF Edit
<1>3. CASE StartInit \/ CallbacksDone \/ InitFromDirectory
  BY <1>1, <1>3 DEF StartInit, CallbacksDone, InitFromDirectory
<1>4. CASE Refresh \/ Shutdown
  <2>1. UNCHANGED <<listVars, seekVars>> /\ cursor' = head /\ wanted = NULL
    BY <1>4 DEF Refresh, Shutdown, Drop
  <2> QED BY <2>1, WalkKeeps DEF SetsOf, seekVars
<1>5. CASE CallbackReturns \/ Killed
  <2>1. CASE CallbackReturns
    BY <2>1, LoopGoesOn
  <2>2. CASE Killed
    <3>1. /\ head' = NULL /\ cursor' = NULL /\ seeker' = NULL
          /\ \A e \in Entry : next'[e] = NULL /\ prev'[e] = NULL /\ status'[e] = "new"
      BY <2>2 DEF Killed
    <3>2. SetsOf({}, {})'
      BY <3>1 DEF SetsOf, Linked, Closed
    <3> QED BY <3>1, <3>2 DEF ListInv, FreedLeads
  <2> QED BY <1>5, <2>1, <2>2
<1>6. ASSUME NEW e \in Entry, Register(e) PROVE ListInv'
  BY <1>6, RegisterKeeps
<1>7. ASSUME NEW e \in Entry, RemoveCallback(e) PROVE ListInv'
  <2>1. UNCHANGED <<listVars, cursor>> /\ seeker' = head
    BY <1>7 DEF RemoveCallback
  <2> QED BY <2>1, WalkKeeps DEF SetsOf
<1>8. CASE SeekOn
  <2>1. /\ UNCHANGED <<listVars, cursor, wanted>> /\ seeker' = next[seeker]
        /\ seeker # NULL
    BY <1>8 DEF SeekOn
  <2> QED BY <2>1, WalkKeeps DEF SetsOf, Linked, Closed, ListInv
<1>9. CASE RemoveFound
  BY <1>9, UnlinkKeeps
<1>10. CASE RemoveMissed
  BY <1>10, WalkKeeps DEF RemoveMissed, SetsOf
<1>11. CASE UNCHANGED vars
  BY <1>1, <1>11 DEF vars, listVars, seekVars
<1> QED
  BY <1>2, <1>3, <1>4, <1>5, <1>6, <1>7, <1>8, <1>9, <1>10, <1>11 DEF Next, LibraryStep

-----------------------------------------------------------------------------
(* The theorems *)

LEMMA InitInvariant == Init => IInv
<1> SUFFICES ASSUME Init PROVE IInv
  OBVIOUS
<1>1. BaseInv
  BY DEF Init, BaseInv, Loading
<1>2. SetsOf({}, {})
  BY DEF Init, SetsOf, Linked, Closed
<1>3. ListInv
  BY <1>2 DEF Init, ListInv, FreedLeads
<1> QED BY <1>1, <1>3, InitTyped DEF IInv

LEMMA Invariant == Spec => []IInv
<1>1. IInv /\ [Next]_vars => IInv'
  BY NextTyped, BaseStep, ListStep DEF IInv
<1> QED BY <1>1, InitInvariant, PTL DEF Spec

\* Every variable keeps its type, with any number of directories and callbacks.
THEOREM TypeCorrect == Spec => []TypeOK
<1>1. IInv => TypeOK
  BY DEF IInv
<1> QED BY <1>1, Invariant, PTL

\* What the next pointers lead to is in every closed set.
LEMMA FollowedIsSmallest ==
  ASSUME NEW S \in SUBSET Entry, Closed(S), NEW start \in SUBSET S
  PROVE  Followed(start) \subseteq S
  BY DEF Followed

\* However elements are registered and removed, also from within callbacks, and
\* whatever unlinking does to the list: no search or pointer of the list gets to an
\* element that was freed, and the loop over the callbacks does only by going on
\* from an element that is itself freed, because its callback removed it.
THEOREM ListAlwaysLive == Spec => []ListIsLive
<1>1. IInv => ListIsLive
  <2> SUFFICES ASSUME IInv PROVE ListIsLive
    OBVIOUS
  <2>1. PICK listed \in SUBSET Entry, ahead \in SUBSET Entry : SetsOf(listed, ahead)
    BY DEF IInv, ListInv
  <2>2. Followed({head, seeker} \ {NULL}) \subseteq listed
    BY <2>1, FollowedIsSmallest DEF SetsOf, Linked
  <2>3. ~CursorFreed => Followed({cursor} \ {NULL}) \subseteq ahead
    BY <2>1, FollowedIsSmallest DEF SetsOf, Linked, CursorFreed
  <2> QED BY <2>1, <2>2, <2>3 DEF SetsOf, Linked, Registered, ListIsLive
<1> QED BY <1>1, Invariant, PTL

\* Whether loaded first or again by a refresh, and whatever changes meanwhile, the
\* database has each directory once and in order, and nothing of the database before
\* it; where nothing changed during the loading it is that of the disk.
THEOREM QuietLoad == Spec => []QuietLoadIsUpToDate
<1>1. IInv => QuietLoadIsUpToDate
  <2> SUFFICES ASSUME IInv, pc \in Loading
               PROVE  EachDirectoryOnce /\ (pc = "up" /\ quiet => UpToDate)
    BY DEF QuietLoadIsUpToDate, Loading
  <2>1. EachDirectoryOnce
    BY DEF IInv, BaseInv, OnceUpTo, EachDirectoryOnce
  <2>2. ASSUME pc = "up", quiet, NEW i \in 1 .. Len(Order)
        PROVE  IF disk[Order[i]].cache \in Version
               THEN Holds(caches, Order[i], disk[Order[i]].cache)
               ELSE Holds(texts, Order[i], disk[Order[i]].text)
    BY <2>2, OrderAssumption DEF IInv, BaseInv, CurrentUpTo
  <2>3. pc = "up" /\ quiet => UpToDate
    BY <2>2 DEF UpToDate, Holds
  <2> QED BY <2>1, <2>3
<1> QED BY <1>1, Invariant, PTL
================================================================================
