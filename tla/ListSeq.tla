-------------------------------- MODULE ListSeq --------------------------------
(***************************************************************************)
(* What the lists of src/src/containers/xdglist.h promise: sequences of    *)
(* items, and a view of several of them as one sequence (a joint list).    *)
(***************************************************************************)
EXTENDS Sequences, SequencesExt

CONSTANTS List,    \* the lists, in the order in which they are joined
          Item

VARIABLES seq,     \* seq[l]: the items of list l
          joined   \* the items a walk over the last joint list visits, until
                   \* a list changes

vars == <<seq, joined>>

Lists == ToSet(List)
Listed == UNION {ToSet(seq[l]) : l \in Lists}

Init == seq = [l \in Lists |-> <<>>] /\ joined = <<>>

Insert(l, i) ==
  /\ i \in Item \ Listed
  /\ \/ seq' = [seq EXCEPT ![l] = Append(@, i)]
     \/ seq' = [seq EXCEPT ![l] = <<i>> \o @]
  /\ joined' = <<>>

Take(l, k) ==
  /\ k \in DOMAIN seq[l]
  /\ seq' = [seq EXCEPT ![l] = RemoveAt(@, k)]
  /\ joined' = <<>>

Swap(l, m, n) ==
  /\ m < n /\ {m, n} \subseteq DOMAIN seq[l]
  /\ seq' = [seq EXCEPT ![l] = [@ EXCEPT ![m] = seq[l][n], ![n] = seq[l][m]]]
  /\ joined' = <<>>

\* Item i comes before j in the lists, which follow each other as in List.
Before(i, j) ==
  \E m, n \in DOMAIN List :
    \E x \in DOMAIN seq[List[m]], y \in DOMAIN seq[List[n]] :
      /\ i = seq[List[m]][x] /\ j = seq[List[n]][y]
      /\ m < n \/ (m = n /\ x < y)

\* Lists that have items are seen as one.
Join(ls) ==
  /\ \A l \in ls : seq[l] # <<>>
  /\ joined' \in Seq(Item)
  /\ ToSet(joined') = UNION {ToSet(seq[l]) : l \in ls}
  /\ \A p, q \in DOMAIN joined' : p < q => Before(joined'[p], joined'[q])
  /\ UNCHANGED seq

\* A loop over a list or a lookup starts.
Start == joined' = <<>> /\ UNCHANGED seq

Next ==
  \/ Start
  \/ \E l \in Lists : \/ \E i \in Item : Insert(l, i)
                      \/ \E k \in DOMAIN seq[l] : Take(l, k)
                      \/ \E m, n \in DOMAIN seq[l] : Swap(l, m, n)
  \/ \E ls \in SUBSET Lists : Join(ls)

Spec == Init /\ [][Next]_vars
=============================================================================
