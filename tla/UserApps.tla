------------------------------- MODULE UserApps -------------------------------
(***************************************************************************)
(* The user's own associations, the file mimeapps.list:                    *)
(* xdg_user_defined_apps_load, _lookup, _append, _prepend and _free of     *)
(* src/src/desktop/xdgapp.c, and xdg_list_remove on the lists they return. *)
(*                                                                         *)
(* Programs load the file, change the lists they have in memory, and save  *)
(* them by writing the file anew, without a lock.  Meanwhile applications  *)
(* are installed and removed, which the folders show (xdg_app_refresh),    *)
(* and a program can be killed.                                            *)
(*                                                                         *)
(* A saved text is smaller than a stdio buffer, so that it reaches the     *)
(* file in one write, by fclose, at offset 0.  A text that another program *)
(* wrote since fopen truncated the file stays behind it if it is longer.   *)
(***************************************************************************)
EXTENDS ListFile

CONSTANTS Program,    \* each holds at most one XdgUserApps
          FirstTexts, \* what the file may hold before any program runs
          MaxChanges, \* bound on edits of lists and changes of what is installed
          None        \* no XdgUserApps; no text

ASSUME MimeTypeAssumption == IsFiniteSet(MimeType)

ASSUME MaxChangesAssumption == MaxChanges \in Nat

\* The names of desktop files end alike; what is left of one is not another.
ASSUME CutNameAssumption == CutName \notin App

ASSUME FirstTextsAssumption ==
  \A text \in FirstTexts :
    /\ text \in Seq(ToSet(text))
    /\ \A line \in ToSet(text) : line.kind = "entry" => line.values \in Seq(App)

VARIABLES
  file,       \* the lines of mimeapps.list, or None
  installed,  \* the applications that folders have desktop files for
  lists,      \* lists[p]: addedApps, defaultApps and removedApps of p's XdgUserApps
  saving,     \* the programs between fopen and fclose in xdg_user_defined_apps_free
  saved,      \* history: the lists the file was written from, if by one program alone
  mixed,      \* history: a save has overlapped with another
  put,        \* history: what the first text held, and what was inserted since
  changes     \* the number of changes made so far

history == <<saved, mixed, put>>
vars == <<file, installed, lists, saving, saved, mixed, put, changes>>

Association == [section: Section, type: MimeType, app: App]

Lines(text) == IF text = None THEN <<>> ELSE text

Init ==
  /\ file \in FirstTexts \union {None}
  /\ installed \in SUBSET App
  /\ lists = [p \in Program |-> None]
  /\ saving = {}
  /\ saved = None
  /\ mixed = FALSE
  /\ put = {m \in Association : Contains(Mentions(Lines(file)), m)}
  /\ changes = 0

Holds(p) == lists[p] # None /\ p \notin saving

\* xdg_user_defined_apps_load
Load(p) ==
  /\ lists[p] = None
  /\ lists' = [lists EXCEPT ![p] = UserLists(Lines(file), installed)]
  /\ UNCHANGED <<file, installed, saving, history, changes>>

\* A program changes the lists of its XdgUserApps.
Edit(p, newLists) ==
  /\ changes < MaxChanges
  /\ changes' = changes + 1
  /\ lists' = [lists EXCEPT ![p] = newLists]
  /\ UNCHANGED <<file, installed, saving, saved, mixed>>

\* xdg_user_defined_apps_lookup with create set makes the type known.
Create(p, s, t) ==
  /\ Holds(p)
  /\ t \notin DOMAIN lists[p][s]
  /\ Edit(p, [lists[p] EXCEPT ![s] = [u \in DOMAIN @ \union {t} |-> ListOf(@, u)]])
  /\ UNCHANGED put

\* xdg_user_defined_apps_append and _prepend copy an item that a lookup of
\* applications returned to the end or the head of a list.
Insert(p, s, t, a) ==
  /\ Holds(p)
  /\ a \in installed
  /\ t \in DOMAIN lists[p][s]
  /\ \/ Edit(p, [lists[p] EXCEPT ![s][t] = Append(@, a)])
     \/ Edit(p, [lists[p] EXCEPT ![s][t] = <<a>> \o @])
  /\ put' = put \union {[section |-> s, type |-> t, app |-> a]}

\* xdg_list_remove and xdg_list_swap work on these lists too.
RemoveItem(p, s, t, i) ==
  /\ Holds(p)
  /\ t \in DOMAIN lists[p][s]
  /\ i \in DOMAIN lists[p][s][t]
  /\ Edit(p, [lists[p] EXCEPT ![s][t] = RemoveAt(@, i)])
  /\ UNCHANGED put

SwapItems(p, s, t, i, j) ==
  /\ Holds(p)
  /\ t \in DOMAIN lists[p][s]
  /\ i \in DOMAIN lists[p][s][t]
  /\ j \in DOMAIN lists[p][s][t]
  /\ i < j
  /\ LET list == lists[p][s][t]
     IN  Edit(p, [lists[p] EXCEPT ![s][t] = [list EXCEPT ![i] = list[j], ![j] = list[i]]])
  /\ UNCHANGED put

-----------------------------------------------------------------------------
(* xdg_user_defined_apps_free *)

Forgotten(p) == lists' = [lists EXCEPT ![p] = None]

\* Nothing is saved: save is 0, or fopen fails, or the program is killed.
Free(p) ==
  /\ Holds(p)
  /\ Forgotten(p)
  /\ UNCHANGED <<file, installed, saving, history, changes>>

\* fopen(fileName, "w") truncates the file.
SaveOpen(p) ==
  /\ Holds(p)
  /\ file' = <<>>
  /\ mixed' = (mixed \/ saving # {})
  /\ saving' = saving \union {p}
  /\ saved' = None
  /\ UNCHANGED <<installed, lists, put, changes>>

GroupName(s) ==
  CASE s = "added" -> "Added Associations"
    [] s = "default" -> "Default Applications"
    [] s = "removed" -> "Removed Applications"

\* Mutant of SectionText: a type without applications ends the section.
SectionTextToFirstEmpty(tree, s, order) ==
  LET EmptyUpTo(i) == \E j \in 1 .. i : order[j] \in DOMAIN tree /\ tree[order[j]] = <<>>
  IN  IF DOMAIN tree = {} THEN <<>>
      ELSE <<Header(GroupName(s))>> \o FlattenSeq([i \in 1 .. Len(order) |->
             IF EmptyUpTo(i) \/ ListOf(tree, order[i]) = <<>> THEN <<>>
             ELSE <<Entry(order[i], tree[order[i]])>>])

\* What is written for one tree: a header unless the tree is empty, and in the
\* order of the walk an entry for each type that has applications.
SectionText(tree, s, order) ==
  IF DOMAIN tree = {} THEN <<>>
  ELSE <<Header(GroupName(s))>> \o FlattenSeq([i \in 1 .. Len(order) |->
         IF ListOf(tree, order[i]) = <<>> THEN <<>>
         ELSE <<Entry(order[i], tree[order[i]])>>])

Text(trees, order) ==
  SectionText(trees["added"], "added", order)
  \o SectionText(trees["default"], "default", order)
  \o SectionText(trees["removed"], "removed", order)

\* The new text at offset 0 and what stays of the old one behind it; its first
\* line may have lost its beginning.
Overlaid(text, old) ==
  LET tails == {SubSeq(old, i, Len(old)) : i \in 1 .. Len(old) + 1}
  IN  {text \o tail : tail \in tails}
      \union {text \o <<Entry(NotAType, <<>>)>> \o tail : tail \in tails \ {old}}

SaveClose(p) ==
  /\ p \in saving
  /\ \E order \in SetToSeqs(MimeType) :
        file' \in Overlaid(Text(lists[p], order), Lines(file))
  /\ saved' = IF mixed THEN None ELSE lists[p]
  /\ saving' = saving \ {p}
  /\ Forgotten(p)
  /\ UNCHANGED <<installed, mixed, put, changes>>

\* The program is killed between fopen and fclose.
Kill(p) ==
  /\ p \in saving
  /\ saving' = saving \ {p}
  /\ Forgotten(p)
  /\ UNCHANGED <<file, installed, history, changes>>

\* An application is installed or removed, and the folders are refreshed.
Install(a) ==
  /\ changes < MaxChanges
  /\ changes' = changes + 1
  /\ installed' = SymDiff(installed, {a})
  /\ UNCHANGED <<file, lists, saving, history>>

Next ==
  \/ \E p \in Program :
       \/ Load(p)
       \/ Free(p)
       \/ SaveOpen(p)
       \/ SaveClose(p)
       \/ Kill(p)
       \/ \E s \in Section, t \in MimeType :
            \/ Create(p, s, t)
            \/ \E a \in App : Insert(p, s, t, a)
            \/ /\ lists[p] # None
               /\ \E i \in DOMAIN ListOf(lists[p][s], t) :
                    \/ RemoveItem(p, s, t, i)
                    \/ \E j \in DOMAIN ListOf(lists[p][s], t) : SwapItems(p, s, t, i, j)
  \/ \E a \in App : Install(a)

Spec == Init /\ [][Next]_vars

-----------------------------------------------------------------------------
(* Properties *)

\* The variables have their types; a program that saves still has its lists.
TypeOK ==
  /\ installed \subseteq App
  /\ \A p \in Program : lists[p] # None =>
       \A s \in Section :
         /\ DOMAIN lists[p][s] \subseteq MimeType
         /\ \A t \in DOMAIN lists[p][s] : lists[p][s][t] \in Seq(App)
  /\ saving \subseteq {p \in Program : lists[p] # None}
  /\ put \subseteq Association
  /\ changes \in 0 .. MaxChanges

\* The items of list that are among apps, each where it is first.
EachOnce(list, apps) ==
  FlattenSeq([i \in DOMAIN list |->
    IF list[i] \in apps /\ \A j \in 1 .. i - 1 : list[j] # list[i] THEN <<list[i]>> ELSE <<>>])

\* What a program saves, with no other save at the same time, is what the next
\* load finds: the same applications in the same order for every type, of those
\* that are installed by then, each once.  It relates the text that is written
\* to the reader's loop, its handlers and the headers it knows.  Excepted are
\* lists longer than a line of the reader, and the removed applications, whose
\* header ([Removed Applications]) the reader does not know.
SavedIsReloaded ==
  saved # None =>
    \A s \in {"added", "default"}, t \in MimeType :
      LET list == ListOf(saved[s], t)
          reloaded == ListOf(UserLists(file, installed)[s], t)
      IN  Len(list) <= LineRoom => reloaded = EachOnce(list, installed)

\* An application is in a section of a program's lists only if the first text had
\* it there or a program inserted it there: through any number of loads, edits,
\* saves, kills and changes of what is installed, none moves from one section or
\* type to another, not even one that is written under a header the reader does
\* not know.  Two saves at the same time can do that, and are excepted.
SectionsStayApart ==
  ~mixed =>
    \A p \in Program : lists[p] # None =>
      \A s \in Section : \A t \in DOMAIN lists[p][s] : \A i \in DOMAIN lists[p][s][t] :
        [section |-> s, type |-> t, app |-> lists[p][s][t][i]] \in put
=============================================================================
