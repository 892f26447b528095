------------------------------- MODULE ListFile -------------------------------
(***************************************************************************)
(* Lists of associations, src/src/desktop/xdgapp.c: how the text of a list *)
(* file (the *.item files of a folder, the user's mimeapps.list) becomes a *)
(* list of applications for each MIME type.                                *)
(*                                                                         *)
(* A text is a sequence of lines: the header of a group, or an entry "key= *)
(* value;value;".  Comments and empty lines, which every reader skips, are *)
(* left out.  fgets reads at most READ_FROM_FILE_BUFFER_SIZE - 1 bytes, so *)
(* an entry with more than LineRoom values is cut: the value at the end of *)
(* the buffer loses its end, and what is left is taken for another line,   *)
(* which has no "=" and is skipped.                                        *)
(***************************************************************************)
EXTENDS Integers, Sequences, SequencesExt, TLC

CONSTANTS MimeType,   \* the keys of the form type/subtype
          NotAType,   \* a key of another form
          App,        \* names of desktop files
          CutName,    \* what is left of a value that the buffer cuts
          LineRoom    \* the values that fit in the buffer

ASSUME LineRoomAssumption == LineRoom \in Nat

Section == {"added", "default", "removed"}

\* The group names _xdg_app_read_list_file knows; any other leaves no handler.
SectionOf(header) ==
  CASE header = "Added Associations" -> "added"
    [] header = "Default Applications" -> "default"
    [] header = "Removed Associations" -> "removed"
    [] OTHER -> "none"

Header(h) == [kind |-> "header", header |-> h]
Entry(t, apps) == [kind |-> "entry", type |-> t, values |-> apps]

\* The values that the reader sees of an entry.
Chunk(values) ==
  IF Len(values) <= LineRoom THEN values
  ELSE SubSeq(values, 1, LineRoom) \o <<CutName>>

IsHeader(line) == line.kind = "header"

\* Mutant of HandlerAt: handler is not reset at a header it does not know.
HandlerKept(lines, i) ==
  LET KnownHeader(line) == IsHeader(line) /\ SectionOf(line.header) # "none"
      h == SelectLastInSubSeq(lines, 1, i, KnownHeader)
  IN  IF h = 0 THEN "none" ELSE SectionOf(lines[h].header)

\* The section whose handler is set when line i is read.
HandlerAt(lines, i) ==
  LET h == SelectLastInSubSeq(lines, 1, i, IsHeader)
  IN  IF h = 0 THEN "none" ELSE SectionOf(lines[h].header)

\* The loop of _xdg_app_read_list_file ends at an entry without a handler.
Reached(lines, i) ==
  \A j \in 1 .. i : lines[j].kind = "entry" => HandlerAt(lines, j) # "none"

\* What the loop hands over, application by application: the entries whose
\* key is a MIME type (_xdg_mime_sub_type_add returns NULL for the others).
Mentions(lines) ==
  FlattenSeq([i \in 1 .. Len(lines) |->
    IF lines[i].kind = "entry" /\ lines[i].type \in MimeType /\ Reached(lines, i)
    THEN LET values == Chunk(lines[i].values)
         IN  [j \in 1 .. Len(values) |->
                [section |-> HandlerAt(lines, i), type |-> lines[i].type, app |-> values[j]]]
    ELSE <<>>])

-----------------------------------------------------------------------------
(* The handlers *)

Without(list, a) == SelectSeq(list, LAMBDA b : b # a)

HandleDefault(list, a) == IF Contains(list, a) THEN list ELSE Append(list, a)

\* Mutant of HandleAdded: no _xdg_list_remove_if.
HandleAddedTwice(list, a) == <<a>> \o list

HandleAdded(list, a) == <<a>> \o Without(list, a)

HandleRemoved(list, a) == Without(list, a)

Handle(section, list, a) ==
  CASE section = "added" -> HandleAdded(list, a)
    [] section = "default" -> HandleDefault(list, a)
    [] section = "removed" -> HandleRemoved(list, a)

\* The list of a MIME type in a tree; the types of the tree are its domain.
ListOf(tree, t) == IF t \in DOMAIN tree THEN tree[t] ELSE <<>>

NoTypes == [t \in {} |-> <<>>]

\* A folder: one tree, each section with its own handler.
FolderLists(lines) ==
  FoldLeft(LAMBDA tree, m : (m.type :> Handle(m.section, ListOf(tree, m.type), m.app)) @@ tree,
           NoTypes, Mentions(lines))

\* The user's file: a tree for each section, and only what a folder has a
\* desktop file for.  An entry makes its type known even if it lists none.
UserTypes(lines, section) ==
  {lines[i].type : i \in {j \in 1 .. Len(lines) :
     /\ lines[j].kind = "entry" /\ lines[j].type \in MimeType
     /\ Reached(lines, j) /\ HandlerAt(lines, j) = section}}

\* What a mention does to the list of type t in section s.
Kept(s, t, installed, list, m) ==
  IF m.section = s /\ m.type = t /\ m.app \in installed THEN HandleDefault(list, m.app) ELSE list

Collected(mentions, s, t, installed) ==
  FoldLeft(LAMBDA list, m : Kept(s, t, installed, list, m), <<>>, mentions)

UserLists(lines, installed) ==
  [s \in Section |-> [t \in UserTypes(lines, s) |->
     Collected(Mentions(lines), s, t, installed)]]
=============================================================================
