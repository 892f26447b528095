------------------------------- MODULE ThemeFile -------------------------------
(***************************************************************************)
(* Icon themes, src/src/themes/xdgtheme.c: how the lines of index.theme    *)
(* files become themes, and which directories of a theme suit a request.   *)
(*                                                                         *)
(* A text is a sequence of lines: the header of a group (Null where there  *)
(* is no "]"), or an entry with its key and the values between the ",".    *)
(* Lines that every reader skips are left out.  Numbers are numbers.       *)
(* fgets reads at most READ_FROM_FILE_BUFFER_SIZE - 1 bytes, so an entry   *)
(* with more than LineRoom values is cut: the value at the end of the      *)
(* buffer loses its end, and what is left is taken for another line, which *)
(* has no "=" and is skipped.                                              *)
(***************************************************************************)
EXTENDS Integers, Sequences, SequencesExt, FiniteSetsExt

CONSTANTS CutName,    \* what is left of a value that the buffer cuts
          LineRoom    \* the values that fit in the buffer

ASSUME LineRoomAssumption == LineRoom \in Nat

None == "none"
Null == ""   \* a header without "]"; the group that is NULL

Header(h) == [kind |-> "header", header |-> h]
Entry(key, values) == [kind |-> "entry", key |-> key, values |-> values]
IsHeader(line) == line.kind = "header"

\* The values that the reader sees of an entry.
Chunk(values) ==
  IF Len(values) <= LineRoom THEN values
  ELSE SubSeq(values, 1, LineRoom) \o <<CutName>>

-----------------------------------------------------------------------------
(* Reading *)

\* What a key of a function stands for, and nothing where it is not there.
At(map, key) == IF key \in DOMAIN map THEN map[key] ELSE <<>>

Bare == [groups |-> <<>>, parents |-> <<>>]

\* _xdg_theme_map_item_add: a theme that others inherit from is there from then
\* on, with or without files.
WithThemes(themes, names) ==
  [n \in DOMAIN themes \union names |-> IF n \in DOMAIN themes THEN themes[n] ELSE Bare]

\* _xdg_theme_group_map_item_add
WithGroup(theme, g) ==
  LET groups == theme.groups
  IN  [theme EXCEPT
         !.groups = [h \in DOMAIN groups \union {g} |-> IF h \in DOMAIN groups THEN groups[h] ELSE <<>>]]

\* _xdg_theme_group_entry_map_item_add, and what its value list has then.
WithValues(group, key, values) ==
  [k \in DOMAIN group \union {key} |-> IF k = key THEN At(group, key) \o values ELSE group[k]]

\* Mutant of Inherited: a file read later replaces the parents.
InheritedAgain(parents, values) == values

Inherited(parents, values) == parents \o values

\* _xdg_theme_group_read_entry.  Inherits counts in whatever group it is.
ParentsNamed(line) == IF line.key = "Inherits" THEN ToSet(Chunk(line.values)) ELSE {}

WithEntry(theme, g, line) ==
  [groups |-> [theme.groups EXCEPT ![g] = WithValues(@, line.key, Chunk(line.values))],
   parents |-> IF line.key = "Inherits" THEN Inherited(theme.parents, Chunk(line.values))
               ELSE theme.parents]

ReadHeader(reader, header) ==
  [reader EXCEPT
     !.group = header,
     !.themes[reader.name] = IF header = Null THEN @ ELSE WithGroup(@, header)]

ReadEntry(reader, line) ==
  LET read == [reader.themes EXCEPT ![reader.name] = WithEntry(@, reader.group, line)]
  IN  [reader EXCEPT !.themes = WithThemes(read, ParentsNamed(line))]

\* One turn of the loop of _xdg_applications_read_theme_file.
ReadLine(reader, line) ==
  IF reader.state = "closed" THEN reader
  ELSE IF IsHeader(line) THEN ReadHeader(reader, line.header)
  ELSE IF reader.group = Null THEN [reader EXCEPT !.state = "closed"]
  ELSE ReadEntry(reader, line)

Opened(themes, name) ==
  [themes |-> WithThemes(themes, {name}), name |-> name, group |-> Null, state |-> "open"]

\* _xdg_applications_read_theme_file; reader[i]: after i lines.  (The themes that
\* were there are asked for before any line is: otherwise TLC would read the files
\* before this one within the recursion over its lines, too deep for its stack.)
ReadThemeFile(themes, name, lines) ==
  LET reader[i \in 0..Len(lines)] ==
        IF i = 0 THEN Opened(themes, name) ELSE ReadLine(reader[i - 1], lines[i])
  IN  IF name \in DOMAIN themes /\ lines = <<>> THEN themes ELSE reader[Len(lines)].themes

-----------------------------------------------------------------------------
(* Directories that suit a request *)

FirstValue(group, key) == IF At(group, key) = <<>> THEN None ELSE Head(group[key])
Number(group, key, default) == IF At(group, key) = <<>> THEN default ELSE Head(group[key])

IsSized(group) ==
  /\ FirstValue(group, "Type") \in {"Threshold", "Fixed", "Scaled"}
  /\ At(group, "Size") # <<>>

\* The sizes a directory is for, and those from which it is told how far off
\* another size is.
Nearest(group) ==
  LET size == Number(group, "Size", 0)
  IN  IF FirstValue(group, "Type") = "Fixed" THEN [low |-> size, high |-> size]
      ELSE [low |-> Number(group, "MinSize", size), high |-> Number(group, "MaxSize", size)]

Sizes(group) ==
  LET size == Number(group, "Size", 0)
      threshold == Number(group, "Threshold", 2)
  IN  IF FirstValue(group, "Type") = "Threshold"
      THEN [low |-> size - threshold, high |-> size + threshold]
      ELSE Nearest(group)

MatchesSize(group, size) == size >= Sizes(group).low /\ size <= Sizes(group).high

\* Where MinSize and MaxSize of a Threshold are beyond the size asked for, this
\* is negative.
Distance(group, size) ==
  IF size < Sizes(group).low THEN Nearest(group).low - size ELSE size - Nearest(group).high

\* The sub directories a theme lists, and the places of those with icons of this
\* context.
MainGroup == "Icon Theme"
Listed(theme) == At(At(theme.groups, MainGroup), "Directories")
GroupAt(theme, i) == theme.groups[Listed(theme)[i]]

Directories(theme, context) ==
  {i \in DOMAIN Listed(theme) : /\ Listed(theme)[i] \in DOMAIN theme.groups
                                /\ FirstValue(GroupAt(theme, i), "Context") = context
                                /\ IsSized(GroupAt(theme, i))}

\* The list "directories" of _xdg_mime_lookup_icon
Matching(theme, size, context) ==
  {i \in Directories(theme, context) : MatchesSize(GroupAt(theme, i), size)}

\* closestDirName: of the others, the first of those that are least far off; none
\* where there is no other.
Closest(theme, size, context) ==
  LET others == Directories(theme, context) \ Matching(theme, size, context)
      Off(i) == Distance(GroupAt(theme, i), size)
  IN  {i \in others : \A j \in others : Off(i) < Off(j) \/ (Off(i) = Off(j) /\ i <= j)}
=============================================================================
