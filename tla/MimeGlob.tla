------------------------------- MODULE MimeGlob -------------------------------
(***************************************************************************)
(* MIME types by file name, src/src/mime/xdgmimeglob.c: globs are kept in  *)
(* a list of literal names, a tree of reversed suffixes ("*.c"), and a     *)
(* list of all others, and a name is looked up in this order.              *)
(*                                                                         *)
(* A text is a sequence of characters, a character is its code point.  A   *)
(* line of a globs file that the reader does not skip is a record          *)
(*   [weight, type, glob, case_sensitive].                                 *)
(* The glob "*" and the empty name, with which the code reads outside of   *)
(* its arrays, are left out.                                               *)
(***************************************************************************)
EXTENDS Integers, Sequences, SequencesExt, TLC

Star == 42
Special == {Star, 63, 91, 92}   \* * ? [ \

\* glibc's fnmatch, for globs with * and ? as their only special characters.
RECURSIVE Fnmatch(_, _)
Fnmatch(glob, name) ==
  IF glob = <<>> THEN name = <<>>
  ELSE IF Head(glob) = Star
  THEN Fnmatch(Tail(glob), name) \/ (name # <<>> /\ Fnmatch(glob, Tail(name)))
  ELSE /\ name # <<>>
       /\ Head(glob) \in {63, Head(name)}
       /\ Fnmatch(Tail(glob), Tail(name))

\* char is signed and xdg_unichar_t is not, so that a byte above 127 becomes a
\* number above all code points.  Two bytes are enough for the texts modelled.
HighByte(b) == 16777216 + b
Bytes(name) ==
  FlattenSeq([i \in DOMAIN name |->
    IF name[i] < 128 THEN <<name[i]>>
    ELSE <<HighByte(192 + (name[i] \div 64)), HighByte(128 + (name[i] % 64))>>])

LowerCase(name) == [i \in DOMAIN name |-> IF name[i] \in 65 .. 90 THEN name[i] + 32 ELSE name[i]]

-----------------------------------------------------------------------------
(* The lists and the tree *)

DetermineType(glob) ==
  IF \E i \in DOMAIN glob : glob[i] \in Special /\ (i = 1 => glob[i] # Star) THEN "full"
  ELSE IF Head(glob) = Star THEN "simple"
  ELSE "literal"

\* _xdg_glob_list_append: a second weight for a glob and a type is ignored.
ListAppend(list, line) ==
  IF \E i \in DOMAIN list : list[i].glob = line.glob /\ list[i].type = line.type
  THEN list
  ELSE Append(list, line)

\* A node's own line is <<>> where mime_type is NULL.
Node(character, own) == [character |-> character, own |-> own, child |-> <<>>]

\* The children with character 0 are not characters of a name: they hold further
\* lines for the glob that ends at their parent, the last one first.
Further(node) == SelectSeq(node.child, LAMBDA n : n.character = 0)

\* Mutant of WithLine: a second type for a glob replaces the first.
WithLineReplaced(node, line) == [node EXCEPT !.own = <<line>>]

WithLine(node, line) ==
  IF node.own = <<>> THEN [node EXCEPT !.own = <<line>>]
  ELSE IF \E n \in {node} \union ToSet(Further(node)) : n.own[1].type = line.type THEN node
  ELSE [node EXCEPT !.child = <<Node(0, <<line>>)>> \o @]

\* _xdg_glob_hash_insert_ucs4: siblings are in the order of their characters.
RECURSIVE Insert(_, _, _)
Insert(siblings, text, line) ==
  LET Smaller(n) == n.character < Head(text)
      Equal(n) == n.character = Head(text)
      Larger(n) == n.character > Head(text)
      equal == SelectSeq(siblings, Equal)
      node == IF equal = <<>> THEN Node(Head(text), <<>>) ELSE Head(equal)
  IN  SelectSeq(siblings, Smaller)
      \o <<IF Len(text) = 1 THEN WithLine(node, line)
           ELSE [node EXCEPT !.child = Insert(@, Tail(text), line)]>>
      \o SelectSeq(siblings, Larger)

NoGlobs == [literal |-> <<>>, simple |-> <<>>, full |-> <<>>]

AppendGlob(hash, line) ==
  CASE DetermineType(line.glob) = "literal" -> [hash EXCEPT !.literal = ListAppend(@, line)]
    [] DetermineType(line.glob) = "simple" ->
         [hash EXCEPT !.simple = Insert(@, Reverse(Tail(line.glob)), line)]
    [] DetermineType(line.glob) = "full" -> [hash EXCEPT !.full = ListAppend(@, line)]

\* The older file format, globs, has neither weights nor flags.
ReadGlobLine(version_two, line) ==
  IF version_two THEN line ELSE [line EXCEPT !.weight = 50, !.case_sensitive = FALSE]

ReadGlobs(lines, version_two) ==
  FoldLeft(LAMBDA hash, line : AppendGlob(hash, ReadGlobLine(version_two, line)), NoGlobs, lines)

-----------------------------------------------------------------------------
(* Lookups *)

Room == 10   \* the size of the array mimes

\* The lines at a node, for a check with or without regard to the case.
LinesAt(node, case_sensitive_check) ==
  LET lines == SelectSeq(node.own \o FlattenSeq([i \in DOMAIN Further(node) |-> Further(node)[i].own]),
                         LAMBDA l : case_sensitive_check \/ ~l.case_sensitive)
  IN  IF Len(lines) <= Room THEN lines ELSE SubSeq(lines, 1, Room)

\* _xdg_glob_hash_node_lookup_file_name; bytes is what is left of the name, from
\* its end.
RECURSIVE LookupNode(_, _, _)
LookupNode(siblings, bytes, case_sensitive_check) ==
  LET equal == SelectSeq(siblings, LAMBDA n : n.character = Head(bytes))
      deeper == IF Len(bytes) = 1 THEN <<>>
                ELSE LookupNode(equal[1].child, Tail(bytes), case_sensitive_check)
  IN  IF equal = <<>> THEN <<>>
      ELSE IF deeper # <<>> THEN deeper
      ELSE LinesAt(equal[1], case_sensitive_check)

\* What _xdg_glob_hash_lookup_file_name finds before it sorts.
Found(hash, name, n_mime_types) ==
  LET lower_case == LowerCase(name)
      exact == SelectSeq(hash.literal, LAMBDA l : l.glob = name)
      lower == SelectSeq(hash.literal, LAMBDA l : ~l.case_sensitive /\ l.glob = lower_case)
      suffixLower == LookupNode(hash.simple, Reverse(Bytes(lower_case)), FALSE)
      suffix == LookupNode(hash.simple, Reverse(Bytes(name)), TRUE)
      full == SelectSeq(hash.full, LAMBDA l : Fnmatch(l.glob, name))
  IN  IF exact # <<>> THEN <<Head(exact)>>
      ELSE IF lower # <<>> THEN <<Head(lower)>>
      ELSE IF suffixLower # <<>> THEN suffixLower
      ELSE IF suffix # <<>> THEN suffix
      ELSE IF Len(full) <= n_mime_types THEN full
      ELSE SubSeq(full, 1, n_mime_types)

\* The orders that qsort may leave lines of equal weight in.
SortedByWeight(lines) ==
  {sorted \in {[i \in DOMAIN lines |-> lines[p[i]]] : p \in Permutations(DOMAIN lines)} :
     \A i, j \in DOMAIN lines : i < j => sorted[i].weight >= sorted[j].weight}

\* The answers of _xdg_glob_hash_lookup_file_name: sequences of types.
LookupFileName(hash, name, n_mime_types) ==
  LET Types(lines) == [i \in 1 .. (IF Len(lines) < n_mime_types THEN Len(lines) ELSE n_mime_types)
                         |-> lines[i].type]
  IN  {Types(lines) : lines \in SortedByWeight(Found(hash, name, n_mime_types))}
=============================================================================
