------------------------------- MODULE MimeMagic -------------------------------
(***************************************************************************)
(* MIME types by content, src/src/mime/xdgmimemagic.c: the reader of magic *)
(* files and the comparison of a file's content with what it has read.     *)
(*                                                                         *)
(* A line of a magic file is one of                                        *)
(*   a header "[priority:type]" (closed, or without its "]"; priority -1   *)
(*     where there is no number),                                          *)
(*   a matchlet, with an offset, a value, a mask and so on,                *)
(*   a blank line, or junk.                                                *)
(* Contents and values are sequences of bytes; a mask tells which bytes of *)
(* the value count, and is <<>> for none.  Values are at most one word     *)
(* (swapping a longer one writes behind it), have no newlines, and the     *)
(* file does not end within a line.                                        *)
(***************************************************************************)
EXTENDS Integers, Sequences, SequencesExt, TLC

HeaderLine(priority, type, closed) ==
  [kind |-> "header", priority |-> priority, type |-> type, closed |-> closed]
MatchletLine(indent, offset, value, mask, word_size, range_length) ==
  [kind |-> "matchlet", indent |-> indent, offset |-> offset, value |-> value, mask |-> mask,
   word_size |-> word_size, range_length |-> range_length]
BlankLine == [kind |-> "blank"]
JunkLine == [kind |-> "junk"]

-----------------------------------------------------------------------------
(* The reader *)

\* The big-endian words of the file become little-endian.
WholeWords(line) == line.word_size \in {0, 1} \/ Len(line.value) % line.word_size = 0
Swapped(line) ==
  IF line.word_size \in {0, 1} THEN line
  ELSE [line EXCEPT !.value = Reverse(@), !.mask = Reverse(@)]

\* Mutant of Mirrored: the matchlets stay in the order they were pushed in.
MirroredNot(match) == match

\* Matchlets are pushed at the front of their list, which is turned round when
\* the section ends.
Mirrored(match) == [match EXCEPT !.matchlets = Reverse(@)]

\* The list is in the order of priorities, and of reading where they are equal.
InsertMatch(list, match) ==
  SelectSeq(list, LAMBDA m : m.priority >= match.priority) \o <<match>>
  \o SelectSeq(list, LAMBDA m : m.priority < match.priority)

\* The reader: its state, the section it is in, and the list.  In state "error"
\* the line after the one with the error is skipped: parse_error reads to a
\* newline, and the one of that line had been read before.
NoMatch == [priority |-> -1, type |-> <<>>, matchlets |-> <<>>]
Begin == [state |-> "section", match |-> NoMatch, list |-> <<>>]

SectionEnds(reader) ==
  IF reader.state = "magic"
  THEN [reader EXCEPT !.list = InsertMatch(@, Mirrored(reader.match)), !.state = "section"]
  ELSE reader

ParseHeader(reader, line) ==
  IF line.kind = "header" /\ line.priority # -1 /\ line.closed
  THEN [reader EXCEPT !.state = "magic",
          !.match = [priority |-> line.priority, type |-> line.type, matchlets |-> <<>>]]
  ELSE [reader EXCEPT !.state =
          IF line.kind = "blank" \/ (line.kind = "header" /\ line.priority # -1)
          THEN "error" ELSE "section"]

ParseMagicLine(reader, line) ==
  CASE line.kind = "header" -> ParseHeader(SectionEnds(reader), line)
    [] line.kind = "blank" -> reader
    [] line.kind = "matchlet" ->
         IF WholeWords(line)
         THEN [reader EXCEPT !.match.matchlets = <<Swapped(line)>> \o @]
         ELSE [reader EXCEPT !.state = "error"]
    [] line.kind = "junk" -> [reader EXCEPT !.state = "section"]

ReadMagicLine(reader, line) ==
  CASE reader.state = "section" -> ParseHeader(reader, line)
    [] reader.state = "magic" -> ParseMagicLine(reader, line)
    [] reader.state = "error" -> [reader EXCEPT !.state = "section"]

\* The list of matches.
ReadMagic(lines) == SectionEnds(FoldLeft(ReadMagicLine, Begin, lines)).list

\* Mutant of Extent: the range is not counted.
ExtentAtOffset(matchlet) == Len(matchlet.value) + matchlet.offset

Extent(matchlet) == Len(matchlet.value) + matchlet.offset + matchlet.range_length

\* How much of a file has to be read.
MaxExtent(list) ==
  LET matchlets == FlattenSeq([i \in DOMAIN list |-> list[i].matchlets])
  IN  FoldLeft(LAMBDA m, matchlet : IF m < Extent(matchlet) THEN Extent(matchlet) ELSE m,
               0, matchlets)

-----------------------------------------------------------------------------
(* The comparison *)

CompareToData(matchlet, data) ==
  \E i \in matchlet.offset .. matchlet.offset + matchlet.range_length - 1 :
    /\ i + Len(matchlet.value) <= Len(data)
    /\ \A j \in DOMAIN matchlet.value :
         (matchlet.mask = <<>> \/ matchlet.mask[j]) => matchlet.value[j] = data[i + j]

\* The matchlets behind the ones that are deeper than indent.
SkipDeeper(matchlets, indent) ==
  LET i == SelectInSeq(matchlets, LAMBDA m : m.indent <= indent)
  IN  IF i = 0 THEN <<>> ELSE SubSeq(matchlets, i, Len(matchlets))

RECURSIVE CompareLevel(_, _, _)
CompareLevel(matchlets, data, indent) ==
  /\ matchlets # <<>> /\ Head(matchlets).indent = indent
  /\ LET next == Tail(matchlets)
     IN  \/ /\ CompareToData(Head(matchlets), data)
            /\ \/ next = <<>>
               \/ Head(next).indent <= indent
               \/ CompareLevel(next, data, indent + 1)
         \/ CompareLevel(SkipDeeper(next, indent), data, indent)

Matches(match, data) == CompareLevel(match.matchlets, data, 0)
=============================================================================
