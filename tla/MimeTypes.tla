------------------------------ MODULE MimeTypes ------------------------------
(***************************************************************************)
(* The lookups of the MIME database, src/src/mime/xdgmime.c, in what it    *)
(* has read from text files (not from a MIME cache): aliases and parents   *)
(* (xdgmimealias.c, xdgmimeparent.c), the type of a file by its name and   *)
(* its content.                                                            *)
(*                                                                         *)
(* A type is a pair <<media, subtype>>; a line of an aliases or a          *)
(* subclasses file is a pair of types.  Where types have aliases with two  *)
(* meanings, bsearch returns any one of them, but for the same list always *)
(* the same: lookups have as a parameter what it returns, an element of    *)
(* AliasLookups.                                                           *)
(***************************************************************************)
EXTENDS MimeGlob, MimeMagic

XDG_MIME_TYPE_UNKNOWN == <<"application", "octet-stream">>
XDG_MIME_TYPE_EMPTY == <<"application", "x-zerosize">>
XDG_MIME_TYPE_TEXTPLAIN == <<"text", "plain">>

-----------------------------------------------------------------------------
(* Aliases and parents *)

AliasLookups(aliases) ==
  LET Meanings(a) == {aliases[i][2] : i \in {j \in DOMAIN aliases : aliases[j][1] = a}}
      names == {aliases[i][1] : i \in DOMAIN aliases}
  IN  {f \in [names -> UNION {Meanings(a) : a \in names}] : \A a \in names : f[a] \in Meanings(a)}

\* Lines of the icons and generic-icons files, a type and a name each, are kept and
\* searched the same way (xdgmimeicon.c).
IconLookups(icons) == AliasLookups(icons)

Unalias(lookup, type) == IF type \in DOMAIN lookup THEN lookup[type] ELSE type

MimeTypeEqual(lookup, a, b) == Unalias(lookup, a) = Unalias(lookup, b)

\* Mutant of Parents: an entry that is there is not extended.
ParentsLast(subclasses, type) ==
  LET i == SelectLastInSubSeq(subclasses, 1, Len(subclasses), LAMBDA line : line[1] = type)
  IN  IF i = 0 THEN <<>> ELSE <<subclasses[i][2]>>

\* The parents of a type, in the order of their lines.
Parents(subclasses, type) ==
  LET lines == SelectSeq(subclasses, LAMBDA line : line[1] = type)
  IN  [i \in DOMAIN lines |-> lines[i][2]]

\* What makes a type a subclass of another one that it does not inherit from.
IsSuperType(type) == type[2] = "*"
SubclassWithoutParents(type, base) ==
  \/ type = base
  \/ IsSuperType(base) /\ type[1] = base[1]
  \/ base = XDG_MIME_TYPE_TEXTPLAIN /\ type[1] = "text"
  \/ base = XDG_MIME_TYPE_UNKNOWN

\* The recursion of _xdg_mime_mime_type_subclass.  It returns "yes" or "no", or
\* it never does: when it comes to the arguments of a call that it is still in,
\* the elements of calls.  Each call replaces aliases, of the base as well.
RECURSIVE Subclass(_, _, _, _, _)
Subclass(subclasses, lookup, mime, base, calls) ==
  LET umime == Unalias(lookup, mime)
      ubase == Unalias(lookup, base)
      parents == Parents(subclasses, umime)
      Answer(i) ==
        Subclass(subclasses, lookup, parents[i], ubase, calls \union {<<mime, base>>})
      \* The loop ends with the first parent that does not say no.
      decides == {i \in DOMAIN parents : Answer(i) # "no"}
      first == CHOOSE i \in decides : \A j \in decides : i <= j
  IN  IF <<mime, base>> \in calls THEN "endless"
      ELSE IF SubclassWithoutParents(umime, ubase) THEN "yes"
      ELSE IF decides = {} THEN "no" ELSE Answer(first)

MimeTypeSubclass(subclasses, lookup, mime, base) == Subclass(subclasses, lookup, mime, base, {})

-----------------------------------------------------------------------------
(* The type of a content *)

None == <<>>

\* _xdg_binary_or_text_fallback
BinaryOrTextFallback(data) ==
  IF \E i \in DOMAIN data : i <= 32 /\ data[i] < 32 /\ data[i] \notin {9, 10, 13}
  THEN XDG_MIME_TYPE_UNKNOWN ELSE XDG_MIME_TYPE_TEXTPLAIN

\* _xdg_mime_magic_lookup_data: the first match, or else the last candidate that
\* was not the type of a magic section before.
MagicLookupData(matches, lookup, data, candidates) ==
  LET match == SelectInSeq(matches, LAMBDA m : Matches(m, data))
      left == SelectSeq(candidates,
                LAMBDA t : \A i \in DOMAIN matches : ~MimeTypeEqual(lookup, t, matches[i].type))
  IN  IF match # 0 THEN matches[match].type
      ELSE IF left = <<>> THEN None ELSE left[Len(left)]

TypeForData(matches, lookup, data) ==
  IF data = <<>> THEN XDG_MIME_TYPE_EMPTY
  ELSE LET type == MagicLookupData(matches, lookup, data, <<>>)
       IN  IF type = None THEN BinaryOrTextFallback(data) ELSE type

-----------------------------------------------------------------------------
(* The type of a file *)

\* What stat, fopen and fread make of a file.
File(kind, data) == [kind |-> kind, data |-> data]

\* The candidates by name, of which there is room for five.
NamedTypes(hash, name) == LookupFileName(hash, name, 5)

\* What xdg_mime_get_mime_type_for_file reads of a file.
BytesRead(matches, data) ==
  IF Len(data) <= MaxExtent(matches) THEN data ELSE SubSeq(data, 1, MaxExtent(matches))

\* The answers for a file with these candidates.  The fallback looks at the bytes
\* when their memory is freed: it may find anything there.
TypesForCandidates(matches, lookup, candidates, file) ==
  IF Len(candidates) = 1 THEN {candidates[1]}
  ELSE IF file.kind # "regular" THEN {XDG_MIME_TYPE_UNKNOWN}
  ELSE LET bytes == BytesRead(matches, file.data)
           type == MagicLookupData(matches, lookup, bytes, candidates)
       IN  IF type # None THEN {type}
           ELSE IF bytes = <<>> THEN {XDG_MIME_TYPE_TEXTPLAIN}
           ELSE {XDG_MIME_TYPE_TEXTPLAIN, XDG_MIME_TYPE_UNKNOWN}

TypesForFile(hash, matches, lookup, name, file) ==
  UNION {TypesForCandidates(matches, lookup, candidates, file) :
           candidates \in NamedTypes(hash, name)}

\* xdg_mime_get_mime_type_from_file_name
TypesFromFileName(hash, name) ==
  {IF types = <<>> THEN XDG_MIME_TYPE_UNKNOWN ELSE types[1] : types \in LookupFileName(hash, name, 1)}
=============================================================================
