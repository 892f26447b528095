------------------------------- MODULE MimeCache -------------------------------
(***************************************************************************)
(* The lookups of the MIME database where a directory has a MIME cache,    *)
(* src/src/mime/xdgmimecache.c, with the branches of xdgmime.c that lead   *)
(* there.  A directory with a cache is not read otherwise, and while one   *)
(* has a cache nothing but the caches is looked at.                        *)
(*                                                                         *)
(* A cache is what update-mime-database makes of the files of a directory, *)
(* as far as the lookups tell (Image).  caches is a sequence of them, in   *)
(* the order of the directories.                                           *)
(***************************************************************************)
EXTENDS MimeTypes

\* What a lookup returns that never ends.
Endless == "endless"

-----------------------------------------------------------------------------
(* The cache of a directory *)

\* The tree of the suffixes: what is left of them, from the end.
RECURSIVE Tree(_)
Tree(endings) ==
  [c \in {Head(e.rest) : e \in ToSet(endings)} |->
     LET here == SelectSeq(endings, LAMBDA e : Head(e.rest) = c)
         ends == SelectSeq(here, LAMBDA e : Len(e.rest) = 1)
         more == SelectSeq(here, LAMBDA e : Len(e.rest) > 1)
     IN  [lines |-> [i \in DOMAIN ends |-> ends[i].line],
          child |-> Tree([i \in DOMAIN more |-> [more[i] EXCEPT !.rest = Tail(@)]])]]

\* Of a literal name there is one type.
Image(globs, magic, lookup, subclasses, icons) ==
  LET Of(kind) == SelectSeq(globs, LAMBDA l : DetermineType(l.glob) = kind)
      Place(g) == SelectInSeq(globs, LAMBDA l : l.glob = g)
  IN  [literals |-> [g \in {l.glob : l \in ToSet(Of("literal"))} |-> globs[Place(g)]],
       suffixes |-> Tree([i \in DOMAIN Of("simple") |->
                            [rest |-> Reverse(Tail(Of("simple")[i].glob)), line |-> Of("simple")[i]]]),
       globs |-> Of("full"),
       magic |-> ReadMagic(magic),
       aliases |-> lookup, parents |-> subclasses, icons |-> icons]

-----------------------------------------------------------------------------
(* Types by name *)

\* The result of the first cache that has one.
FirstResult(results) ==
  LET i == SelectInSeq(results, LAMBDA r : r # <<>>)
  IN  IF i = 0 THEN <<>> ELSE results[i]

\* cache_glob_lookup_literal: a name that is there but does not count because of
\* its case ends the search through the caches, too.
LookupLiteral(caches, name, case_sensitive_check) ==
  LET i == SelectInSeq(caches, LAMBDA c : name \in DOMAIN c.literals)
      line == caches[i].literals[name]
  IN  IF i # 0 /\ (case_sensitive_check \/ ~line.case_sensitive) THEN <<line>> ELSE <<>>

\* Mutant of Counts: the flag is taken for its opposite.
CountsOpposite(line, case_sensitive_check) == case_sensitive_check \/ line.case_sensitive

Counts(line, case_sensitive_check) == case_sensitive_check \/ ~line.case_sensitive

UpTo(n, seq) == IF Len(seq) <= n THEN seq ELSE SubSeq(seq, 1, n)

\* cache_glob_node_lookup_suffix
RECURSIVE LookupSuffix(_, _, _)
LookupSuffix(tree, bytes, case_sensitive_check) ==
  IF Head(bytes) \notin DOMAIN tree THEN <<>>
  ELSE LET node == tree[Head(bytes)]
           deeper == IF Len(bytes) = 1 THEN <<>>
                     ELSE LookupSuffix(node.child, Tail(bytes), case_sensitive_check)
       IN  IF deeper # <<>> THEN deeper
           ELSE UpTo(Room, SelectSeq(node.lines, LAMBDA l : Counts(l, case_sensitive_check)))

LookupSuffixes(caches, name, case_sensitive_check) ==
  FirstResult([i \in DOMAIN caches |->
    LookupSuffix(caches[i].suffixes, Reverse(Bytes(name)), case_sensitive_check)])

LookupFnmatch(caches, name, case_sensitive_check) ==
  FirstResult([i \in DOMAIN caches |->
    UpTo(Room, SelectSeq(caches[i].globs,
                         LAMBDA l : Counts(l, case_sensitive_check) /\ Fnmatch(l.glob, name)))])

\* cache_glob_lookup_file_name: the first of its steps that has a result.
CachedLookupFileName(caches, name, n_mime_types) ==
  LET lower_case == LowerCase(name)
      found == FirstResult(<<LookupLiteral(caches, lower_case, FALSE), LookupLiteral(caches, name, TRUE),
                             LookupSuffixes(caches, lower_case, FALSE), LookupSuffixes(caches, name, TRUE),
                             LookupFnmatch(caches, lower_case, FALSE), LookupFnmatch(caches, name, TRUE)>>)
  IN  {UpTo(n_mime_types, [i \in DOMAIN lines |-> lines[i].type]) : lines \in SortedByWeight(found)}

\* _xdg_mime_cache_get_mime_type_from_file_name
CachedTypesFromFileName(caches, name) ==
  {IF types = <<>> THEN XDG_MIME_TYPE_UNKNOWN ELSE types[1] : types \in CachedLookupFileName(caches, name, 1)}

-----------------------------------------------------------------------------
(* Aliases, parents, icons *)

\* The first cache that has an alias counts, ...
CachedAliases(caches) == FoldRight(LAMBDA c, later : c.aliases @@ later, caches, <<>>)

CachedIcons(caches) == FoldRight(LAMBDA c, later : c.icons @@ later, caches, <<>>)

\* ... but the parents of a type are those in all caches.
CachedParents(caches) == FlattenSeq([i \in DOMAIN caches |-> caches[i].parents])

CachedSubclass(caches, mime, base) ==
  MimeTypeSubclass(CachedParents(caches), CachedAliases(caches), mime, base)

\* xdg_mime_list_mime_parents without and with caches, which name each of them once
MimeParents(subclasses, lookup, mime) == Parents(subclasses, Unalias(lookup, mime))

MostParents == 127
CachedMimeParents(caches, mime) ==
  LET all == MimeParents(CachedParents(caches), CachedAliases(caches), mime)
      firsts == SelectSeq([i \in DOMAIN all |-> i],
                          LAMBDA i : \A j \in 1..(i - 1) : all[j] # all[i])
  IN  UpTo(MostParents, [k \in DOMAIN firsts |-> all[firsts[k]]])

-----------------------------------------------------------------------------
(* Types by content *)

\* The matchlets below one are an array; in it each is followed through its own.
Below(matchlets, i) ==
  {j \in (i + 1)..Len(matchlets) :
     /\ matchlets[j].indent = matchlets[i].indent + 1
     /\ \A k \in (i + 1)..j : matchlets[k].indent > matchlets[i].indent}

RECURSIVE MatchletCompare(_, _, _)
MatchletCompare(matchlets, i, data) ==
  /\ CompareToData(matchlets[i], data)
  /\ \/ Below(matchlets, i) = {}
     \/ \E j \in Below(matchlets, i) : MatchletCompare(matchlets, j, data)

CachedMatches(match, data) ==
  \E i \in DOMAIN match.matchlets :
    match.matchlets[i].indent = 0 /\ MatchletCompare(match.matchlets, i, data)

\* cache_magic_lookup_data: the first section of a cache that matches, ...
FirstMatch(cache, data) == SelectInSeq(cache.magic, LAMBDA m : CachedMatches(m, data))

Priority(cache, data) ==
  LET match == FirstMatch(cache, data) IN IF match = 0 THEN 0 ELSE cache.magic[match].priority

\* Mutant of RuledOut: no candidate is.
RuledOutNone(caches, data) == {}

\* ... and the types of the sections before, which do not match.
RuledOut(caches, data) ==
  UNION {LET match == FirstMatch(c, data)
             passed == IF match = 0 THEN c.magic ELSE SubSeq(c.magic, 1, match - 1)
         IN  {m.type : m \in ToSet(passed)} : c \in ToSet(caches)}

\* Mutant of Decides: of equal priorities the last cache counts.
DecidesLast(caches, data, i) ==
  /\ Priority(caches[i], data) > 0
  /\ \A j \in DOMAIN caches :
       /\ Priority(caches[j], data) <= Priority(caches[i], data)
       /\ j > i => Priority(caches[j], data) < Priority(caches[i], data)

\* The first cache with the highest priority decides; priority 0 never does.
Decides(caches, data, i) ==
  /\ Priority(caches[i], data) > 0
  /\ \A j \in DOMAIN caches :
       /\ Priority(caches[j], data) <= Priority(caches[i], data)
       /\ j < i => Priority(caches[j], data) < Priority(caches[i], data)

CachedMagic(caches, data) ==
  LET deciding == {i \in DOMAIN caches : Decides(caches, data, i)}
  IN  IF deciding = {} THEN None
      ELSE LET c == caches[CHOOSE i \in deciding : TRUE] IN c.magic[FirstMatch(c, data)].type

\* The candidates that no section rules out.
CandidatesLeft(caches, data, candidates) ==
  SelectSeq(candidates, LAMBDA t : \A out \in RuledOut(caches, data) :
                                     ~MimeTypeEqual(CachedAliases(caches), t, out))

\* The first of them that inherits from the type of the magic, or else that type,
\* or else the first of them.
CloserType(caches, type, left) ==
  LET closer == SelectInSeq(left, LAMBDA t : CachedSubclass(caches, t, type) # "no")
  IN  IF type = None THEN Head(Append(left, None))
      ELSE IF closer = 0 THEN type
      ELSE IF CachedSubclass(caches, left[closer], type) = "yes" THEN left[closer]
      ELSE Endless

\* cache_get_mime_type_for_data
CachedLookupData(caches, data, candidates) ==
  CloserType(caches, CachedMagic(caches, data), CandidatesLeft(caches, data, candidates))

OrFallback(type, data) == IF type = None THEN BinaryOrTextFallback(data) ELSE type

CachedTypeForData(caches, data) ==
  IF data = <<>> THEN XDG_MIME_TYPE_EMPTY
  ELSE OrFallback(CachedLookupData(caches, data, <<>>), data)

-----------------------------------------------------------------------------
(* The type of a file *)

\* _xdg_mime_cache_get_max_buffer_extents; each cache has the extent of its own magic.
CachedExtent(caches) == FoldLeft(LAMBDA m, c : IF m < MaxExtent(c.magic) THEN MaxExtent(c.magic) ELSE m, 0, caches)

\* _xdg_mime_cache_get_mime_type_for_file, with these candidates
CachedTypeForCandidates(caches, candidates, file) ==
  LET bytes == UpTo(CachedExtent(caches), file.data)
  IN  IF Len(candidates) = 1 THEN candidates[1]
      ELSE IF file.kind = "missing" THEN XDG_MIME_TYPE_UNKNOWN
      ELSE IF file.data = <<>> THEN XDG_MIME_TYPE_EMPTY
      ELSE IF file.kind # "regular" THEN XDG_MIME_TYPE_UNKNOWN
      ELSE OrFallback(CachedLookupData(caches, bytes, candidates), bytes)

CachedTypesForFile(caches, name, file) ==
  {CachedTypeForCandidates(caches, candidates, file) : candidates \in CachedLookupFileName(caches, name, Room)}
=============================================================================
