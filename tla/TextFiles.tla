------------------------------- MODULE TextFiles -------------------------------
(***************************************************************************)
(* The text files that the library reads, and what it makes of them:       *)
(* desktop files (DesktopFile), lists of associations (ListFile), and the  *)
(* globs, magic, aliases, subclasses and icons of the MIME database        *)
(* (MimeTypes; MimeCache, where they were made into a cache).              *)
(*                                                                         *)
(* The state is the text the files hold.  It grows line by line, so that   *)
(* the properties relate what the readers and lookups make of any text of  *)
(* a few lines to what is written there.                                   *)
(*                                                                         *)
(* Two desktop files have the same name for the library when a directory   *)
(* and a "-" in a name spell the same (kde/a.desktop and kde-a.desktop):   *)
(* both are read into one application.                                     *)
(***************************************************************************)
EXTENDS AppCacheFormat, MimeCache, Graphs

CONSTANTS Lang, Country, Modifier,     \* the parts of the locales; "" for none
          Name, Content, MediaType,    \* of files, for the lookups by MIME type
          NamedType,                   \* types that a lookup by name may leave to choose from
          DesktopName,                 \* the name of both desktop files
          Lines,                       \* Lines[f]: the lines the text of f is made of
          MaxDesktop, MaxList,         \* bounds on the number of lines, ...
          MaxFolder,                   \* ... of a desktop file and a list,
          MaxMime, MaxAlone            \* ... of all MIME files, of one if it is alone

VARIABLE text

Desktop == {"desktop", "same-name"}
Mime == {"globs2", "globs", "magic", "aliases", "subclasses"}
TextFile == Desktop \union {"list", "icons"} \union Mime

Written == {f \in TextFile : text[f] # <<>>}
Size(files) == FoldSet(LAMBDA f, n : Len(text[f]) + n, 0, files)

Init == text = [f \in TextFile |-> <<>>]

Write(f) == \E line \in Lines[f] : text' = [text EXCEPT ![f] = Append(@, line)]

\* A line is written at the end of a desktop file, ...
WriteDesktop(f) ==
  /\ Written \subseteq (IF f = "desktop" THEN {f} ELSE Desktop)
  /\ Size(Desktop) < MaxDesktop
  /\ Write(f)

\* ... of a list file, alone or beside a desktop file, ...
WriteListFile ==
  /\ Written \subseteq {"desktop", "list"}
  /\ Size(TextFile) < (IF Written \subseteq {"list"} THEN MaxList ELSE MaxFolder)
  /\ Write("list")

\* ... of a file of the MIME database, ...
WriteMime(f) ==
  /\ Written \subseteq Mime
  /\ Size(Mime) < (IF Written \subseteq {f} THEN MaxAlone ELSE MaxMime)
  /\ Write(f)

\* ... or of the icons file, which no other lookup depends on.
WriteIcons ==
  /\ Written \subseteq {"icons"}
  /\ Size({"icons"}) < MaxMime
  /\ Write("icons")

Next == \/ \E f \in Desktop : WriteDesktop(f)
        \/ WriteListFile
        \/ \E f \in Mime : WriteMime(f)
        \/ WriteIcons

Spec == Init /\ [][Next]_text

-----------------------------------------------------------------------------
(* What the library makes of the texts *)

\* The application both desktop files are read into: its groups, and in the order
\* of reading the MIME types whose list it was appended to.
TheApp == ReadDesktopFile(ReadDesktopFile(Unread, text["desktop"]), text["same-name"])

\* The three maps of a folder with these files, and the files it watches.  An
\* application that a list mentions is in the map of applications, too.
AtNames(map) == [m \in {t[1] : t \in DOMAIN map} |->
                   [s \in {t[2] : t \in {u \in DOMAIN map : u[1] = m}} |-> map[<<m, s>>]]]

FolderData ==
  LET own == IF Written \subseteq {"list"} THEN <<>>
             ELSE DesktopName :> [own |-> TRUE, groups |-> TheApp.groups]
      apps == own @@ [a \in {m.app : m \in ToSet(Mentions(text["list"]))} |-> NoApp]
      Times(t) == SelectSeq(TheApp.types, LAMBDA v : v = t)
      lists == FolderLists(text["list"])
  IN  [files |-> SetToSeq(Written),
       app_files_map |-> apps,
       asoc_map |-> AtNames([t \in ToSet(TheApp.types) |->
                      [i \in DOMAIN Times(t) |-> Item(apps, DesktopName)]]),
       lst_files_map |-> AtNames([t \in DOMAIN lists |->
                      [i \in DOMAIN lists[t] |-> Item(apps, lists[t][i])]])]

\* xdg_mime_init_from_directory reads globs only where there is no globs2.
GlobHash ==
  IF text["globs2"] # <<>> THEN ReadGlobs(text["globs2"], TRUE)
  ELSE ReadGlobs(text["globs"], FALSE)

MatchList == ReadMagic(text["magic"])

\* A property is about texts in which nothing else is written: what the readers
\* make of a file does not depend on the others.
Only(files) == Written \subseteq files

-----------------------------------------------------------------------------
(* Properties of desktop files and lists *)

\* The translations of a text that suit a request: same language, and no
\* country or modifier but the ones asked for.
Suits(l, lang, country, modifier) ==
  /\ lang # "" /\ l.lang = lang
  /\ l.country \in {"", country}
  /\ l.modifier \in {"", modifier}

Weight(l) == (IF l.country = "" THEN 0 ELSE 2) + (IF l.modifier = "" THEN 0 ELSE 1)

\* What the lines of group g say, without the groups built by the reader: the
\* entries with that header above them, up to the first without a group.
GroupAt(lines, i) ==
  LET h == SelectLastInSubSeq(lines, 1, i, IsHeader)
  IN  IF h = 0 THEN "" ELSE lines[h].header

LinesOf(lines, g) ==
  FlattenSeq([i \in 1 .. Len(lines) |->
    IF /\ ~IsHeader(lines[i]) /\ GroupAt(lines, i) = g
       /\ \A j \in 1 .. i : ~IsHeader(lines[j]) => GroupAt(lines, j) # ""
    THEN <<lines[i]>> ELSE <<>>])

Entries(g, key) ==
  SelectSeq(LinesOf(text["desktop"], g) \o LinesOf(text["same-name"], g), LAMBDA line : line.key = key)

ValuesFor(lines, locales) ==
  FlattenSeq([i \in 1 .. Len(lines) |->
               IF lines[i].locale \in locales THEN Chunk(lines[i].values) ELSE <<>>])

Groups == {line.header : line \in {x \in Lines["desktop"] : IsHeader(x)}} \ {""}
Keys == {line.key : line \in {x \in Lines["desktop"] : ~IsHeader(x)}}

\* A lookup of a translated entry (xdg_app_localized_entry_lookup) returns, of
\* all translations written anywhere in the group that suit the request and are
\* not empty, the values of the most specific one, a country counting more than
\* a modifier; and the values that are not translated if none suits.
LocalizedIsMostSpecific ==
  Only(Desktop) =>
    LET app == TheApp
    IN  \A g \in Groups, key \in Keys :
          LET lines == Entries(g, key)
              translated == {lines[i].locale : i \in DOMAIN lines} \ {Plain, Unclosed}
          IN  \A lang \in Lang, country \in Country, modifier \in Modifier :
                LET suited == {l \in translated :
                      Suits(l, lang, country, modifier) /\ ValuesFor(lines, {l}) # <<>>}
                    best == CHOOSE l \in suited : \A m \in suited : Weight(m) <= Weight(l)
                IN  LocalizedLookup(GroupLookup(app, g), key, lang, country, modifier) =
                      ValuesFor(lines, IF suited = {} THEN {Plain, Unclosed} ELSE {best})

\* The associations of a folder and the groups of its applications are filled
\* side by side: a type lists the application as often as MimeType entries of
\* the application, in whatever group, hold it.
AssociationsMatchEntries ==
  Only(Desktop) =>
    LET types == TheApp.types
        written == [g \in Groups |-> ValuesFor(Entries(g, "MimeType"), {Plain})]
    IN  \A t \in MimeType :
          LET Times(values) == Len(SelectSeq(values, LAMBDA v : v = t))
          IN  Times(types) = FoldSet(LAMBDA g, n : Times(written[g]) + n, 0, Groups)

\* The last mention of an application for a type decides whether the folder's
\* list has it; it is there once; and of two that were added the later comes
\* first, in spite of the removals and insertions before.
LastMentionDecides ==
  Only({"list"}) =>
    LET all == Mentions(text["list"])
        lists == FolderLists(text["list"])
        LastMention(t, a) ==
          SelectLastInSubSeq(all, 1, Len(all), LAMBDA m : m.type = t /\ m.app = a)
    IN  \A t \in MimeType :
          LET apps == ListOf(lists, t)
          IN  /\ \A i, j \in DOMAIN apps : i # j => apps[i] # apps[j]
              /\ \A a \in App :
                   Contains(apps, a) <=>
                     LastMention(t, a) # 0 /\ all[LastMention(t, a)].section # "removed"
              /\ \A i, j \in DOMAIN apps :
                   /\ all[LastMention(t, apps[i])].section = "added"
                   /\ all[LastMention(t, apps[j])].section = "added"
                   => (i < j <=> LastMention(t, apps[i]) > LastMention(t, apps[j]))

\* A folder that is read from its cache file is what was read from its files when
\* the cache was made: each reader takes from the file what its writer wrote, with
\* applications that have no desktop file, entries without values, values that
\* come twice and lists that lost all their items; and the items of lists point to
\* the applications of their name.
CacheIsReadAsWritten ==
  Only(Desktop \union {"list"}) => ReadCache(WriteCache(FolderData)) = FolderData

-----------------------------------------------------------------------------
(* Properties of the MIME database *)

\* The lines of the globs file in use, without repetitions of a glob and a type.
GlobLines ==
  LET lines == IF text["globs2"] # <<>> THEN text["globs2"]
               ELSE [i \in DOMAIN text["globs"] |-> ReadGlobLine(FALSE, text["globs"][i])]
      First(i) == \A j \in 1 .. i - 1 : lines[j].glob # lines[i].glob \/ lines[j].type # lines[i].type
      firsts == SelectSeq([i \in DOMAIN lines |-> i], First)
  IN  [k \in DOMAIN firsts |-> lines[firsts[k]]]

\* The indices of the lines that decide about a name.  Globs with letters that
\* are not ASCII never end a name: the tree has their code points, the name its
\* bytes.
Deciding(lines, name, n) ==
  LET lower == LowerCase(name)
      Of(type) == {i \in DOMAIN lines : DetermineType(lines[i].glob) = type}
      Longest(S) == {i \in S : \A j \in S : Len(lines[j].glob) <= Len(lines[i].glob)}
      Earliest(S, k) == {i \in S : Cardinality({j \in S : j <= i}) <= k}
      Ends(i, ending) == /\ \A c \in ToSet(lines[i].glob) : c < 128
                         /\ IsSuffix(Tail(lines[i].glob), ending)
      exact == {i \in Of("literal") : lines[i].glob = name}
      folded == {i \in Of("literal") : lines[i].glob = lower /\ ~lines[i].case_sensitive}
      suffixFolded == {i \in Of("simple") : Ends(i, lower) /\ ~lines[i].case_sensitive}
      suffix == {i \in Of("simple") : Ends(i, name)}
  IN  IF exact # {} THEN Earliest(exact, 1)
      ELSE IF folded # {} THEN Earliest(folded, 1)
      ELSE IF suffixFolded # {} THEN Longest(suffixFolded)
      ELSE IF suffix # {} THEN Longest(suffix)
      ELSE Earliest({i \in Of("full") : Fnmatch(lines[i].glob, name)}, n)

\* A lookup by name (_xdg_glob_hash_lookup_file_name) returns the types of the
\* literal glob that is the name, or else of the longest suffix that ends it, or
\* else of the other globs that match it; the heavier first, and nothing lighter
\* than what it leaves out.  The tree of suffixes finds what a search through
\* the lines of the file would find, in whatever order they came.
GlobsAreRanked ==
  Only({"globs2", "globs"}) =>
    LET hash == GlobHash
        lines == GlobLines
    IN  \A name \in Name, n \in {1, 5} :
          LET deciding == Deciding(lines, name, n)
              Explained(types) ==
                \E f \in [DOMAIN types -> deciding] :
                  /\ \A k, l \in DOMAIN types :
                       k < l => f[k] # f[l] /\ lines[f[k]].weight >= lines[f[l]].weight
                  /\ \A k \in DOMAIN types :
                       /\ types[k] = lines[f[k]].type
                       /\ \A i \in deciding \ {f[l] : l \in DOMAIN types} :
                            lines[i].weight <= lines[f[k]].weight
          IN  \A types \in LookupFileName(hash, name, n) :
                /\ Explained(types)
                /\ Len(types) = n \/ Len(types) = Cardinality(deciding)

\* The sections of the magic file that are whole: a header and, up to the next
\* header, no line with an error.
GoodHeader(line) == line.kind = "header" /\ line.priority # -1 /\ line.closed
GoodLine(line) == line.kind = "blank" \/ (line.kind = "matchlet" /\ WholeWords(line))

Sections(lines) ==
  LET Until(i) == IF \E j \in DOMAIN lines : j > i /\ IsHeader(lines[j])
                  THEN SelectInSubSeq(lines, i + 1, Len(lines), IsHeader) - 1 ELSE Len(lines)
      Whole(i) == GoodHeader(lines[i]) /\ \A j \in i + 1 .. Until(i) : GoodLine(lines[j])
      SectionAt(i) ==
        LET matchlets == SelectSeq(SubSeq(lines, i + 1, Until(i)), LAMBDA l : l.kind = "matchlet")
        IN  [priority |-> lines[i].priority, type |-> lines[i].type,
             matchlets |-> [j \in DOMAIN matchlets |-> Swapped(matchlets[j])]]
      Before(i, j) == \/ lines[i].priority > lines[j].priority
                      \/ lines[i].priority = lines[j].priority /\ i < j
      order == SetToSortSeq({i \in DOMAIN lines : Whole(i)}, Before)
  IN  [k \in DOMAIN order |-> SectionAt(order[k])]

\* The file has no errors, and no blank line above the first header.
Clean(lines) ==
  /\ \A i \in DOMAIN lines : GoodHeader(lines[i]) \/ GoodLine(lines[i])
  /\ lines # <<>> => GoodHeader(lines[1])

IsSubsequence(s, t) ==
  \E places \in SUBSET DOMAIN t :
    LET order == SetToSortSeq(places, LAMBDA i, j : i < j)
    IN  s = [k \in DOMAIN order |-> t[order[k]]]

\* Matchlets that nest: each is at most one deeper than the one before.
Nested(matchlets) ==
  \A i \in DOMAIN matchlets :
    matchlets[i].indent <= (IF i = 1 THEN 0 ELSE matchlets[i - 1].indent + 1)

\* A matchlet that has none below it matches, and so do all those it is below of.
HasMatchingPath(matchlets, data) ==
  \E i \in DOMAIN matchlets :
    /\ i < Len(matchlets) => matchlets[i + 1].indent <= matchlets[i].indent
    /\ \A j \in 1 .. i :
         (\A k \in j + 1 .. i : matchlets[k].indent > matchlets[j].indent)
         => CompareToData(matchlets[j], data)

\* Sections of a magic file are compared in the order of priority and, where that
\* is equal, of the file; a section with an error is left out as a whole (and may
\* take the next one with it), and in
\* a file without errors none is.  A section matches where all the matchlets on a
\* path from the outermost to an innermost level do, whatever the order in which
\* the comparison went down and skipped (and never without such a path where
\* matchlets are not nested).
SectionsDecide ==
  Only({"magic"}) =>
    LET list == MatchList
        sections == Sections(text["magic"])
    IN  /\ IsSubsequence(list, sections)
        /\ Clean(text["magic"]) => list = sections
        /\ \A match \in ToSet(list), data \in Content :
             /\ Matches(match, data) => HasMatchingPath(match.matchlets, data)
             /\ Nested(match.matchlets) /\ HasMatchingPath(match.matchlets, data)
                => Matches(match, data)

\* xdg_mime_get_mime_type_for_file reads the first max_extent bytes of a file.
\* They are enough: the sections and the types by name give the same answer as
\* for the whole content.  So the three lookups agree: one type by name is the
\* type of the file, readable or not; and without types by name it is that of the
\* content as data, wherever a section of the magic file decides.
StartOfFileIsEnough ==
  Only(Mime \ {"subclasses"}) =>
    LET list == MatchList
        hash == GlobHash
    IN  \A lookup \in AliasLookups(text["aliases"]), name \in Name, data \in Content :
          LET named == NamedTypes(hash, name)
              Types(kind) == TypesForFile(hash, list, lookup, name, File(kind, data))
          IN  /\ \A candidates \in named :
                   MagicLookupData(list, lookup, BytesRead(list, data), candidates)
                     = MagicLookupData(list, lookup, data, candidates)
              /\ (\A candidates \in named : Len(candidates) = 1) =>
                   \A kind \in {"regular", "directory", "missing"} :
                     Types(kind) = TypesFromFileName(hash, name)
              /\ named = {<<>>} /\ data # <<>> /\ MagicLookupData(list, lookup, data, <<>>) # None =>
                   Types("regular") = {TypeForData(list, lookup, data)}

\* The nodes of a graph that lead on from a set of nodes.
RECURSIVE Onwards(_, _)
Onwards(graph, nodes) ==
  LET further == nodes \union AllSuccessors(graph, nodes)
  IN  IF further = nodes THEN nodes ELSE Onwards(graph, further)

\* A type is a subclass of another one (xdg_mime_mime_type_subclass) where the
\* subclasses file leads from the one to the other, or to a type that is one by
\* its name; and the recursion, which keeps no record of where it was, fails to
\* return only where the file leads from a type back to itself.  This is where
\* no alias stands for another alias: such chains the code follows one step at a
\* time.
SubclassIsReachability ==
  Only({"aliases", "subclasses"}) =>
    LET aliases == text["aliases"]
        subclasses == text["subclasses"]
        NoChains == \A i, j \in DOMAIN aliases : aliases[i][2] # aliases[j][1]
    IN  NoChains =>
          \A lookup \in AliasLookups(aliases) :
            LET graph == [node |-> MediaType,
                          edge |-> {<<l[1], Unalias(lookup, l[2])>> : l \in ToSet(subclasses)}]
            IN  \A mime, base \in MediaType :
                  LET answer == MimeTypeSubclass(subclasses, lookup, mime, base)
                      umime == Unalias(lookup, mime)
                      reached == Onwards(graph, {umime})
                      yes == \E t \in reached : SubclassWithoutParents(t, Unalias(lookup, base))
                  IN  /\ answer = "yes" => yes
                      /\ answer = "no" => ~yes
                      /\ answer = "endless" => \E t \in reached : t \in Onwards(graph, Successors(graph, t))

-----------------------------------------------------------------------------
(* Properties of MIME caches *)

\* The caches of two directories, of which the first has the first k lines of the
\* text, with one of the meanings of each alias in either.
Split(lines, k) == <<SubSeq(lines, 1, k), SubSeq(lines, k + 1, Len(lines))>>

CachesOf(globs, magic, lookups, subclasses, icons) ==
  [d \in 1..2 |-> Image(globs[d], magic[d], lookups[d], subclasses[d], icons[d])]

Nothing == <<<<>>, <<>>>>

Pairs(LookupsOf(_), lines) == {<<f, g>> : f \in LookupsOf(lines[1]), g \in LookupsOf(lines[2])}

\* Whether the files of a directory are read or the cache made of them is mapped,
\* the lookups by name give the same types (for a lower-case name; the text files
\* know no case for globs that are neither names nor suffixes), the heaviest where
\* one is asked for, and without a look at the file where there is one; and however the
\* lines are divided between two directories with caches, an alias and an icon
\* have a meaning, and a type has the parents, that it might have if the text files
\* of both were read.
CachesAnswerAsText ==
  /\ Only({"globs2"}) =>
       LET cache == Image(GlobLines, <<>>, <<>>, <<>>, <<>>)
       IN  \A name \in Name : LowerCase(name) = name =>
             LET types == LookupFileName(GlobHash, name, 5)
             IN  /\ CachedLookupFileName(<<cache>>, name, 5) = types
                 /\ CachedTypesFromFileName(<<cache>>, name) =
                      {Head(Append(t, XDG_MIME_TYPE_UNKNOWN)) : t \in types}
                 /\ (\A t \in types : Len(t) = 1) =>
                      CachedTypesForFile(<<cache>>, name, File("missing", <<>>)) = {t[1] : t \in types}
  /\ Only({"aliases", "subclasses", "icons"}) =>
       \A a \in 0..Len(text["aliases"]), s \in 0..Len(text["subclasses"]), i \in 0..Len(text["icons"]) :
         \A lookups \in Pairs(AliasLookups, Split(text["aliases"], a)),
            icons \in Pairs(IconLookups, Split(text["icons"], i)) :
           LET caches == CachesOf(Nothing, Nothing, lookups, Split(text["subclasses"], s), icons)
               lookup == CachedAliases(caches)
           IN  /\ lookup \in AliasLookups(text["aliases"])
               /\ CachedIcons(caches) \in IconLookups(text["icons"])
               /\ \A mime \in MediaType :
                    LET parents == CachedMimeParents(caches, mime)
                    IN  /\ ToSet(parents) = ToSet(MimeParents(text["subclasses"], lookup, mime))
                        /\ Cardinality(ToSet(parents)) = Len(parents)

\* The sections of several caches decide about a content as the sections of all
\* magic files would that are read one after the other into one list: the caches
\* are compared one by one, each with its own first match.  (Sections of priority
\* 0 never decide in a cache.)
WithoutErrors(parts) == \A d \in 1..2 : Clean(parts[d])

CachedMagicIsMerged ==
  Only({"magic"}) =>
    \A k \in 0..Len(text["magic"]) : WithoutErrors(Split(text["magic"], k)) =>
      LET caches == CachesOf(Nothing, Split(text["magic"], k), Nothing, Nothing, Nothing)
          list == MatchList
      IN  (\A match \in ToSet(list) : Nested(match.matchlets)) =>
            \A data \in Content :
              CachedTypeForData(caches, data) = TypeForData(list, <<>>, data)

\* type is what the sections of list decide on for data, or a candidate that inherits
\* from it and that no section before it rules out; or, where they do not decide, a
\* candidate that none rules out.
CloserOrMagic(list, lookup, data, candidates, type) ==
  LET match == SelectInSeq(list, LAMBDA m : Matches(m, data))
      before == IF match = 0 THEN list ELSE SubSeq(list, 1, match - 1)
      Left(t) == \A m \in ToSet(before) : ~MimeTypeEqual(lookup, t, m.type)
  IN  IF match # 0
      THEN \/ type = list[match].type \/ type = Endless
           \/ /\ Contains(candidates, type) /\ Left(type)
              /\ MimeTypeSubclass(text["subclasses"], lookup, type, list[match].type) = "yes"
      ELSE IF \E i \in DOMAIN candidates : Left(candidates[i])
      THEN Contains(candidates, type) /\ Left(type)
      ELSE type \in TypesForCandidates(list, lookup, candidates, File("regular", data))

\* The type of a file with several types by name, or none: with caches it is the
\* type that the magic decides on in the text files, or one of the types by name
\* that inherits from it and that no section before it rules out; where the magic
\* does not decide, it is a type by name that no section rules out, as it is
\* without caches, though not the same one.
CachedFileTypeIsCloser ==
  Only({"magic", "aliases", "subclasses"}) =>
    \A k \in 0..Len(text["magic"]) : WithoutErrors(Split(text["magic"], k)) =>
      \A lookup \in AliasLookups(text["aliases"]), data \in Content \ {<<>>}, candidates \in NamedType :
        LET caches == CachesOf(Nothing, Split(text["magic"], k), <<<<>>, lookup>>,
                               <<text["subclasses"], <<>>>>, Nothing)
        IN  (\A match \in ToSet(MatchList) : Nested(match.matchlets)) =>
              CloserOrMagic(MatchList, lookup, data, candidates,
                            CachedTypeForCandidates(caches, candidates, File("regular", data)))
=============================================================================
