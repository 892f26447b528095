--------------------------------- MODULE Themes ---------------------------------
(***************************************************************************)
(* The search for an icon, src/src/themes/xdgtheme.c: in the theme that    *)
(* was asked for, then in those it inherits from, depth first, and in each *)
(* in the sub directories of the right size and context, under all base    *)
(* directories, then in the one of the closest size.  There is no record   *)
(* of where the search has been.                                           *)
(*                                                                         *)
(* The themes are read once, at the start of the program; icons come and   *)
(* go between any two base directories that are searched.                  *)
(***************************************************************************)
EXTENDS BaseDirectories, ThemeFile, FiniteSets, Functions

CONSTANTS Environments,   \* the environments a program may have
          IndexFiles,     \* the index.theme files there may be: sets of records
                          \* [base, theme, lines]
          IconFiles,      \* the icon files that come and go
          IconSets,       \* sets of them that are there at first
          MimeType,       \* types that are looked up: <<media, subtype>>, or <<name>>
                          \* for one without "/"
          Apps,           \* Apps[a]: the icon entries of an application, or
          NoGroups,       \* ... this where its groups are NULL
          Icon, Size, Context, ThemeName,   \* what lookups ask for; the name of an icon
                          \* is the sequence of its words, with "-" between them
          MaxChanges,     \* bound on the icon files that come and go
          MaxDepth        \* the calls there is room for on the stack

ASSUME DepthAssumption == MaxDepth \in Nat \ {0}

IsSeq(s) == Len(s) \in Nat /\ s = [i \in 1..Len(s) |-> s[i]]

ASSUME EnvironmentsAssumption ==
  \A e \in Environments : e.dataDirs = Unset \/ IsSeq(e.dataDirs)

ASSUME IndexFilesAssumption ==
  \A files \in IndexFiles :
    /\ IsFiniteSet(files)
    /\ \A f \in files :
         /\ IsSeq(f.lines)
         /\ \A i \in DOMAIN f.lines : ~IsHeader(f.lines[i]) => IsSeq(f.lines[i].values)

\* An icon file is <<base, theme, sub directory, icon, extension>>; those with other
\* extensions are not looked for.
Extensions == <<"png", "svg", "xpm">>
IsIconFile(f) == f = <<f[1], f[2], f[3], f[4], f[5]>> /\ f[5] \in ToSet(Extensions)

ASSUME IconFilesAssumption ==
  /\ \A f \in IconFiles : IsIconFile(f)
  /\ \A files \in IconSets : \A f \in files : IsIconFile(f)

VARIABLES
  env,       \* the environment
  index,     \* the index files, an element of IndexFiles
  themes,    \* themes_list
  icons,     \* the icon files there are
  pc,        \* "idle", "search", "found", "none" (NULL is returned), "dead"
  request,   \* the names, size, context and theme that are looked up
  turn,      \* which of the names
  stack,     \* the calls of _xdg_mime_find_icon_helper, outermost first: themes,
             \* and how many of those they lead to were tried
  passes,    \* within the last call: the sub directories to be searched, by their
             \*     places in the list of the theme
  pass,      \* ... which of them; beyond them the parents follow
  base,      \* within a pass: the base directory
  file,      \* the result
  steady,    \* history: the icon files that were there all the time
  cyclic,    \* history: whether a theme the search may come to leads back to itself
  changes    \* history: how often icon files came or went

lookup == <<request, turn, stack, passes, pass, base, file>>
vars == <<env, index, themes, icons, pc, lookup, steady, cyclic, changes>>

Hicolor == "hicolor"

-----------------------------------------------------------------------------
(* Reading the themes *)

\* The order of the themes within a base directory does not matter: each adds to
\* itself.
FilesInOrder(files, e) ==
  FlattenSeq([i \in DOMAIN ThemeDirs(e) |-> SetToSeq({f \in files : f.base = ThemeDirs(e)[i]})])

\* _xdg_themes_init; loaded[i]: after i files.
LoadThemes(files, e) ==
  LET order == FilesInOrder(files, e)
      loaded[i \in 0..Len(order)] ==
        IF i = 0 THEN <<>> ELSE ReadThemeFile(loaded[i - 1], order[i].theme, order[i].lines)
  IN  loaded[Len(order)]

NoFile == <<>>

NoRequest == [names |-> <<>>, size |-> 0, context |-> None, theme |-> None]

Init ==
  /\ env \in Environments
  /\ index \in IndexFiles
  /\ themes = LoadThemes(index, env)
  /\ icons \in IconSets
  /\ pc = "idle"
  /\ request = NoRequest
  /\ turn = 0 /\ stack = <<>> /\ passes = <<>> /\ pass = 0 /\ base = 0 /\ file = NoFile
  /\ steady = {} /\ cyclic = FALSE /\ changes = 0

-----------------------------------------------------------------------------
(* What the index files say *)

\* The lines of an index.theme that are read: every entry is below a header, and
\* none is below one without "]".
IsRead(lines, i) ==
  \A j \in 1..i : IsHeader(lines[j]) \/ \E h \in 1..j :
    IsHeader(lines[h]) /\ lines[h].header # Null /\ \A k \in (h + 1)..j : ~IsHeader(lines[k])

ReadFiles == {f \in index : f.base \in ToSet(ThemeDirs(env))}

\* Those that name parents, in whatever group they are, ...
NamesParents(lines, i) == ~IsHeader(lines[i]) /\ lines[i].key = "Inherits" /\ IsRead(lines, i)

InheritLines(theme) ==
  UNION {{f.lines[i] : i \in {i \in DOMAIN f.lines : NamesParents(f.lines, i)}} :
         f \in {f \in ReadFiles : f.theme = theme}}

\* (A parent that the buffer cuts counts by what is left of its name, those behind
\* it do not count.)
InheritsFrom(theme) == UNION {ToSet(Chunk(line.values)) : line \in InheritLines(theme)}

\* ... and those that name sub directories, in the group that is for it.
InIconTheme(lines, i) ==
  \E h \in 1..i : /\ IsHeader(lines[h]) /\ lines[h].header = MainGroup
                 /\ \A k \in (h + 1)..i : ~IsHeader(lines[k])

NamesSubDirs(lines, i) ==
  /\ ~IsHeader(lines[i]) /\ lines[i].key = "Directories"
  /\ IsRead(lines, i) /\ InIconTheme(lines, i)

SubDirLines(theme) ==
  UNION {{f.lines[i] : i \in {i \in DOMAIN f.lines : NamesSubDirs(f.lines, i)}} :
         f \in {f \in ReadFiles : f.theme = theme}}

\* (Nor do sub directories count beyond the buffer.)
SubDirs(theme) == UNION {ToSet(Chunk(line.values)) : line \in SubDirLines(theme)}

\* The themes that come after each: hicolor where it inherits from none.
Names == {Hicolor} \union {f.theme : f \in index} \union UNION {InheritsFrom(f.theme) : f \in index}

After ==
  [theme \in Names |->
     LET parents == InheritsFrom(theme)
     IN  IF parents = {} THEN {Hicolor} \ {theme} ELSE parents]

\* The smallest set with these themes and all that come after them.
Closure(after, from) ==
  LET closed == {S \in SUBSET DOMAIN after : from \subseteq S /\ \A t \in S : after[t] \subseteq S}
  IN  {t \in DOMAIN after : \A S \in closed : t \in S}

Reachable(from) == Closure(After, from)

IsCyclic(theme) ==
  LET after == After
  IN  theme \in DOMAIN after /\ \E t \in Closure(after, {theme}) : t \in Closure(after, after[t])

-----------------------------------------------------------------------------
(* One theme *)

\* _xdg_search_icon_file: of the sub directories at these places that have the
\* icon the last one counts, in it the first extension.
IconIn(dir, name, places, icon) ==
  LET listed == Listed(themes[name])
      Has(i, e) == <<dir, name, listed[i], icon, Extensions[e]>> \in icons
      have == {i \in places : \E e \in DOMAIN Extensions : Has(i, e)}
      last == Max(have)
      first == Min({e \in DOMAIN Extensions : Has(last, e)})
  IN  IF have = {} THEN NoFile ELSE <<dir, name, listed[last], icon, Extensions[first]>>

Exact(name, r) == Matching(themes[name], r.size, r.context)

\* _xdg_mime_lookup_icon: without a directory of the right size none is searched
\* at all, not even the closest.
Passes(name, r) ==
  LET closest == Closest(themes[name], r.size, r.context)
  IN  IF Exact(name, r) = {} THEN <<>>
      ELSE IF closest = {} THEN <<Exact(name, r)>> ELSE <<Exact(name, r), closest>>

\* The themes a call goes on to.
LeadsTo(name) ==
  IF themes[name].parents # <<>> THEN themes[name].parents
  ELSE IF name # Hicolor THEN <<Hicolor>> ELSE <<>>

-----------------------------------------------------------------------------
(* Calls *)

Call(name, r) ==
  /\ passes' = Passes(name, r)
  /\ pass' = 1 /\ base' = 1

\* xdg_icon_lookup and xdg_mime_type_icon_lookup
Begin(r) ==
  /\ pc = "idle"
  /\ IF Hicolor \in DOMAIN themes /\ r.theme \in DOMAIN themes
     THEN /\ pc' = "search"
          /\ request' = r /\ turn' = 1 /\ file' = NoFile
          /\ stack' = <<[theme |-> r.theme, tried |-> 0]>>
          /\ Call(r.theme, r)
     ELSE /\ pc' = "none"
          /\ UNCHANGED lookup
  /\ steady' = icons
  /\ cyclic' = IsCyclic(r.theme)
  /\ UNCHANGED <<env, index, themes, icons, changes>>

IconLookup(icon, size, context, theme) ==
  Begin([names |-> <<icon>>, size |-> size, context |-> context, theme |-> theme])

\* xdg_mime_type_icon_lookup: the icon of the type, then that of its media type,
\* for which it writes to the place of the "/".
NullPointer == <<>>
MimeIcons(mime) ==
  IF Len(mime) = 1 THEN <<mime, NullPointer>> ELSE <<mime, <<mime[1], "x-generic">>>>

MimeTypeIconLookup(mime, size, theme) ==
  Begin([names |-> MimeIcons(mime), size |-> size, context |-> "MimeTypes", theme |-> theme])

\* xdg_app_icon_lookup follows the groups of an application, which are NULL where
\* only a list has mentioned it.
AppIconLookup(app, size, theme) ==
  IF Apps[app] = NoGroups
  THEN /\ pc = "idle"
       /\ pc' = "dead"
       /\ UNCHANGED <<env, index, themes, icons, lookup, steady, cyclic, changes>>
  ELSE IF Apps[app] = <<>>
  THEN /\ pc = "idle"
       /\ pc' = "none"
       /\ UNCHANGED <<env, index, themes, icons, lookup, steady, cyclic, changes>>
  ELSE IconLookup(Head(Apps[app]), size, "Applications", theme)

-----------------------------------------------------------------------------
(* The search *)

Theme == stack[Len(stack)].theme
\* One call of _xdg_search_icon_file, in one base directory.
SearchBase ==
  /\ pc = "search" /\ pass <= Len(passes)
  /\ LET dirs == ThemeDirs(env)
         icon == IconIn(dirs[base], Theme, passes[pass], request.names[turn])
     IN  IF icon # NoFile
         THEN /\ pc' = "found"
              /\ file' = icon
              /\ UNCHANGED <<pass, base>>
         ELSE /\ pass' = IF base < Len(dirs) THEN pass ELSE pass + 1
              /\ base' = IF base < Len(dirs) THEN base + 1 ELSE 1
              /\ UNCHANGED <<pc, file>>
  /\ UNCHANGED <<env, index, themes, icons, request, turn, stack, passes, steady, cyclic, changes>>

\* Mutant of NextTried: the loop goes back to the first of the parents.
NextTriedFirst(i) == 1

NextTried(i) == i + 1

\* _xdg_mime_find_icon_helper calls itself for the next of the themes, ...
Descend ==
  /\ pc = "search" /\ pass > Len(passes)
  /\ LET top == stack[Len(stack)]
     IN  /\ top.tried < Len(LeadsTo(top.theme))
         /\ IF Len(stack) = MaxDepth
            THEN /\ pc' = "dead"
                 /\ UNCHANGED <<stack, passes, pass, base>>
            ELSE \E next \in DOMAIN themes :
                   /\ next = LeadsTo(top.theme)[NextTried(top.tried)]
                   /\ stack' = Append([stack EXCEPT ![Len(stack)].tried = NextTried(@)],
                                      [theme |-> next, tried |-> 0])
                   /\ Call(next, request)
                   /\ UNCHANGED pc
  /\ UNCHANGED <<env, index, themes, icons, request, turn, file, steady, cyclic, changes>>

\* ... or returns NULL to the call before, ...
Return ==
  /\ pc = "search" /\ pass > Len(passes) /\ Len(stack) > 1
  /\ stack[Len(stack)].tried = Len(LeadsTo(Theme))
  /\ stack' = Front(stack)
  /\ UNCHANGED <<env, index, themes, icons, pc, request, turn, passes, pass, base, file, steady,
                 cyclic, changes>>

\* ... or to the lookup, which tries the next name or returns.
NextName ==
  /\ pc = "search" /\ pass > Len(passes) /\ Len(stack) = 1
  /\ stack[1].tried = Len(LeadsTo(Theme))
  /\ IF turn = Len(request.names)
     THEN /\ pc' = "none"
          /\ UNCHANGED <<turn, stack, passes, pass, base>>
     ELSE IF request.names[turn + 1] = NullPointer
     THEN /\ pc' = "dead"
          /\ UNCHANGED <<turn, stack, passes, pass, base>>
     ELSE /\ turn' = turn + 1
          /\ stack' = <<[theme |-> request.theme, tried |-> 0]>>
          /\ Call(request.theme, request)
          /\ UNCHANGED pc
  /\ UNCHANGED <<env, index, themes, icons, request, file, steady, cyclic, changes>>

\* The caller has the answer, or a program that died is started again.
Over ==
  /\ pc \in {"found", "none", "dead"}
  /\ pc' = "idle"
  /\ request' = NoRequest
  /\ turn' = 0 /\ stack' = <<>> /\ passes' = <<>> /\ pass' = 0 /\ base' = 0 /\ file' = NoFile
  /\ steady' = {} /\ cyclic' = FALSE
  /\ UNCHANGED <<env, index, themes, icons, changes>>

-----------------------------------------------------------------------------
(* Icons come and go *)

\* (Between searches they are there or not from the start.)
ChangeIcon(f) ==
  /\ pc = "search" /\ changes < MaxChanges
  /\ changes' = changes + 1
  /\ icons' = IF f \in icons THEN icons \ {f} ELSE icons \union {f}
  /\ steady' = steady \ {f}
  /\ UNCHANGED <<env, index, themes, pc, lookup, cyclic>>

Search == SearchBase \/ Descend \/ Return \/ NextName

Next ==
  \/ \E theme \in ThemeName, size \in Size :
       \/ \E icon \in Icon, context \in Context : IconLookup(icon, size, context, theme)
       \/ \E mime \in MimeType : MimeTypeIconLookup(mime, size, theme)
       \/ \E app \in DOMAIN Apps : AppIconLookup(app, size, theme)
  \/ Search
  \/ Over
  \/ \E f \in IconFiles : ChangeIcon(f)

Spec == Init /\ [][Next]_vars /\ WF_vars(Search)

-----------------------------------------------------------------------------
(* Properties *)

\* The icon files that were there throughout and that a search in a theme is to
\* find: in a directory of the size that was asked for, or in the one that is
\* searched when those do not have the icon.
InSize(f) == MatchesSize(themes[f[2]].groups[f[3]], request.size)

Suits(name, dir) ==
  LET groups == themes[name].groups
  IN  /\ dir \in DOMAIN groups
      /\ FirstValue(groups[dir], "Context") = request.context /\ IsSized(groups[dir])

Findable(name, icon) ==
  LET theme == themes[name]
      dirs == {dir \in SubDirs(name) : Suits(name, dir)}
      closest == {Listed(theme)[i] : i \in Closest(theme, request.size, request.context)}
  IN  {f \in steady : /\ f[1] \in ToSet(ThemeDirs(env)) /\ f[2] = name /\ f[4] = icon
                      /\ f[3] \in dirs
                      /\ \E dir \in dirs : MatchesSize(theme.groups[dir], request.size)
                      /\ InSize(f) \/ f[3] \in closest}

HasNone(from, icon) ==
  (\E f \in steady : f[4] = icon) => \A t \in Reachable(from) : Findable(t, icon) = {}

\* Of two icon files of a theme the first is preferred.
IsNearer(f, g) ==
  LET Base(h) == SelectInSeq(ThemeDirs(env), LAMBDA d : d = h[1])
  IN  \/ InSize(f) /\ ~InSize(g)
      \/ (InSize(f) <=> InSize(g)) /\ Base(f) < Base(g)

\* A search passes over no icon that was there all the time, however often other
\* icons come and go meanwhile: whatever it returns, the names, themes (with all
\* that they inherit from), sizes and base directories before it do not have it,
\* and when it returns NULL no theme that the index files lead to has it
\* (_xdg_mime_find_icon_helper, _xdg_mime_lookup_icon, xdg_mime_type_icon_lookup).
\* The exceptions: sub directories and parents that stand in a line of an index
\* file behind what fits in the buffer are passed over
\* (_xdg_applications_read_theme_file), and a theme in which no sub directory is
\* of the right size is not searched at all.
NothingNearerIsMissed ==
  /\ pc \in {"found", "none"} /\ request # NoRequest =>
       \A n \in 1..turn : (n = turn /\ pc = "found") \/ HasNone({request.theme}, request.names[n])
  /\ pc = "found" =>
       LET icon == request.names[turn]
       IN  /\ file[4] = icon /\ file[2] = Theme
           /\ ~\E f \in Findable(Theme, icon) : IsNearer(f, file)
           /\ \A i \in 1..(Len(stack) - 1) :
                LET call == stack[i]
                IN  /\ Findable(call.theme, icon) = {}
                    /\ HasNone({LeadsTo(call.theme)[k] : k \in 1..(call.tried - 1)}, icon)

\* A search ends with an icon or NULL, though it keeps no record of where it has
\* been, unless a theme it may come to leads back to itself.  (Those searches run
\* out of stack, _xdg_mime_find_icon_helper; a type without "/" makes
\* xdg_mime_type_icon_lookup follow a NULL pointer.)
LookupsReturn ==
  (pc = "search" /\ ~cyclic /\ NullPointer \notin ToSet(request.names))
    ~> pc \in {"found", "none"}
=============================================================================
