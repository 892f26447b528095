------------------------------ MODULE DesktopFile ------------------------------
(***************************************************************************)
(* Desktop files, src/src/desktop/xdgapp.c: _xdg_app_read_desktop_file,    *)
(* which fills the groups of an application and the associations of its    *)
(* folder, and the lookups in those groups.                                *)
(*                                                                         *)
(* Texts are sequences of lines, as in ListFile.                           *)
(***************************************************************************)
EXTENDS ListFile

CONSTANTS Plain, Unclosed   \* in place of a locale: none; one without its "]"

-----------------------------------------------------------------------------
(* Reading desktop files *)

\* An entry is "key=...", which is Plain, "key[lang_COUNTRY@MODIFIER]=...", or
\* "key[...=...", which is Unclosed.
Locale(lang, country, modifier) == [lang |-> lang, country |-> country, modifier |-> modifier]
DesktopEntry(key, locale, values) ==
  [kind |-> "entry", key |-> key, locale |-> locale, values |-> values]

\* What a group holds: for each key the values of its own and, by locale name,
\* the translated ones.  Reading an entry again adds to what is there.
NoEntry == [values |-> <<>>, localized |-> <<>>]
EntryOf(group, key) == IF key \in DOMAIN group THEN group[key] ELSE NoEntry

WithEntry(group, line) ==
  LET entry == EntryOf(group, line.key)
      values == Chunk(line.values)
      localized == entry.localized
  IN  (line.key :>
        IF line.locale \in {Plain, Unclosed}
        THEN [entry EXCEPT !.values = @ \o values]
        ELSE [entry EXCEPT !.localized =
               (line.locale :> IF line.locale \in DOMAIN localized
                               THEN localized[line.locale] \o values ELSE values)
               @@ localized])
      @@ group

\* Mutant of Associated: the last value of a line, which no ";" ends, is not
\* associated.
AssociatedButLast(line) ==
  IF line.key = "MimeType" /\ line.locale = Plain
  THEN SelectSeq(SubSeq(Chunk(line.values), 1, Len(Chunk(line.values)) - 1),
                 LAMBDA v : v \in MimeType \union {CutName})
  ELSE <<>>

\* The MIME types that an entry associates with the application.
Associated(line) ==
  IF line.key = "MimeType" /\ line.locale = Plain
  THEN SelectSeq(Chunk(line.values), LAMBDA v : v \in MimeType \union {CutName})
  ELSE <<>>

Unread == [groups |-> <<>>, group |-> "", ended |-> FALSE, types |-> <<>>]

\* One turn of the loop of _xdg_app_read_desktop_file; group is "" for NULL, and
\* so is a header without its "]".  A header opens its group, which an earlier
\* one may have created.
ReadLine(app, line) ==
  IF app.ended THEN app
  ELSE IF IsHeader(line)
  THEN [app EXCEPT !.group = line.header,
                   !.groups = IF line.header = "" THEN @ ELSE @ @@ (line.header :> <<>>)]
  ELSE IF app.group = "" THEN [app EXCEPT !.ended = TRUE]
  ELSE [app EXCEPT !.groups[app.group] = WithEntry(@, line), !.types = @ \o Associated(line)]

ReadDesktopFile(app, lines) ==
  FoldLeft(ReadLine, [app EXCEPT !.group = "", !.ended = FALSE], lines)

-----------------------------------------------------------------------------
(* Lookups *)

GroupLookup(app, g) == IF g \in DOMAIN app.groups THEN app.groups[g] ELSE <<>>

EntryLookup(group, key) == EntryOf(group, key).values

\* Mutant of Candidates: the modifier before the country.
CandidatesByModifier(lang, country, modifier) ==
  IF lang = "" THEN <<>>
  ELSE <<Locale(lang, country, modifier), Locale(lang, "", modifier),
         Locale(lang, country, ""), Locale(lang, "", "")>>

\* The locale names xdg_app_localized_entry_lookup tries, in its order.  Where
\* the request has no country or no modifier, some of the four are the same.
Candidates(lang, country, modifier) ==
  IF lang = "" THEN <<>>
  ELSE <<Locale(lang, country, modifier), Locale(lang, country, ""),
         Locale(lang, "", modifier), Locale(lang, "", "")>>

\* The first of them that has values; if none has, the values that are not
\* translated.
LocalizedLookup(group, key, lang, country, modifier) ==
  LET entry == EntryOf(group, key)
      HasValues(l) == l \in DOMAIN entry.localized /\ entry.localized[l] # <<>>
      found == SelectSeq(Candidates(lang, country, modifier), HasValues)
  IN  IF found = <<>> THEN entry.values ELSE entry.localized[Head(found)]
=============================================================================
