------------------------------ MODULE MCTextFiles ------------------------------
(***************************************************************************)
(* TextFiles with two groups, an entry with translations, MIME types, and  *)
(* lines that are longer than the buffer; with globs of every kind for     *)
(* a few names, nested magic, and types that have several names and        *)
(* several parents.                                                        *)
(***************************************************************************)
EXTENDS TextFiles

CONSTANTS x, y, z

html == <<"text", "html">>
css == <<"text", "css">>
MCCutName == <<"text", "cut">>
MCMimeType == {html, css}
MCApp == {x, y, z}
MCLang == {"", "de"}
MCCountry == {"", "CH"}
MCModifier == {"", "euro"}

\* Values that tell the lines apart.
DesktopLines ==
  {Header("Desktop Entry"), Header("Action"), Header("")}
  \union {DesktopEntry("Name", Plain, <<"x">>), DesktopEntry("Name", Unclosed, <<"y">>),
          DesktopEntry("Name", Locale("de", "CH", "euro"), <<>>),
          DesktopEntry("Name", Locale("de", "CH", "euro"), <<"de_CH@euro">>),
          DesktopEntry("Name", Locale("de", "CH", ""), <<"de_CH">>),
          DesktopEntry("Name", Locale("de", "", "euro"), <<"de@euro">>),
          DesktopEntry("Name", Locale("de", "", ""), <<"de", "d">>),
          DesktopEntry("MimeType", Plain, <<html>>),
          DesktopEntry("MimeType", Plain, <<NotAType, css, html>>),
          DesktopEntry("MimeType", Locale("de", "", ""), <<html>>)}

ListLines ==
  {Header("Added Associations"), Header("Default Applications"),
   Header("Removed Associations"), Header("Removed Applications"),
   Entry(html, <<x>>), Entry(html, <<y, x>>), Entry(css, <<x, y, z>>), Entry(NotAType, <<z>>)}

Text(subtype) == <<"text", subtype>>

\* Names of the letters . C a c and e with an acute accent.
MCName == {<<97, 46, 99>>, <<97, 46, 67>>, <<99>>, <<67>>, <<97, 46, 233>>}

Glob(weight, type, glob, case_sensitive) ==
  [weight |-> weight, type |-> type, glob |-> glob, case_sensitive |-> case_sensitive]
GlobsLines ==
  {Glob(50, Text("x-c"), <<Star, 46, 99>>, FALSE),           \* *.c
   Glob(80, Text("x-c"), <<Star, 46, 99>>, TRUE),
   Glob(80, Text("plain"), <<Star, 46, 99>>, FALSE),
   Glob(50, Text("x-c++"), <<Star, 46, 67>>, TRUE),          \* *.C
   Glob(50, Text("x-c++"), <<Star, 99>>, FALSE),             \* *c
   Glob(60, Text("x-e"), <<Star, 233>>, FALSE),
   Glob(50, Text("x-c"), <<99>>, FALSE),                     \* c
   Glob(50, Text("plain"), <<97, 46, 67>>, TRUE),            \* a.C
   Glob(50, Text("plain"), <<97, Star>>, FALSE),             \* a*
   Glob(80, Text("x-e"), <<63, 46, Star>>, FALSE)}           \* ?.*
OldGlobsLines == {l \in GlobsLines : l.weight = 80}

\* Contents of the bytes 1, 2 and 65.
MCContent == {<<>>, <<1>>, <<1, 2>>, <<65, 1, 2>>, <<65, 65, 1, 2>>}

MagicLines ==
  {HeaderLine(50, Text("x-c"), TRUE), HeaderLine(80, Text("plain"), TRUE), HeaderLine(50, Text("x-e"), TRUE),
   HeaderLine(50, Text("x-c"), FALSE), HeaderLine(-1, Text("x-c"), TRUE),
   BlankLine, JunkLine,
   MatchletLine(0, 0, <<1>>, <<>>, 1, 3), MatchletLine(0, 0, <<65, 2>>, <<TRUE, FALSE>>, 1, 1),
   MatchletLine(1, 1, <<2, 1>>, <<>>, 2, 2), MatchletLine(1, 0, <<65>>, <<>>, 2, 1),
   MatchletLine(2, 3, <<2>>, <<>>, 1, 1)}

AliasLines == {<<Text("x-cc"), Text("x-c++")>>, <<Text("x-cc"), Text("x-c")>>,
               <<Text("x-c"), Text("x-e")>>}

SubclassLines == {<<Text("x-c++"), Text("x-cc")>>, <<Text("x-c++"), Text("x-c")>>,
                  <<Text("x-c"), <<"application", "x-e">>>>, <<<<"application", "x-e">>, Text("x-cc")>>}

MCMediaType == {Text("x-c"), Text("x-c++"), Text("x-cc"), Text("x-e"), Text("plain"), Text("*"),
                <<"application", "x-e">>, XDG_MIME_TYPE_UNKNOWN}

IconsLines == {<<Text("x-c"), "x-c">>, <<Text("x-c"), "source">>, <<Text("plain"), "text">>}

MCNamedType ==
  {<<>>, <<Text("x-c"), Text("x-c++")>>, <<Text("x-cc"), Text("plain"), Text("x-c")>>}

MCLines ==
  [f \in TextFile |->
     CASE f \in Desktop -> DesktopLines [] f = "list" -> ListLines
       [] f = "globs2" -> GlobsLines [] f = "globs" -> OldGlobsLines
       [] f = "magic" -> MagicLines [] f = "aliases" -> AliasLines
       [] f = "subclasses" -> SubclassLines [] f = "icons" -> IconsLines]
=============================================================================
