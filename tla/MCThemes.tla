-------------------------------- MODULE MCThemes --------------------------------
(***************************************************************************)
(* Themes with the themes a, b, c and hicolor, which inherit from each     *)
(* other in several ways, cycles among them, in a directory of the user    *)
(* and one of the system.  The sizes are 4, which directories are made     *)
(* for, and 6, which only some are.                                        *)
(***************************************************************************)
EXTENDS Themes

User == <<"/home", ".icons">>
System == <<"/usr/share", "icons">>

MCEnvironments ==
  {[dataHome |-> Unset, home |-> "/home", dataDirs |-> <<"", "/usr/share">>],
   [dataHome |-> "/home", home |-> "/home", dataDirs |-> Unset]}

Inherits(parents) == <<Entry("Inherits", parents)>>

SubDir(name, context, type, size, more) ==
  <<Header(name), Entry("Context", <<context>>), Entry("Type", <<type>>), Entry("Size", <<size>>)>>
  \o more

\* Directories for 4, for around 8, for 9 and more, and for types.
Layout(dirs) ==
  <<Entry("Directories", dirs)>>
  \o SubDir("4", "Applications", "Fixed", 4, <<>>)
  \o SubDir("8", "Applications", "Threshold", 8, <<Entry("Threshold", <<1>>)>>)
  \o SubDir("9", "Applications", "Scaled", 9, <<Entry("MinSize", <<8>>), Entry("MaxSize", <<12>>)>>)
  \o SubDir("m", "MimeTypes", "Scaled", 4, <<Entry("MaxSize", <<6>>)>>)

IconThemeWith(inherits, dirs) == <<Header("Icon Theme")>> \o inherits \o Layout(dirs)
IconTheme(inherits) == IconThemeWith(inherits, <<"4", "8", "9", "m">>)

File(dir, theme, lines) == [base |-> dir, theme |-> theme, lines |-> lines]

HicolorFile == File(System, "hicolor", IconTheme(<<>>))

MCIndexFiles ==
  { \* one after the other, each in two directories
   {File(User, "a", IconTheme(Inherits(<<"b">>))), File(System, "a", IconTheme(Inherits(<<"c">>))),
    File(System, "b", IconTheme(<<>>)), HicolorFile},
   \* a chain, and a theme without files on it
   {File(System, "a", IconTheme(Inherits(<<"c", "b">>))), File(User, "b", IconTheme(Inherits(<<"hicolor">>))),
    HicolorFile},
   \* no theme hicolor
   {File(System, "a", IconTheme(<<>>)), File(System, "b", IconTheme(Inherits(<<"a">>)))},
   \* cycles: of two, and through hicolor
   {File(System, "a", IconTheme(Inherits(<<"b">>))), File(System, "b", IconTheme(Inherits(<<"a">>))),
    HicolorFile},
   {File(System, "a", IconTheme(<<>>)), File(System, "b", <<>>),
    File(System, "hicolor", IconTheme(Inherits(<<"b">>)))},
   \* an entry before any group, a header without "]", parents named in another group
   {File(User, "a", Inherits(<<"b">>) \o IconTheme(<<>>)),
    File(System, "a", IconTheme(<<>>) \o <<Header("X-Other")>> \o Inherits(<<"b">>)),
    File(System, "b", <<Header("")>> \o IconTheme(<<>>)), 
    File(System, "hicolor", IconTheme(<<>>) \o <<Header("")>> \o Inherits(<<"a">>))},
   \* lines that the buffer cuts: the theme has lost a sub directory and its last
   \* parent, and of the one before only "b" is left
   {File(System, "a", IconThemeWith(Inherits(<<"c", "c", "c", "c", "b-dark", "d">>),
                                    <<"8", "9", "m", "8", "4">>)),
    File(System, "b", IconTheme(<<>>)), HicolorFile} }

Plain == <<"text", "plain">>
Generic == <<"text", "x-generic">>

EditIcons ==
  {<<User, "a", "4", <<"edit">>, "png">>, <<System, "a", "8", <<"edit">>, "svg">>,
   <<System, "b", "4", <<"edit">>, "png">>, <<System, "hicolor", "4", <<"edit">>, "xpm">>}

TypeIcons == {<<System, "b", "m", Plain, "png">>, <<System, "a", "m", Generic, "png">>}

MCIconFiles == {f \in EditIcons \union TypeIcons : f[2] = "b"}
MCIconSets ==
  {S \in SUBSET EditIcons : Cardinality(S) <= 2} \union SUBSET TypeIcons
MCMimeType == {Plain, <<"plain">>}
MCApps == <<NoGroups, <<>>, <<<<"edit">>>>>>
MCIcon == {<<"edit">>}
MCSize == {4, 6}
MCContext == {"Applications"}
MCThemeName == {"a", "b"}
=============================================================================
