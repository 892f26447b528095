---------------------------- MODULE BaseDirectories ----------------------------
(***************************************************************************)
(* The directories that files are looked for in, and their order:          *)
(* src/src/basedirectory/xdgbasedirectory.c.                               *)
(*                                                                         *)
(* An environment is a record [dataHome, home, dataDirs] of                *)
(* XDG_DATA_HOME, HOME, and the parts of XDG_DATA_DIRS between its ":",    *)
(* each of which may be Unset.  A directory is a pair of a directory and   *)
(* what is appended to its name.                                           *)
(***************************************************************************)
EXTENDS Sequences, SequencesExt

CONSTANT Unset   \* a variable that is not in the environment

Pixmaps == <<"/usr/share/pixmaps", "">>

\* XDG_DATA_HOME is taken as it is, HOME only in its absence.
HomeDirs(env, appendix) ==
  IF env.dataHome # Unset THEN << <<env.dataHome, "">> >>
  ELSE IF env.home # Unset THEN << <<env.home, appendix>> >> ELSE <<>>

\* The parts of XDG_DATA_DIRS that are not empty.
ListedDirs(env, appendix) ==
  LET parts == IF env.dataDirs = Unset THEN <<"/usr/local/share", "/usr/share">> ELSE env.dataDirs
  IN  FlattenSeq([i \in DOMAIN parts |->
                    IF parts[i] = "" THEN <<>> ELSE << <<parts[i], appendix>> >>])

\* _xdg_for_each_data_dir, _xdg_for_each_home_data_dir
DataDirs(env) == HomeDirs(env, ".local/share") \o ListedDirs(env, "")
HomeDataDirs(env) == HomeDirs(env, ".local/share")

\* _xdg_for_each_theme_dir, and _xdg_search_in_each_theme_dir until one has a result
ThemeDirs(env) == HomeDirs(env, ".icons") \o ListedDirs(env, "icons") \o <<Pixmaps>>
=============================================================================
