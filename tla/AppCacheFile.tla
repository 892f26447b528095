----------------------------- MODULE AppCacheFile -----------------------------
(***************************************************************************)
(* One directory of desktop files and the cache file in it, while tools    *)
(* rebuild the cache (xdg_app_rebuild_cache_file in src/src/desktop/       *)
(* xdgapp.c, run by update-applications-cache) and other programs change   *)
(* the files.  Every system call of the rebuild is a step: a change can    *)
(* come between any two, and the tool can be killed between any two.  Only *)
(* the writes of a section, one for each of its structures, are one step:  *)
(* the properties say nothing of a cache file that was written in part, or *)
(* by several rebuilds at once, wherever the sections are broken off.      *)
(*                                                                         *)
(* Times are seconds, as in the st_mtime the code compares: two changes    *)
(* within one second leave the same time behind.                           *)
(***************************************************************************)
EXTENDS Integers

CONSTANTS Tool,       \* processes that rebuild the cache
          App,        \* names of desktop files
          MaxTime,    \* bound on the clock
          MaxChange,  \* bound on the changes
          None

ASSUME BoundAssumption == MaxTime \in Nat \ {0} /\ MaxChange \in Nat \ {0}

VARIABLES
  clock,    \* the current second
  content,  \* content[a]: which change wrote the file; 0: there is no such file
  mtime,    \* mtime[a]: st_mtime of the file
  dirTime,  \* st_mtime of the directory
  changes,  \* the number of changes
  cache,    \* the sections of the cache file, or None if there is no file
  pc,       \* pc[t]: the next step of the rebuild
  scan,     \* scan[t]: the XdgAppData the tool has read
  todo,     \* todo[t]: names readdir still has to give
  file,     \* file[t]: the name of the file that is open
  fd,       \* fd[t]: what it holds if it lost its name since, else None
  quiet     \* history: nothing changed since the tool opened the cache file

dirVars == <<clock, content, mtime, dirTime, changes>>
toolVars == <<pc, scan, todo, file, fd, quiet>>
vars == <<clock, content, mtime, dirTime, changes, cache, pc, scan, todo, file, fd, quiet>>

Time == 1 .. MaxTime
Content == 0 .. MaxChange

\* What a tool has read: the times of the watched files (0: stat failed; None:
\* not watched), the contents, and (history) whether some time was that of the
\* second it was looked at.
NothingRead == [dir |-> 0, files |-> [a \in App |-> None],
                content |-> [a \in App |-> 0], racy |-> FALSE]
Read == [dir: {0} \union Time, files: [App -> {0, None} \union Time],
         content: [App -> Content], racy: BOOLEAN]

\* _xdg_app_cache_write: the version, the list of watched files, the trees.
Section == <<"version", "files", "trees">>
Unwritten == [version |-> None, files |-> None, trees |-> None]
CacheFile == [version: Read \union {None}, files: Read \union {None}, trees: Read \union {None}]

\* None is no time, no name, no section and no cache file.
ASSUME NoneAssumption ==
  None \notin Int /\ None \notin App /\ None \notin Read /\ None \notin CacheFile

Present == {a \in App : content[a] # 0}

Init ==
  /\ clock = 1
  /\ content \in [App -> {0, 1}]
  /\ mtime = [a \in App |-> 1]
  /\ dirTime = 1
  /\ changes = 1
  /\ cache = None
  /\ pc = [t \in Tool |-> "idle"]
  /\ scan = [t \in Tool |-> NothingRead]
  /\ todo = [t \in Tool |-> {}]
  /\ file = [t \in Tool |-> None]
  /\ fd = [t \in Tool |-> None]
  /\ quiet = [t \in Tool |-> FALSE]

-----------------------------------------------------------------------------
(* Other programs and time *)

Tick == clock < MaxTime /\ clock' = clock + 1
        /\ UNCHANGED <<content, mtime, dirTime, changes, cache, toolVars>>

Changed ==
  /\ changes < MaxChange
  /\ changes' = changes + 1
  /\ quiet' = [t \in Tool |-> FALSE]
  /\ UNCHANGED <<clock, cache, pc, scan, todo, file>>

\* A file is written in place: the open file changes with it.
Write(a) ==
  /\ a \in Present
  /\ Changed
  /\ content' = [content EXCEPT ![a] = changes']
  /\ mtime' = [mtime EXCEPT ![a] = clock]
  /\ UNCHANGED <<dirTime, fd>>

\* A name gets a new file, or none: who has the old file open keeps it.
Rename(a) ==
  /\ Changed
  /\ \/ content' = [content EXCEPT ![a] = changes'] /\ mtime' = [mtime EXCEPT ![a] = clock]
     \/ a \in Present /\ content' = [content EXCEPT ![a] = 0] /\ UNCHANGED mtime
  /\ dirTime' = clock
  /\ fd' = [t \in Tool |-> IF file[t] = a /\ fd[t] = None THEN content[a] ELSE fd[t]]

-----------------------------------------------------------------------------
(* xdg_app_rebuild_cache_file *)

Goto(t, label) == pc' = [pc EXCEPT ![t] = label]

\* No other rebuild is at work.
Alone(t) == \A u \in Tool \ {t} : pc[u] \in {"idle", "done"}

\* Mutant of OpenCache: the directory is looked at before the cache file is
\* created in it.
OpenCacheLate(t) ==
  /\ pc[t] \in {"idle", "done"}
  /\ Goto(t, "opendir")
  /\ cache' = Unwritten
  /\ dirTime' = IF cache = None THEN clock ELSE dirTime
  /\ scan' = [scan EXCEPT ![t] = [NothingRead EXCEPT !.dir = dirTime, !.racy = dirTime = clock]]
  /\ quiet' = [u \in Tool |-> u = t /\ Alone(t)]
  /\ UNCHANGED <<clock, content, mtime, changes, todo, file, fd>>

\* _xdg_app_cache_new_empty: O_CREAT | O_TRUNC.  A new file changes the directory.
OpenCache(t) ==
  /\ pc[t] \in {"idle", "done"}
  /\ Goto(t, "stat_dir")
  /\ cache' = Unwritten
  /\ dirTime' = IF cache = None THEN clock ELSE dirTime
  /\ scan' = [scan EXCEPT ![t] = NothingRead]
  /\ quiet' = [u \in Tool |-> u = t /\ Alone(t)]
  /\ UNCHANGED <<clock, content, mtime, changes, todo, file, fd>>

\* __xdg_app_read_from_directory watches the directory before it opens it.
StatDir(t) ==
  /\ pc[t] = "stat_dir"
  /\ Goto(t, "opendir")
  /\ scan' = [scan EXCEPT ![t].dir = dirTime, ![t].racy = @ \/ dirTime = clock]
  /\ UNCHANGED <<dirVars, cache, todo, file, fd, quiet>>

OpenDir(t) ==
  /\ pc[t] = "opendir"
  /\ Goto(t, "readdir")
  /\ todo' = [todo EXCEPT ![t] = Present]
  /\ UNCHANGED <<dirVars, cache, scan, file, fd, quiet>>

\* Mutant of ReadDir: the loop does not go on to the next name.
ReadDirSame(t, a) ==
  /\ pc[t] = "readdir"
  /\ a \in todo[t]
  /\ Goto(t, "stat") /\ file' = [file EXCEPT ![t] = a]
  /\ UNCHANGED <<dirVars, cache, scan, todo, fd, quiet>>

\* readdir may give a file that was added after opendir.  A file is opened,
\* then watched, then read; one that is gone already is left out.
ReadDir(t, a) ==
  /\ pc[t] = "readdir"
  /\ a \in todo[t] \union {b \in Present : scan[t].files[b] = None}
  /\ todo' = [todo EXCEPT ![t] = @ \ {a}]
  /\ IF a \in Present
     THEN Goto(t, "stat") /\ file' = [file EXCEPT ![t] = a]
     ELSE UNCHANGED <<pc, file>>
  /\ UNCHANGED <<dirVars, cache, scan, fd, quiet>>

\* _xdg_file_watcher_list_add looks at the name, not at the open file, and keeps
\* the name with no time when it is gone.
StatFile(t) ==
  /\ pc[t] = "stat"
  /\ Goto(t, "read")
  /\ scan' = IF file[t] \in Present
             THEN [scan EXCEPT ![t].files[file[t]] = mtime[file[t]],
                               ![t].racy = @ \/ mtime[file[t]] = clock]
             ELSE [scan EXCEPT ![t].files[file[t]] = 0]
  /\ UNCHANGED <<dirVars, cache, todo, file, fd, quiet>>

\* _xdg_app_read_desktop_file
ReadFile(t) ==
  /\ pc[t] = "read"
  /\ Goto(t, "readdir")
  /\ scan' = [scan EXCEPT ![t].content[file[t]] =
                IF fd[t] = None THEN content[file[t]] ELSE fd[t]]
  /\ file' = [file EXCEPT ![t] = None]
  /\ fd' = [fd EXCEPT ![t] = None]
  /\ UNCHANGED <<dirVars, cache, todo, quiet>>

\* Mutant of CloseDir: the directory is watched after it was listed.
CloseDirThenStat(t) ==
  /\ pc[t] = "readdir"
  /\ todo[t] = {}
  /\ Goto(t, "version")
  /\ scan' = [scan EXCEPT ![t].dir = dirTime, ![t].racy = @ \/ dirTime = clock]
  /\ UNCHANGED <<dirVars, cache, todo, file, fd, quiet>>

CloseDir(t) ==
  /\ pc[t] = "readdir"
  /\ todo[t] = {}
  /\ Goto(t, "version")
  /\ UNCHANGED <<dirVars, cache, scan, todo, file, fd, quiet>>

\* A section goes to its place in the file, whatever is around it.
WriteSection(t, i) ==
  /\ pc[t] = Section[i]
  /\ cache' = [cache EXCEPT ![Section[i]] = scan[t]]
  /\ Goto(t, IF i = 3 THEN "done" ELSE Section[i + 1])
  /\ UNCHANGED <<dirVars, scan, todo, file, fd, quiet>>

\* The tool is killed; what it wrote stays.
Kill(t) ==
  /\ pc[t] \notin {"idle", "done"}
  /\ Goto(t, "idle")
  /\ scan' = [scan EXCEPT ![t] = NothingRead]
  /\ todo' = [todo EXCEPT ![t] = {}]
  /\ file' = [file EXCEPT ![t] = None]
  /\ fd' = [fd EXCEPT ![t] = None]
  /\ UNCHANGED <<dirVars, cache, quiet>>

-----------------------------------------------------------------------------
RebuildStep(t) ==
  \/ StatDir(t) \/ OpenDir(t) \/ StatFile(t) \/ ReadFile(t) \/ CloseDir(t)
  \/ \E a \in App : ReadDir(t, a)
  \/ \E i \in 1 .. 3 : WriteSection(t, i)

Next ==
  \/ Tick
  \/ \E a \in App : Write(a) \/ Rename(a)
  \/ \E t \in Tool : OpenCache(t) \/ RebuildStep(t) \/ Kill(t)

Spec == Init /\ [][Next]_vars /\ \A t \in Tool : WF_vars(RebuildStep(t))

-----------------------------------------------------------------------------
(* Properties *)

\* Type invariant.
TypeOK ==
  /\ clock \in Time
  /\ content \in [App -> Content] /\ mtime \in [App -> Time] /\ dirTime \in Time
  /\ changes \in Content
  /\ cache = None \/ cache \in CacheFile
  /\ pc \in [Tool -> {"idle", "stat_dir", "opendir", "readdir", "stat", "read",
                      "version", "files", "trees", "done"}]
  /\ scan \in [Tool -> Read]
  /\ todo \in [Tool -> SUBSET App]
  /\ file \in [Tool -> App \union {None}]
  /\ fd \in [Tool -> Content \union {None}]
  /\ quiet \in [Tool -> BOOLEAN]

\* _xdg_check_time_stamp
TimeStampsMatch(r) ==
  /\ r.dir = dirTime
  /\ \A a \in App : r.files[a] # None =>
       r.files[a] = IF a \in Present THEN mtime[a] ELSE 0

\* xdg_app_cache_file_is_valid: the version is there and no watched file has
\* changed.  The list of a file that ends after the version reads as empty.
CacheFileIsValid ==
  /\ cache # None
  /\ cache.version # None
  /\ cache.files # None => TimeStampsMatch(cache.files)

Complete == cache # None /\ \A i \in 1 .. 3 : cache[Section[i]] # None

HoldsTheDirectory == cache.trees.content = content

\* The maps of the cache were read with the list of watched files in it, not by
\* another rebuild that was at work.
OfOneScan == cache.trees = cache.files

\* A complete cache file that xdg_app_cache_file_is_valid accepts holds what
\* is in the directory, wherever in the scan a file was written, replaced,
\* added or removed: the directory is looked at before it is listed, and a file
\* before it is read.  Times of the second in which they were looked at are
\* excepted: a later change in the same second leaves the same time.  So are files
\* that several rebuilds have written at once, one section each.
ValidCacheIsUpToDate ==
  Complete /\ OfOneScan /\ CacheFileIsValid /\ ~cache.files.racy => HoldsTheDirectory

\* A rebuild during which nothing changed, and no other one was at work, leaves a
\* valid cache of the directory, also when it creates the cache file, which changes
\* the directory.
QuietRebuildIsValid ==
  \A t \in Tool : pc[t] = "done" /\ quiet[t] =>
    Complete /\ CacheFileIsValid /\ HoldsTheDirectory

\* A rebuild that is not killed comes to its end, whatever changes meanwhile.
RebuildEnds == \A t \in Tool : pc[t] # "idle" ~> pc[t] \in {"idle", "done"}
=============================================================================
