------------------------------ MODULE AppFolders ------------------------------
(***************************************************************************)
(* The applications folders of src/src/desktop/xdgapp.c while other        *)
(* programs change what is on disk: _xdg_app_init, xdg_app_refresh and     *)
(* _xdg_app_shutdown.                                                      *)
(*                                                                         *)
(* The library keeps one item for each data directory, in the order of     *)
(* precedence.  An item has two stores: the maps read from the desktop     *)
(* files ("data") and the maps in the mapped cache file ("cache").  Look-  *)
(* ups follow three pointers of the item (lookup) to the maps of one of    *)
(* them.  An application's entries hang from its groups pointer: own       *)
(* groups, or those of the same name in another folder.                    *)
(*                                                                         *)
(* A snapshot of a folder stands both for what was read and for the list   *)
(* of XdgFileWatcher taken with it: every change gets a new time stamp, so *)
(* the stamp of a file names its content.  (Changes within one second, and *)
(* a scan that a change interrupts, are the subject of AppCacheFile.)      *)
(***************************************************************************)
EXTENDS Integers, Sequences

CONSTANTS Order,      \* the folders, the user's own first
          App,        \* names of desktop files
          Listed,     \* Listed[f]: the names the *.item lists of f mention
          MaxStamp,   \* bound on the changes of the disk
          None,       \* nothing loaded; no cache file
          Empty,      \* a cache file of size 0: opened by a rebuild, not written
          NULL, Dangling

Folder == {Order[i] : i \in 1 .. Len(Order)}

Store == {"data", "cache"}
Stamp == 1 .. MaxStamp
Snapshot == [dir: Stamp, files: [App -> {0} \union Stamp]]   \* 0: no such file
Item == Folder \X Store \X App

ASSUME OrderAssumption ==
  /\ Order \in Seq(Folder) /\ Len(Order) > 0
  /\ \A i, j \in 1 .. Len(Order) : Order[i] = Order[j] => i = j
ASSUME ListedAssumption == Listed \in [Folder -> SUBSET App]
ASSUME StampAssumption == MaxStamp \in Nat \ {0}
ASSUME NoneAssumption == None # Empty /\ {None, Empty} \intersect Snapshot = {}
ASSUME NullAssumption == NULL # Dangling /\ {NULL, Dangling} \intersect Item = {}

VARIABLES
  disk,       \* disk[f]: the stamp of the directory and of every desktop file in it
  cacheFile,  \* cacheFile[f]: the snapshot in the cache file, Empty or None
  stamp,      \* the last time stamp given
  loaded,     \* loaded[f][s]: the snapshot in the maps of a store, or None
  lookup,     \* lookup[f]: the store app.app_files_map, asoc_map and lst_files_map point to
  groups,     \* groups[f][s][a]: app->groups, as the app item that owns them
  pc,         \* "down", "init", "refresh", "link", "up" or "shutdown"
  turn,       \* the folder the loop of _xdg_app_init, xdg_app_refresh, _xdg_list_clear
              \* or _xdg_app_fixup_links_to_desktop_files has reached
  next        \* the folder the inner loop of the last one has reached

diskVars == <<disk, cacheFile, stamp>>
memoryVars == <<loaded, lookup, groups>>
loopVars == <<pc, turn, next>>
vars == <<disk, cacheFile, stamp, loaded, lookup, groups, pc, turn, next>>

NothingLoaded == [f \in Folder |-> [s \in Store |-> None]]
NoGroups == [f \in Folder |-> [s \in Store |-> [a \in App |-> NULL]]]

Init ==
  /\ disk \in [Folder -> [dir: {1}, files: [App -> {0, 1}]]]
  /\ cacheFile \in [Folder -> {None, Empty}]
     \/ cacheFile = disk
  /\ stamp = 1
  /\ loaded = NothingLoaded
  /\ lookup = [f \in Folder |-> "data"]
  /\ groups = NoGroups
  /\ pc = "down"
  /\ turn = 1
  /\ next = 2

-----------------------------------------------------------------------------
(* Other programs *)

\* A desktop file is written, added or removed; adding and removing also
\* changes the directory.
Edit(f, a) ==
  /\ stamp < MaxStamp
  /\ stamp' = stamp + 1
  /\ \E content \in {0, stamp'} \ {disk[f].files[a]} :
       disk' = [disk EXCEPT ![f] =
                 [dir |-> IF content # 0 /\ @.files[a] # 0 THEN @.dir ELSE stamp',
                  files |-> [@.files EXCEPT ![a] = content]]]
  /\ UNCHANGED <<cacheFile, memoryVars, loopVars>>

\* xdg_app_rebuild_cache_file opens the file with O_CREAT and O_TRUNC, ...
RebuildOpen(f) ==
  /\ cacheFile' = [cacheFile EXCEPT ![f] = Empty]
  /\ IF cacheFile[f] = None
     THEN /\ stamp < MaxStamp
          /\ stamp' = stamp + 1
          /\ disk' = [disk EXCEPT ![f].dir = stamp']
     ELSE UNCHANGED <<disk, stamp>>
  /\ UNCHANGED <<memoryVars, loopVars>>

\* ... then reads the directory and writes what it read.
RebuildWrite(f) ==
  /\ cacheFile[f] = Empty
  /\ cacheFile' = [cacheFile EXCEPT ![f] = disk[f]]
  /\ UNCHANGED <<disk, stamp, memoryVars, loopVars>>

DeleteCache(f) ==
  /\ cacheFile[f] # None
  /\ stamp < MaxStamp
  /\ stamp' = stamp + 1
  /\ cacheFile' = [cacheFile EXCEPT ![f] = None]
  /\ disk' = [disk EXCEPT ![f].dir = stamp']
  /\ UNCHANGED <<memoryVars, loopVars>>

-----------------------------------------------------------------------------
(* Loading one folder *)

\* mmap refuses an empty file.
Readable(f) == cacheFile[f] \notin {None, Empty}

\* The app items of a map: one for each desktop file, and one for each name
\* of a list.  Only a desktop file brings groups of its own.
Names(f, snapshot) == {a \in App : snapshot.files[a] # 0} \union Listed[f]

OwnGroups(f, s, snapshot) ==
  [a \in App |-> IF snapshot.files[a] # 0 THEN <<f, s, a>> ELSE NULL]

\* The maps of a store are replaced: pointers into the old ones dangle.
Reload(f, s, snapshot) ==
  /\ loaded' = [loaded EXCEPT ![f][s] = snapshot]
  /\ groups' = [[h \in Folder |-> [t \in Store |-> [a \in App |->
                   IF \E b \in App : groups[h][t][a] = <<f, s, b>>
                   THEN Dangling ELSE groups[h][t][a]]]]
                 EXCEPT ![f][s] = OwnGroups(f, s, snapshot)]

\* _xdg_app_read_from_directory, and a successful _xdg_load_cache
LoadCache(f) ==
  /\ Readable(f)
  /\ Reload(f, "cache", cacheFile[f])
  /\ lookup' = [lookup EXCEPT ![f] = "cache"]

\* __xdg_app_read_from_directory into folder->app.data
ScanFolder(f) == ~Readable(f) /\ Reload(f, "data", disk[f])

-----------------------------------------------------------------------------
(* Links between folders *)

\* Both loops take the maps that have a list of watched files in data, else
\* those of the cache.
Chosen(f) == IF loaded[f]["data"] # None THEN "data" ELSE "cache"
ChosenNames(f) == Names(f, loaded[f][Chosen(f)])

\* Mutant of WithoutLinks: a refresh keeps the links of the last one.
LinksKept == groups

\* _xdg_app_cleanup_links_to_desktop_files
WithoutLinks ==
  [f \in Folder |-> [s \in Store |-> [a \in App |->
     IF s = Chosen(f) /\ a \in ChosenNames(f) /\ groups[f][s][a] # <<f, s, a>>
     THEN NULL ELSE groups[f][s][a]]]]

\* Mutants of FixPair: only the later folder is linked; the later folder's own
\* groups come first.
FixPairOneWay(g, f, h) ==
  LET s == Chosen(f)
      t == Chosen(h)
      both == ChosenNames(f) \intersect ChosenNames(h)
  IN [g EXCEPT ![h][t] = [a \in App |-> IF a \in both /\ g[f][s][a] # NULL
                                           THEN g[f][s][a] ELSE g[h][t][a]]]

FixPairLaterWins(g, f, h) ==
  LET s == Chosen(f)
      t == Chosen(h)
      both == ChosenNames(f) \intersect ChosenNames(h)
  IN [g EXCEPT ![f][s] = [a \in App |-> IF a \in both /\ g[h][t][a] # NULL
                                        THEN g[h][t][a] ELSE g[f][s][a]]]

\* _xdg_app_fixup_links_between_folders for every name of f, with h after f
FixPair(g, f, h) ==
  LET s == Chosen(f)
      t == Chosen(h)
      both == ChosenNames(f) \intersect ChosenNames(h)
  IN [g EXCEPT
       ![f][s] = [a \in App |-> IF a \in both /\ g[f][s][a] = NULL
                                THEN g[h][t][a] ELSE g[f][s][a]],
       ![h][t] = [a \in App |-> IF a \in both /\ g[f][s][a] # NULL
                                   THEN g[f][s][a] ELSE g[h][t][a]]]

-----------------------------------------------------------------------------
(* The library's calls *)

Start ==
  /\ pc = "down"
  /\ pc' = "init"
  /\ turn' = 1
  /\ UNCHANGED <<diskVars, memoryVars, next>>

\* _xdg_app_read_from_directory: the cache if it can be read, else the files.
InitFolder(f) ==
  /\ pc = "init"
  /\ turn <= Len(Order) /\ f = Order[turn]
  /\ LoadCache(f) \/ (ScanFolder(f) /\ lookup' = [lookup EXCEPT ![f] = "data"])
  /\ turn' = turn + 1
  /\ UNCHANGED <<diskVars, pc, next>>

\* xdg_app_refresh first undoes the links between folders.
Refresh ==
  /\ pc = "up"
  /\ groups' = WithoutLinks
  /\ pc' = "refresh"
  /\ turn' = 1
  /\ UNCHANGED <<diskVars, loaded, lookup, next>>

\* Mutant of TimeStampsMatch: the directory is not watched.
FileStampsMatch(snapshot, now) ==
  \A a \in App : snapshot.files[a] # 0 => snapshot.files[a] = now.files[a]

\* _xdg_check_time_stamp: the stamps of the directory and of the files read.
TimeStampsMatch(snapshot, now) ==
  /\ snapshot.dir = now.dir
  /\ \A a \in App : snapshot.files[a] # 0 => snapshot.files[a] = now.files[a]

\* The watched files of data, else of the cache, decide.  A cache that loads
\* takes over; otherwise data is read again, and lookup stays as it was.
RefreshFolder(f) ==
  /\ pc = "refresh"
  /\ turn <= Len(Order) /\ f = Order[turn]
  /\ IF TimeStampsMatch(loaded[f][Chosen(f)], disk[f])
     THEN UNCHANGED memoryVars
     ELSE LoadCache(f) \/ (ScanFolder(f) /\ UNCHANGED lookup)
  /\ turn' = turn + 1
  /\ UNCHANGED <<diskVars, pc, next>>

\* Both calls end by linking the folders: every folder with each one after it.
BeginLinks ==
  /\ pc \in {"init", "refresh"}
  /\ turn > Len(Order)
  /\ pc' = "link"
  /\ turn' = 1
  /\ next' = 2
  /\ UNCHANGED <<diskVars, memoryVars>>

LinkPair ==
  /\ pc = "link"
  /\ next <= Len(Order)
  /\ groups' = FixPair(groups, Order[turn], Order[next])
  /\ next' = next + 1
  /\ UNCHANGED <<diskVars, loaded, lookup, pc, turn>>

LinkNextFolder ==
  /\ pc = "link"
  /\ next > Len(Order)
  /\ IF turn < Len(Order)
     THEN turn' = turn + 1 /\ next' = turn + 2 /\ UNCHANGED pc
     ELSE pc' = "up" /\ UNCHANGED <<turn, next>>
  /\ UNCHANGED <<diskVars, memoryVars>>

\* _xdg_app_shutdown: _xdg_list_clear frees the folders from head to tail.
Shutdown ==
  /\ pc = "up"
  /\ pc' = "shutdown"
  /\ turn' = 1
  /\ UNCHANGED <<diskVars, memoryVars, next>>

\* _xdg_app_folder_item_free: the maps of both stores go, and what later folders
\* have linked to them dangles.
FreeFolder(f) ==
  /\ pc = "shutdown"
  /\ turn <= Len(Order) /\ f = Order[turn]
  /\ loaded' = [loaded EXCEPT ![f] = NothingLoaded[f]]
  /\ lookup' = [lookup EXCEPT ![f] = "data"]
  /\ groups' = [h \in Folder |-> [t \in Store |-> [a \in App |->
                  IF h = f THEN NULL
                  ELSE IF \E s \in Store, b \in App : groups[h][t][a] = <<f, s, b>>
                  THEN Dangling ELSE groups[h][t][a]]]]
  /\ turn' = turn + 1
  /\ UNCHANGED <<diskVars, pc, next>>

\* _xdg_app_map_item_free reads groups->owner of every item of data.  (Items of a
\* cache are unmapped without being looked at.)
ReadsFreed(f) == \E a \in App : groups[f]["data"][a] = Dangling

\* Such a read is undefined: either its value is not the item, as it should be,
\* and the folder is freed (FreeFolder), or the program is killed.
Killed ==
  /\ pc = "shutdown"
  /\ turn <= Len(Order) /\ ReadsFreed(Order[turn])
  /\ loaded' = NothingLoaded
  /\ lookup' = [f \in Folder |-> "data"]
  /\ groups' = NoGroups
  /\ pc' = "down"
  /\ UNCHANGED <<diskVars, turn, next>>

ShutdownEnds ==
  /\ pc = "shutdown"
  /\ turn > Len(Order)
  /\ pc' = "down"
  /\ UNCHANGED <<diskVars, memoryVars, turn, next>>

-----------------------------------------------------------------------------
CallStep == \/ \E f \in Folder : InitFolder(f) \/ RefreshFolder(f) \/ FreeFolder(f)
            \/ BeginLinks \/ LinkPair \/ LinkNextFolder \/ ShutdownEnds

Outside == \E f \in Folder : \/ \E a \in App : Edit(f, a)
                             \/ RebuildOpen(f) \/ RebuildWrite(f) \/ DeleteCache(f)

Next == CallStep \/ Start \/ Refresh \/ Shutdown \/ Killed \/ Outside

\* A call runs to its end on the thread that made it.
Spec == Init /\ [][Next]_vars /\ WF_vars(CallStep)

-----------------------------------------------------------------------------
(* Properties *)

\* Type invariant.
TypeOK ==
  /\ disk \in [Folder -> Snapshot]
  /\ cacheFile \in [Folder -> Snapshot \union {None, Empty}]
  /\ stamp \in Stamp
  /\ loaded \in [Folder -> [Store -> Snapshot \union {None}]]
  /\ lookup \in [Folder -> Store]
  /\ groups \in [Folder -> [Store -> [App -> Item \union {NULL, Dangling}]]]
  /\ pc \in {"down", "init", "refresh", "link", "up", "shutdown"}
  /\ turn \in 1 .. Len(Order) + 1
  /\ next \in 2 .. Len(Order) + 1

\* The snapshot lookups answer from.
Seen(f) == loaded[f][lookup[f]]

\* Whatever order caches and files come and go in, lookups follow pointers to
\* maps that are loaded, and no app item of any store, in use or left over,
\* keeps a groups pointer into maps that a refresh has freed or unmapped.  Only a
\* shutdown leaves such pointers, and reads them (ReadsFreed): in the linked maps
\* of folders it has still to free, once it has freed the first.
LookupsSeeLiveMemory ==
  /\ pc \in {"refresh", "link", "up"} => \A f \in Folder : Seen(f) # None
  /\ \A f \in Folder, s \in Store, a \in App : groups[f][s][a] = Dangling =>
       /\ pc = "shutdown" /\ s = Chosen(f)
       /\ \E i \in turn .. Len(Order) : i > 1 /\ f = Order[i]

\* The maps that lookups follow are those that a refresh watches and links.  They
\* are not once a refresh has loaded a cache beside data that was read before
\* (data stays, and stays watched), or has read data while lookups stay on a cache.
InStep(f) == lookup[f] = Chosen(f)
SeenNames(f) == Names(f, Seen(f))

\* After xdg_init and after every xdg_app_refresh the folders that are in step
\* agree: the app items of one name that lookups find lead to the same groups,
\* whichever folders hold them.  The items lookups find in a folder that is out of
\* step are linked with no other: each has the groups of its own file or none.
FoldersAgree ==
  pc = "up" =>
    /\ \A f, g \in Folder : InStep(f) /\ InStep(g) =>
         \A a \in SeenNames(f) \intersect SeenNames(g) :
           groups[f][lookup[f]][a] = groups[g][lookup[g]][a]
    /\ \A f \in Folder : ~InStep(f) =>
         \A a \in App : groups[f][lookup[f]][a] \in {NULL, <<f, lookup[f], a>>}

\* A desktop file in the user's own folder takes the place of those of the same
\* name in every other folder, for lookups in all folders that are in step, also
\* after refreshes that reload some folders and not others.  It does not in folders
\* that are out of step, nor while the user's own folder is.
UserFileWins ==
  LET top == Order[1] IN
  pc = "up" /\ InStep(top) => \A a \in App : Seen(top).files[a] # 0 =>
    \A f \in Folder : InStep(f) /\ a \in SeenNames(f) =>
      groups[f][lookup[f]][a] = <<top, lookup[top], a>>

\* xdg_shutdown frees the user's folder first: the items of that name which other
\* folders have read from files then point into freed maps, and freeing such a
\* folder reads them.
ShutdownReadsFreed ==
  [][FreeFolder(Order[1]) =>
       \A f \in Folder \ {Order[1]}, a \in App :
         /\ loaded[Order[1]][Chosen(Order[1])] # None
         /\ loaded[Order[1]][Chosen(Order[1])].files[a] # 0
         /\ loaded[f]["data"] # None /\ a \in ChosenNames(f)
         => groups'[f]["data"][a] = Dangling]_vars

\* While the maps a folder watches are those its lookups use, a refresh leaves
\* it with what is on disk now or with what the cache file holds now, which is
\* loaded without a check.
RefreshFollowsDisk ==
  [][\A f \in Folder : RefreshFolder(f) /\ lookup'[f] = Chosen(f)' =>
       Seen(f)' \in {disk[f], cacheFile[f]}]_vars

\* xdgapp.h:142 says that xdg_app_refresh "Checks that dynamically loaded data
\* and cache files are valid and reloads it if not": an application that a loaded
\* folder has a desktop file of has the groups of a desktop file.  (A folder whose
\* groups were hidden by those of an earlier one, and which need not be reloaded,
\* is left without groups when the earlier file goes.)
FilesHaveGroups ==
  pc = "up" => \A f \in Folder, a \in App :
    loaded[f][Chosen(f)].files[a] # 0 => groups[f][Chosen(f)][a] # NULL
=============================================================================
