# libxdg: a TLA+ model of the library

libxdg reads what a desktop knows about applications, MIME types and icons:
`.desktop` files, lists of associations, the shared MIME database and icon
themes, in the directories of the XDG base directory specification. It keeps
the result in memory, in part in a cache file next to the data, and answers
lookups. This directory holds TLA+ modules for the parts of the library that
keep state or that walk linked structures, TLC configurations that check them
on small instances, and proofs, checked by TLAPS, for instances of any size:
about the AVL tree that every map of the library is made of and its loops, the
linked lists, the application folders and their cache file, and the reload of
the MIME database.

Paths below are relative to `src/src/`.

## Running it

    tlc -workers 2 -config MCAvlTree.cfg MCAvlTree      # any MC*.cfg with its module
    tlapm AvlTree_proofs.tla                            # any *_proofs module (some minutes)

`MC*.cfg` gives the constants their values and names the properties. Three of
the runs are expected to end with a violation; they are listed under
*Disagreements*.

## Inventory

The library is sequential code without threads or locks ("not thread safe",
`desktop/xdgapp.h`). What makes it hard is elsewhere: structures linked by
hand and walked without a stack; links from one folder's memory into
another's; files that other programs change between any two system calls; a
cache that is used where it is mapped; files rewritten in place; callbacks
that change the list that calls them.

| Component (source) | State | Operations | What makes it correct |
|---|---|---|---|
| AVL tree (`containers/avltree.c`) | root, child, parent, balance, visit marks | search, create, delete, walk, destroy, write, map | a search tree that answers as a dictionary; every loop ends; a written tree is mapped as it was |
| Lists (`containers/xdglist.c`) | head, tail, next, prev, list; joint lists | append, prepend, swap, remove, remove_if, clear, joint append and next | the pointers of a sequence, both ways; a joint list visits the lists it joins in order |
| Application folders (`desktop/xdgapp.c`) | for each data directory the maps read from files ("data") and mapped from the cache ("cache"), and the three pointers lookups follow; `groups` links between folders | `_xdg_app_init`, `xdg_app_refresh`, `_xdg_app_shutdown` | no lookup follows a dangling pointer; folders agree on an application, the user's file wins; a refresh follows the disk |
| Application cache file (`desktop/xdgapp.c`, `desktop/xdgappcache.c`, `update-applications-cache`) | version, watched files with their times, three trees | rebuild, validity check | a cache that is accepted is up to date |
| Desktop files, list files and lookups (`desktop/xdgapp.c`) | groups, entries, translations; associations; lists by MIME type | reading line by line; group, entry, translated and application lookups | the maps hold what the lines say |
| The user's applications (`desktop/xdgapp.c`) | `mimeapps.list`; three maps in memory for each `XdgUserApps` | load, lookup/create, append, prepend, remove, save | what is saved is loaded again, in its section |
| MIME database (`mime/xdgmime.c`) | directories' caches or globs, magic, aliases, parents, icons; callback list | init, refresh, shutdown, register and remove callbacks, lookups | nothing stale after a reload; the callback list survives its callbacks |
| MIME globs, magic, aliases, parents, icons (`mime/xdgmime*.c`) | lists and sorted arrays read from text files | read, match | the best match by weight, length and priority |
| MIME cache (`mime/xdgmimecache.c`) | a mapped binary file for each directory | every lookup of the text files, again | the same answers as the text files, as far as the two can agree |
| Icon themes (`themes/xdgtheme.c`) | a map of themes: groups, entries, parents | reading `index.theme` files; lookups of icons by name, by MIME type, by application | what comes first is found first; every lookup returns |
| Base directories (`basedirectory/xdgbasedirectory.c`) | none; the environment | the lists of data, configuration and theme directories | order of precedence |
| Menus, initialisation, programs | none of their own | | |

Interactions: application folders own AVL trees of AVL trees of lists; the
cache file is an image of the same trees; lookups return list items that stay
in the library's memory, so a program sees the library's pointers; a refresh
of one folder frees memory that other folders' `groups` pointers lead to; the
MIME database calls the program back while it frees its lists; the MIME lookups
go to the caches as soon as one directory has a cache, and never to both; the
icon of an application or of a type is a search through the themes.

## Modules

| Module | Models | State and actions |
|---|---|---|
| `AvlDict` | what `containers/avltree.h` promises: a dictionary | keys present; `Call`, `Answer` |
| `AvlTree` | `search_node`, `search_or_create_node` with `search_routine` and `rebalance_grew` | the heap as it is (root, child, parent, balance); one step for each turn of a loop, rotations included. Implements `AvlDict` |
| `AvlTreeDelete` | `delete_node` with `rebalance_shrunk`, on top of `AvlTree` | deletion as one step on the same heap |
| `AvlTreeFile` | `depth_first_search`, `destroy_subtree*`, `write_to_file`, `map_from_memory`, and the lists written and read for a MIME sub type | a tree that any order of insertions may have left, visit marks, the cells of the file; one step for each turn of a loop |
| `ListSeq`, `XdgList` | what lists promise: sequences; and `containers/xdglist.c` | item pointers, the joint fields and the joint list of a lookup; one action for each function, one step for each turn of `remove_if`, of `clear`, of the loop over folders in `xdg_known_apps_lookup` and of a caller's walk with `xdg_joint_list_next`. Implements `ListSeq` |
| `AppFolders` | folders through start, refresh and shutdown, one step for each folder that is loaded or freed and for each pair of folders that is linked | for each folder the snapshots in "data" and "cache", the store that lookups follow, the owner of each application's groups; a shutdown frees the folders one after the other (`FreeFolder`) and reads what it has freed (`ReadsFreed`); other programs edit files, rebuild and delete caches |
| `AppCacheFile` | `update-applications-cache` and the validity check, system call by system call | times of a second's resolution, directory and files, each tool's position in the scan, sections of the cache file; several tools at a time, each of which can be killed |
| `AppCacheFormat` | what `desktop/xdgappcache.c` writes into the cache file and how it reads it back, as operators on a sequence of cells; pointers that were written are marks | |
| `ListFile` | the reader of list files and its handlers, as operators | |
| `DesktopFile` | the reader of desktop files and the lookups in what it has read, as operators | |
| `MimeGlob`, `MimeMagic` | reading and matching of globs (`mime/xdgmimeglob.c`) and magic (`mime/xdgmimemagic.c`), as operators on lines, names and contents | the tree of suffixes as sorted lists of siblings; the reader of magic files with its states |
| `MimeTypes` | aliases, parents, icons and the lookups of `mime/xdgmime.c` in text files, as operators | |
| `MimeCache` | the lookups of `mime/xdgmimecache.c`, as operators on what `update-mime-database` writes for the text files | per cache: literal names, the tree of suffixes, other globs, magic by priority, aliases, parents, icons |
| `TextFiles` | all of these on texts | the texts, which grow line by line; for the properties of caches they are divided between two directories |
| `BaseDirectories` | the lists of directories, as operators on the environment | |
| `ThemeFile` | the reader of `index.theme` files, which a buffer cuts (`Chunk`), and the sizes and contexts of sub directories, as operators | |
| `Themes` | the lookups of icons | the environment, the index files, the icon files that come and go; the stack of `_xdg_mime_find_icon_helper`, one step for each base directory that is searched |
| `UserApps` | `mimeapps.list` and `XdgUserApps` | programs that load, edit, save (truncate, then write) and are killed; applications that come and go |
| `MimeReload` | init, refresh and shutdown of the MIME database and its callback list | files by version, the loaded list, the callback list with its pointers; callbacks that register and remove callbacks, themselves too (`CursorFreed`) |
| `MC*` | an instance of each for TLC | |
| `AvlTree_proofs`, `AvlTreeFile_proofs`, `XdgList_proofs`, `AppFolders_proofs`, `AppCacheFile_proofs`, `MimeReload_proofs`, `UserApps_proofs`, `Themes_proofs` | proofs about the module of that name | |

`AvlTree` and `AvlTreeFile`, `AppFolders` and `AppCacheFile`, `ListFile` and
its two users (`DesktopFile`, which `TextFiles` extends, and `UserApps`) are
layered by what they leave out: `AppFolders` takes a folder
for a snapshot that is read at once and `AppCacheFile` opens up that reading;
`AvlTreeFile` takes the tree as given and opens up the image that
`AppCacheFile` knows as three sections; `AppCacheFormat` opens up what hangs
from the nodes of those trees. `MimeCache` answers the questions of `MimeGlob`,
`MimeMagic` and `MimeTypes` a second time, and `TextFiles` compares them.
`Themes` composes `BaseDirectories` and `ThemeFile` with the search.

Conventions: a pointer is the identity of what it points to, or `NULL`; memory
that is freed is `Dangling` or leaves the set of live items; a time stamp or a
version stands for a content. "History" variables are read by properties only.

## Runs

| Run | Instance and bounds | Properties |
|---|---|---|
| `avl_tree` | six keys, every order of calls: all trees of up to six nodes, in which every rotation happens at the root, below it and on both sides | `TypeOK`, `LinksAgree`, `NoNullDereference`, `SearchTree`, `LoopsOnTrack`, `ImplementsDict`, `CallsReturn` |
| `avl_tree_file` | every search tree of five keys or fewer, whatever the order of insertion, a superset of the balanced ones, with every combination of old marks; lists of none to three items | `WalkIsPostorder`, `FreesEachOnce`, `MappedIsWritten`, `LoopsEnd` |
| `xdg_list` | two lists, three items: neighbours, ends and items of different lists can be swapped, and a joint list can join both; 141,680 states, because an item keeps the joint link of an earlier lookup | `LinksAgree`, `CursorIsLive`, `ImplementsSequences`, `LoopsEnd` |
| `app_folders` | two folders, two applications, one of them on a list; three time stamps (`MaxStamp`): two changes after the first content, which is what it takes to bring a folder out of step (a cache is built, then refreshed into), and to remove a file behind a link; 2,611,025 states | `LookupsSeeLiveMemory`, `FoldersAgree`, `UserFileWins`, `RefreshFollowsDisk` |
| `app_cache_file` | two tools, one file, three seconds (`MaxTime`), changes up to the third content (`MaxChange`): a change before, during and after the scan of a file, within a second or not, while the other tool is anywhere in its rebuild or killed; more files add nothing that a tool does to two at a time, and the proofs are for any number | `ValidCacheIsUpToDate`, `QuietRebuildIsValid`, `RebuildEnds` |
| `text_files` | two desktop files of one name with four lines together (`MaxDesktop`), a list file of five (`MaxList`), the two together of four (`MaxFolder`), from ten and eight kinds of lines; a buffer of two values (`LineRoom`). MIME files with three lines together (`MaxMime`) or four in one (`MaxAlone`): enough for two types under one glob and a third for a suffix of it, for a magic section of three levels, for a section between two others, for a cycle of parents through an alias, and for sections of equal and of different priority in two caches | `LocalizedIsMostSpecific`, `AssociationsMatchEntries`, `LastMentionDecides`, `CacheIsReadAsWritten`, `GlobsAreRanked`, `SectionsDecide`, `StartOfFileIsEnough`, `SubclassIsReachability`, `CachesAnswerAsText`, `CachedMagicIsMerged`, `CachedFileTypeIsCloser` |
| `user_apps` | two programs, two types, two applications, two changes (`MaxChanges`), any number of loads, saves and kills | `SavedIsReloaded`, `SectionsStayApart` |
| `mime_reload` | two directories, three callbacks, two versions of the files (`MaxVersion`): a callback can remove itself, the one before it or the one after it, and register a new one in the memory that is free; 408,646 states | `ListIsLive`, `QuietLoadIsUpToDate`, `CallsReturn` |
| `themes` | seven sets of index files: themes in one or two base directories, chains of parents, a theme without parents, cycles of two and through `hicolor`, no `hicolor`, entries before any group, lists of sub directories and parents that the buffer cuts (`LineRoom` of four values, `CutName` for what is left of the fifth); up to two icons of four at first, sub directories of all three types, an exact and a closest size; one icon that comes or goes during a search (`MaxChanges`), room for four calls (`MaxDepth`), one more than the longest search without a cycle needs | `NothingNearerIsMissed`, `LookupsReturn` |

What they show, in short:

* The tree finds a key exactly when it was added; no rotation of
  `rebalance_grew` loses or cycles a node, and no call loops for ever.
* A tree written to the cache and mapped again has the same shape, keys and
  lists, and reading one stops where the next one starts, which is what lets
  trees be nested and follow each other in the file.
* The lists behave as sequences under every mix of their operations, also
  when items of a list are removed while a loop is on it; a walk over what
  `xdg_known_apps_lookup` found passes the lists it joined in order and ends with
  the last, whatever joint links earlier lookups have left in their items.
* Through any number of refreshes and changes of files and caches, no link
  between folders dangles; only a shutdown leaves dangling links, and reads them.
  In folders that are in step, whose lookups follow the maps that are linked
  (`InStep`), lookups of one name find one application, that of the user's folder
  if it has the file; in the others they find what no link was made for.  With the
  exception below a refresh leaves the folders as the disk was.
* A complete cache of one scan that is accepted holds what is in the directory,
  wherever in the scan files changed, except for changes within one second; and
  a rebuild nothing disturbs is accepted.  Two tools at the same time can leave the
  watched files of one scan and the trees of another (`OfOneScan` excepts it).
* The cells of a cache file that are written for a folder are read back as that
  folder, with its groups, translations, lists and links from list items to
  applications.
* Readers and writers of the text files agree; sections never leak into each
  other, although the writer uses a header the reader does not know.
* A reload of the MIME database leaves nothing of the old one; the callback list
  never leads to a freed element, and the loop that calls the callbacks comes to one
  only after a callback was removed while it ran.
* The tree of suffixes answers as a search through the lines of the globs file
  would, literal names before suffixes, long before short ones, heavy before
  light ones; magic sections are compared by priority and match along a path of
  nested lines; the part of a file that is read is enough; and the search for
  a supertype finds what the parents lead to, unless they lead back.
* The caches give the same types by name as the text files, for lower-case names,
  and the same types by content, where no error is in the magic files, wherever
  the sections are divided between directories. A file with several types by name
  may get another one, but never one that the magic rules out.
* The search for an icon returns what comes first by name, theme, parent, size
  and base directory among all that was there throughout, whatever comes and goes
  meanwhile, in the themes and sub directories that the index files name before the
  buffer cuts their lines; it returns whenever no theme it may come to leads back to itself.

`TypeOK` is checked in `avl_tree` only; in `AppFolders`, `AppCacheFile` and
`MimeReload` it is proved, in `XdgList` and `AvlTreeFile` the part of it that the
proofs use (`LinkTypes`, `JointTypes`, `TreeTypes`); in the other modules it states
what the variables are.

Deadlock is checked in all runs but those of `AvlTreeFile` (a loop is done),
`TextFiles` (the texts are full) and the searches for a known violation.

### Fairness

Fairness is assumed for the steps of the library only, never for its callers
or for other programs: the library is ordinary code that goes on once it was
called. `AvlTree` and `AvlTreeFile` have weak fairness of the turns of the
loops, `XdgList` of the turns of `remove_if`, `clear`, a lookup and
a walk (`LoopTurn`; a caller that walks over what it looked up goes on to the
end), `AppFolders` of a
call that has begun, `AppCacheFile` of a rebuild that is not killed (each
tool by itself). In `MimeReload` a callback is assumed to return (strong
fairness of `CallbackReturns`, because it may call into the library again and
again before it does); without it no caller of the callbacks could ever end.
In `Themes` the search goes on once it was called (weak
fairness of `Search`), while icons come and go without any. `TextFiles` and
`UserApps` have no liveness property and no fairness.

### Disagreements between the code and what it says

Each has a run that finds it:

* `avl_tree_delete`: `delete_node` leaves parent pointers of moved children at
  the removed node; later calls lose keys (`avltree.c:247`). Nothing in the
  library calls it.
* `app_folders_no_groups`: linking two folders overwrites the later one's pointer
  to its own groups (`xdgapp.c:984`); the next refresh resets it, and if the
  earlier file is gone by then while the later folder has not changed, the later
  folder's application has no groups any more although its file is there. A
  lookup of its groups finds none, a lookup of its icon follows a null pointer
  (`xdgapp.c:1466`).
* `mime_lost_callback`: removing a callback loses others (`xdgmime.c:793`).

Seen while modelling, built into the models as the code does it, and without
a run of their own:

* When a folder's cache file is gone, a refresh reads the files but lookups go on
  with the maps of the old cache (`xdgapp.c:1211`); `RefreshFollowsDisk` excepts
  this case by its guard.
* A refresh that loads a cache beside data that was read before moves lookups to
  the cache (`xdgapp.c:1176`), but the links are made for the data, whose watched
  files are still there (`xdgapp.c:1001`): what lookups find in this folder is
  linked with no other, neither is it hidden by the user's file. The same goes for
  the case before. `FoldersAgree` and `UserFileWins` are about the other folders
  (`InStep`) and say this of the exception.
* `_xdg_app_shutdown` frees the folders in order (`xdgapp.c:1055`), and
  `_xdg_app_map_item_free` compares the owner of an item's groups
  (`xdgapp.c:355`), which for an item linked to an earlier folder have been freed
  or unmapped by then. `ReadsFreed` is this read, `Killed` what it may lead to,
  `LookupsSeeLiveMemory` says where it can happen and `ShutdownReadsFreed`, which is
  proved, that it happens wherever the user's file has taken the place of one in a
  folder read from files.
* A callback that removes itself is freed when the loop that called it reads the
  next one from it (`xdgmime.c:574`). The model has every outcome: what was left in
  the element, null, another element that is free or was made in its place, or the
  end of the program. `ListIsLive` and `CallsReturn` except what follows
  (`CursorFreed`).
* A line of an `index.theme` file longer than 1023 bytes is cut: the sub
  directories and parents behind the cut are passed over, and the name that was cut
  counts as another one (`xdgtheme.c:271`). `NothingNearerIsMissed` says nothing of
  what is passed over.
* A `MimeType` entry longer than 1023 bytes is cut, and the types behind the cut
  are not associated (`xdgapp.c:731`).
* `*.item` files are not read where `readdir` gives no `d_type` (`xdgapp.c:860`).
* Icons: the closest size is not tried unless some directory has the exact one
  (`xdgtheme.c:604`); of several sub directories that have the icon the last wins,
  but of the extensions in it the first; `XDG_DATA_HOME` is taken as a theme directory without
  `/icons`; without a theme `hicolor` every lookup returns `NULL`; a MIME type
  without `/` follows a null pointer (`xdgtheme.c:694`); themes that inherit from
  each other exhaust the stack (`xdgtheme.c:632`).
* MIME caches: priority 0 never decides; where magic does not decide, the first
  candidate left is taken (text files: the last); a file of size 0 whose name
  leaves no type or several is `application/x-zerosize` (text files: the last of
  them, or `text/plain`); as soon as one directory has a cache, the text files of
  all others are ignored; globs that are neither names nor suffixes know case
  (text files: not).
* A lookup by name that asks for one type gets, among globs that are neither names
  nor suffixes, the first of the file from text files and the heaviest from caches.
* When magic does not decide between several types by name, the lightest of
  those that it has not ruled out is returned (`xdgmimemagic.c:690`), where a
  lookup by name alone returns the heaviest.
* A glob that ends in letters that are not ASCII never matches: the tree holds
  code points, and the lookup compares bytes (`xdgmimeglob.c:330`).
* An error in a magic file can hide the section behind it: for a header without
  `]`, `parse_error` skips another line (`xdgmimemagic.c:293`).
* `xdg_mime_get_mime_type_for_file` falls back on the content of a buffer that
  it has freed (`xdgmime.c:481`); the model has both answers. With no magic at
  all it reads no byte, and every such file is `text/plain`.
* The recursion through parents does not end on a cycle (`xdgmime.c:694`).
* Left out, because the code reads or writes outside of its arrays: the glob
  `*` and the empty name (`xdgmimeglob.c:244`, `:330`), values of several words
  in a magic file (`xdgmimemagic.c:489`), a lookup with room for more than ten
  types and as many globs that match (`xdgmimeglob.c:454`).
* `right_left_rotation` and `left_right_rotation` mark both rotated nodes as
  balanced whatever the grandchild was, so trees are not always AVL balanced
  (`avltree.c:99`). The model has the marks; no property is about heights.
* A refresh loads a cache file without checking it (`xdgapp.c:1210`).
* `mimeapps.list` is saved with `[Removed Applications]` and read with
  `[Removed Associations]`; removed associations are lost (`xdgapp.c:1447`).
  `SavedIsReloaded` excepts them, `SectionsStayApart` shows that they do not
  come back in another section.
* A load forgets applications that are not installed and groups it does not
  know, and the next save drops them from the file. Two saves at the same time
  can leave a mixture, a kill during a save an empty file.
* A partial cache file that holds the version and nothing else is accepted
  (`xdgapp.c:1099`), and two tools that rebuild at the same time can write a
  mixture of their scans that is accepted (`xdgapp.c:388`);
  `ValidCacheIsUpToDate` excepts both (`Complete`, `OfOneScan`).
* Folders read `*.item` files (`xdgapp.c:845`) where the documentation speaks
  of `.list` files.
* `xdg_apps_lookup` passes the address of a list's tail (`xdgapp.c:1247`).
* `xdg_mime_refresh` reloads also when nothing has changed (`xdgmime.c:376`).

## Proofs

`AvlTree_proofs` proves, for every set of integer keys, however large:

* `TypeCorrect`, `LinksStayConsistent`, `NoNullDereferenceHolds`,
  `SearchTreeHolds`, `LoopsStayOnTrack`: the five invariants of `avl_tree`;
* `ImplementsDictSafety`: the tree refines `AvlDict`, step by step.

The only assumption there is `KeyAssumption`: keys are integers, that is,
`compareKeys` is a total order, and none is the null pointer.

Its invariants are not inductive alone. A rotation keeps the tree ordered only
if the nodes of each subtree are known, so `AvlTree` carries the history
variable `under`, the keys of the subtree of a node. `SearchTree` says that
`under` is what the child pointers make of it and that it is ordered;
`SubtreesClosed` that following a pointer inside a subtree stays inside, which
excludes cycles; `MarksHaveChild` that a side marked heavy has a child, which
is why the rotations dereference no null pointer. `SearchOnTrack` says that
the search has not passed the place of its key, `GrewOnTrack` that
`rebalance_grew` is on the path it came from. The conjunction `Inv` holds
initially (`InitInv`), and there is one lemma for each action that it is kept;
the two rotations (`SingleRotationStep`, `DoubleRotationStep`) are the bulk of
the work. They are proved once for a side `s` and its opposite, so that the
mirror image in the code costs nothing. The refinement needs `Inv` where a
search ends: an empty slot that the search has reached means that the key is
in no subtree.

`AppFolders_proofs` proves, for any number of folders and applications and any
number of changes (the runs have two of each and `MaxStamp` of three):

* `TypeCorrect`, `OnlyShutdownReadsFreed`, `FoldersAgreeHolds`,
  `UserFileWinsHolds`: the type invariant and the three invariants of
  `app_folders`;
* `RefreshFollowsDiskHolds`: its action property; and `ShutdownReadsFreedHolds`,
  which no run states.

The assumptions are that the folders are different and at least one, that lists
mention applications, and that the constants for nothing and for pointers are no
snapshots and no items. The inductive invariant `Inv` adds to the properties:

* `LinksInChosen`: before the links are made every item has its own groups or
  none, so that maps can be replaced without leaving a pointer behind; afterwards
  only items of the maps that are linked differ, which are those that
  `_xdg_app_cleanup_links_to_desktop_files` resets.
* `LinkLoop`: in the loop over pairs, for each application there is one item that
  all folders reached so far lead to, but for those that lead nowhere yet and have
  a later folder to meet that leads to it (`Converges`). That one turn of the loop
  keeps this, whichever of the two folders has the application and whichever
  pointer is null, is `FixedConverges`; it is why comparing each pair once, in
  order, is enough.
* `TopKeepsOwn`: nothing overwrites the pointers of the first folder.
* `ShutdownLoop`, `NoneDangle`: a shutdown keeps the maps of the folders ahead of it
  and nothing of those behind; pointers dangle only in the linked maps of the former.
* `ChosenAgree`: once the loop is done the maps it has linked agree. Lookups see these
  in the folders that are in step (`InStepIsChosen`), which `FoldersAgree` and
  `UserFileWins` are about.
* `SnapshotsAreOld`: whatever is in memory or in a cache file and has the
  directory's time stamp has no fewer files than the directory, which is why
  comparing the stamps of the directory and of the files that were read is enough
  (`RefreshFollowsDiskHolds`).

`XdgList_proofs` proves, for any finite number of items and any sequence of
different lists, that the pointers of `containers/xdglist.c`
implement the sequences of `ListSeq`:

* `LinksAlwaysAgree`, `CursorAlwaysLive`: the two invariants of `xdg_list`;
  `NoListIsACircle` and `OnePlaceEach` say what they leave open;
* `ListsAreSequences`: the refinement, `Spec => ImplementsSequences`, as a whole
  (`ListSeq` states no fairness); `ListsAreWhole`: from its head on, a list is all
  of its items, once each.

Agreement of the links is not inductive in `_xdg_list_clear`, which frees one item
after the other without keeping up the links: `LoopInv` says what is still
true of the rest. Nor does agreement exclude a circle of items with a list
besides: `Acyclic` is an order of the items along which `next` ascends, and
every operation has one to offer. `JointInv` is about
the joint links: fields of the items that keep whatever an earlier lookup has
left in them. At any place of the loop over folders the tails of the lists found
so far are chained to each other and the last one to nothing (`FirstAfter`,
`LastIsTail`), which is what stops a walk from following an old link.
For the refinement `SInv` adds a sequence for each list, bound by a quantifier,
that spells what `next` leads through and has just the items that are the
list's (`Lined`); `PathIs` says that there is only one, so that the `CHOOSE` in
`Forward` finds it. While a walk runs, `Visited` says that what was visited is the
lists joined so far, up to the cursor.

`AvlTreeFile_proofs` proves, for any finite set of integer keys and every
search tree of them:

* `TypesCorrect`, `WalkVisitsInPostorder`, `DestroyFreesEachOnce`: types, and two
  of the three invariants of `avl_tree_file`.

The loops have no stack, only parent pointers and two marks for each node; the
invariant has it back as a set of nodes, the path from the root to the node the
loop is at (`Path`). Each side that is marked has been called back with, but for
the one that leads on along the path; none that is not marked has. Marks of an
earlier loop do not matter because a node that is entered is reset. What has been
called back with was called after all that hangs from it (`CalledInv`). When
the loop leaves the root nothing is left: a node that was never called back
with would have a parent that was not either, and that one a parent, although
every node is deeper than its parent (`Rooted`). `TreeInv` holds of the
initial trees because a node hangs from one that was added before it
(`InitInvariant`), by a least and a greatest neighbour.

It proves besides, for the same trees and lists of any length at their nodes:

* `MappingRestores`: the third invariant, that a tree which was written to a file and
  mapped from it is the tree that it was, and that the reader stops right behind its
  last cell.

The assumptions of this part are that the list of each node is a sequence and that a pointer of the
writer is not the null pointer. The argument has three parts. The first
is about the loop alone (`Trav`): the marks split the nodes into those on the path,
those that are done with and those that are still to come, and a node that is
entered is one of the last (`NextIsNew`). The second gives each tree a layout: positions
for the cells of its nodes, of their keys and lists and of the empty sides, which depend
on the shape of the tree and the lengths of the lists and not on the loop
(`LayoutExists`). `WriteInv` says that the file holds the cells of the nodes entered so
far and of the empty sides that are marked, each at its place, and ends where the loop
stands (`Writing`). `MapInv` says the same of the cells that were read: nodes that were
entered have the pointers of the tree on the sides that are marked and the writer's on
the others, and the cells ahead are as they were written (`Reading`). That the reader takes no cell
for one of another kind follows from the layout covering the file without a gap
(`WholeGeometry`), and that it links a child and not an empty cell from the mark that
the writer has left in the pointer.

`AppCacheFile_proofs` proves, for any number of tools that rebuild, files, seconds
and changes:

* `TypeCorrect`, `ValidCache`, `QuietRebuild`: types and the two invariants of
  `app_cache_file`.

The assumptions are that the constant for nothing is no time, no file and no
section, and that the bounds are positive. `ScanInv` is what a scan on its way
says of a directory in which no name has come or gone since it was looked at:
every file is still to be read, is being looked at or has been read, and what was
read agrees with the disk as far as its time tells (`AgreesOn`). `Older` is the
argument about the resolution of time stamps: what was not stamped in the second
in which it was looked at is older than the clock, so any later change shows.
`CacheInv` carries both over into the file that any tool may truncate at any time;
`QuietInv` relates the scan of an undisturbed tool to the disk and to what it
has written so far.

`MimeReload_proofs` proves, for any sequence of directories and any set of
callbacks:

* `TypeCorrect`, `ListAlwaysLive`, `QuietLoad`: types and the two invariants of
  `mime_reload`.

It assumes that the directories are different and at least one. `BaseInv` says
that the database is empty between two loads and holds, during one, the
directories the loop has passed, once each and in order. The callback list
is harder, because removing an element breaks it (see *Disagreements*): next and
prev pointers do not agree, elements may point to themselves, others are lost.
`ListInv` says that there are two sets of registered elements no next
pointer leads out of: what a search from the head passes, and what the loop
over the callbacks passes besides, which may have been unlinked from the list
under it (`SetsOf`). Only registered elements are reached from the head and from the
cursor, and that is enough for every operation on them. The cursor itself may be a
freed element, after its callback was removed; that it then goes on to an element
of these sets, to a freed one or to none follows from what a freed element still
points to (`FreedLeads`).

`UserApps_proofs` proves, for any number of programs, applications and changes, any
finite set of types, and any texts the file holds at first:

* `TypeCorrect`, `NoneMovesApart`, `WhatIsSavedIsLoaded`: types and the two invariants
  of `user_apps`.

The assumptions are that a first text is a sequence of lines whose entries list names
of desktop files, and that a name which the buffer has cut is none (all end alike).
The inductive invariant `IInv` adds to `SectionsStayApart` what the file mentions: all of
it was put there (`AllMentionedPut`), because the next load makes lists of it; and that a
program which saves alone writes into an empty file (`SavesAlone`), without which a
rest of an older text under a new header would move applications (`Overlaid`). This much
of it holds only while no two saves have met (`mixed`); that the text can be read at all
(`Readable`) holds always. `SavedIsText` says besides that the file is what the lists
that were saved last make of some order of the types.

Most of the work is to follow a text through the reader. The three parts of a written
text are told apart by where their headers are, so that every entry is handed to the
handler of the section it was written for, or to none (`TextParts`, `TextLines`); a type
with applications has one entry in its section (`TextEntry`), since the walk over the
tree comes to each type once (`OrderCovers`). The folds of `ListFile` are taken apart
step by step: `FoldCollects` and `FlattenJoins` give the list after each mention and the
mentions after each line, and an induction over these shows that lines of other types
and sections change nothing (`NothingCollected`) and that the one of the type gives its
applications, each once (`ListCollected`).

`Themes_proofs` proves, for any environments, index files, icon files, themes and
requests, and any number of changes to the icons:

* `SearchMissesNothing`: the invariant of `themes`.

The assumptions are that XDG_DATA_DIRS is unset or a sequence of directories, that the
index files are finitely many and made of lines, that the buffer has room for some number
of values, none included, that each icon file has an extension
the program looks for, and that the stack has room for one call.
The first part is about reading. Whatever the order in which the files are read, a theme
gets as parents and lists as sub directories just what the lines that can be read name
before the cut (`ReadLineAt`, `ReadFileAdds`, `ThemesAre`, `SubDirsAre`), so the themes a call goes on to are those that the property says come
after its own (`GoesOnAre`, `AfterIs`). The second part is about the search, which keeps
no record of where it was but its stack. `IInv` says of each call on the stack that its
own theme had no icon which was there all the time (`Failed`), and that everything that
follows from the themes it has gone on to is done (`Done`), except the call
above it, which is on its way; of the call on top, that the passes and base directories
before the current one had nothing (`Looked`, `FoundInPass`). A theme is done when it
and all that follows from it had nothing, which is put together from the
parents as calls return (`ThemeDone`, `ClosureStep`). An icon that goes away only makes
this easier (`FewerIcons`), and one that arrives was not there all the time. What a
call finds is nearest because everything before it had nothing (`FoundIsNearest`).

## Only model-checked

* Liveness (`CallsReturn`, `LoopsEnd`, `RebuildEnds`, `LookupsReturn`), with the
  fairness part of `ImplementsDict`: out of reach of the provers.
* `TextFiles` and the modules under it: recursive operators over texts and trees
  of any depth, about which the provers cannot reason by induction.

Where a proof needs induction over data (a path has an end, a finite set has a
least element), it takes the well-foundedness of the finite subsets of a set
(`WFMin`, `FS_StrictSubsetOrderingWellFounded`), which needs no operator as a
parameter.

## Not modelled

* `xdg_apps_lookup`, whose result is memory misread as a list item
  (`xdgapp.c:1247`), and `_xdg_mime_cache_glob_dump`, which prints.
* The checks of the header of a MIME cache, and caches that are not what
  `update-mime-database` writes for the text files.
* Menus (empty functions), the test and example programs, initialisation
  (calls the parts in order).
* Memory that runs out: the code checks no allocation.
* A callback that calls refresh, shutdown or a lookup, and a function called when a
  callback is removed (`destroy`) that calls the library.
* The single writes of a section of the cache file, one for each of its structures:
  `WriteSection` is one step. A file that is broken off within a section, or mixed of two
  rebuilds there, is one the properties say nothing of, as of one broken off behind it.
* A directory in which names are added for as long as it is scanned.
* The MIME files of several directories at once, which are read into the same
  lists one after the other; lines of MIME files longer than their buffers, a
  last line without a newline.
* Bytes: encodings, struct layout and alignment of the cache file, a cache
  file of another architecture.
* The pages of a mapped cache file while another process rewrites the file.

## Plan

1. Done: all modules listed above, and proofs of every safety property and refinement
   that the runs of `AvlTree`, `AvlTreeFile`, `XdgList`, `AppFolders`, `AppCacheFile`,
   `MimeReload`, `UserApps` and `Themes` check.
2. Models: the pages of a mapped cache file while it is rewritten.
