----------------------------- MODULE AppCacheFormat -----------------------------
(***************************************************************************)
(* What is in the cache file of an applications folder,                    *)
(* src/src/desktop/xdgappcache.c: _xdg_app_cache_write writes what was     *)
(* read from the folder, _xdg_app_cache_read makes it of the file again.   *)
(*                                                                         *)
(* A file is a sequence of cells, each a struct or a string.  There is no  *)
(* table of contents: what a cell is depends on the cells before it.  The  *)
(* order and the links of the nodes of a map are left to AvlTreeFile: a    *)
(* map is the number of its nodes and, for each, a key and a value.        *)
(*                                                                         *)
(* In memory an application is [own, groups]: the groups it owns, if any;  *)
(* an item of a list of applications is [name, app], with the application  *)
(* that app points to, or none.                                            *)
(***************************************************************************)
EXTENDS DesktopFile

NoApp == [own |-> FALSE, groups |-> <<>>]

\* A reader takes what it makes a value of from the memory, ...
Got(value, memory) == [value |-> value, memory |-> memory]

\* ... which goes on behind the first n cells.
Behind(memory, n) == SubSeq(memory, n + 1, Len(memory))

-----------------------------------------------------------------------------
(* Maps and lists *)

WriteMap(map, WriteValue(_)) ==
  LET keys == SetToSeq(DOMAIN map)
  IN  <<[nodes |-> Len(keys)]>>
        \o FlattenSeq([i \in DOMAIN keys |-> <<[key |-> keys[i]]>> \o WriteValue(map[keys[i]])])

ReadMap(memory, ReadValue(_)) ==
  LET ReadNode(got, i) ==
        LET value == ReadValue(Behind(got.memory, 1))
        IN  Got((got.memory[1].key :> value.value) @@ got.value, value.memory)
  IN  FoldLeft(ReadNode, Got(<<>>, Behind(memory, 1)), [i \in 1..memory[1].nodes |-> i])

\* The pointers that were written tell where a list ends: that of the list whether
\* there is an item, that of an item whether there is another one.
WriteList(list) ==
  <<[head |-> list # <<>>]>> \o [i \in DOMAIN list |-> [value |-> list[i], next |-> i < Len(list)]]

IsLast(cell) == "next" \in DOMAIN cell /\ ~cell.next

ReadList(memory) ==
  LET last == IF memory[1].head THEN SelectInSubSeq(memory, 2, Len(memory), IsLast) ELSE 1
  IN  Got([i \in 1..(last - 1) |-> memory[i + 1].value], Behind(memory, last))

-----------------------------------------------------------------------------
(* Applications *)

\* An entry is the struct with its list, the items, and the map of translations.
WriteEntry(entry) == WriteList(entry.values) \o WriteMap(entry.localized, WriteList)

ReadEntry(memory) ==
  LET values == ReadList(memory)
      localized == ReadMap(values.memory, ReadList)
  IN  Got([values |-> values.value, localized |-> localized.value], localized.memory)

WriteGroup(group) == WriteMap(group, WriteEntry)
ReadGroup(memory) == ReadMap(memory, ReadEntry)

WriteApp(app) ==
  <<[groups |-> app.own]>> \o (IF app.own THEN WriteMap(app.groups, WriteGroup) ELSE <<>>)

\* Mutant of ReadApp: groups->owner is left as it was written.
ReadAppOwnerKept(memory) ==
  IF memory[1].groups
  THEN LET groups == ReadMap(Behind(memory, 1), ReadGroup)
       IN  Got([own |-> FALSE, groups |-> groups.value], groups.memory)
  ELSE Got(NoApp, Behind(memory, 1))

ReadApp(memory) ==
  IF memory[1].groups
  THEN LET groups == ReadMap(Behind(memory, 1), ReadGroup)
       IN  Got([own |-> TRUE, groups |-> groups.value], groups.memory)
  ELSE Got(NoApp, Behind(memory, 1))

-----------------------------------------------------------------------------
(* Lists of applications, by MIME type *)

\* A list names applications; the reader looks their addresses up.
Item(app_files_map, name) ==
  [name |-> name, app |-> {app_files_map[a] : a \in DOMAIN app_files_map \intersect {name}}]

WriteSubType(list) == WriteList([i \in DOMAIN list |-> list[i].name])

ReadSubType(memory, app_files_map) ==
  LET names == ReadList(memory)
  IN  Got([i \in DOMAIN names.value |-> Item(app_files_map, names.value[i])], names.memory)

WriteType(sub_types) == WriteMap(sub_types, WriteSubType)
ReadType(memory, app_files_map) == ReadMap(memory, LAMBDA m : ReadSubType(m, app_files_map))

-----------------------------------------------------------------------------
(* The file *)

Version == 1

WriteCache(data) ==
  <<[version |-> Version]>> \o WriteList(data.files)
    \o WriteMap(data.app_files_map, WriteApp)
    \o WriteMap(data.asoc_map, WriteType) \o WriteMap(data.lst_files_map, WriteType)

ReadCache(memory) ==
  LET files == ReadList(Behind(memory, 1))
      apps == ReadMap(files.memory, ReadApp)
      asoc == ReadMap(apps.memory, LAMBDA m : ReadType(m, apps.value))
      lst == ReadMap(asoc.memory, LAMBDA m : ReadType(m, apps.value))
  IN  [files |-> files.value, app_files_map |-> apps.value,
       asoc_map |-> asoc.value, lst_files_map |-> lst.value]
=============================================================================
