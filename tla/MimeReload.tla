------------------------------ MODULE MimeReload ------------------------------
(***************************************************************************)
(* How src/src/mime/xdgmime.c loads, reloads and drops the MIME database,  *)
(* and the list of the functions to call when it does: _xdg_mime_init,     *)
(* xdg_mime_refresh, _xdg_mime_shutdown, xdg_mime_register_reload_callback *)
(* and xdg_mime_remove_callback.                                           *)
(*                                                                         *)
(* One version stands for a mime.cache file, one for all text files of a   *)
(* directory.  The library's user may call register and remove between two *)
(* calls and from within a callback, which may remove itself.  A callback  *)
(* calls neither refresh nor shutdown, and what is called when it is       *)
(* removed (destroy) leaves the library alone.                             *)
(***************************************************************************)
EXTENDS Integers, Sequences

CONSTANTS Order,       \* the data directories, in the order they are read
          Entry,       \* list elements of registered callbacks: their ids
          MaxVersion,  \* bound on the changes of the disk
          NULL

Dir == {Order[i] : i \in 1 .. Len(Order)}

ASSUME OrderAssumption ==
  /\ Len(Order) \in Nat \ {0}
  /\ \A i, j \in 1 .. Len(Order) : Order[i] = Order[j] => i = j
ASSUME BoundAssumption == MaxVersion \in Nat \ {0}
ASSUME NullAssumption == NULL \notin Entry

VARIABLES
  disk,     \* disk[d]: the versions of mime.cache and of the text files
  version,  \* the last version given
  caches,   \* _caches: the mapped cache files
  texts,    \* what was read into global_hash, global_magic, alias_list, ...
  pc,       \* "down", "init", "up", "refresh" or "shutdown"
  turn,     \* the directory the loop of _xdg_mime_init has reached
  quiet,    \* history: the disk has not changed since the loop began
  head,     \* callback_list
  next, prev,
  status,   \* status[e]: "new", "registered" or "freed"
  cursor,   \* the element whose callback is running, in _xdg_mime_shutdown; its
            \* memory may have been freed
  wanted,   \* the id xdg_mime_remove_callback looks for, or NULL
  seeker    \* the element it has reached

diskVars == <<disk, version>>
baseVars == <<caches, texts, turn>>
listVars == <<head, next, prev, status>>
seekVars == <<wanted, seeker>>
vars == <<disk, version, caches, texts, pc, turn, quiet,
          head, next, prev, status, cursor, wanted, seeker>>

\* No mime.cache file, and one of another version or too short.
Missing == 0
Unusable == -1
Version == 1 .. MaxVersion

Init ==
  /\ disk \in [Dir -> [cache: {Missing, Unusable, 1}, text: {1}]]
  /\ version = 1
  /\ caches = <<>> /\ texts = <<>>
  /\ pc = "down"
  /\ turn = 1
  /\ quiet = FALSE
  /\ head = NULL
  /\ next = [e \in Entry |-> NULL]
  /\ prev = [e \in Entry |-> NULL]
  /\ status = [e \in Entry |-> "new"]
  /\ cursor = NULL /\ wanted = NULL /\ seeker = NULL

-----------------------------------------------------------------------------
(* The database *)

\* update-mime-database writes new files, or a cache file comes or goes.
Edit(d) ==
  /\ version < MaxVersion
  /\ version' = version + 1
  /\ \/ disk' = [disk EXCEPT ![d].text = version']
     \/ \E c \in {Missing, Unusable, version'} : disk' = [disk EXCEPT ![d].cache = c]
  /\ quiet' = FALSE
  /\ UNCHANGED <<baseVars, pc, listVars, cursor, seekVars>>

StartInit ==
  /\ pc = "down" /\ wanted = NULL
  /\ pc' = "init"
  /\ turn' = 1
  /\ quiet' = TRUE
  /\ UNCHANGED <<diskVars, caches, texts, listVars, cursor, seekVars>>

\* Mutant of InitFromDirectory: a cache file that cannot be used ends the
\* directory, without its text files.
InitFromDirectoryNoFallback ==
  /\ pc = "init"
  /\ LET d == Order[turn] IN
     /\ caches' = IF disk[d].cache \in Version THEN Append(caches, <<d, disk[d].cache>>)
                  ELSE caches
     /\ texts' = IF disk[d].cache = Missing THEN Append(texts, <<d, disk[d].text>>)
                 ELSE texts
  /\ turn' = turn + 1
  /\ pc' = IF turn = Len(Order) THEN "up" ELSE "init"
  /\ UNCHANGED <<diskVars, quiet, listVars, cursor, seekVars>>

\* xdg_mime_init_from_directory: the cache file if it can be used, else the
\* text files.  After the last directory the call returns.
InitFromDirectory ==
  /\ pc = "init"
  /\ LET d == Order[turn]
         usable == disk[d].cache \in Version
     IN /\ caches' = IF usable THEN Append(caches, <<d, disk[d].cache>>) ELSE caches
        /\ texts' = IF usable THEN texts ELSE Append(texts, <<d, disk[d].text>>)
  /\ turn' = turn + 1
  /\ pc' = IF turn = Len(Order) THEN "up" ELSE "init"
  /\ UNCHANGED <<diskVars, quiet, listVars, cursor, seekVars>>

\* _xdg_mime_shutdown drops the database, then calls the callbacks; it is the
\* first half of xdg_mime_refresh, which has no condition: it tests the address
\* of xdg_check_time_and_dirs.
Drop ==
  /\ caches' = <<>> /\ texts' = <<>>
  /\ cursor' = head
  /\ UNCHANGED <<diskVars, turn, quiet, listVars, seekVars>>

Refresh == pc = "up" /\ wanted = NULL /\ pc' = "refresh" /\ Drop
Shutdown == pc = "up" /\ wanted = NULL /\ pc' = "shutdown" /\ Drop

Dropping == pc \in {"refresh", "shutdown"}

\* Mutant of CallbackReturns: the loop starts over.
CallbackReturnsToHead ==
  /\ Dropping /\ cursor # NULL /\ wanted = NULL
  /\ cursor' = head
  /\ UNCHANGED <<diskVars, baseVars, pc, quiet, listVars, seekVars>>

\* The callback that runs was removed, by itself or before it was called.
CursorFreed == cursor # NULL /\ status[cursor] = "freed"

\* A callback returns, and the loop goes on to the next one.  Of a freed element it
\* reads what was left there, or what the allocator wrote: nothing, or the address
\* of another freed element.
CallbackReturns ==
  /\ Dropping /\ cursor # NULL /\ wanted = NULL
  /\ \/ cursor' = next[cursor]
     \/ CursorFreed /\ cursor' \in {NULL} \union {e \in Entry : status[e] = "freed"}
  /\ UNCHANGED <<diskVars, baseVars, pc, quiet, listVars, seekVars>>

\* Or the program is killed, and may be started again.
Killed ==
  /\ Dropping /\ CursorFreed /\ wanted = NULL
  /\ pc' = "down"
  /\ head' = NULL /\ cursor' = NULL /\ seeker' = NULL
  /\ next' = [e \in Entry |-> NULL] /\ prev' = [e \in Entry |-> NULL]
  /\ status' = [e \in Entry |-> "new"]
  /\ UNCHANGED <<diskVars, baseVars, quiet, wanted>>

CallbacksDone ==
  /\ Dropping /\ cursor = NULL
  /\ IF pc = "refresh"
     THEN pc' = "init" /\ turn' = 1 /\ quiet' = TRUE
     ELSE pc' = "down" /\ UNCHANGED <<turn, quiet>>
  /\ UNCHANGED <<diskVars, caches, texts, listVars, cursor, seekVars>>

-----------------------------------------------------------------------------
(* The list of callbacks *)

\* The user's code runs: between two calls, or in a callback.
UserRuns == wanted = NULL /\ (pc \in {"down", "up"} \/ cursor # NULL)

\* xdg_mime_register_reload_callback.  The new element may be given the memory of
\* the one the loop has reached.
Register(e) ==
  /\ UserRuns
  /\ status[e] = "new"
  /\ status' = [status EXCEPT ![e] = "registered"]
  /\ next' = [next EXCEPT ![e] = head]
  /\ prev' = IF head # NULL THEN [prev EXCEPT ![head] = e] ELSE prev
  /\ head' = e
  /\ cursor' = cursor \/ (CursorFreed /\ cursor' = e)
  /\ UNCHANGED <<diskVars, baseVars, pc, quiet, seekVars>>

\* xdg_mime_remove_callback is called with an id that was given once.
RemoveCallback(e) ==
  /\ UserRuns
  /\ status[e] # "new"
  /\ wanted' = e
  /\ seeker' = head
  /\ UNCHANGED <<diskVars, baseVars, pc, quiet, listVars, cursor>>

SeekOn ==
  /\ wanted # NULL
  /\ seeker \notin {NULL, wanted}
  /\ seeker' = next[seeker]
  /\ UNCHANGED <<diskVars, baseVars, pc, quiet, listVars, cursor, wanted>>

\* Mutant of Unlink: callback_list is left alone.
UnlinkNotHead(e) ==
  LET n == IF next[e] # NULL THEN prev[e] ELSE NULL
  IN /\ IF prev[e] # NULL
        THEN next' = [next EXCEPT ![e] = n, ![prev[e]] = n]
        ELSE next' = [next EXCEPT ![e] = n]
     /\ UNCHANGED <<head, prev>>

\* list->next becomes list->prev before anything reads it.
Unlink(e) ==
  LET n == IF next[e] # NULL THEN prev[e] ELSE NULL
  IN /\ IF prev[e] # NULL
        THEN next' = [next EXCEPT ![e] = n, ![prev[e]] = n] /\ UNCHANGED head
        ELSE next' = [next EXCEPT ![e] = n] /\ head' = n
     /\ UNCHANGED prev

RemoveFound ==
  /\ wanted # NULL /\ seeker = wanted
  /\ Unlink(wanted)
  /\ status' = [status EXCEPT ![wanted] = "freed"]
  /\ wanted' = NULL /\ seeker' = NULL
  /\ UNCHANGED <<diskVars, baseVars, pc, quiet, cursor>>

RemoveMissed ==
  /\ wanted # NULL /\ seeker = NULL
  /\ wanted' = NULL
  /\ UNCHANGED <<diskVars, baseVars, pc, quiet, listVars, cursor, seeker>>

-----------------------------------------------------------------------------
LibraryStep == InitFromDirectory \/ CallbacksDone \/ SeekOn \/ RemoveFound \/ RemoveMissed

Next ==
  \/ LibraryStep \/ CallbackReturns \/ Killed
  \/ StartInit \/ Refresh \/ Shutdown
  \/ \E e \in Entry : Register(e) \/ RemoveCallback(e)
  \/ \E d \in Dir : Edit(d)

\* A call of the library goes on, and a callback returns some time, however
\* often it calls the library first.
Spec == Init /\ [][Next]_vars /\ WF_vars(LibraryStep) /\ SF_vars(CallbackReturns)

-----------------------------------------------------------------------------
(* Properties *)

\* Type invariant.
TypeOK ==
  /\ disk \in [Dir -> [cache: {Missing, Unusable} \union Version, text: Version]]
  /\ version \in Version
  /\ caches \in Seq(Dir \X Version) /\ texts \in Seq(Dir \X Version)
  /\ pc \in {"down", "init", "up", "refresh", "shutdown"}
  /\ turn \in 1 .. Len(Order) + 1
  /\ quiet \in BOOLEAN
  /\ next \in [Entry -> Entry \union {NULL}] /\ prev \in [Entry -> Entry \union {NULL}]
  /\ status \in [Entry -> {"new", "registered", "freed"}]
  /\ {head, cursor, wanted, seeker} \subseteq Entry \union {NULL}

\* The elements that the next pointers of those in start lead to, start included:
\* the smallest set that no next pointer leads out of.
Closed(S) == \A e \in S : next[e] \in S \union {NULL}
Followed(start) == {e \in Entry : \A S \in SUBSET Entry : start \subseteq S /\ Closed(S) => e \in S}

\* However entries are registered and removed, also from within callbacks, and
\* whatever the broken unlinking does to the list: searches, the pointers of the
\* list's elements, and the loop over the callbacks from wherever it is never get
\* to an element that was freed.  There is one exception: a callback that removes
\* itself, after which the loop reads on from its freed element (CursorFreed).
ListIsLive ==
  LET listed == Followed({head, seeker} \ {NULL})
      ahead == Followed({cursor} \ {NULL})
      live == {e \in Entry : status[e] = "registered"}
  IN /\ listed \union ({prev[e] : e \in listed} \ {NULL}) \subseteq live
     /\ ~CursorFreed => ahead \subseteq live

\* The directories of caches or of texts, and whether they are in the order of
\* precedence.
Read(base) == {base[k][1] : k \in DOMAIN base}
Ordered(base) ==
  \A k, l \in DOMAIN base : k < l =>
    \E i, j \in 1 .. Len(Order) : i < j /\ base[k][1] = Order[i] /\ base[l][1] = Order[j]

\* Each directory that was read is in the database once, as a cache or as text and
\* never both, and in the order of precedence.
EachDirectoryOnce ==
  /\ Read(caches) \union Read(texts) = {Order[i] : i \in 1 .. turn - 1}
  /\ Read(caches) \intersect Read(texts) = {}
  /\ Ordered(caches) /\ Ordered(texts)

UpToDate ==
  \A i \in 1 .. Len(Order) :
    LET d == Order[i] IN
    IF disk[d].cache \in Version
    THEN <<d, disk[d].cache>> \in {caches[k] : k \in DOMAIN caches}
    ELSE <<d, disk[d].text>> \in {texts[k] : k \in DOMAIN texts}

\* Whether loaded first or again by a refresh, and whatever changes meanwhile, the
\* database has each directory once and nothing of the database before it; and
\* where nothing changed during the loading it is that of the disk.
QuietLoadIsUpToDate ==
  /\ pc \in {"init", "up"} => EachDirectoryOnce
  /\ pc = "up" /\ quiet => UpToDate

\* A refresh, a shutdown or a removal that never returns has met an element that
\* unlinking made its own successor, or called a callback that was removed; there
\* is no other way to hang.
CallsReturn ==
  (Dropping \/ wanted # NULL) ~>
    \/ ~Dropping /\ wanted = NULL
    \/ CursorFreed \/ \E e \in Entry : next[e] = e

\* xdgmime.c:758 says of xdg_mime_register_reload_callback "Registers a function
\* to be called every time the mime database reloads its files": an element that
\* was not removed is in the list.
RegisteredAreCalled ==
  wanted = NULL => {e \in Entry : status[e] = "registered"} \subseteq Followed({head} \ {NULL})
=============================================================================
