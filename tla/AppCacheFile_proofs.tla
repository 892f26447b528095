-------------------------- MODULE AppCacheFile_proofs --------------------------
(***************************************************************************)
(* Proofs about AppCacheFile, for any number of tools, files, seconds and  *)
(* changes: a cache file that the code takes for valid holds what is in    *)
(* the directory, and a rebuild that nothing disturbs leaves a valid one.  *)
(***************************************************************************)
EXTENDS AppCacheFile, TLAPS

-----------------------------------------------------------------------------
(* The inductive invariant *)

Looking == {"readdir", "stat", "read"}
Finished == {"version", "files", "trees", "done"}

\* No time is one to come.
TimesArePast == dirTime <= clock /\ \A a \in App : mtime[a] <= clock

\* What was not stamped in the second it was looked at is older than the clock: a
\* change from now on gives another time.
Older(r) ==
  ~r.racy => r.dir < clock /\ \A a \in App : r.files[a] # None => r.files[a] < clock

\* The variables of a tool at each step, whatever happens on the disk.
ToolInv(t) ==
  /\ pc[t] # "idle" => cache \in CacheFile
  /\ pc[t] \in {"stat", "read"} => file[t] \in App
  /\ pc[t] \notin {"stat", "read"} => file[t] = None /\ fd[t] = None
  /\ pc[t] \in {"stat_dir", "opendir"} =>
       \A a \in App : scan[t].files[a] = None /\ scan[t].content[a] = 0
  /\ pc[t] \in Looking => \A a \in todo[t] : scan[t].files[a] = None /\ a # file[t]
  /\ pc[t] = "stat" => scan[t].files[file[t]] = None
  /\ pc[t] = "read" => scan[t].files[file[t]] # None
  /\ pc[t] \in Finished => todo[t] = {}
  /\ Older(scan[t])

\* What was read of a file agrees with the disk, as far as its time tells.
AgreesOn(r, a) ==
  /\ r.files[a] # 0
  /\ r.files[a] = None => r.content[a] = 0
  /\ r.files[a] = mtime[a] => r.content[a] = content[a]

\* No name was given or taken away since the directory was looked at.
SameNames(r) == ~r.racy /\ r.dir = dirTime

\* What a finished scan of a directory with the same names says of it.
UpToDate(r) ==
  SameNames(r) => \A a \in App : (a \in Present <=> r.files[a] # None) /\ AgreesOn(r, a)

\* The same for a scan on its way: some names are still to come, one is open.
\* It also holds of a quiet scan, whatever the clock says.
ScanInv(t) ==
  pc[t] \in Looking \union Finished /\ (SameNames(scan[t]) \/ quiet[t]) =>
    /\ fd[t] = None
    /\ \A a \in App :
         /\ a \in Present <=> \/ a \in todo[t]
                              \/ scan[t].files[a] # None
                              \/ pc[t] = "stat" /\ a = file[t]
         /\ scan[t].files[a] # 0
         /\ scan[t].files[a] = None => scan[t].content[a] = 0
         /\ ~(pc[t] = "read" /\ a = file[t]) => AgreesOn(scan[t], a)

\* While nothing changes the tool is alone, its times are those of the disk, and
\* the cache file has what it has written.
QuietInv(t) ==
  quiet[t] =>
    /\ Alone(t)
    /\ pc[t] \in {"opendir"} \union Looking \union Finished =>
         /\ scan[t].dir = dirTime
         /\ \A a \in App : scan[t].files[a] # None => scan[t].files[a] = mtime[a]
    /\ pc[t] \in {"files", "trees", "done"} => cache.version = scan[t]
    /\ pc[t] \in {"trees", "done"} => cache.files = scan[t]
    /\ pc[t] = "done" => cache.trees = scan[t]

CacheInv == cache # None /\ cache.files # None => Older(cache.files) /\ UpToDate(cache.files)

IInv ==
  /\ TypeOK
  /\ TimesArePast
  /\ \A t \in Tool : ToolInv(t) /\ ScanInv(t) /\ QuietInv(t)
  /\ CacheInv

-----------------------------------------------------------------------------
(* What the steps that look at the disk leave in the scan *)

LEMMA DirUpdate ==
  ASSUME NEW r \in Read, NEW d, NEW b
  PROVE  [r EXCEPT !.dir = d, !.racy = b] =
           [dir |-> d, files |-> r.files, content |-> r.content, racy |-> b]
<1> DEFINE s == [dir |-> d, files |-> r.files, content |-> r.content, racy |-> r.racy]
<1>1. [r EXCEPT !.dir = d] = s
  BY DEF Read
<1>2. [[r EXCEPT !.dir = d] EXCEPT !.racy = b] = [s EXCEPT !.racy = b]
  BY <1>1, Zenon
<1>3. [s EXCEPT !.racy = b] = [dir |-> d, files |-> r.files, content |-> r.content, racy |-> b]
  OBVIOUS
<1> QED BY <1>2, <1>3, Zenon

LEMMA FilesUpdate ==
  ASSUME NEW r \in Read, NEW f, NEW b
  PROVE  /\ [r EXCEPT !.files = f, !.racy = b] =
              [dir |-> r.dir, files |-> f, content |-> r.content, racy |-> b]
         /\ [r EXCEPT !.files = f] =
              [dir |-> r.dir, files |-> f, content |-> r.content, racy |-> r.racy]
<1> DEFINE s == [dir |-> r.dir, files |-> f, content |-> r.content, racy |-> r.racy]
<1>1. [r EXCEPT !.files = f] = s
  BY DEF Read
<1>2. [[r EXCEPT !.files = f] EXCEPT !.racy = b] = [s EXCEPT !.racy = b]
  BY <1>1, Zenon
<1>3. [s EXCEPT !.racy = b] = [dir |-> r.dir, files |-> f, content |-> r.content, racy |-> b]
  OBVIOUS
<1> QED BY <1>1, <1>2, <1>3, Zenon

LEMMA ContentUpdate ==
  ASSUME NEW r \in Read, NEW c
  PROVE  [r EXCEPT !.content = c] =
           [dir |-> r.dir, files |-> r.files, content |-> c, racy |-> r.racy]
  BY DEF Read

LEMMA StatDirScan ==
  ASSUME TypeOK, NEW t \in Tool, StatDir(t)
  PROVE  /\ scan' \in [Tool -> Read]
         /\ \A u \in Tool \ {t} : scan'[u] = scan[u]
         /\ scan'[t].dir = dirTime
         /\ scan'[t].files = scan[t].files
         /\ scan'[t].content = scan[t].content
         /\ ~scan'[t].racy => dirTime # clock
<1> DEFINE racy == scan[t].racy \/ dirTime = clock
           new == [dir |-> dirTime, files |-> scan[t].files, content |-> scan[t].content,
                   racy |-> racy]
<1>1. scan \in [Tool -> Read] /\ scan[t] \in Read /\ racy \in BOOLEAN
  BY DEF TypeOK
<1>2. ~racy => dirTime # clock
  OBVIOUS
<1>3. scan' = [scan EXCEPT ![t] = [scan[t] EXCEPT !.dir = dirTime, !.racy = racy]]
  BY DEF StatDir, TypeOK
<1> HIDE DEF racy
<1>4. [scan[t] EXCEPT !.dir = dirTime, !.racy = racy] = new
  BY <1>1, DirUpdate, Zenon
<1>5. new \in Read
  BY <1>1 DEF Read, TypeOK
<1>6. scan' = [scan EXCEPT ![t] = new]
  BY <1>3, <1>4, Zenon
<1> QED BY <1>1, <1>2, <1>5, <1>6

LEMMA StatFileScan ==
  ASSUME TypeOK, NEW t \in Tool, ToolInv(t), StatFile(t)
  PROVE  /\ scan' \in [Tool -> Read]
         /\ \A u \in Tool \ {t} : scan'[u] = scan[u]
         /\ scan'[t].dir = scan[t].dir
         /\ scan'[t].files = [scan[t].files EXCEPT ![file[t]] =
                                IF file[t] \in Present THEN mtime[file[t]] ELSE 0]
         /\ scan'[t].content = scan[t].content
         /\ ~scan'[t].racy => ~scan[t].racy /\ (file[t] \in Present => mtime[file[t]] # clock)
<1> DEFINE racy == scan[t].racy \/ mtime[file[t]] = clock
           seen == [scan[t].files EXCEPT ![file[t]] = mtime[file[t]]]
           gone == [scan[t].files EXCEPT ![file[t]] = 0]
           newSeen == [dir |-> scan[t].dir, files |-> seen, content |-> scan[t].content,
                       racy |-> racy]
           newGone == [dir |-> scan[t].dir, files |-> gone, content |-> scan[t].content,
                       racy |-> scan[t].racy]
<1>1. scan \in [Tool -> Read] /\ scan[t] \in Read /\ racy \in BOOLEAN /\ file[t] \in App
  BY DEF TypeOK, ToolInv, StatFile
<1>2. ~racy => ~scan[t].racy /\ mtime[file[t]] # clock
  OBVIOUS
<1>3. scan' = IF file[t] \in Present
              THEN [scan EXCEPT ![t] = [scan[t] EXCEPT !.files = seen, !.racy = racy]]
              ELSE [scan EXCEPT ![t] = [scan[t] EXCEPT !.files = gone]]
  BY DEF StatFile, TypeOK
<1>4. /\ seen \in [App -> {0, None} \union Time] /\ gone \in [App -> {0, None} \union Time]
      /\ file[t] \in Present =>
           seen = [scan[t].files EXCEPT ![file[t]] =
                     IF file[t] \in Present THEN mtime[file[t]] ELSE 0]
      /\ file[t] \notin Present =>
           gone = [scan[t].files EXCEPT ![file[t]] =
                     IF file[t] \in Present THEN mtime[file[t]] ELSE 0]
  BY <1>1 DEF Read, TypeOK
<1> HIDE DEF racy, seen, gone
<1>5. /\ [scan[t] EXCEPT !.files = seen, !.racy = racy] = newSeen
      /\ [scan[t] EXCEPT !.files = gone] = newGone
  BY <1>1, FilesUpdate, Zenon
<1>6. newSeen \in Read /\ newGone \in Read
  BY <1>1, <1>4 DEF Read, TypeOK
<1>7. CASE file[t] \in Present
  <2>1. scan' = [scan EXCEPT ![t] = newSeen]
    BY <1>3, <1>5, <1>7, Zenon
  <2> QED BY <1>1, <1>2, <1>4, <1>6, <1>7, <2>1
<1>8. CASE file[t] \notin Present
  <2>1. scan' = [scan EXCEPT ![t] = newGone]
    BY <1>3, <1>5, <1>8, Zenon
  <2> QED BY <1>1, <1>4, <1>6, <1>8, <2>1
<1> QED BY <1>7, <1>8

LEMMA ReadFileScan ==
  ASSUME TypeOK, NEW t \in Tool, ToolInv(t), ReadFile(t)
  PROVE  /\ scan' \in [Tool -> Read]
         /\ \A u \in Tool \ {t} : scan'[u] = scan[u]
         /\ scan'[t].dir = scan[t].dir
         /\ scan'[t].files = scan[t].files
         /\ scan'[t].content = [scan[t].content EXCEPT ![file[t]] =
                                  IF fd[t] = None THEN content[file[t]] ELSE fd[t]]
         /\ scan'[t].racy = scan[t].racy
<1> DEFINE read == [scan[t].content EXCEPT ![file[t]] =
                      IF fd[t] = None THEN content[file[t]] ELSE fd[t]]
           new == [dir |-> scan[t].dir, files |-> scan[t].files, content |-> read,
                   racy |-> scan[t].racy]
<1>1. scan \in [Tool -> Read] /\ scan[t] \in Read /\ file[t] \in App
  BY DEF TypeOK, ToolInv, ReadFile
<1>2. scan' = [scan EXCEPT ![t] = [scan[t] EXCEPT !.content = read]]
  BY DEF ReadFile, TypeOK
<1>3. read \in [App -> Content]
  BY <1>1 DEF Read, TypeOK
<1> HIDE DEF read
<1>4. [scan[t] EXCEPT !.content = read] = new
  BY <1>1, ContentUpdate
<1>5. new \in Read
  BY <1>1, <1>3 DEF Read
<1>6. scan' = [scan EXCEPT ![t] = new]
  BY <1>2, <1>4
<1> QED BY <1>1, <1>5, <1>6 DEF read

-----------------------------------------------------------------------------
(* Types *)

LEMMA InitTyped == Init => TypeOK
  BY BoundAssumption DEF Init, TypeOK, Time, Content, NothingRead, Read

\* A step keeps the types; that a tool that writes has a cache file and one that
\* reads has a file open is part of ToolInv.
LEMMA NextTyped ==
  ASSUME TypeOK, \A t \in Tool : ToolInv(t), [Next]_vars
  PROVE  TypeOK'
<1> USE BoundAssumption DEF TypeOK, Time, Content
<1>1. CASE Tick
  BY <1>1 DEF Tick, toolVars
<1>2. ASSUME NEW a \in App, Write(a) PROVE TypeOK'
  BY <1>2 DEF Write, Changed
<1>3. ASSUME NEW a \in App, Rename(a) PROVE TypeOK'
  BY <1>3 DEF Rename, Changed, Present
<1>4. ASSUME NEW t \in Tool, OpenCache(t) PROVE TypeOK'
  <2>1. NothingRead \in Read /\ Unwritten \in CacheFile
    BY DEF NothingRead, Read, Unwritten, CacheFile
  <2> QED BY <1>4, <2>1 DEF OpenCache, Goto
<1>5. ASSUME NEW t \in Tool, StatDir(t) PROVE TypeOK'
  BY <1>5, StatDirScan DEF StatDir, Goto, dirVars
<1>6. ASSUME NEW t \in Tool, OpenDir(t) PROVE TypeOK'
  BY <1>6 DEF OpenDir, Goto, dirVars, Present
<1>7. ASSUME NEW t \in Tool, NEW a \in App, ReadDir(t, a) PROVE TypeOK'
  BY <1>7 DEF ReadDir, Goto, dirVars
<1>8. ASSUME NEW t \in Tool, StatFile(t) PROVE TypeOK'
  BY <1>8, StatFileScan DEF StatFile, Goto, dirVars
<1>9. ASSUME NEW t \in Tool, ReadFile(t) PROVE TypeOK'
  BY <1>9, ReadFileScan DEF ReadFile, Goto, dirVars
<1>10. ASSUME NEW t \in Tool, CloseDir(t) PROVE TypeOK'
  BY <1>10 DEF CloseDir, Goto, dirVars
<1>11. ASSUME NEW t \in Tool, NEW i \in 1 .. 3, WriteSection(t, i) PROVE TypeOK'
  <2>1. cache \in CacheFile
    BY <1>11 DEF WriteSection, Section, ToolInv
  <2>2. cache' \in CacheFile
    BY <1>11, <2>1 DEF WriteSection, Section, CacheFile
  <2>3. pc' \in [Tool -> {"idle", "stat_dir", "opendir", "readdir", "stat", "read",
                          "version", "files", "trees", "done"}]
    BY <1>11 DEF WriteSection, Section, Goto
  <2> QED BY <1>11, <2>2, <2>3 DEF WriteSection, dirVars
<1>12. ASSUME NEW t \in Tool, Kill(t) PROVE TypeOK'
  <2>1. NothingRead \in Read
    BY DEF NothingRead, Read
  <2> QED BY <1>12, <2>1 DEF Kill, Goto, dirVars
<1>13. CASE UNCHANGED vars
  BY <1>13 DEF vars
<1> QED
  BY <1>1, <1>2, <1>3, <1>4, <1>5, <1>6, <1>7, <1>8, <1>9, <1>10, <1>11, <1>12, <1>13
  DEF Next, RebuildStep

-----------------------------------------------------------------------------
(* Steps of the world: time passes, files change *)

LEMMA TickKeeps ==
  ASSUME IInv, Tick
  PROVE  IInv'
<1>1. TypeOK'
  BY NextTyped DEF IInv, Next
<1>2. clock < clock' /\ UNCHANGED <<content, mtime, dirTime, changes, cache, toolVars>>
  BY DEF Tick, IInv, TypeOK, Time
<1>3. clock \in Int /\ clock' \in Int /\ dirTime \in Int /\ \A a \in App : mtime[a] \in Int
  BY <1>1 DEF IInv, TypeOK, Time
<1>4. TimesArePast'
  BY <1>2, <1>3 DEF IInv, TimesArePast
<1>5. ASSUME NEW r \in Read, Older(r) PROVE Older(r)'
  <2>1. r.dir \in Int /\ \A a \in App : r.files[a] = None \/ r.files[a] \in Int
    BY DEF Read, Time
  <2> QED BY <1>2, <1>5, <1>3, <2>1 DEF Older
<1>6. ASSUME NEW t \in Tool PROVE (ToolInv(t) /\ ScanInv(t) /\ QuietInv(t))'
  <2>1. scan[t] \in Read /\ scan' = scan /\ ToolInv(t) /\ ScanInv(t) /\ QuietInv(t)
    BY <1>2 DEF IInv, TypeOK, toolVars
  <2>2. Older(scan[t])'
    BY <2>1, <1>5 DEF ToolInv
  <2>3. ToolInv(t)'
    BY <1>2, <2>1, <2>2 DEF ToolInv, toolVars, Older
  <2>4. ScanInv(t)'
    BY <1>2, <2>1 DEF ScanInv, toolVars, SameNames, Present, AgreesOn
  <2>5. QuietInv(t)'
    BY <1>2, <2>1 DEF QuietInv, toolVars, Alone
  <2> QED BY <2>3, <2>4, <2>5
<1>7. CacheInv'
  <2> SUFFICES ASSUME cache # None, cache.files # None
               PROVE  (Older(cache.files) /\ UpToDate(cache.files))'
    BY <1>2 DEF CacheInv
  <2>1. cache.files \in Read /\ Older(cache.files) /\ UpToDate(cache.files)
    BY DEF IInv, TypeOK, CacheFile, CacheInv
  <2>2. Older(cache.files)'
    BY <2>1, <1>2 , <1>5 DEF Older
  <2>3. UpToDate(cache.files)'
    BY <2>1, <1>2 DEF UpToDate, SameNames, Present, AgreesOn
  <2> QED BY <2>2, <2>3
<1> QED BY <1>1, <1>4, <1>6, <1>7 DEF IInv

\* A change leaves no rebuild quiet, and its time differs from all that were read
\* in an earlier second.
LEMMA WriteKeeps ==
  ASSUME IInv, NEW a \in App, Write(a)
  PROVE  IInv'
<1>1. TypeOK'
  BY NextTyped DEF IInv, Next
<1>2. /\ UNCHANGED <<clock, cache, pc, scan, todo, file, fd, dirTime>>
      /\ content' = [content EXCEPT ![a] = changes'] /\ mtime' = [mtime EXCEPT ![a] = clock]
      /\ \A t \in Tool : ~quiet'[t]
      /\ Present' = Present
  BY DEF Write, Changed, IInv, TypeOK, Present, Content
<1>3. TimesArePast'
  BY <1>2 DEF IInv, TimesArePast, TypeOK, Time
<1>4. ASSUME NEW r \in Read, Older(r), SameNames(r), NEW b \in App, AgreesOn(r, b)
      PROVE  AgreesOn(r, b)'
  <2>1. CASE b = a
    <3>1. r.files[a] = None \/ r.files[a] < clock
      BY <1>4 DEF Older, SameNames
    <3>2. r.files[a] # mtime'[a]
      BY <1>2, <3>1, NoneAssumption DEF IInv, TypeOK, Time
    <3> QED BY <2>1, <3>2, <1>4 DEF AgreesOn
  <2>2. CASE b # a
    BY <1>2, <1>4, <2>2 DEF AgreesOn, IInv, TypeOK
  <2> QED BY <2>1, <2>2
<1>5. ASSUME NEW t \in Tool PROVE (ToolInv(t) /\ ScanInv(t) /\ QuietInv(t))'
  <2>1. scan[t] \in Read /\ ToolInv(t) /\ ScanInv(t) /\ Older(scan[t])
    BY DEF IInv, TypeOK, ToolInv
  <2>2. ToolInv(t)'
    BY <1>2, <2>1 DEF ToolInv, Older
  <2>3. ScanInv(t)'
    <3> SUFFICES ASSUME (pc[t] \in Looking \union Finished)', SameNames(scan[t])', NEW b \in App
                 PROVE  (/\ fd[t] = None
                         /\ b \in Present <=> \/ b \in todo[t]
                                              \/ scan[t].files[b] # None
                                              \/ pc[t] = "stat" /\ b = file[t]
                         /\ scan[t].files[b] # 0
                         /\ scan[t].files[b] = None => scan[t].content[b] = 0
                         /\ ~(pc[t] = "read" /\ b = file[t]) => AgreesOn(scan[t], b))'
      BY <1>2 DEF ScanInv
    <3>1. pc[t] \in Looking \union Finished /\ SameNames(scan[t])
      BY <1>2 DEF SameNames
    <3>2. AgreesOn(scan[t], b) => AgreesOn(scan[t], b)'
      BY <1>2, <1>4, <2>1, <3>1
    <3> QED BY <1>2, <2>1, <3>1, <3>2 DEF ScanInv
  <2>4. QuietInv(t)'
    BY <1>2 DEF QuietInv
  <2> QED BY <2>2, <2>3, <2>4
<1>6. CacheInv'
  <2> SUFFICES ASSUME cache # None, cache.files # None
               PROVE  (Older(cache.files) /\ UpToDate(cache.files))'
    BY <1>2 DEF CacheInv
  <2>1. cache.files \in Read /\ Older(cache.files) /\ UpToDate(cache.files)
    BY DEF IInv, TypeOK, CacheFile, CacheInv
  <2>2. Older(cache.files)'
    BY <2>1, <1>2 DEF Older
  <2>3. UpToDate(cache.files)'
    BY <2>1, <1>2, <1>4 DEF UpToDate, SameNames, AgreesOn
  <2> QED BY <2>2, <2>3
<1> QED BY <1>1, <1>3, <1>5, <1>6 DEF IInv

LEMMA RenameKeeps ==
  ASSUME IInv, NEW a \in App, Rename(a)
  PROVE  IInv'
<1>1. TypeOK'
  BY NextTyped DEF IInv, Next
<1>2. /\ UNCHANGED <<clock, cache, pc, scan, todo, file>>
      /\ dirTime' = clock
      /\ \A t \in Tool : ~quiet'[t]
      /\ \A t \in Tool : file[t] = None => fd'[t] = fd[t]
  BY NoneAssumption DEF Rename, Changed, IInv, TypeOK
<1>3. TimesArePast'
  BY <1>2 DEF Rename, IInv, TimesArePast, TypeOK, Time
<1>4. ASSUME NEW r \in Read, Older(r) PROVE ~SameNames(r)'
  BY <1>2, <1>4 DEF SameNames, Older, Read, IInv, TypeOK, Time
<1>5. ASSUME NEW t \in Tool PROVE (ToolInv(t) /\ ScanInv(t) /\ QuietInv(t))'
  <2>1. scan[t] \in Read /\ ToolInv(t) /\ Older(scan[t])
    BY DEF IInv, TypeOK, ToolInv
  <2>2. ToolInv(t)'
    BY <1>2, <2>1 DEF ToolInv, Older
  <2>3. ScanInv(t)'
    BY <1>2, <1>4, <2>1 DEF ScanInv, SameNames
  <2>4. QuietInv(t)'
    BY <1>2 DEF QuietInv
  <2> QED BY <2>2, <2>3, <2>4
<1>6. CacheInv'
  <2> SUFFICES ASSUME cache # None, cache.files # None
               PROVE  (Older(cache.files) /\ UpToDate(cache.files))'
    BY <1>2 DEF CacheInv
  <2>1. cache.files \in Read /\ Older(cache.files)
    BY DEF IInv, TypeOK, CacheFile, CacheInv
  <2>2. Older(cache.files)' /\ UpToDate(cache.files)'
    BY <2>1, <1>2, <1>4 DEF Older, UpToDate, SameNames
  <2> QED BY <2>2
<1> QED BY <1>1, <1>3, <1>5, <1>6 DEF IInv

-----------------------------------------------------------------------------
(* Steps of a rebuild *)

\* The other tools are as they were; none of them is quiet while this one works.
LEMMA OthersKeep ==
  ASSUME IInv, NEW t \in Tool, pc[t] \notin {"idle", "done"}, NEW u \in Tool, u # t,
         cache' \in CacheFile, UNCHANGED dirVars,
         pc'[u] = pc[u], scan'[u] = scan[u], todo'[u] = todo[u], file'[u] = file[u],
         fd'[u] = fd[u], quiet'[u] = quiet[u]
  PROVE  (ToolInv(u) /\ ScanInv(u) /\ QuietInv(u))'
<1>1. ToolInv(u) /\ ScanInv(u) /\ QuietInv(u)
  BY DEF IInv
<1>2. ~quiet'[u]
  BY <1>1 DEF QuietInv, Alone
<1>3. ToolInv(u)'
  BY <1>1 DEF ToolInv, Older, dirVars
<1>4. ScanInv(u)'
  BY <1>1, <1>2 DEF ScanInv, SameNames, Present, AgreesOn, dirVars
<1>5. QuietInv(u)'
  BY <1>2 DEF QuietInv
<1> QED BY <1>3, <1>4, <1>5

\* A step that leaves the disk and the cache file keeps what is said of them.
LEMMA DiskKept ==
  ASSUME IInv, UNCHANGED <<dirVars, cache>>
  PROVE  TimesArePast' /\ CacheInv'
<1>1. TimesArePast'
  BY DEF IInv, TimesArePast, dirVars
<1>2. CacheInv'
  BY DEF IInv, CacheInv, Older, UpToDate, SameNames, Present, AgreesOn, dirVars
<1> QED BY <1>1, <1>2

\* So what is left of a step that only reads the disk is its own tool.
LEMMA OwnToolSuffices ==
  ASSUME IInv, NEW t \in Tool, pc[t] \notin {"idle", "done"}, [Next]_vars,
         UNCHANGED <<dirVars, cache, quiet>>,
         \A u \in Tool \ {t} : /\ pc'[u] = pc[u] /\ scan'[u] = scan[u] /\ todo'[u] = todo[u]
                               /\ file'[u] = file[u] /\ fd'[u] = fd[u],
         (ToolInv(t) /\ ScanInv(t) /\ QuietInv(t))'
  PROVE  IInv'
<1>1. TypeOK'
  BY NextTyped DEF IInv
<1>2. cache' \in CacheFile
  BY DEF IInv, ToolInv
<1>3. ASSUME NEW u \in Tool PROVE (ToolInv(u) /\ ScanInv(u) /\ QuietInv(u))'
  BY <1>2, OthersKeep
<1> QED BY <1>1, <1>3, DiskKept DEF IInv

LEMMA StatDirKeeps ==
  ASSUME IInv, NEW t \in Tool, StatDir(t)
  PROVE  IInv'
<1>1. /\ pc[t] = "stat_dir" /\ pc' = [pc EXCEPT ![t] = "opendir"]
      /\ UNCHANGED <<dirVars, cache, todo, file, fd, quiet>>
  BY DEF StatDir, Goto
<1>2. TypeOK /\ ToolInv(t) /\ QuietInv(t) /\ TimesArePast
  BY DEF IInv
<1>3. ToolInv(t)'
  BY <1>1, <1>2, StatDirScan
  DEF ToolInv, Older, TypeOK, Looking, Finished, dirVars, TimesArePast, Time
<1>4. ScanInv(t)'
  BY <1>1, <1>2 DEF ScanInv, TypeOK, Looking, Finished
<1>5. QuietInv(t)'
  BY <1>1, StatDirScan, <1>2 DEF QuietInv, TypeOK, ToolInv, Alone, dirVars
<1> QED
  BY <1>1, StatDirScan, <1>2, <1>3, <1>4, <1>5, OwnToolSuffices DEF Next, RebuildStep, TypeOK

LEMMA OpenDirKeeps ==
  ASSUME IInv, NEW t \in Tool, OpenDir(t)
  PROVE  IInv'
<1>1. /\ pc[t] = "opendir" /\ pc' = [pc EXCEPT ![t] = "readdir"]
      /\ todo' = [todo EXCEPT ![t] = Present]
      /\ UNCHANGED <<dirVars, cache, scan, file, fd, quiet>>
  BY DEF OpenDir, Goto
<1>2. TypeOK /\ ToolInv(t) /\ QuietInv(t)
  BY DEF IInv
<1>3. ToolInv(t)'
  BY <1>1, <1>2, NoneAssumption DEF ToolInv, Older, Present, TypeOK, Looking, Finished, dirVars
<1>4. ScanInv(t)'
  BY <1>1, <1>2, NoneAssumption
  DEF ScanInv, ToolInv, AgreesOn, Present, TypeOK, Looking, Finished, dirVars, Time
<1>5. QuietInv(t)'
  BY <1>1, <1>2 DEF QuietInv, TypeOK, Alone, dirVars
<1> QED
  BY <1>1, <1>2, <1>3, <1>4, <1>5, OwnToolSuffices DEF Next, RebuildStep, TypeOK

LEMMA ReadDirKeeps ==
  ASSUME IInv, NEW t \in Tool, NEW a \in App, ReadDir(t, a)
  PROVE  IInv'
<1>1. /\ pc[t] = "readdir"
      /\ a \in todo[t] \/ (a \in Present /\ scan[t].files[a] = None)
      /\ todo' = [todo EXCEPT ![t] = @ \ {a}]
      /\ UNCHANGED <<dirVars, cache, scan, fd, quiet>>
  BY DEF ReadDir
<1>2. \/ a \in Present /\ pc' = [pc EXCEPT ![t] = "stat"] /\ file' = [file EXCEPT ![t] = a]
      \/ a \notin Present /\ UNCHANGED <<pc, file>>
  BY DEF ReadDir, Goto
<1>3. TypeOK /\ ToolInv(t) /\ ScanInv(t) /\ QuietInv(t)
  BY DEF IInv
<1>4. ToolInv(t)'
  BY <1>1, <1>2, <1>3 DEF ToolInv, Older, TypeOK, Looking, Finished, dirVars
<1>5. ScanInv(t)'
  <2> SUFFICES ASSUME SameNames(scan[t]) \/ quiet[t]
               PROVE  ScanInv(t)'
    BY <1>1 DEF ScanInv, SameNames, dirVars
  <2>1. /\ fd[t] = None
        /\ \A b \in App :
             /\ b \in Present <=> b \in todo[t] \/ scan[t].files[b] # None
             /\ scan[t].files[b] # 0
             /\ scan[t].files[b] = None => scan[t].content[b] = 0
             /\ AgreesOn(scan[t], b)
    BY <1>1, <1>3 DEF ScanInv, Looking
  <2>2. a \in Present /\ Present' = Present /\ \A b \in App : AgreesOn(scan[t], b)'
    BY <1>1, <2>1 DEF Present, AgreesOn, dirVars
  <2> QED BY <1>1, <1>2, <1>3, <2>1, <2>2 DEF ScanInv, TypeOK
<1>6. QuietInv(t)'
  BY <1>1, <1>2, <1>3 DEF QuietInv, TypeOK, Alone, Looking, Finished, dirVars
<1> QED
  BY <1>1, <1>2, <1>3, <1>4, <1>5, <1>6, OwnToolSuffices DEF Next, RebuildStep, TypeOK

LEMMA StatFileKeeps ==
  ASSUME IInv, NEW t \in Tool, StatFile(t)
  PROVE  IInv'
<1>1. /\ pc[t] = "stat" /\ pc' = [pc EXCEPT ![t] = "read"]
      /\ UNCHANGED <<dirVars, cache, todo, file, fd, quiet>>
  BY DEF StatFile, Goto
<1>2. TypeOK /\ ToolInv(t) /\ ScanInv(t) /\ QuietInv(t) /\ TimesArePast
  BY DEF IInv
<1> DEFINE f == file[t]
<1>3. f \in App /\ scan[t] \in Read /\ scan[t].files[f] = None
  BY <1>1, <1>2 DEF ToolInv, TypeOK
<1>4. /\ \A u \in Tool \ {t} : scan'[u] = scan[u]
      /\ scan'[t].dir = scan[t].dir
      /\ scan'[t].files[f] = IF f \in Present THEN mtime[f] ELSE 0
      /\ \A a \in App \ {f} : scan'[t].files[a] = scan[t].files[a]
      /\ scan'[t].content = scan[t].content
      /\ ~scan'[t].racy => ~scan[t].racy /\ (f \in Present => mtime[f] # clock)
  BY <1>2, <1>3, StatFileScan DEF Read
<1>5. mtime[f] \in Int /\ mtime[f] # 0 /\ mtime[f] <= clock /\ clock \in Int /\ 0 < clock
  BY <1>2, <1>3 DEF TypeOK, TimesArePast, Time
<1> HIDE DEF f
<1>6. ToolInv(t)'
  <2>1. Older(scan[t])'
    BY <1>1, <1>2, <1>3, <1>4, <1>5 DEF ToolInv, Older, dirVars
  <2> QED
    BY <1>1, <1>2, <1>3, <1>4, <1>5, <2>1, NoneAssumption DEF f, ToolInv, TypeOK, Looking, Finished
<1>7. ScanInv(t)'
  <2> SUFFICES ASSUME SameNames(scan[t])' \/ quiet[t]
               PROVE  ScanInv(t)'
    BY <1>1 DEF ScanInv
  <2>1. SameNames(scan[t]) \/ quiet[t]
    BY <1>1, <1>4 DEF SameNames, dirVars
  <2>2. /\ fd[t] = None
        /\ \A b \in App :
             /\ b \in Present <=> b \in todo[t] \/ scan[t].files[b] # None \/ b = f
             /\ scan[t].files[b] # 0
             /\ scan[t].files[b] = None => scan[t].content[b] = 0
             /\ AgreesOn(scan[t], b)
    BY <1>1, <1>2, <2>1 DEF ScanInv, Looking, f
  <2>3. f \in Present /\ scan'[t].files[f] = mtime[f] /\ mtime[f] # None
    BY <1>3, <1>4, <1>5, <2>2, NoneAssumption
  <2>4. Present' = Present /\ \A b \in App : b # f => AgreesOn(scan[t], b)'
    BY <1>1, <1>4, <2>2 DEF Present, AgreesOn, dirVars
  <2>5. f' = f /\ pc'[t] = "read" /\ todo'[t] = todo[t] /\ fd'[t] = fd[t]
    BY <1>1, <1>2 DEF f, TypeOK
  <2> QED BY <1>4, <1>5, <2>2, <2>3, <2>4, <2>5 DEF ScanInv, f
<1>8. QuietInv(t)'
  <2> SUFFICES ASSUME quiet[t] PROVE QuietInv(t)'
    BY <1>1 DEF QuietInv
  <2>1. f \in Present
    BY <1>1, <1>2, <1>3 DEF ScanInv, Looking, f
  <2> QED
    BY <1>1, <1>2, <1>3, <1>4, <2>1 DEF QuietInv, TypeOK, Alone, Looking, Finished, dirVars
<1> QED
  BY <1>1, <1>2, <1>4, <1>6, <1>7, <1>8, OwnToolSuffices DEF Next, RebuildStep, TypeOK

LEMMA ReadFileKeeps ==
  ASSUME IInv, NEW t \in Tool, ReadFile(t)
  PROVE  IInv'
<1>1. /\ pc[t] = "read" /\ pc' = [pc EXCEPT ![t] = "readdir"]
      /\ file' = [file EXCEPT ![t] = None] /\ fd' = [fd EXCEPT ![t] = None]
      /\ UNCHANGED <<dirVars, cache, todo, quiet>>
  BY DEF ReadFile, Goto
<1>2. TypeOK /\ ToolInv(t) /\ ScanInv(t) /\ QuietInv(t)
  BY DEF IInv
<1> DEFINE f == file[t]
<1>3. f \in App /\ scan[t] \in Read /\ scan[t].files[f] # None
  BY <1>1, <1>2 DEF ToolInv, TypeOK
<1>4. /\ \A u \in Tool \ {t} : scan'[u] = scan[u]
      /\ scan'[t].dir = scan[t].dir /\ scan'[t].files = scan[t].files
      /\ scan'[t].content[f] = IF fd[t] = None THEN content[f] ELSE fd[t]
      /\ \A a \in App \ {f} : scan'[t].content[a] = scan[t].content[a]
      /\ scan'[t].racy = scan[t].racy
  BY <1>2, <1>3, ReadFileScan DEF Read
<1> HIDE DEF f
<1>5. ToolInv(t)'
  BY <1>1, <1>2, <1>4, NoneAssumption DEF ToolInv, Older, TypeOK, Looking, Finished, dirVars
<1>6. ScanInv(t)'
  <2> SUFFICES ASSUME SameNames(scan[t]) \/ quiet[t]
               PROVE  ScanInv(t)'
    BY <1>1, <1>4 DEF ScanInv, SameNames, dirVars
  <2>1. /\ fd[t] = None
        /\ \A b \in App :
             /\ b \in Present <=> b \in todo[t] \/ scan[t].files[b] # None
             /\ scan[t].files[b] # 0
             /\ scan[t].files[b] = None => scan[t].content[b] = 0
             /\ b # f => AgreesOn(scan[t], b)
    BY <1>1, <1>2 DEF ScanInv, Looking, f
  <2>2. Present' = Present /\ \A b \in App : AgreesOn(scan[t], b)'
    BY <1>1, <1>3, <1>4, <2>1 DEF Present, AgreesOn, dirVars
  <2>3. pc'[t] = "readdir" /\ todo'[t] = todo[t] /\ fd'[t] = None
    BY <1>1, <1>2 DEF TypeOK
  <2> QED BY <1>3, <1>4, <2>1, <2>2, <2>3 DEF ScanInv
<1>7. QuietInv(t)'
  BY <1>1, <1>2, <1>4 DEF QuietInv, TypeOK, Alone, Looking, Finished, dirVars
<1> QED
  BY <1>1, <1>2, <1>4, <1>5, <1>6, <1>7, OwnToolSuffices DEF Next, RebuildStep, TypeOK

LEMMA CloseDirKeeps ==
  ASSUME IInv, NEW t \in Tool, CloseDir(t)
  PROVE  IInv'
<1>1. /\ pc[t] = "readdir" /\ pc' = [pc EXCEPT ![t] = "version"] /\ todo[t] = {}
      /\ UNCHANGED <<dirVars, cache, scan, todo, file, fd, quiet>>
  BY DEF CloseDir, Goto
<1>2. TypeOK /\ ToolInv(t) /\ ScanInv(t) /\ QuietInv(t)
  BY DEF IInv
<1>3. ToolInv(t)'
  BY <1>1, <1>2 DEF ToolInv, Older, TypeOK, Looking, Finished, dirVars
<1>4. ScanInv(t)'
  BY <1>1, <1>2 DEF ScanInv, SameNames, AgreesOn, Present, TypeOK, Looking, Finished, dirVars
<1>5. QuietInv(t)'
  BY <1>1, <1>2 DEF QuietInv, TypeOK, Alone, Looking, Finished, dirVars
<1> QED
  BY <1>1, <1>2, <1>3, <1>4, <1>5, OwnToolSuffices DEF Next, RebuildStep, TypeOK

\* What a scan says of a directory with the same names is what the section it
\* goes to says.
LEMMA WriteSectionKeeps ==
  ASSUME IInv, NEW t \in Tool, NEW i \in 1 .. 3, WriteSection(t, i)
  PROVE  IInv'
<1>1. TypeOK'
  BY NextTyped DEF IInv, Next, RebuildStep
<1>2. /\ pc[t] = Section[i]
      /\ cache' = [cache EXCEPT ![Section[i]] = scan[t]]
      /\ pc' = [pc EXCEPT ![t] = IF i = 3 THEN "done" ELSE Section[i + 1]]
      /\ UNCHANGED <<dirVars, scan, todo, file, fd, quiet>>
  BY DEF WriteSection, Goto
<1>3. TypeOK /\ ToolInv(t) /\ ScanInv(t) /\ QuietInv(t)
  BY DEF IInv
<1>4. /\ pc[t] \in {"version", "files", "trees"}
      /\ pc'[t] = IF pc[t] = "version" THEN "files"
                  ELSE IF pc[t] = "files" THEN "trees" ELSE "done"
      /\ \A u \in Tool \ {t} : pc'[u] = pc[u]
  BY <1>2, <1>3 DEF Section, TypeOK
<1>5. cache \in CacheFile /\ scan[t] \in Read
  BY <1>3, <1>4 DEF ToolInv, TypeOK
<1>6. /\ cache' \in CacheFile
      /\ cache'.version = IF pc[t] = "version" THEN scan[t] ELSE cache.version
      /\ cache'.files = IF pc[t] = "files" THEN scan[t] ELSE cache.files
      /\ cache'.trees = IF pc[t] = "trees" THEN scan[t] ELSE cache.trees
  BY <1>2, <1>5 DEF CacheFile, Section
<1>7. TimesArePast'
  BY <1>2 DEF IInv, TimesArePast, dirVars
<1>8. ToolInv(t)'
  BY <1>2, <1>3, <1>4, <1>6 DEF ToolInv, Older, Looking, Finished, dirVars
<1>9. ScanInv(t)'
  BY <1>2, <1>3, <1>4 DEF ScanInv, SameNames, AgreesOn, Present, Looking, Finished, dirVars
<1>10. QuietInv(t)'
  BY <1>2, <1>3, <1>4, <1>6 DEF QuietInv, Alone, Looking, Finished, dirVars
<1>11. ASSUME NEW u \in Tool, u # t PROVE (ToolInv(u) /\ ScanInv(u) /\ QuietInv(u))'
  BY <1>2, <1>4, <1>6, <1>11, OthersKeep
<1>12. CacheInv'
  <2> SUFFICES ASSUME cache'.files # None
               PROVE  (Older(cache.files) /\ UpToDate(cache.files))'
    BY DEF CacheInv
  <2>1. CASE pc[t] = "files"
    <3>1. Older(scan[t]) /\ UpToDate(scan[t])
      BY <1>3, <2>1 DEF ToolInv, ScanInv, UpToDate, Looking, Finished
    <3> QED BY <1>2, <1>6, <2>1, <3>1 DEF Older, UpToDate, SameNames, AgreesOn, Present, dirVars
  <2>2. CASE pc[t] # "files"
    <3>1. Older(cache.files) /\ UpToDate(cache.files)
      BY <1>5, <1>6, <2>2, NoneAssumption DEF IInv, CacheInv
    <3> QED BY <1>2, <1>6, <2>2, <3>1 DEF Older, UpToDate, SameNames, AgreesOn, Present, dirVars
  <2> QED BY <2>1, <2>2
<1> QED BY <1>1, <1>7, <1>8, <1>9, <1>10, <1>11, <1>12 DEF IInv

LEMMA KillKeeps ==
  ASSUME IInv, NEW t \in Tool, Kill(t)
  PROVE  IInv'
<1>1. /\ pc[t] \notin {"idle", "done"} /\ pc' = [pc EXCEPT ![t] = "idle"]
      /\ file' = [file EXCEPT ![t] = None] /\ fd' = [fd EXCEPT ![t] = None]
      /\ scan' = [scan EXCEPT ![t] = NothingRead] /\ todo' = [todo EXCEPT ![t] = {}]
      /\ UNCHANGED <<dirVars, cache, quiet>>
  BY DEF Kill, Goto
<1>2. TypeOK /\ ToolInv(t) /\ QuietInv(t)
  BY DEF IInv
<1>3. ToolInv(t)'
  <2>1. /\ scan'[t] = NothingRead /\ pc'[t] = "idle" /\ file'[t] = None /\ fd'[t] = None
        /\ todo'[t] = {} /\ cache' = cache /\ 0 < clock' /\ clock' \in Int
    BY <1>1, <1>2 DEF TypeOK, dirVars, Time
  <2> QED BY <1>2, <2>1 DEF ToolInv, Older, NothingRead, Looking, Finished
<1>4. ScanInv(t)'
  BY <1>1, <1>2 DEF ScanInv, TypeOK, Looking, Finished
<1>5. QuietInv(t)'
  BY <1>1, <1>2 DEF QuietInv, TypeOK, Alone, Looking, Finished
<1> QED
  BY <1>1, <1>2, <1>3, <1>4, <1>5, OwnToolSuffices DEF Next, TypeOK

\* A cache file that is begun has no sections; the other tools see their directory
\* change if it is a new file, and are not quiet any more.
LEMMA OpenCacheKeeps ==
  ASSUME IInv, NEW t \in Tool, OpenCache(t)
  PROVE  IInv'
<1>1. TypeOK'
  BY NextTyped DEF IInv, Next
<1>2. /\ pc[t] \in {"idle", "done"} /\ pc' = [pc EXCEPT ![t] = "stat_dir"]
      /\ cache' = Unwritten
      /\ dirTime' = clock \/ dirTime' = dirTime
      /\ scan' = [scan EXCEPT ![t] = NothingRead]
      /\ \A u \in Tool : quiet'[u] => u = t /\ Alone(t)
      /\ UNCHANGED <<clock, content, mtime, changes, todo, file, fd>>
  BY DEF OpenCache, Goto
<1>3. Unwritten \in CacheFile /\ Unwritten.files = None
  BY DEF Unwritten, CacheFile
<1>4. TypeOK /\ TimesArePast /\ clock \in Int /\ 0 < clock
  BY DEF IInv, TypeOK, Time
<1>5. TimesArePast'
  BY <1>2, <1>4 DEF TimesArePast
<1>6. CacheInv'
  BY <1>2, <1>3 DEF CacheInv
<1>7. ASSUME NEW u \in Tool PROVE ToolInv(u)'
  <2>1. ToolInv(u)
    BY DEF IInv
  <2>2. CASE u = t
    <3>1. scan'[u] = NothingRead /\ pc'[u] = "stat_dir" /\ file'[u] = file[u] /\ fd'[u] = fd[u]
      BY <1>2, <1>4, <2>2 DEF TypeOK
    <3>2. file[u] = None /\ fd[u] = None
      BY <1>2, <2>1, <2>2 DEF ToolInv
    <3> QED BY <1>2, <1>3, <1>4, <3>1, <3>2 DEF ToolInv, Older, NothingRead, Looking, Finished
  <2>3. CASE u # t
    <3>1. /\ scan'[u] = scan[u] /\ pc'[u] = pc[u] /\ file'[u] = file[u] /\ fd'[u] = fd[u]
          /\ todo'[u] = todo[u]
      BY <1>2, <1>4, <2>3 DEF TypeOK
    <3> QED BY <1>2, <1>3, <2>1, <3>1 DEF ToolInv, Older
  <2> QED BY <2>2, <2>3
<1>8. ASSUME NEW u \in Tool PROVE ScanInv(u)'
  <2>1. CASE u = t
    BY <1>2, <1>4, <2>1 DEF ScanInv, TypeOK, Looking, Finished
  <2>2. CASE u # t
    <3>1. /\ scan'[u] = scan[u] /\ pc'[u] = pc[u] /\ file'[u] = file[u] /\ fd'[u] = fd[u]
          /\ todo'[u] = todo[u] /\ ~quiet'[u]
      BY <1>2, <1>4, <2>2 DEF TypeOK
    <3> SUFFICES ASSUME SameNames(scan[u])' PROVE ScanInv(u)'
      BY <3>1 DEF ScanInv
    <3>2. Older(scan[u]) /\ scan[u] \in Read
      BY <1>4 DEF IInv, ToolInv, TypeOK
    <3>3. dirTime' = dirTime /\ SameNames(scan[u])
      BY <1>2, <1>4, <3>1, <3>2 DEF SameNames, Older, Read, Time
    <3> QED BY <1>2, <3>1, <3>3 DEF IInv, ScanInv, AgreesOn, Present
  <2> QED BY <2>1, <2>2
<1>9. ASSUME NEW u \in Tool PROVE QuietInv(u)'
  <2> SUFFICES ASSUME u = t, Alone(t) PROVE QuietInv(u)'
    BY <1>2 DEF QuietInv
  <2> QED BY <1>2, <1>4 DEF QuietInv, Alone, TypeOK, Looking, Finished
<1> QED BY <1>1, <1>5, <1>6, <1>7, <1>8, <1>9 DEF IInv

-----------------------------------------------------------------------------
(* The theorems *)

LEMMA InitInvariant == Init => IInv
<1> SUFFICES ASSUME Init PROVE IInv
  OBVIOUS
<1>1. TypeOK
  BY InitTyped
<1>2. TimesArePast /\ CacheInv
  BY DEF Init, TimesArePast, CacheInv
<1>3. ASSUME NEW t \in Tool PROVE ToolInv(t) /\ ScanInv(t) /\ QuietInv(t)
  BY DEF Init, ToolInv, Older, NothingRead, ScanInv, QuietInv, Looking, Finished
<1> QED BY <1>1, <1>2, <1>3 DEF IInv

LEMMA NextInvariant == IInv /\ [Next]_vars => IInv'
<1> SUFFICES ASSUME IInv, [Next]_vars PROVE IInv'
  OBVIOUS
<1>1. CASE UNCHANGED vars
  BY <1>1 DEF vars, IInv, TypeOK, TimesArePast, ToolInv, Older, ScanInv, SameNames, AgreesOn,
              Present, QuietInv, Alone, CacheInv, UpToDate
<1>2. CASE Tick
  BY <1>2, TickKeeps
<1>3. ASSUME NEW a \in App, Write(a) \/ Rename(a) PROVE IInv'
  BY <1>3, WriteKeeps, RenameKeeps
<1>4. ASSUME NEW t \in Tool, OpenCache(t) \/ Kill(t) PROVE IInv'
  BY <1>4, OpenCacheKeeps, KillKeeps
<1>5. ASSUME NEW t \in Tool, RebuildStep(t) PROVE IInv'
  BY <1>5, StatDirKeeps, OpenDirKeeps, ReadDirKeeps, StatFileKeeps, ReadFileKeeps,
     CloseDirKeeps, WriteSectionKeeps DEF RebuildStep
<1> QED BY <1>1, <1>2, <1>3, <1>4, <1>5 DEF Next

LEMMA Invariant == Spec => []IInv
  BY InitInvariant, NextInvariant, PTL DEF Spec

\* Every variable keeps its type, with any number of tools, files and changes.
THEOREM TypeCorrect == Spec => []TypeOK
<1>1. IInv => TypeOK
  BY DEF IInv
<1> QED BY <1>1, Invariant, PTL

\* A record of functions of the files is the same where each file's is.
LEMMA SameContent ==
  ASSUME NEW r \in Read, TypeOK, \A a \in App : r.content[a] = content[a]
  PROVE  r.content = content
  BY DEF Read, TypeOK

\* A complete cache file of one scan that xdg_app_cache_file_is_valid accepts, and
\* whose times are not of the second they were looked at in, holds what is in the
\* directory.
THEOREM ValidCache == Spec => []ValidCacheIsUpToDate
<1>1. IInv => ValidCacheIsUpToDate
  <2> SUFFICES ASSUME IInv, Complete, OfOneScan, CacheFileIsValid, ~cache.files.racy
               PROVE  HoldsTheDirectory
    BY DEF ValidCacheIsUpToDate
  <2> DEFINE r == cache.files
  <2>1. cache # None /\ r # None
    BY DEF Complete, Section
  <2>2. r \in Read /\ UpToDate(r) /\ TypeOK
    BY <2>1 DEF IInv, TypeOK, CacheFile, CacheInv
  <2>3. TimeStampsMatch(r) /\ SameNames(r)
    BY <2>1 DEF CacheFileIsValid, TimeStampsMatch, SameNames
  <2>4. ASSUME NEW a \in App PROVE r.content[a] = content[a]
    <3>1. (a \in Present <=> r.files[a] # None) /\ AgreesOn(r, a)
      BY <2>2, <2>3 DEF UpToDate
    <3>2. r.files[a] # None => r.files[a] = IF a \in Present THEN mtime[a] ELSE 0
      BY <2>3 DEF TimeStampsMatch
    <3> QED BY <3>1, <3>2 DEF AgreesOn, Present
  <2> QED BY <2>2, <2>4, SameContent DEF HoldsTheDirectory, OfOneScan
<1> QED BY <1>1, Invariant, PTL

\* A rebuild that was alone and during which nothing changed leaves a cache file
\* that is complete, valid and of the directory, in whatever second it looked.
THEOREM QuietRebuild == Spec => []QuietRebuildIsValid
<1>1. IInv => QuietRebuildIsValid
  <2> SUFFICES ASSUME IInv, NEW t \in Tool, pc[t] = "done", quiet[t]
               PROVE  Complete /\ CacheFileIsValid /\ HoldsTheDirectory
    BY DEF QuietRebuildIsValid
  <2> DEFINE r == scan[t]
  <2>1. TypeOK /\ ToolInv(t) /\ ScanInv(t) /\ QuietInv(t) /\ r \in Read
    BY DEF IInv, TypeOK
  <2>2. cache # None /\ cache.version = r /\ cache.files = r /\ cache.trees = r /\ r # None
    BY <2>1, NoneAssumption DEF ToolInv, QuietInv
  <2>3. todo[t] = {} /\ r.dir = dirTime
    BY <2>1 DEF ToolInv, QuietInv, Finished
  <2>4. ASSUME NEW a \in App
        PROVE  /\ a \in Present <=> r.files[a] # None
               /\ r.files[a] # None => r.files[a] = mtime[a]
               /\ AgreesOn(r, a)
    BY <2>1, <2>3 DEF ScanInv, QuietInv, Finished
  <2>5. Complete
    BY <2>2 DEF Complete, Section
  <2>6. CacheFileIsValid
    BY <2>2, <2>3, <2>4 DEF CacheFileIsValid, TimeStampsMatch
  <2>7. ASSUME NEW a \in App PROVE r.content[a] = content[a]
    BY <2>4 DEF AgreesOn, Present
  <2>8. HoldsTheDirectory
    BY <2>1, <2>2, <2>7, SameContent DEF HoldsTheDirectory
  <2> QED BY <2>5, <2>6, <2>8
<1> QED BY <1>1, Invariant, PTL
================================================================================
