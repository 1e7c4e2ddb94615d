---------------------------- MODULE ShareManager ----------------------------
(****************************************************************************)
(* Share::Manager: the index of the shared files, which follows a disk      *)
(* that users and downloads change at any time.  One Work scans the         *)
(* folders or hashes a file; its result is applied by a later handler to    *)
(* an index, and a disk, that may have changed meanwhile.  A Download keeps *)
(* a weak pointer to an entry of the index, and its file is copied into a   *)
(* shared folder by another thread.                                         *)
(*                                                                          *)
(* A path is a number, in the order in which the index is walked; Inc is    *)
(* the name of the download in the folder of the incomplete files.          *)
(****************************************************************************)
EXTENDS Naturals, FiniteSets, FiniteSetsExt, Functions

CONSTANTS Paths,      \* how many names there are in the shared folders
          Ptr,        \* addresses of FileInfo objects
          MaxChanges, \* bound on what users do to the files and on failed reads
          MaxMoves,   \* bound on the downloads
          MaxRestarts

ASSUME PathsAssumption ==
  Paths \in Nat \ {0} /\ MaxChanges \in Nat /\ MaxMoves \in Nat /\ MaxRestarts \in Nat
\* There is always room for a new object: one more than there are paths, and the weak pointer.
ASSUME PtrAssumption == IsFiniteSet(Ptr) /\ Cardinality(Ptr) >= Paths + 2

Inc    == 0
Shared == 1 .. Paths
SharePath == Shared \cup {Inc}

\* What is in a file, and the hash of it: what a user wrote, what was downloaded,
\* the first part of that.  Empty stands for no file, and for no hash.
Empty   == 0
Own     == 1
Loaded  == 2
Part    == 3
Content == {Empty, Own, Loaded, Part}

NoWork == [kind |-> "none"]

VARIABLES disk,     \* the files of the operating system
          info,     \* the FileInfo objects that are alive, by address
          index,    \* Cache::cache_: each object with its path as it was when it was added
          kw,       \* the objects in kwcache_
          qht,      \* the hashes in qht_
          work,     \* the task of work_
          dl,       \* a download: its status, its weak pointer, the name it is copied to
          saved,    \* share.dat
          up,       \* the program runs
          changes, moves, restarts

shareVars == <<disk, info, index, kw, qht, work, dl, saved, up, changes, moves, restarts>>

FileInfo == [path : SharePath, partial : BOOLEAN, due : BOOLEAN, hash : Content]
NoDownload == [status |-> "none", ptr |-> CHOOSE p \in Ptr : TRUE, to |-> Inc]

ShareTypeOK ==
  /\ disk \in [SharePath -> Content]
  /\ DOMAIN info \subseteq Ptr /\ Range(info) \subseteq FileInfo
  /\ index \subseteq [path : SharePath, ptr : Ptr]
  /\ kw \subseteq Ptr
  /\ qht \subseteq Content
  /\ work \in [kind : {"none"}]
              \cup [kind : {"scan"}, validate : SUBSET SharePath, todo : SUBSET SharePath, found : SUBSET SharePath]
              \cup [kind : {"hash", "hashed"}, path : SharePath, hash : Content]
  /\ dl \in [status : {"none", "list", "copy", "copying", "copied", "failed", "error"},
             ptr : Ptr, to : SharePath]
  /\ saved \subseteq [path : SharePath, due : BOOLEAN, hash : Content]
  /\ up \in BOOLEAN
  /\ changes \in 0 .. MaxChanges /\ moves \in 0 .. MaxMoves /\ restarts \in 0 .. MaxRestarts

ShareInit == /\ disk = [p \in SharePath |-> IF p = 1 THEN Own ELSE Empty]
             /\ info = <<>> /\ index = {} /\ kw = {} /\ qht = {}
             /\ work = NoWork
             /\ dl = NoDownload
             /\ saved = {}
             /\ up = TRUE
             /\ changes = 0 /\ moves = 0 /\ restarts = 0

-----------------------------------------------------------------------------
(* What the handlers do to the index, on a record of its four parts.        *)

Now == [info |-> info, index |-> index, kw |-> kw, qht |-> qht]
Become(s) == info' = s.info /\ index' = s.index /\ kw' = s.kw /\ qht' = s.qht

PathsOf(s) == {e.path : e \in s.index}
At(s, path) == (CHOOSE e \in s.index : e.path = path).ptr

\* The object i is at address p.
With(f, p, i) == [x \in DOMAIN f \cup {p} |-> IF x = p THEN i ELSE f[x]]

\* The path is free, but kwcache_ is given the object before cache_ may throw.
PutFault(s, p, i) ==
  [s EXCEPT !.info = With(@, p, i), !.kw = @ \cup {p},
            !.index = IF i.path \in PathsOf(s) THEN @ ELSE @ \cup {[path |-> i.path, ptr |-> p]}]

\* Manager::Add and Cache::Add of object i at address p: AlreadyShared is thrown when
\* the path is in the index, and the caller is the last to know the object.
CanPut(s, i) == i.path \notin PathsOf(s)
Put(s, p, i) ==
  IF CanPut(s, i)
  THEN [s EXCEPT !.info = With(@, p, i), !.kw = @ \cup {p},
                 !.index = @ \cup {[path |-> i.path, ptr |-> p]}]
  ELSE s

\* Manager::Remove of objects: the index and kwcache_ had the only pointers to them.
Drop(s, P) == [s EXCEPT !.info = Restrict(@, DOMAIN @ \ P), !.kw = @ \ P,
                        !.index = {e \in @ : e.ptr \notin P}]

\* An address for a new FileInfo.  One that a weak pointer remembers is not valid
\* again, so it is not used again.
Fresh(s) == CHOOSE p \in Ptr : p \notin DOMAIN s.info /\ (dl.status = "none" \/ p # dl.ptr)
NewInfo(path) == [path |-> path, partial |-> FALSE, due |-> TRUE, hash |-> Empty]

\* Manager::Add of new objects, one after the other.
AddAll(s, I) == FoldSet(LAMBDA i, t : Put(t, Fresh(t), i), s, I)

\* UpdateQHT, and the loop over all objects in HashSomething.
UpdateQHT(s, p) == [s EXCEPT !.qht = s.qht \cup {s.info[p].hash}]
Requery(s) == [s EXCEPT !.qht = {s.info[e.ptr].hash : e \in s.index}]

Due(s) == {p \in PathsOf(s) : p # Inc /\ s.info[At(s, p)].due}

\* A file that is gone is passed over, as the scan will remove it.
HashSomethingFault(s) ==
  LET there == {p \in Due(s) : disk[p] # Empty}
  IN /\ Become(IF Due(s) = {} THEN Requery(s) ELSE s)
     /\ work' = IF there = {} THEN NoWork
                ELSE [kind |-> "hash", path |-> Min(there), hash |-> Empty]

\* HashSomething with the Work idle: files that are due are looked up on the disk in
\* the order of their paths, those that are gone are removed, the first one that is
\* there is hashed.  When nothing is due the query hash table is made anew.
HashSomething(s) ==
  LET there  == {p \in Due(s) : disk[p] # Empty}
      gone   == {p \in Due(s) \ there : \A q \in there : p < q}
      swept  == Drop(s, {At(s, p) : p \in gone})
  IN IF there # {}
     THEN Become(swept) /\ work' = [kind |-> "hash", path |-> Min(there), hash |-> Empty]
     ELSE /\ Become(IF Due(s) = {} THEN Requery(swept) ELSE swept)
          /\ work' = NoWork

-----------------------------------------------------------------------------
(* The Work: a scan of the folders, or a hash.                             *)

\* The files of the downloads are validated like all others.
SyncFault ==
  /\ up /\ work = NoWork
  /\ work' = [kind |-> "scan", todo |-> Shared, found |-> {},
              validate |-> {info[e.ptr].path : e \in index}]
  /\ UNCHANGED <<disk, info, index, kw, qht, dl, saved, up, changes, moves, restarts>>

\* OnTimer when the Work is idle and the period is over, and Sync
Sync ==
  /\ up /\ work = NoWork
  /\ work' = [kind |-> "scan", todo |-> Shared, found |-> {},
              validate |-> {info[e.ptr].path : e \in {f \in index : ~info[f.ptr].partial}}]
  /\ UNCHANGED <<disk, info, index, kw, qht, dl, saved, up, changes, moves, restarts>>

\* Sync::Task::Run on a worker comes by a name; the disk may change before it
\* comes by the next one.
ScanPath(p) ==
  /\ work.kind = "scan" /\ p \in work.todo
  /\ work' = [work EXCEPT !.todo = @ \ {p},
                          !.found = IF disk[p] = Empty THEN @ ELSE @ \cup {p}]
  /\ UNCHANGED <<disk, info, index, kw, qht, dl, saved, up, changes, moves, restarts>>

\* Manager::Save; what nobody will load any more is not kept by the model.
SaveOf(s) == IF restarts = MaxRestarts THEN {}
             ELSE {[path |-> s.info[e.ptr].path, due |-> s.info[e.ptr].due,
                    hash |-> s.info[e.ptr].hash] : e \in s.index}

\* The differences to the index as it was when the scan began, applied to the index
\* as it is.
Synced ==
  LET removed == (work.validate \ work.found) \cap PathsOf(Now)
      created == {p \in work.found \ work.validate : disk[p] # Empty}
  IN AddAll(Drop(Now, {At(Now, p) : p \in removed}), {NewInfo(p) : p \in created})

OnPathsSynced ==
  /\ work.kind = "scan" /\ work.todo = {}
  /\ \E s \in {Synced} : HashSomething(s) /\ saved' = SaveOf(s)
  /\ UNCHANGED <<disk, dl, up, changes, moves, restarts>>

\* async_hash::Task::Run on a worker.  A file that is gone, or cannot be read, has the
\* hashes of a new Result.
HashReads ==
  /\ work.kind = "hash"
  /\ \/ /\ work' = [work EXCEPT !.kind = "hashed", !.hash = disk[work.path]]
        /\ UNCHANGED changes
     \/ /\ changes < MaxChanges /\ changes' = changes + 1
        /\ work' = [work EXCEPT !.kind = "hashed", !.hash = Empty]
  /\ UNCHANGED <<disk, info, index, kw, qht, dl, saved, up, moves, restarts>>

\* The object that has the path now gets the hashes.
Updated ==
  LET p == At(Now, work.path)
      i == [info[p] EXCEPT !.hash = work.hash, !.due = FALSE]
  IN IF work.path \in PathsOf(Now)
     THEN UpdateQHT([Now EXCEPT !.info = With(info, p, i)], p)
     ELSE Now

\* OnHashed: the next file is hashed.
OnHashed ==
  /\ work.kind = "hashed"
  /\ \E s \in {Updated} : HashSomething(s)
  /\ UNCHANGED <<disk, dl, saved, up, changes, moves, restarts>>

\* HASH_VALID_TIME, a week, has passed.
HashesExpire ==
  /\ up /\ work = NoWork /\ Due(Now) = {} /\ index # {}
  /\ info' = [p \in DOMAIN info |-> [info[p] EXCEPT !.due = TRUE]]
  /\ UNCHANGED <<disk, index, kw, qht, work, dl, saved, up, changes, moves, restarts>>

-----------------------------------------------------------------------------
(* A download: DownloadManager::Create, and the calls of Download.          *)

\* The file is created, or emptied, before the index is asked.
Create ==
  /\ up /\ dl = NoDownload /\ moves < MaxMoves
  /\ disk' = [disk EXCEPT ![Inc] = Loaded]
  /\ LET i == [path |-> Inc, partial |-> TRUE, due |-> TRUE, hash |-> Loaded]
     IN IF CanPut(Now, i)
        THEN Become(Put(Now, Fresh(Now), i)) /\ dl' = [NoDownload EXCEPT !.status = "list", !.ptr = Fresh(Now)]
        ELSE Become(Now) /\ UNCHANGED dl
  /\ moves' = moves + 1
  /\ UNCHANGED <<work, saved, up, changes, restarts>>

\* Download::Cancel, which waits for a copy that runs.
Cancel ==
  /\ up /\ dl.status \in {"list", "copy", "copied", "failed", "error"}
  /\ disk' = [disk EXCEPT ![Inc] = Empty]
  /\ Become(Drop(Now, {dl.ptr}))
  /\ dl' = NoDownload
  /\ UNCHANGED <<work, saved, up, changes, moves, restarts>>

\* FileComplete: MakeAvailableName looks for a name that no file has.
FileComplete ==
  /\ dl.status = "list"
  /\ \E to \in {p \in Shared : disk[p] = Empty} : dl' = [dl EXCEPT !.status = "copy", !.to = to]
  /\ UNCHANGED <<disk, info, index, kw, qht, work, saved, up, changes, moves, restarts>>

\* async_copy::Task::Run on a worker: copy_file does not write over a file.
CopyOpens ==
  /\ dl.status = "copy"
  /\ IF disk[dl.to] = Empty
     THEN dl' = [dl EXCEPT !.status = "copying"] /\ disk' = [disk EXCEPT ![dl.to] = Part]
     ELSE dl' = [dl EXCEPT !.status = "failed"] /\ UNCHANGED disk
  /\ UNCHANGED <<info, index, kw, qht, work, saved, up, changes, moves, restarts>>

CopyEnds ==
  /\ dl.status = "copying"
  /\ dl' = [dl EXCEPT !.status = "copied"]
  /\ disk' = [disk EXCEPT ![dl.to] = IF @ = Part THEN Loaded ELSE @]
  /\ UNCHANGED <<info, index, kw, qht, work, saved, up, changes, moves, restarts>>

\* The table of the query hashes is not told of the new name's object.
RenameFault(s, p, to) == Put(Drop(s, {p}), p, [s.info[p] EXCEPT !.path = to])

\* Manager::Rename: when the new name is in the index already, AlreadyShared is thrown
\* when the object has been removed under its old one.
Rename(s, p, to) ==
  LET i == [s.info[p] EXCEPT !.path = to]
      rest == Drop(s, {p})
  IN IF CanPut(rest, i) THEN UpdateQHT(Put(rest, p, i), p) ELSE rest

\* Download::Copied.  The old file is unlinked only when Rename did not throw, and that
\* may fail, too; FileManager::Transfer may throw before Rename.  Whatever is thrown,
\* DetachMe follows, and follows once more, and finds nothing to detach then.
Copied ==
  /\ dl.status = "copied" /\ disk[dl.to] # Empty
  /\ \/ /\ Become(Rename(Now, dl.ptr, dl.to))
        /\ \/ disk' = disk
           \/ dl.to \notin PathsOf(Now) /\ disk' = [disk EXCEPT ![Inc] = Empty]
     \/ Become(Now) /\ disk' = disk
  /\ dl' = NoDownload
  /\ UNCHANGED <<work, saved, up, changes, moves, restarts>>

\* The status is ERROR.
CopyFailed ==
  /\ dl.status = "failed"
  /\ dl' = [dl EXCEPT !.status = "error"]
  /\ UNCHANGED <<disk, info, index, kw, qht, work, saved, up, changes, moves, restarts>>

-----------------------------------------------------------------------------
(* Users of the disk, and the end and the start of the program.             *)

UserWrites(p) ==
  /\ changes < MaxChanges /\ changes' = changes + 1
  /\ disk' = [disk EXCEPT ![p] = Own]
  /\ UNCHANGED <<info, index, kw, qht, work, dl, saved, up, moves, restarts>>

UserDeletes(p) ==
  /\ changes < MaxChanges /\ changes' = changes + 1
  /\ disk' = [disk EXCEPT ![p] = Empty]
  /\ UNCHANGED <<info, index, kw, qht, work, dl, saved, up, moves, restarts>>

\* Manager::Save by the timer
Save == /\ up /\ saved' = SaveOf(Now)
        /\ UNCHANGED <<disk, info, index, kw, qht, work, dl, up, changes, moves, restarts>>

Down == /\ up' = FALSE
        /\ info' = <<>> /\ index' = {} /\ kw' = {} /\ qht' = {}
        /\ work' = NoWork /\ dl' = NoDownload
        /\ UNCHANGED <<disk, changes, moves, restarts>>

\* SystemImpl::Stop: a copy that runs is waited for.
Shutdown == up /\ dl.status # "copying" /\ saved' = SaveOf(Now) /\ restarts < MaxRestarts /\ Down

\* share.dat is truncated before it is written, one object after the other: some are in
\* it, and of one more maybe the first lines, with or without hashes, but not with the
\* time of these.
Torn == \E T \in SUBSET SaveOf(Now) :
          \/ saved' = T
          \/ \E r \in SaveOf(Now) \ T, h \in Content :
               /\ h \in {r.hash, Empty}
               /\ saved' = T \cup {[r EXCEPT !.due = TRUE, !.hash = h]}

\* The program is killed, maybe while it saves, or ends by the assertion that the copy
\* exists.
Crash == /\ up
         /\ restarts < MaxRestarts \/ (dl.status = "copied" /\ disk[dl.to] = Empty)
         /\ UNCHANGED saved \/ Torn
         /\ Down

\* Manager::Load and DownloadManager::Start: the files in the incomplete folder are
\* downloads again, whether the index knows them or not.  Load calls UpdateQHT for each
\* object, on an empty table, so that it holds what Requery puts there.
Start ==
  /\ ~up /\ restarts < MaxRestarts
  /\ up' = TRUE /\ restarts' = restarts + 1
  /\ LET loaded == {[path |-> r.path, partial |-> FALSE, due |-> r.due, hash |-> r.hash] : r \in saved}
         s == Requery(AddAll(Now, loaded))
         p == IF Inc \in PathsOf(s) THEN At(s, Inc) ELSE Fresh(s)
         t == Put(s, p, [NewInfo(Inc) EXCEPT !.hash = Loaded])
     IN IF disk[Inc] = Empty
        THEN Become(s) /\ dl' = NoDownload
        ELSE /\ dl' = [NoDownload EXCEPT !.status = "list", !.ptr = p]
             /\ Become([t EXCEPT !.info = With(@, p, [t.info[p] EXCEPT !.partial = TRUE])])
  /\ saved' = IF restarts + 1 = MaxRestarts THEN {} ELSE saved
  /\ UNCHANGED <<disk, work, changes, moves>>

-----------------------------------------------------------------------------
Worker == \/ \E p \in Shared : ScanPath(p)
          \/ HashReads
          \/ CopyOpens \/ CopyEnds

ShareNext == \/ Sync \/ OnPathsSynced \/ OnHashed \/ HashesExpire \/ Save
             \/ Create \/ Cancel \/ FileComplete \/ Copied \/ CopyFailed
             \/ Worker
             \/ \E p \in Shared : UserWrites(p) \/ UserDeletes(p)
             \/ Shutdown \/ Crash \/ Start

ShareSpec == ShareInit /\ [][ShareNext]_shareVars

\* The workers run and their results are handled; the timer comes, and a week goes
\* by, again and again (the Work may be busy when it does: strong fairness).
ShareFairness == /\ \A p \in Shared : WF_shareVars(ScanPath(p))
                 /\ WF_shareVars(OnPathsSynced) /\ WF_shareVars(HashReads) /\ WF_shareVars(OnHashed)
                 /\ WF_shareVars(CopyOpens) /\ WF_shareVars(CopyEnds)
                 /\ SF_shareVars(Sync) /\ SF_shareVars(HashesExpire)

ShareFairSpec == ShareSpec /\ ShareFairness

-----------------------------------------------------------------------------
\* The indices agree, whatever was thrown on the way: an object is found under its
\* own path, no two have the same, and kwcache_, the keywords by which queries are
\* answered, holds exactly the objects that are in the cache.
IndicesAgree ==
  /\ \A e \in index : e.ptr \in DOMAIN info /\ info[e.ptr].path = e.path
  /\ \A e, f \in index : e.path = f.path => e = f
  /\ kw = {e.ptr : e \in index}
  /\ DOMAIN info = kw

\* A download in the list keeps its FileInfo, under the path of its file and marked
\* as partial: no scan, which does not look into the incomplete folder, no hash and no
\* restart takes it away.  Without it, every use of Download::fileInfo_ throws.
DownloadsKeepInfo ==
  dl # NoDownload => /\ [path |-> Inc, ptr |-> dl.ptr] \in index
                     /\ info[dl.ptr].path = Inc /\ info[dl.ptr].partial

\* Hubs forward only the queries that the query hash table lets pass: every hash of
\* a shared file is in it.
QhtCovers == \A e \in index : e.path # Inc => info[e.ptr].hash \in qht \cup {Empty}

\* The index is what is on the disk, with the right hashes.
Indexed == /\ \A p \in Shared : (p \in PathsOf(Now)) = (disk[p] # Empty)
           /\ \A p \in Shared : disk[p] # Empty => info[At(Now, p)].hash = disk[p]

\* However scans, hashes, moves, read errors and restarts were interleaved with the
\* changes of the disk: when these end, the index comes to be what is on the disk.
Converges == <>[]up => <>[]Indexed
=============================================================================
