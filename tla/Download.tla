------------------------------ MODULE Download ------------------------------
(***************************************************************************)
(* One Download (download.cpp), its downloaders (downloader_impl.cpp) and  *)
(* its Work: the file is fetched from several hosts at once, hashed in the *)
(* background, moved, and survives a restart of the program through an     *)
(* .inf file.                                                              *)
(*                                                                         *)
(* A chunk stands for what one lease covers; the FileMap is used as the    *)
(* byte map that FileMap.tla is shown to implement.  The Work is used as   *)
(* AsyncWork.tla, which AsyncTask.tla implements, promises.  Every action  *)
(* is one handler on the main thread (or one step of the worker), written  *)
(* as a chain of operators on a record that holds the state they share.    *)
(***************************************************************************)
EXTENDS Integers, FiniteSets, FiniteSetsExt

CONSTANTS Chunks,       \* number of chunks of the file
          PerLeaf,      \* chunks that share a leaf of the tiger tree
          Source,       \* hosts that have the file
          Slot,         \* net.maxDownloads downloaders can be open at once
          MaxPerHost,   \* largest number a host may send as X-PerHost
          MaxSurplus,   \* chunks behind its lease that a body sent too long may reach
          HashFails,    \* may the file be unreadable when it is hashed?
          MaxStops,     \* bound on the pauses, stops and cancels
          MaxRestarts,  \* bound on the restarts of the program
          NoChunk, NoSlot

ASSUME NumbersAssumption == {Chunks, PerLeaf, MaxPerHost} \subseteq Nat \ {0}
ASSUME BoundsAssumption  == {MaxSurplus, MaxStops, MaxRestarts} \subseteq Nat
ASSUME SlotAssumption    == IsFiniteSet(Slot)
ASSUME FailsAssumption   == HashFails \in BOOLEAN
ASSUME NoneAssumption    == NoSlot \notin Slot /\ NoChunk \notin 0 .. Chunks - 1

VARIABLES status,    \* Download::status_, and "gone" when it was detached
          map,       \* the FileMap
          tiger,     \* is the tiger tree known?
          dl,        \* the open downloaders
          conn,      \* SourceHostEx::connections
          maxconn,   \* SourceHostEx::maxConnections
          work,      \* the Work: its phase, what it does, on what, the result
          disk,      \* is what is on disk what the file should be, or has what was
                      \* meant for another chunk been written over it?
          inf,       \* what the .inf file says
          up,        \* is the program running?
          moved,     \* the name and the content the complete file was given
          stops, restarts

vars == <<status, map, tiger, dl, conn, maxconn, work, disk, inf, up, moved,
          stops, restarts>>

Chunk   == 0 .. Chunks - 1
Mark    == {"empty", "active", "full", "valid", "invalid"}
Statuses == {"transfer", "hash", "move", "pause", "stop", "error", "gone"}
Phases  == {"idle", "queued", "running", "returned", "drained"}
NoWork  == [phase |-> "idle", kind |-> "none", range |-> {}, result |-> "none"]
Open    == [st : {"connect", "chat", "transfer", "overrun", "queue"},
            task : {"none", "tiger", "file"}, lease : Chunk \cup {NoChunk}, src : Source, hasTiger : BOOLEAN]
Closed  == [st |-> "closed"]

TypeOK == /\ status \in Statuses
          /\ map \in [Chunk -> Mark]
          /\ tiger \in BOOLEAN
          /\ dl \in [Slot -> Open \cup {Closed}]
          /\ conn \in [Source -> 0 .. Cardinality(Slot)]
          /\ maxconn \in [Source -> 0 .. MaxPerHost]
          /\ work \in [phase : Phases, kind : {"none", "hash", "copy"}, range : SUBSET Chunk,
                       result : {"none", "match", "differ", "error", "good", "bad"}]
          /\ disk \in [Chunk -> {"good", "bad", "spoilt"}]
          /\ inf \in [status : {"transfer", "pause"}, map : [Chunk -> Mark \ {"active"}]]
          /\ up \in BOOLEAN
          /\ moved \in [name : {"none", "plain", "CORRUPTED_"}, content : {"none", "good", "bad"}]
          /\ stops \in 0 .. MaxStops /\ restarts \in 0 .. MaxRestarts

\* DownloadManager::Create has opened the download and saved its parameters.
Init == /\ status = "stop"
        /\ map = [c \in Chunk |-> "empty"]
        /\ tiger = FALSE
        /\ dl = [d \in Slot |-> Closed]
        /\ conn = [s \in Source |-> 0]
        /\ maxconn = [s \in Source |-> 1]
        /\ work = NoWork
        /\ disk = [c \in Chunk |-> "bad"]
        /\ inf = [status |-> "transfer", map |-> [c \in Chunk |-> "empty"]]
        /\ up = TRUE
        /\ moved = [name |-> "none", content |-> "none"]
        /\ stops = 0 /\ restarts = 0

\* The state that one handler passes along.
Now == [status |-> status, map |-> map, tiger |-> tiger, dl |-> dl, conn |-> conn, work |-> work]

Become(S) == /\ status' = S.status
             /\ map' = S.map
             /\ tiger' = S.tiger
             /\ dl' = S.dl
             /\ conn' = S.conn
             /\ work' = S.work

-----------------------------------------------------------------------------
(* The FileMap.                                                            *)

MaskOf(m) == {m[c] : c \in Chunk}
WantedOfFault(m) == {c \in Chunk : m[c] # "active"}
WantedOf(m) == {c \in Chunk : m[c] \in {"empty", "invalid"}}
Paint(m, r, st) == [c \in Chunk |-> IF c \in r THEN st ELSE m[c]]

Leaf(c) == {e \in Chunk : e \div PerLeaf = c \div PerLeaf}

\* FileMap::GetForValidation, see FileMap.tla
ForValidation(m) ==
  LET whole == {c \in Chunk : Cardinality(Leaf(c)) = PerLeaf /\ \A e \in Leaf(c) : m[e] = "full"}
      tail  == {c \in Chunk : \A e \in c .. Chunks - 1 : m[e] = "full"}
  IN IF whole # {} THEN Leaf(Min(whole))
     ELSE IF Cardinality(tail) < PerLeaf THEN tail ELSE {}

-----------------------------------------------------------------------------
(* The Work.                                                               *)

Run(kind, range) == [phase |-> "queued", kind |-> kind, range |-> range, result |-> "none"]

Aborted(w) == IF w.phase = "queued" THEN NoWork
              ELSE IF w.phase \in {"running", "returned"} THEN [NoWork EXCEPT !.phase = "drained"]
              ELSE w

-----------------------------------------------------------------------------
(* Downloaders.                                                            *)

OpenSlots(S) == {d \in Slot : S.dl[d] # Closed}
LeaseOf(x)   == IF x # Closed /\ x.task = "file" /\ x.lease # NoChunk THEN {x.lease} ELSE {}

CancelTaskFault(S, d) == [S EXCEPT !.map = Paint(S.map, LeaseOf(S.dl[d]), "empty")]

\* DownloaderImpl::CancelTask: the lease is given back.
CancelTask(S, d) == [S EXCEPT !.map = Paint(S.map, LeaseOf(S.dl[d]), "empty"),
                              !.dl[d].lease = NoChunk]

\* DownloaderImpl::Close, and the downloader is dropped from downloaders_.
Close(S, d) == LET T == CancelTask(S, d)
               IN [T EXCEPT !.dl[d] = Closed, !.conn[S.dl[d].src] = @ - 1]

\* DownloaderImpl::DetachMe and Download::Detach
DetachMe(S, d) == Close(S, d)

CloseDownloadersFault(S) ==
  [S EXCEPT !.map = Paint(S.map, UNION {LeaseOf(S.dl[d]) : d \in Slot}, "empty"),
            !.dl  = [d \in Slot |-> Closed]]

\* Download::CloseDownloaders
CloseDownloaders(S) ==
  [S EXCEPT !.map  = Paint(S.map, UNION {LeaseOf(S.dl[d]) : d \in Slot}, "empty"),
            !.conn = [s \in Source |->
                        S.conn[s] - Cardinality({d \in OpenSlots(S) : S.dl[d].src = s})],
            !.dl   = [d \in Slot |-> Closed]]

\* Download::FileComplete
FileComplete(S) == [S EXCEPT !.status = "move", !.work = Run("copy", Chunk)]

\* Download::FileUpdated
FileUpdated(S) ==
  LET mask == MaskOf(S.map)
      r    == ForValidation(S.map)
  IN IF S.work.phase # "idle" THEN S
     ELSE IF mask \in {{"valid"}, {"invalid"}} THEN FileComplete(CloseDownloaders(S))
     ELSE IF mask = {"full"}
          THEN [CloseDownloaders(S) EXCEPT !.status = "hash", !.work = Run("hash", Chunk)]
     ELSE IF "full" \in mask /\ S.tiger /\ r # {} THEN [S EXCEPT !.work = Run("hash", r)]
     ELSE S

\* DownloaderImpl::FetchTiger
FetchTiger(S, d) == [S EXCEPT !.dl[d] = [@ EXCEPT !.task = "tiger", !.st = "chat"]]

\* DownloaderImpl::FetchFile: any wanted chunk; or none of them is among those
\* that the host has, and the downloader is closed.
FetchFile(S, d) ==
  {[S EXCEPT !.map[c] = "active",
             !.dl[d] = [@ EXCEPT !.task = "file", !.lease = c, !.st = "chat"]] :
     c \in WantedOf(S.map)}
  \cup {DetachMe(S, d)}

\* Download::OnIdle: the states it may lead to.  The file's progress is looked at
\* only after a part of the file; the task of a new downloader is uninitialised.
OnIdle(S, d) ==
  LET T == IF S.status = "transfer" /\ S.dl[d].task = "file" THEN FileUpdated(S) ELSE S
  IN IF T.status # "transfer" THEN {T}
     ELSE IF T.dl[d].hasTiger /\ ~T.tiger THEN {FetchTiger(T, d)}
     ELSE IF WantedOf(T.map) # {} THEN FetchFile(T, d)
     ELSE {Close(T, d)}

\* Download::AllowDownloader; the limits on rate and traffic may say no at any time.
AllowDownloader(S) == /\ S.status = "transfer"
                      /\ OpenSlots(S) # Slot
                      /\ WantedOf(S.map) # {}

NewDownloader(S, d, s, garbage) ==
  [S EXCEPT !.dl[d] = [st |-> "connect", task |-> garbage, lease |-> NoChunk, src |-> s,
                       hasTiger |-> FALSE],
            !.conn[s] = @ + 1]

\* Download::ConnectSource; a host that rests is passed over.
ConnectSource(S) ==
  {S} \cup (IF ~AllowDownloader(S) THEN {}
            ELSE {NewDownloader(S, d, s, garbage) :
                    d \in Slot \ OpenSlots(S), s \in {s \in Source : S.conn[s] < maxconn[s]},
                    garbage \in {"none", "file"}})

StoppedFault(S) == [CloseDownloaders(S) EXCEPT !.status = "stop"]

\* Download::Stop without the SaveParams in it
Stopped(S) == [CloseDownloaders(S) EXCEPT !.status = "stop", !.work = Aborted(S.work)]

SaveParamsFault(S, st) ==
  inf' = IF restarts = MaxRestarts THEN inf
         ELSE [status |-> IF st = "pause" THEN "pause" ELSE "transfer",
               map |-> [c \in Chunk |-> CASE S.map[c] = "active" -> "empty"
                                          [] S.map[c] = "full" -> "valid"
                                          [] OTHER -> S.map[c]]]

\* Download::SaveParams when the status is st: the statuses other than PAUSE are
\* all written as "transfer", FileMap::ToStream writes ACTIVE as EMPTY.  What is
\* saved is of no interest when the program will not be restarted.
SaveParams(S, st) ==
  inf' = IF restarts = MaxRestarts THEN inf
         ELSE [status |-> IF st = "pause" THEN "pause" ELSE "transfer",
               map |-> [c \in Chunk |-> IF S.map[c] = "active" THEN "empty" ELSE S.map[c]]]

-----------------------------------------------------------------------------
(* Handlers of the network.                                                *)

\* DownloaderImpl::OnConnected
OnConnected(d) ==
  /\ up /\ dl[d] # Closed /\ dl[d].st = "connect"
  /\ \E S \in OnIdle(Now, d) : Become(S)
  /\ UNCHANGED <<maxconn, disk, inf, up, moved, stops, restarts>>

\* DownloaderImpl::HandleResponse: any response, a refusal too, may name the number
\* of connections that the host accepts.
PerHost(d) == \E n \in {maxconn[dl[d].src]} \cup 0 .. MaxPerHost :
                maxconn' = [maxconn EXCEPT ![dl[d].src] = n]

\* An error in OnConnected, OnHeadersSent, OnHeadersReceived or OnTransfer, a
\* refusal, a forced range, or no event for ten seconds (DownloaderImpl::OnTimer).
Broken(d) ==
  /\ up /\ dl[d] # Closed /\ dl[d].st # "queue"
  /\ Become(DetachMe(Now, d))
  /\ IF dl[d].st = "chat" THEN PerHost(d) ELSE UNCHANGED maxconn
  /\ UNCHANGED <<disk, inf, up, moved, stops, restarts>>

\* Download::HandleGIV: a host that was asked to connects to us.
HandleGIV(s) ==
  /\ up /\ AllowDownloader(Now) /\ conn[s] <= maxconn[s]
  /\ \E d \in Slot \ OpenSlots(Now), garbage \in {"none", "file"} :
        \E S \in OnIdle(NewDownloader(Now, d, s, garbage), d) : Become(S)
  /\ UNCHANGED <<maxconn, disk, inf, up, moved, stops, restarts>>

\* DownloaderImpl::HandleResponse of code 200 or 206; a host may offer the tiger
\* tree.
OnHeaders(d) ==
  /\ up /\ dl[d] # Closed /\ dl[d].st = "chat"
  /\ \E hasTiger \in {dl[d].hasTiger, TRUE} :
        dl' = [dl EXCEPT ![d] = [@ EXCEPT !.st = "transfer", !.hasTiger = hasTiger]]
  /\ PerHost(d)
  /\ UNCHANGED <<status, map, tiger, conn, work, disk, inf, up, moved, stops, restarts>>

\* DownloaderImpl::HandleResponse of code 503 with X-Queue: the lease is given
\* back.
OnQueued(d) ==
  /\ up /\ dl[d] # Closed /\ dl[d].st = "chat"
  /\ \E hasTiger \in {dl[d].hasTiger, TRUE} :
        LET S == CancelTask(Now, d)
        IN Become([S EXCEPT !.dl[d] = [@ EXCEPT !.st = "queue", !.hasTiger = hasTiger]])
  /\ PerHost(d)
  /\ UNCHANGED <<disk, inf, up, moved, stops, restarts>>

\* The program ends without saving anything; the tiger tree is saved by
\* Share::Manager, every ten minutes and on some other occasions: it may be lost.
Dies == /\ up' = FALSE
        /\ \E known \in {FALSE, tiger} :
              Become([CloseDownloaders(Now) EXCEPT !.work = NoWork, !.tiger = known])

\* What is on the disk when all of a body has been written that is longer than what
\* was asked for, and reaches some chunks further.
WrittenOver(d, past) ==
  [c \in Chunk |-> IF c \in LeaseOf(dl[d]) THEN "bad"
                   ELSE IF \E l \in LeaseOf(dl[d]) : c \in l + 1 .. l + past THEN "spoilt"
                   ELSE disk[c]]

\* DownloaderImpl::HandleResponse hands all of the body that came with the headers
\* to OnData, which writes it before it looks at its length.  The assertion there
\* ends the program; a build without assertions reads and writes on, as long as the
\* host sends, and the task is never complete.
OnSurplus(d) ==
  /\ up /\ dl[d] # Closed /\ dl[d].st \in {"chat", "overrun"}
  /\ \E past \in 0 .. MaxSurplus : disk' = WrittenOver(d, past)
  /\ \/ Dies
     \/ /\ \E hasTiger \in {dl[d].hasTiger, TRUE} :
              dl' = [dl EXCEPT ![d] = [@ EXCEPT !.st = "overrun", !.hasTiger = hasTiger]]
        /\ UNCHANGED <<status, map, tiger, conn, work, up>>
  /\ IF dl[d].st = "chat" THEN PerHost(d) ELSE UNCHANGED maxconn
  /\ UNCHANGED <<inf, moved, stops, restarts>>

\* DownloaderImpl::OnTransfer with data that does not end the task.  A chunk that
\* has been written in part is not what it should be.
OnData(d) ==
  /\ up /\ dl[d] # Closed /\ dl[d].st = "transfer" /\ dl[d].task = "file"
  /\ disk' = [disk EXCEPT ![dl[d].lease] = "bad"]
  /\ UNCHANGED <<status, map, tiger, dl, conn, maxconn, work, inf, up, moved, stops, restarts>>

\* DownloaderImpl::OnTransfer with the last data of a lease, and TaskComplete.
\* A host may send anything.
FileTaskComplete(d) ==
  /\ up /\ dl[d] # Closed /\ dl[d].st = "transfer" /\ dl[d].task = "file"
  /\ \E data \in {"good", "bad"} : disk' = [disk EXCEPT ![dl[d].lease] = data]
  /\ LET T == [Now EXCEPT !.map = Paint(map, {dl[d].lease}, "full"), !.dl[d].lease = NoChunk]
     IN \E S \in OnIdle(T, d) : Become(S)
  /\ UNCHANGED <<maxconn, inf, up, moved, stops, restarts>>

\* The same for the tiger tree; one that does not fit the file's hash, or comes
\* when the tree is known, is dropped (Download::OnTiger).
TigerTaskComplete(d) ==
  /\ up /\ dl[d] # Closed /\ dl[d].st = "transfer" /\ dl[d].task = "tiger"
  /\ \E known \in {tiger, TRUE} : \E S \in OnIdle([Now EXCEPT !.tiger = known], d) : Become(S)
  /\ UNCHANGED <<maxconn, disk, inf, up, moved, stops, restarts>>

\* Download::OnTimer: a downloader that waits in a queue may ask again, a new one
\* may be opened, and from time to time the parameters are saved.
OnTimer ==
  /\ up /\ status = "transfer"
  /\ \E asking \in {d \in OpenSlots(Now) : dl[d].st = "queue"} \cup {NoSlot} :
       \E S \in (IF asking = NoSlot THEN {Now} ELSE OnIdle(Now, asking)) :
         \E T \in ConnectSource(S) :
            /\ Become(T)
            /\ SaveParams(T, T.status) \/ UNCHANGED inf
  /\ UNCHANGED <<maxconn, disk, up, moved, stops, restarts>>

-----------------------------------------------------------------------------
(* The worker, and the handlers of its results.                            *)

WorkStarts == /\ work.phase = "queued"
              /\ work' = [work EXCEPT !.phase = "running"]
              /\ UNCHANGED <<status, map, tiger, dl, conn, maxconn, disk, inf, up, moved,
                             stops, restarts>>

\* async_hash::Task::Run and TigerTree::Get: the hash of whole leaves, or of the
\* file, matches when the data is good; that of a part of a leaf never does.
\* async_copy::Task::Run copies what is there.
Good(r) == \A c \in r : disk[c] = "good"
WorkReturns ==
  /\ work.phase = "running"
  /\ \E result \in IF work.kind = "copy" THEN {"error", IF Good(Chunk) THEN "good" ELSE "bad"}
                   ELSE {IF Good(work.range) /\ \A c \in work.range : Leaf(c) \subseteq work.range
                         THEN "match" ELSE "differ"}
                        \cup {e \in {"error"} : HashFails} :
        work' = [work EXCEPT !.phase = "returned", !.result = result]
  /\ UNCHANGED <<status, map, tiger, dl, conn, maxconn, disk, inf, up, moved, stops, restarts>>

WorkDrained == /\ work.phase = "drained"
               /\ work' = NoWork
               /\ UNCHANGED <<status, map, tiger, dl, conn, maxconn, disk, inf, up, moved,
                              stops, restarts>>

Idle == [Now EXCEPT !.work = NoWork]

HashedErrorFault ==
  /\ work.phase = "returned" /\ work.kind = "hash"
  /\ LET verdict == IF work.result = "differ" THEN "invalid" ELSE "valid"
     IN Become(FileUpdated([Idle EXCEPT !.map = Paint(map, work.range, verdict)]))
  /\ UNCHANGED <<maxconn, disk, inf, up, moved, stops, restarts>>

HashedSilentFault ==
  /\ work.phase = "returned" /\ work.kind = "hash"
  /\ LET verdict == IF work.result = "match" THEN "valid" ELSE "invalid"
     IN Become([Idle EXCEPT !.map = Paint(map, work.range, verdict)])
  /\ UNCHANGED <<maxconn, disk, inf, up, moved, stops, restarts>>

\* Download::Hashed: a verdict is recorded and the file looked at again; after an
\* error neither is done.
Hashed ==
  /\ work.phase = "returned" /\ work.kind = "hash"
  /\ LET verdict == IF work.result = "match" THEN "valid" ELSE "invalid"
     IN Become(IF work.result = "error" THEN Idle
               ELSE FileUpdated([Idle EXCEPT !.map = Paint(map, work.range, verdict)]))
  /\ UNCHANGED <<maxconn, disk, inf, up, moved, stops, restarts>>

\* Download::Copied: the download is detached, or left in ERROR.
Copied ==
  /\ work.phase = "returned" /\ work.kind = "copy"
  /\ IF work.result = "error"
     THEN /\ Become([Idle EXCEPT !.status = "error"])
          /\ UNCHANGED moved
     ELSE /\ Become([Stopped(Idle) EXCEPT !.status = "gone"])
          /\ moved' = [name |-> IF MaskOf(map) = {"invalid"} THEN "CORRUPTED_" ELSE "plain",
                       content |-> work.result]
  /\ UNCHANGED <<maxconn, disk, inf, up, stops, restarts>>

-----------------------------------------------------------------------------
(* The user and the DownloadManager.                                       *)

\* Download::Resume, which may fail to open the file
Resumed == \E st \in {"transfer", "error"} : Become([Now EXCEPT !.status = st])

\* DownloadManager::Update when there is room for another active download.
ManagerResumes ==
  /\ up /\ status = "stop"
  /\ Resumed
  /\ UNCHANGED <<maxconn, disk, inf, up, moved, stops, restarts>>

\* DownloadManager::Update when there is not.
ManagerStops ==
  /\ up /\ status = "transfer" /\ stops < MaxStops
  /\ Become(Stopped(Now)) /\ SaveParams(Stopped(Now), status)
  /\ stops' = stops + 1
  /\ UNCHANGED <<maxconn, disk, up, moved, restarts>>

\* Download::Pause: the parameters are saved before the status is PAUSE.
Pause ==
  /\ up /\ status # "gone" /\ stops < MaxStops
  /\ Become([Stopped(Now) EXCEPT !.status = "pause"]) /\ SaveParams(Stopped(Now), status)
  /\ stops' = stops + 1
  /\ UNCHANGED <<maxconn, disk, up, moved, restarts>>

\* The user resumes the download.  (In any other status the assertion at the head
\* of Download::Resume aborts the program, which is a Crash.)
UserResumes ==
  /\ up /\ status \in {"stop", "pause"}
  /\ Resumed
  /\ UNCHANGED <<maxconn, disk, inf, up, moved, stops, restarts>>

\* Download::Cancel
Cancel ==
  /\ up /\ status # "gone" /\ stops < MaxStops
  /\ Become([Stopped(Now) EXCEPT !.status = "gone"])
  /\ stops' = stops + 1
  /\ UNCHANGED <<maxconn, disk, inf, up, moved, restarts>>

-----------------------------------------------------------------------------
(* The end of the program and its next start.                              *)

\* SystemImpl::Stop and DownloadManager::Shutdown
Shutdown ==
  /\ up /\ status # "gone" /\ restarts < MaxRestarts
  /\ Become([Stopped(Now) EXCEPT !.work = NoWork]) /\ SaveParams(Stopped(Now), status)
  /\ up' = FALSE
  /\ UNCHANGED <<maxconn, disk, moved, stops, restarts>>

\* The .inf file is truncated before it is written.  What LoadParams makes of the
\* first part of one: the status may be there, a map that is not of the size of the
\* file is dropped.
Torn == [status : {"transfer", IF status = "pause" THEN "pause" ELSE "transfer"},
         map : {[c \in Chunk |-> "empty"]}]

\* The program is killed, or aborted by an assertion, maybe while it saves.
Crash ==
  /\ up /\ status # "gone" /\ restarts < MaxRestarts
  /\ Dies
  /\ inf' \in {inf} \cup Torn
  /\ UNCHANGED <<maxconn, disk, moved, stops, restarts>>

\* Download::Open with the OnFileSize and LoadParams in it: the FileMap of a new
\* Download is empty, so a byte is written at the end of the file before the map
\* is loaded.
Start ==
  /\ ~up /\ restarts < MaxRestarts
  /\ disk' = [disk EXCEPT ![Chunks - 1] = "bad"]
  /\ Become([Now EXCEPT !.status = IF inf.status = "pause" THEN "pause" ELSE "stop",
                        !.map = inf.map])
  /\ maxconn' = [s \in Source |-> 1]
  /\ up' = TRUE
  /\ restarts' = restarts + 1
  /\ UNCHANGED <<inf, moved, stops>>

-----------------------------------------------------------------------------
Next == \/ \E d \in Slot : \/ OnConnected(d) \/ Broken(d) \/ OnHeaders(d) \/ OnQueued(d)
                           \/ OnSurplus(d) \/ OnData(d) \/ FileTaskComplete(d) \/ TigerTaskComplete(d)
        \/ \E s \in Source : HandleGIV(s)
        \/ OnTimer
        \/ WorkStarts \/ WorkReturns \/ WorkDrained \/ Hashed \/ Copied
        \/ ManagerResumes \/ ManagerStops \/ Pause \/ UserResumes \/ Cancel
        \/ Shutdown \/ Crash \/ Start

Spec == Init /\ [][Next]_vars

\* The worker runs and its results are handled; nothing is asked of the hosts.
Fairness == WF_vars(WorkStarts) /\ WF_vars(WorkReturns) /\ WF_vars(WorkDrained)
            /\ WF_vars(Hashed) /\ WF_vars(Copied)

FairSpec == Spec /\ Fairness

-----------------------------------------------------------------------------
\* A chunk is ACTIVE exactly while one open downloader fetches it: none is
\* fetched twice, none is left ACTIVE when its downloader is gone.
Leases == \A c \in Chunk : Cardinality({d \in Slot : c \in LeaseOf(dl[d])}) =
                             IF map[c] = "active" THEN 1 ELSE 0

\* SourceHostEx::connections counts the open downloaders of the host, and (the
\* assertion of Download::OnIdle) only a download that transfers has any, however
\* it left that status.
Accounting ==
  /\ \A s \in Source : conn[s] = Cardinality({d \in OpenSlots(Now) : dl[d].src = s})
  /\ status # "transfer" => OpenSlots(Now) = {}

\* The assertions of Download::Hashed and FileMap::ModifyRange: what is hashed is
\* FULL until the verdict; and HASH and MOVE are the statuses of the final tasks.
HashedIsFull ==
  /\ work.phase \in {"queued", "running", "returned"} /\ work.kind = "hash"
       => \A c \in work.range : map[c] = "full"
  /\ work.kind = "copy" => status = "move"
  /\ work.kind = "hash" => status = IF work.range = Chunk THEN "hash" ELSE "transfer"

\* A chunk that has been found VALID holds good data, unless a host has sent more
\* than it was asked for and the surplus was written over it.
ValidIsGood == \A c \in Chunk : map[c] = "valid" => disk[c] \in {"good", "spoilt"}

\* A file that got its plain name, which the log calls successfully downloaded, is
\* the file that was asked for; only one that is CORRUPTED_ in name may not be.
PlainIsIntact == moved.name = "plain" => moved.content = "good"

\* A verdict VALID is final, and no handler writes to the chunk again but one that
\* is sent a surplus.
ValidIsFinal ==
  [][\A c \in Chunk :
       map[c] = "valid" => map'[c] = "valid" /\ disk'[c] \in {disk[c], "spoilt"}]_<<map, disk>>

\* What the .inf file calls VALID has that verdict: a restart recalls no verdict
\* that was not given.
SavedVerdicts == \A c \in Chunk : inf.map[c] = "valid" => map[c] = "valid"

\* When every chunk has arrived, the download goes on to its end without any help
\* from a host: it is moved, a chunk is found INVALID, or an error is reported, or
\* the program ends.  It is said of a download that was not restarted: what is saved
\* with all data FULL is resumed in TRANSFER and not looked at again.
ArrivedIsSettled ==
  (up /\ restarts = 0 /\ status = "transfer" /\ MaskOf(map) \subseteq {"full", "valid"})
    ~> (~up \/ status \in {"gone", "error"} \/ "invalid" \in MaskOf(map))
=============================================================================
