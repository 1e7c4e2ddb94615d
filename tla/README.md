# A TLA+ model of the core of Sharelin (DroidG2)

Sharelin is a client of the Gnutella2 network in C++; DroidG2 is an Android
application around it. This directory holds TLA+ modules that model the client
itself - the thread pool, downloads, the share index, uploads, datagrams and
hubs -, TLC configurations that check them on small instances, and proofs that
the TLA+ proof system checks for every instance. Paths below are relative to
`src/sharelin-core/jni/src/`.

Run a check with `tlc -config Download.cfg MCDownload.tla`, a proof with `tlapm
AsyncTask_proofs.tla`. `PROJECT.json` lists the components, the runs, the
mutants that show that each property can fail, the lines behind every
definition, the findings, the hazards and the theorems.

## 1. The system

One thread runs the handlers of a Boost `io_service`; everything but the worker
threads of the pool (and the calls of the Android application, section 8) runs
in one of its handlers, one after the other. What is hard here is therefore less
two threads on one variable than what one handler leaves behind for a later one:
an order of handlers nobody tried, a result that arrives when its owner has gone
on, a restart between two of them.

| component | state | operations | talks to |
|---|---|---|---|
| **Asynchronous tasks** `asynctaskserver`, `asynctask`, `asynchash`, `asynccopy` | `tasks_` (queue), `threads_`, each task's `aborted_` and handler, each Work's weak pointer | `Run`, `Abort`, `AbortAll`, `Update`, `Complete`, the worker's `Task::Run` | posts to the io_service; called by downloads and the share manager |
| **FileMap** `filemap`, `range` | an ordered set of ranges with statuses, a cached mask of statuses, the block size | `SetActive/Full/Empty`, `ModifyRange`, `GetEmptyRange`, `GetForValidation`, stream in and out | called by Download |
| **Download and downloaders** `download`, `downloader_impl`, `sourcehost` | status, map, tiger tree, sources with a connection count, downloaders with their task and lease, the Work, the `.inf` file | handlers of timer, sockets and Work; `Pause`, `Stop`, `Resume`, `Cancel`, `HandleGIV`; save and load | Work, FileManager, DownloadManager, share manager, Gatekeeper |
| **DownloadManager** | the sorted list | `Start`, `Create`, `Update`, `Detach`, `OnTimer` | resumes and stops downloads; called by the interfaces |
| **FileManager** `filemanager`, `sharedfile`, `asyncfile` | table from names to weak pointers of open files | `Open`, `Transfer`, `Close` | used by downloads and uploaders |
| **Share manager** `sharemanager`, `sharesync`, `sharecache` | shared files, their hashes, folders, which task runs | timer, `OnPathsSynced`, `OnHashed`, `Add`, `Rename`, `Remove` | Work; called by downloads |
| **UDP transceiver** `transceiver`, `departurecache`, `arrivalcache` | packets being sent and being put together | `Send`, acknowledgement, retransmission, reassembly, expiry | used by G2Net, Searcher |
| **Uploads** `uploadmanager`, `uploader_impl` | the ordered list of uploaders, each one's request and file | attach, position, detach, request, timers | FileManager, TrafficManager, Gatekeeper |
| **G2Net** `g2net`, `g2handshake`, `g2node` | nodes, handshakes, connecting addresses | timer, connect, accept, transfer of a socket, send queue | HubCache, Transceiver |
| **Gatekeeper** | accepted and pushed connections | accept, read of the first line, hand over | Download, Uploads, G2Net |
| **HubCache** | hubs known, with keys and times | insert, update, purge | G2Net, SearchManager |
| **Search** `searchmanager`, `searcher` | searchers, hubs asked and acknowledged, results | timer, `OnQA`, `OnQKA`, `OnQH2` | HubCache, Transceiver, Download |
| **TrafficManager** | quotas per client | the second's timer, reserve, use | Uploads, Download |
| **Tiger tree**, query hash table, packets, `conv`, `hash` | a buffer | encoders, arithmetic | everyone |
| **Interfaces** `webui*`, `uicommons`, `sl` (JNI), `main`, `system` | - | orders of the user | everyone |

What makes each part correct, and what threatens it:

- *Tasks*: a request that is not aborted is delivered exactly once; one that is
  aborted never is, and its worker no longer runs when `Abort` returns. `Abort`
  joins a thread on the main thread, while that thread may be posting to it.
- *FileMap*: splitting and merging must be invisible. A lease is marked by one
  handler and redeemed or given back by another one much later.
- *Download*: no chunk is fetched twice, what is written to disk and called
  VALID is and stays good, connections are counted right on the many ways in
  which a downloader ends, a download whose data has arrived comes to its end.
- *DownloadManager*: the limit, the priorities, and that slots and timers come
  to those who wait, though the manager does not hear of every change of a
  status.
- *FileManager*: users of one file share one descriptor, which is closed and
  reopened under them in another mode or under another name.
- *Share manager*: one worker scans or hashes; its result is applied to an index
  and a disk that changed meanwhile, also by downloads that move in, and every
  exception leaves some of the four indices half done.
- *Transceiver*: parts of packets are known by a number that their sender drew;
  buffers are taken from a pool by hand and given back on some of the ways out.
- *G2Net*: a handshake and the node it becomes share a socket, are closed by
  flags of their own, and are known by address only; a timer that has fired
  cannot be called back.
- *Search*: a hub is asked over a chain of handlers that begins with a round
  that finds nobody; each link waits for a stranger or a timer, and the cache
  may forget the hub in between.
- *Uploads*: the right to send is a position in a list from which others leave;
  the timer and the socket both continue a transfer; bytes are rationed.

## 2. The modules

| module | models | extended or used by |
|---|---|---|
| `AsyncWork` | what the pool promises to an owner (abstract) | instantiated by `AsyncTask`; its phases are the Work of `Download` |
| `AsyncTask` | the pool as it is written | `MCAsyncTask`, `AsyncTask_proofs` |
| `ByteMap` | one status per byte, the leases and the verdicts (abstract) | instantiated by `FileMap`; it is the map of `Download`, chunk for byte |
| `FileMap` | the set of ranges as it is written | `MCFileMap`, `Files_proofs` |
| `Download` | one download, its downloaders, Work, disk and `.inf` file | `MCDownload`, `Download_proofs` |
| `DownloadManager` | all downloads, each a status and a priority | `MCDownloadManager`, `DownloadManager_proofs` |
| `FileManager` | the table of open files and its users | `MCFileManager`, `Files_proofs` |
| `ShareManager` | the index of the shared files, the disk, scans and hashes, the moves of downloads | `MCShareManager`, `Files_proofs` |
| `Transceiver` | arrival and departure caches, the one datagram on its way | `MCTransceiver`, `Datagram_proofs` |
| `G2Net` | handshakes, nodes and the maps of both | `MCG2Net`, `G2Net_proofs` |
| `TrafManager` | the ration of bytes, as operators on its state | extended by `UploadManager` |
| `UploadManager` | the list of uploaders, their requests and transfers, composed with `TrafManager` | `MCUploadManager`, `UploadManager_proofs` |
| `HubCache` | the hubs known, their keys and proxies, as operators | extended by `SearchManager` |
| `SearchManager` | searches, query keys and connections, composed with `HubCache` | `MCSearchManager`, `Datagram_proofs` |
| `CollectionFacts` | no code: lemmas about queues, lists, finite sets, folds and sums | extended by all proof modules |

The composition goes downwards: `Download` uses, of the pool and of the map,
only what `AsyncWork` and `ByteMap` promise, and `AsyncTask` and `FileMap` are
shown to keep these promises. `DownloadManager` and `ShareManager` have of a
download only its changes of status, or its file.

A proof module has the proofs of one component, or of two or three that belong
together: `Files_proofs` those of `FileMap`, `FileManager` and `ShareManager`,
`Datagram_proofs` those of `Transceiver` and `SearchManager`. Since such a
module extends several components, these have names of their own for what others
call `Init`, `Next`, `Spec` and `TypeOK` (`ShareInit`, `ShareSpec`, ...).

Operators whose name ends in `Fault` are not code: each is a mistake one could
make in the definition that it stands beside (a dropped reset, a guard turned
round), and is there to show that a property notices it.

### AsyncTask

Variables carry the names of the code. A `Task` is an *address*, so that a new
task may get the address of one that is gone, as `threads_` and the weak
pointers would allow. The main thread has a program counter: `loop` (between
handlers), `handler` (inside the owner's handler that `Server::Complete` calls,
from which `Run` and `Abort` may be called), `shutdown` (inside `AbortAll`),
`stopped`. `Abort` of a running task sets `joining`, and the main thread does
nothing until the worker has left (`Joined`); the worker itself goes running →
posted (`Done`: it posts `Complete`) → exited (`Exit`), and the posted
completions are a FIFO queue. `Complete` gives the slot back *before* it calls
the handler and calls `Update` *after* it (`HandlerReturn`), as the code does.

### FileMap and ByteMap

`ModifyRange` is the code's splitting of at most two ranges and its at most
three turns of merging; its assertions are not guards of the actions, but guards
of `ByteMap`, so that the refinement shows they hold. `EmptyRanges` gives every
range that the several strategies of `GetEmptyRange` may give (they differ in
which they prefer, with a random choice among them), cut to the block size, to
what the host has and to a length. `status_ = {}` stands for the cached mask
that was dropped. `Restart` is a save followed by a load: ACTIVE is written as
EMPTY and the ranges are put back unmerged.

### Download

Every action is one handler. A handler of the code is a chain of calls that
change the same objects (`DetachMe` → `Close` → `CancelTask` → ...), and is
written as a chain of operators on a record of that state, each named after its
function; `Become` makes the record the next state. A downloader is `connect`,
`chat`, `transfer` or `queue` and has a task: none, the tiger tree, or a chunk.
`disk` tells whether the bytes of a chunk are the right ones: hosts send right
and wrong data.

A host may also send more than it was asked for. What came with the headers is
written before its length is looked at (`OnSurplus`), so that it goes over the
next `MaxSurplus` chunks, whatever their status: these are then `spoilt` on the
disk. The assertion that follows (`downloader_impl.cpp:243`) ends the program;
in a build without assertions the downloader is `overrun`, and reads and writes
on until it is closed. Later transfers of a lease read what is left of it only.

`inf` is the `.inf` file as it was saved last. `Crash` loses everything else,
`Shutdown` saves first; `Start` opens the file, writes its last byte, and *then*
loads the map, in the code's order. A crash may cut a save short (`Torn`): the
map is then missing, or is not of the size of the file and is dropped by
`LoadParams`. Left out is only a cut within the last number of the map, the
status of its last range, that leaves another number. `task_` is uninitialised
in a new downloader; the field is a choice of garbage there. An assertion of the
code that fails is a `Crash`.

### DownloadManager

`Update` sorts, resumes or stops, as the code does in one pass over the list;
the downloads of which `Resume` throws are a choice. `Arrives`, `Hashed`,
`Copied` and `CopyFails` are what the downloads do without telling the manager,
except by `Detach`. A download whose file could not be read by the worker stays
in HASH without a task until a user pauses or cancels it; it is `unhashed` here.
Every order of a user is followed by an `Update`, as in
`webuicontrol.cpp` and `sl.cpp`; on a web page it may concern several downloads.

### FileManager

A file is open in a mode, which is that of its readers or that of a writer.
`OpenNew`, `OpenShared` and `OpenMore` are the paths through
`FileManager::Open`, `Transfer` is the move by rename of a complete download,
`Close` the last lines of the life of a `SharedFile`. An owner may open again
without closing, because `uploader_impl.cpp:182` assigns over an open file.

### ShareManager

A path is a number, in the order in which `HashSomething` walks the index. What
is in a file is one of: what a user wrote, what was downloaded, the first part
of that; a hash is the content that it is of. `work_` is the scan (the names yet
to be looked at, those found, and those to validate), the hash under way, or its
result. `info` is the heap of `FileInfo` objects and the download's weak pointer
is an address in it; `index`, `kw` and `qht` are the three indices, each changed
where the code changes it, so that the exceptions leave behind what they do in
the code. `Synced` and `Updated` are the index after `OnPathsSynced` and
`OnHashed` have applied the result, and before `HashSomething`; `AddAll` adds
the new objects one after the other; their order decides only who gets which
address. The address of a new object is any that is free and that no weak
pointer remembers. Users write and delete files between any two steps, also
while a scan or a copy runs. `Copied` may throw before and after `Rename`; a
crash may leave any part of share.dat (`Torn`), with an object of which only the
first lines are there.

### Transceiver

A packet is its parts; a datagram that a peer has for us may arrive at any time,
any number of times, so that loss, repetition and order need no channel.
`arrival` is `cache_` with the age of each entry, `buffers` the number of
vectors out of `pool_`. `sending` is the datagram on its way. The identifier is
read back by `ReadId` as `Header::Unpack` does it, with or without a signed
`char`. An entry is known by the identifier alone, not by the peer: of packets
with the same identifier and number of parts (`Twins`) the parts are mixed, as
in the code. Any peer may acknowledge anything (`OnAcknowledged`), which takes
what is named out of the queue, be it a part of ours or an acknowledgement that
waits there. `owed` and `delivered` are history: what is to be acknowledged, and
what the network was given last.

### G2Net

`conn` are the handshake objects, each with the node that it may have become;
`ready` is the queue of the io_service, in order: `cancel` and `close` take back
what is pending, not what is in the queue. `OnHandshake` is the chain
`OnConnected`, `OnGreetingSent`, `OnGreetingResponse` (phase `greet`) and
`OnG2Connected` (phase `final`); the three handlers by which a node reads a
packet are one, as they only read on, or end the node. An object is there as
long as a map, a pending operation or a queued handler has it (`Held`).

### UploadManager and TrafManager

`ups` are the `UploaderImp` objects. An operation is in `ops` from its start to
its handler; a closed socket aborts it, and handlers ignore that, so that it is
taken out. `late` says that the timer of the gatekeeper that handed the socket
over has fired already, `done` that a completion was in the queue before it
closed the socket, and is still handled as a good one. `Transfer` is the code's
in two parts, `Taken` up to the read, which may throw after the bytes were
taken, and the rest. `OnTimer` is that of the whole program: the second of
`TrafManager`, then each uploader in a copy of the list (`Turns`), which leave
the list while it runs.

### HubCache and SearchManager

`HubCache` is the cache as operators on a function from hubs to what is known of
them; `SearchManager` has the rounds, the keys and the connections. A key is
known by the endpoint the hub issued it for, so that a key and a return address
that do not belong together can be told. Times are kept as what the code
compares them with: the age of a key (`Age`), whether a hub waits, whether a
neighbor rests, whether a search is new, waits, or is due; `KeyAges`,
`WaitEnds`, `RestEnds`, `WaitPasses` and `HourEnds` are the passing of time. A
search is due when its rate times the seconds since its last round come to
`BASE_RATE`; a round halves the rate, which stays positive, so that only the
time that `WaitPasses` takes grows. When a hub was seen decides whom `Purge`
takes, and which hubs are among the `LinearMax` that a draw for a new key looks
at; both are choices. `DoSearch` is `LocalSearch`, `ForeignSearch` or
`NobodyFound`, guarded by what the ones before have not found. A key may come at
any time, asked for or not (`OnQKA`). Whether we are firewalled is a choice in
every `RequestMoreKeys`. `sent` is history: the hubs that a query was really
sent to.

## 3. The runs

| run | instance | states | shows |
|---|---|---|---|
| `pool` | 3 owners, 3 addresses, 2 threads | 44 985 | the invariants of the pool; `AsyncTask` implements `AsyncWork` (`PromiseSpec`); no task stays for ever (`EveryTaskLeaves`); shutdown ends although it joins on the main thread (`ShutdownEnds`) |
| `filemap` | 7 bytes, blocks of 4, leases up to 2 | 20 071 | ordered, gapless and merged ranges with a fresh mask (`WellFormed`), validation that never strands; `FileMap` implements `ByteMap` with its exclusive leases (`BytesSpec`) |
| `download` | 3 chunks in 2 leaves, 2 downloaders, 1 host, 1 stop, a surplus of 1 | 780 087 | leases, connection counts, what is hashed, what is VALID, and that it stays so, but for what a surplus is written over |
| `download_restart` | 1 downloader, 1 restart, no stop, no surplus, readable files | 314 892 | a restart recalls no verdict that was not given; when all has arrived the worker alone settles the download |
| `download_intact` | with a restart | - | *violated*: a file with its plain name is not the file asked for |
| `download_manager` | 3 downloads, 2 priorities, limit 2, 4 orders | 46 746 | limit and priorities after every handler; blocked timers and unused slots do not last |
| `filemanager` | 3 owners, 3 names, 3 files, 1 move | 32 102 | access is kept, files in use are in the table, and leave it with the last owner |
| `share` | 2 shared names, 1 change by a user, 1 download, 1 restart | 132 242 | the indices agree whatever was thrown, a download keeps its entry, every hash of a shared file is in the query hash table, the index comes to be what is on the disk |
| `transceiver` | 3 peers with one identifier, packets of 2 parts, 1 and 2 | 120 636 | what is delivered has all its parts, and only twins are mixed, no buffer leaks, every part that asks is acknowledged, incomplete packets leave |
| `g2net` | 2 hubs, 1 wanted | 12 503 | the assertions of `OnHubConnected`, the limit of hubs, handshakes end, hubs without a socket leave |
| `upload` | 2 peers, 1 place, 2 bytes a second | 107 932 | the limit of uploads, one operation at a time, no more bytes than the share, uploaders without a socket leave |
| `search` | 1 search, 1 hub to ask by UDP, 1 neighbor and proxy, room for 1 hub | 15 550 | what counts as searched was sent, a search that has a hub to ask sends its queries again and again |

Why these bounds are enough to be worth something:

- *Pool.*  Three owners on two threads make a task wait; that its address is
  used again while a completion for the old one is in the queue needs no more
  addresses.
- *File map.*  Seven bytes in blocks of four have a short last block; leases
  shorter than a block split one among several downloaders; ranges of one byte,
  at both ends and in the middle, are among the choices of every lease, so every
  shape of split and merge occurs. A host that offers two separate parts
  exercises the cut to the available ranges. The block size is a constant: a
  tiger tree of another depth, learned after a restart, is not covered.
- *Download.*  Three chunks in leaves of two have a leaf that two downloaders
  share and one that is complete alone, so that hashing overlaps with fetching.
  Two downloaders on one host are the smallest case in which one turns the
  download into HASH or MOVE under the other, and in which the host's count
  matters. One stop and one restart are each possible at *every* point; a
  download may be stopped by the manager, paused or cancelled. A surplus of one
  chunk reaches one that is VALID, one that is being hashed, and one that the
  other downloader fetches. Restarts are checked with one downloader and without
  a surplus because a restart keeps nothing of a downloader, and neither
  property of that run speaks of the disk.
- *Manager.*  Three downloads on two slots make one wait; two priorities make an
  overtaking one; four orders (an order may concern several downloads) suffice
  to fill the limit, exceed it, reverse the priorities and pause again.
- *Files.*  One incomplete name, one complete name to which it moves, one other;
  three owners so that one leaves while two share.
- *Share.*  Two names: one is hashed, copied to or deleted while the scan is
  between them. One change by a user, at any point, also a failed read; one
  download that may be moved, cancelled, fail, or meet the scan; one restart,
  orderly or not. `Converges` is about the time after these.
- *Transceiver.*  Two packets of two parts under the same identifier are mixed;
  one of a single part under it meets their entry and must stay apart, in parts
  and in buffers; a byte of two values makes all four identifiers occur, those
  that a signed `char` would spoil among them; a queue of two holds
  acknowledgements behind a packet of ours.
- *G2Net.*  Two hubs where one is wanted make the second success meet the limit;
  two objects let an old one with queued handlers stand beside a new one to the
  same address. With three objects (316 777 states, 3.5 minutes) nothing else
  comes out.
- *Uploads.*  One place and no queue make, by the comparison in
  `uploadmanager.cpp:79`, two uploaders, one of them queued; a share of two
  bytes of which one is reserved runs out within a range of two.
- *Search.*  A cache with room for one of two hubs makes `Purge` take away a hub
  whose key, or whose request, is under way. The one neighbor is a proxy while
  it is connected, and a former neighbor afterwards; with `MIN_QKEY_REQUESTS` of
  one the second answer of a round comes when no keys are wanted any more. The
  window of a draw is as large as the cache, so that no hub is out of its reach;
  with more room than window a hub may be out of it for as long as others are
  seen after it, and nothing is promised of it. With room and window for both
  hubs (269 918 states, 4 minutes) nothing else comes out. There is one search,
  because with several a new one, made every second, would always come first.

The proofs of section 5 remove these bounds for every safety property but two,
the verdicts of a download after a restart; liveness has them.

Downloaders (`download`) and owners of files (`filemanager`) are symmetric; runs
with a liveness property use no symmetry. `CHECK_DEADLOCK FALSE` stands where
the system may come to its end: after `SystemImpl::Stop`, when a download is
gone, when an exception has left the io_service, or when the bound on restarts
is used up.

The type invariant of each module (`TypeOK`, or `FilesTypeOK` and the like)
documents its variables; that of `FileMap` is part of `WellFormed`. Those of
`AsyncTask`, `FileMap`, `FileManager`, `ShareManager`, `DownloadManager`,
`Download` and `G2Net` are proved.

## 4. Fairness

- *Pool*: weak fairness of each worker (a thread runs, `Task::Run` is a loop
  over a file or a folder), of the join, of `AbortAll` and of the return of a
  handler; strong fairness of the completion at the head of the queue, whichever
  it is, because the io_service takes its handlers first in, first out, while an
  owner's calls may come between. Nothing obliges an owner to run or abort
  anything.
- *Download*: weak fairness of the worker and of the handlers of its results. No
  host, no timer and no user is assumed to do anything: `ArrivedIsSettled` says
  that the chain Hashed -> FileUpdated -> Run never breaks by itself. It is
  checked for files that can be read, without stops: with a read that fails it
  is false (`download.cpp:373` looks no further), and after a stop or a restart
  too (section 6).
- *Manager*: weak fairness of the end of hashing and copying, which the pool
  guarantees (`EveryTaskLeaves`); how a task ends is not assumed.
  `NobodyStarves` and `SlotsAreUsed` are excused while a download that has
  failed is kept (`Stuck`): one in ERROR, or in HASH after a hash that failed,
  sorts before all others and `OnTimer` stops at it, until a user pauses or
  cancels it.
- *Share*: weak fairness of the worker and of the handlers of its results, as
  the pool guarantees; strong fairness of the periodic scan and of the expiry of
  hashes, whose timers come again and again though the Work may be busy when
  they do.
- *Transceiver*: weak fairness of the timer, which its own handler arms again,
  and of the completion of a send, good or bad. Peers are obliged to nothing.
- *G2Net*: weak fairness of the queue, of the timers of handshakes, of the timer
  of the program, and of time passing for a node that hears nothing. Hubs are
  obliged to nothing, nor is a connection ever begun for sure.
- *Uploads*: weak fairness of the timer of the program, of time, of a late
  timeout that is in the queue, and of the failure of a write to a closed
  socket.
- *Searches*: weak fairness of time (`WaitPasses`, `KeyAges`) and of the round
  of a search that is due: it stays due, and the product by which
  `SelectSearcher` chooses grows until it is the largest. The rate is halved by
  every query, down to 2, so that rounds come a quarter of an hour apart in the
  end; nothing is said of how often they come. Strong fairness of the draw of a
  hub without a key, while a neighbor is there as a proxy and the window of the
  draw covers the cache (`AllInWindow`); and of the answer of a hub that is
  asked for a key again and again, which in the end does not come only when no
  keys are wanted. Nothing is assumed of which hub a round asks. `SearchesGoOn`
  is about a search that has a hub to ask, that was never a neighbor; it is
  excused while a former neighbor is remembered, which may be what every round
  picks, while a key that nobody has thrown away has expired, while no neighbor
  is connected, and while the search does not go on because a user, or its
  results, stopped it.

## 5. What is proved

Every theorem holds for all values of the constants that satisfy the assumptions
named in the module: any sets of owners, files, hosts or uploaders, any file
size and block size, any limit. In each proof module an inductive invariant
`IInv` is shown to hold at first, to be kept by every action and to imply the
property; a lemma per operator or action does the work.

*`AsyncTask_proofs`*, from `OwnerAssumption`, `TaskAssumption` and
`SizeAssumption`. `IInv` has one part per concern: `Pool` (the queue has no task
twice and none that has a thread, the threads are no more than the size, a task
outside `threads_` runs no job), `OwnInv` (an owner's Work and the handler of
its task point to each other), `MainInv` (which of `cur` and `joining` may be
set where the main thread is), `AbortInv` (no queued task is aborted, and the
worker of an aborted one has left unless the main thread waits for it),
`PostedInv` (a completion is in the queue of the io_service exactly once, and
for exactly the threads that have posted it), `ConserveInv` (at most the slot
that the running handler gives back is unused). None of the invariants is
inductive alone: that a slot is never left unused needs that `Complete` finds
its thread, which needs the posted queue to be injective. The assertions of the
code, conservation of work, no orphans, synchronous abort and a quiet shutdown
follow. `KeepsPromise` shows `Spec => PromiseSpec` with the mapping `phaseBar`,
`deliveringBar`.

*`Files_proofs`* has three components.

`FileMap`, for any sizes and offers. `IInv` is the tiling of the file by ranges
that are merged, with a mask that is fresh or dropped (`MapInv`), the agreement
of leases and ACTIVE bytes (`LeaseInv`), and that the range being hashed stays
FULL (`CheckInv`). The loop of `ModifyRange` is unrolled: only the seams at the
two ends of the changed range can join equal neighbours, so that three turns are
enough and the last one finds nothing. `RangesImplementBytes` is the refinement
`Spec => BytesSpec`: what was split and merged is a status per byte again.
`MapNeverStrands` adds `BlockInv`, that a block is VALID as a whole, from which
a map of FULL and VALID ranges always has something to hash.

`FileManager`. To `FilesTypeOK`, `KeepsAccess` and `InTable` the invariant adds
`Usable` (a file in the table is open in one of the two modes in use; since
these are comparable a reopening only widens the access), `Distinct` (two
entries are two files) and `Named` (an entry of another name than its file was
moved): `Close` looks a file up under its present name and must not hit another
one's entry. `DroppedWithLast` is an action property proved from the same
invariant.

`ShareManager`, for any number of names, changes, downloads and restarts, from
`PathsAssumption` and `PtrAssumption` (there is an address for every object that
there can be). `ShareInv` has four parts. `Typed` is about the variables outside
the index. `Indexes` says of the index, as a record of its four parts, what the
three properties say: it agrees with itself (`Agree`), the query hash table
covers it (`Passes`) and the download is in it (`Serves`); they are proved
together because an object that a path leads to is the right one only in an
index that agrees. `Scanned` is what makes it inductive: the result of a scan is
the difference to an index that is older, and is applied to one in which a
download may have been created meanwhile. A scan has found no file of the
incomplete folder, and validates the path of one only while there is no download
but an object of that path, which keeps `Create` from making one. `Resting` says
that nothing works while the program is down. Every operator on the record has a
lemma that it leads from a good index to a good one, also where `Add` throws:
`Rename` then has lost the object, and the index is a smaller good one.
`FreshIs` counts the objects by an injection into the paths, so that there is
always an address for one more; `AddAllKeeps` is an induction over the finite
sets that `AddAll` folds over.

*`DownloadManager_proofs`*. `Update` re-establishes everything from the list
alone, whatever the other handlers have done to the statuses before: sorting is
a permutation, the pass over the list resumes as many as there are slots, and
those it has resumed are counted by an injection from the downloads in TRANSFER
into the positions up to the limit. Between two of them the downloads only leave
TRANSFER. So limit and priorities hold after every handler (`SlotsRespected`).

*`Download_proofs`*, for any file, hosts and finite number of downloaders. A
handler is a chain of operators on a record; `Fine` is what holds of that record
between any two of them (leases and ACTIVE chunks agree, connections are
counted, no downloader is open outside TRANSFER, what is at the worker is FULL),
and each operator has a lemma that it leads from a Fine record to a Fine one and
takes no verdict back (`Keeps`). `Leases`, `Accounting`, `HashedIsFull` and
`SavedVerdicts` follow without a bound on stops and restarts. `VerdictsAreTrue`
(what is VALID is good) and `VerdictsAreFinal` are proved for a surplus of any
length, which is their one exception: that it is the only one is what is hard,
as every other write must be shown to stay inside a lease, and leases to stay
off what is VALID. They are about the first run of the program only,
`MaxRestarts = 0`: after a restart they are false, because `OnFileSize` writes
into the file (section 6).

*`Datagram_proofs`* has the two components that share the UDP socket.

`Transceiver`, for any messages, also when `char` is signed. The entries of the
arrival cache hold parts of their own identifier and number of parts only
(`Sorted`); `ReadId` is injective on identifiers, wrong as it is where `char` is
signed, so that a complete entry has all its parts, of one message or of its
twins, those with the same identifier and number of parts (`OnlyTwinsAreMixed`).
The code draws 16 bits at random, and does not tell twins apart. `NoBufferLeaks`
is about a sum: the buffers that are out of the pool are the parts of the
entries, summed over a set from which `ErasePacket` takes some and to which the
first part of a packet adds one. `NoAcknowledgementIsLost` is the safe half of
`AsksAnswered`: every part that is owed an acknowledgement has one in the
departure cache. A peer that acknowledges, to us, a part of the same identifier
and number takes it out of the queue; then it is no longer owed, here and in
`AsksAnswered`. Where `char` is signed it is false, as another packet is named.

`SearchManager`, for any hubs, searchers, caches and keys. `SearchedIsSent` is
inductive with one addition: a hub that is remembered and was sent nothing has
been a neighbor (`Honest`), and a neighbor is never forgotten, since nothing
calls `HubDisconnected`.

*`G2Net_proofs`*, for any addresses, connections and limits. The invariant
`Good` says that the two maps and the objects agree: a handshake is in
`handshakes_` for exactly as long as it is under way (`Known`), a node is in
`hubs_` until it is closed (`Kept`), no address has both (`Apart`). From these
the assertions of `OnHubConnected` follow. The limit of hubs is tested for
equality where a hub enters; that it is never jumped over needs `Roomy`, that as
long as a handshake is under way there is a place for it: the node that takes
the last place closes all other handshakes, in a fold over the map. What is hard
is the queue of the io_service, from which `close` takes nothing back. An object
has one timer and one read at a time, pending or queued (`Single`), and what
waits for it is of the phase that it is in (`Phased`); the one exception is the
timeout of a handshake that has just become a node, and that runs before
anything else of that node. So a handler that is late finds its object closed,
or is the one that its object waits for.

*`UploadManager_proofs`*. `Fine` is that the list and the uploaders agree, that
a place is where the list says, that those who send are among the first
`MaxUploads`, and that an uploader has one operation, or none while it waits for
bytes. An erased entry only moves others forward. `Turns` is a recursive
function over a copy of the list; that it exists, and keeps `Fine`, is shown by
induction over the numbers up to the length of the list. `TransfersWithinLimit`
and `OneOperation` follow, the first by an injection of those who send into the
first `MaxUploads` places. `NoMoreThanTheShare` is about the ration: what was
taken in this second, what is left for all and what is put aside for each client
are together no more than the share (`Metered`), a sum over the clients that the
second's timer distributes anew and `Use` moves from one to another.

*`CollectionFacts`* has what several of these share: pushing to, popping from
and erasing out of sequences without repetition; induction over the numbers up
to a bound, and over the subsets of a finite set, each in the form of a set that
contains its successors, derived from the least element of a set of numbers;
that the fold of the community modules, which is a CHOOSE, is the function that
it is meant to be (`FoldExists`), and what is needed of sums over a finite set:
taking out an element, splitting, and equal terms.

Some of the modules were changed so that they can be reasoned about, to models
with the same reachable states up to the names of objects: a free object or
address is a CHOOSE and no longer the least one, sets of objects leave the index
at once where the code takes them out one by one, and a sum is
`SumFunctionOnSet` of the community modules.

Three invariants are proved and not in a run: `NoOrphan` of the pool, `Leased`
of the file map, which `BytesSpec` checks in its way, and `AcksAreQueued`.

With these every safety property of the runs is a theorem, action properties and
refinements included. What stays with TLC: all liveness (`EveryTaskLeaves`,
`ShutdownEnds`, `ArrivedIsSettled`, `NobodyStarves`, `SlotsAreUsed`,
`Converges`, `AsksAnswered`, `IncompleteLeaves`, `HandshakeEnds`,
`DeadHubLeaves`, `DeadLeaves`, `SearchesGoOn`), which is out of the prover's
reach together with `ENABLED`; the verdicts and the disk after a restart, where
the properties do not hold of the code; and the `TypeOK` of `Transceiver`,
`UploadManager` and `SearchManager`, of which the proofs use only parts.

## 6. What was found

One disagreement of the code with its own comments or log messages is a run of
kind *violation*: `download.cpp:123, 214-223`: on every start the last byte of
the file is overwritten before the map is loaded; a last leaf that was VALID is
not hashed again, and a damaged file gets its plain name (`download_intact`).

Met while modelling, or seen in a counterexample of a stronger property, and
kept in the models as they are in the code:

- *Downloads*: `Resume` asserts STOP or PAUSE (`download.cpp:627`), but the
  interfaces call it in any status. `GetForValidation` gives out a FULL tail
  shorter than a block wherever it begins (`filemap.cpp:91-93`), so that good
  data may be found INVALID and fetched again. A download that was stopped in
  HASH or MOVE, or with everything FULL or VALID, is resumed in TRANSFER with
  nothing to fetch and is not looked at again (`download.cpp:646`). `Pause`
  saves the parameters before the status is PAUSE (`download.cpp:130`). After a
  failed move `DetachMe` is called twice (`download.cpp:353`). A hash that fails
  leaves a FULL range that nobody looks at (`download.cpp:373`), and if it is
  that of the whole file a download that stays in HASH without a task, before
  all others in the list. A body that is longer than what was asked for is
  written, as far as it came with the headers, before its length is compared
  (`downloader_impl.cpp:232`, `:243`, `:412`): it goes over the chunks behind
  the lease, those that are VALID among them, and the assertion that follows
  ends the program; without assertions the program reads and writes on.
  `HandleGIV` admits one connection more than `ConnectSource`
  (`download.cpp:188`). The assertion in `Copied` (`download.cpp:337`) fails if
  a user deletes the copy before the handler runs.
- *Moved files*: a moved file stays in the table under its old name
  (`filemanager.cpp:28`); `Close` looks it up under the new one and never erases
  that entry, so that the next download of that name, which is that of the hash,
  is given the `AsyncFile` of the complete file and writes into it. `InTable`
  and `DroppedWithLast` hold with this exception.
- *Manager and files*: a change of net.maxFiles is noticed at the next `Update`
  only. `AsyncFile` has no destructor, so that erasing a table entry leaks a
  descriptor (`filemanager.cpp:75`). The reopening in the old mode may fail as
  well (`filemanager.cpp:53`).
- *Share*: a scan may find the copied file while the copy runs, `Rename` then
  adds a path that the index has already (`sharemanager.cpp:242`). `OnHashed`
  does not look at the status of the result (`sharemanager.cpp:257`): a file
  that could not be read is in the index with empty hashes until they expire.
  Nothing resets `partial` when a download has moved, so that its file is
  neither validated nor uploaded until the next restart.
- *Datagrams*: parts are put together by identifier and number of parts, whoever
  sends them (`arrivalcache.cpp:41`): those of two peers that drew the same 16
  bits are mixed into one packet. An acknowledgement is taken from anybody and
  for anything in the queue (`departurecache.cpp:25`), also for one that is
  owed, which is then never sent. With a signed `char` the identifier is read
  back wrongly (`udp.hpp:65`), so that acknowledgements name another packet and
  `AsksAnswered` is false; it is checked with an unsigned one, as on ARM. The
  part number is incremented in a copy of the header, so that every part of a
  packet is sent as the first (`departurecache.cpp:95`). The branch that keeps a
  packet to be sent again (`departurecache.cpp:52`) is not reached, as no caller
  asks for an acknowledgement. A packet is uncompressed into ten times its size
  (`arrivalcache.cpp:93`); what does not fit is dropped after it was
  acknowledged.
- *Hubs*: the limit is tested for equality (`g2net.cpp:442`); it holds as long
  as maxHubs is not lowered at run time.
- *Searches*: nothing calls `HubDisconnected` (`searchmanager.cpp:355`).
  `neighbors_` keeps the hubs that were connected once: `LocalSearch` logs that
  it sends a query to them, `G2Net::Send` drops it (`g2net.cpp:397`), and the
  hub is not asked for an hour, neither so nor by UDP; `SearchedIsSent` has them
  as its exception, and `SearchesGoOn` excludes them: with four former neighbors
  or more, every round may find one, and UDP is never come to. With more hubs
  than `LINEAR_MAX` those seen longer ago get no key (`hubcache.cpp:152`). The
  proxies of a hub that left are never discarded either. `RequestMoreKeys` sets
  the proxy of a hub when we are firewalled and never resets it otherwise
  (`searchmanager.cpp:314, 346`), and `OnQKA` does so for unknown hubs only
  (`:194`): after a change between the two, or a late answer, the key that is
  kept was issued for another address than the one the query asks the hits to be
  sent to. `OnQA` may overwrite a waiting time that the same packet has set
  longer. A search that a user stopped before its first round is rated again by
  that round (`searchmanager.cpp:285`). `Purge` erases all hubs of the oldest
  second, not as many as are too many (`hubcache.cpp:140`).
- *Uploads*: a HEAD request is answered with a Content-Length of 0 and then the
  body (`uploader_impl.cpp:230`). A read error in the first `Transfer` after a
  response is thrown out of the handler and out of `io.run`
  (`uploader_impl.cpp:250`).

## 7. The plan

Done: all modules of section 2, and the proofs of section 5. Left, in this
order:

| what | question | shape |
|---|---|---|
| safe halves of liveness | does everything that must end have something pending that ends it? | as `NoAcknowledgementIsLost`: a handshake has its timer armed or its timeout queued; whoever the share manager has to hash is hashed, or due; an uploader without a socket has its timer |
| `Download` over `ByteMap` | is what `Download` does with its map one of the steps that `ByteMap` allows? | a refinement with chunks for bytes, from `Fine` |
| types | `TypeOK` of `Transceiver`, `UploadManager`, `SearchManager` | a conjunct of each inductive invariant |
| `TigerTree` | the serial sizes, heights and block choices against a reference definition | operators over bounded inputs |

## 8. What is not modelled, and why

- *Third-party code*: nearly all lines of the repository are the Boost sources
  it carries, with a hash library and the Java views of the application. They
  are no part of the program's own logic; the models cover the program's own
  directory, and only a small share of the whole tree.
- *Discovery, the updates watch*: one HTTP request at a time, whose answer
  becomes hubs of `HubCache` or a version string.
- *Changes of settings at run time*: net.maxFiles, maxHubs and the sizes of the
  upload queue are constants.
- *Shutdown of `G2Net` and `UploadManager`*: they close everything and the
  program ends; that of the pool and of `Download` is modelled.
- *Handlers of PUSH and Q2 packets*: they begin one more connection, or answer.
- *Calls of the Android application* (`sl.cpp`): they run on a thread of the
  application without a lock. The models follow the one thread the code is
  written for; each such call is an action there.
- *The network*: hosts are a choice of what they may send. Rates, priorities
  within a download, pushes through a hub and alternative locations do not
  change what `Download` is asked.
- *Hash functions*: a hash is right or wrong as the data is. Two files with one
  hash do not occur.
- *Formatting*: pages, console, packets, settings and `.inf` text; of these the
  models keep what is saved and what is loaded.
- *Failures of the file system* other than those named: a file that could be
  opened is assumed to open again, and writing to a disk that is full is left
  out.
