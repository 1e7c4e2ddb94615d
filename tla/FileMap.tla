------------------------------- MODULE FileMap -------------------------------
(***************************************************************************)
(* FileMap (filemap.cpp): the status of every part of a file that is being *)
(* downloaded, kept as an ordered set of ranges that ModifyRange splits    *)
(* and merges.  The actions are the calls that downloaders and a Download  *)
(* make on it, with the ranges they remember between two calls.            *)
(***************************************************************************)
EXTENDS Integers, Sequences, FiniteSets, FiniteSetsExt

CONSTANTS Size,       \* of the file, in bytes
          VerSize,    \* bytes per leaf of the tiger tree
          MaxLength,  \* the longest range GetEmptyRange gives (128 KB in the code)
          Available,  \* lists a host may send as X-Available-Ranges
          NoRange     \* an empty FileRange

Byte   == 0 .. Size - 1
Status == {"empty", "active", "full", "valid", "invalid"}
FileRange   == {r \in [first : Byte, last : Byte] : r.first <= r.last}
FileRangeEx == {r \in [first : Byte, last : Byte, st : Status] : r.first <= r.last}

ASSUME SizesAssumption == {Size, VerSize, MaxLength} \subseteq Nat \ {0}
ASSUME AvailableAssumption == Available \subseteq Seq(FileRange)
ASSUME NoRangeAssumption == NoRange \notin FileRange \cup FileRangeEx

VARIABLES ranges,    \* FileMap::ranges_
          status_,   \* FileMap::status_, the cached mask; {} is Integrity::NONE
          versize_,  \* FileMap::versize_, 0 before the tiger tree is known
          leases,    \* DownloaderImpl::myRange_ of the downloaders that have one
          checking   \* the range of the hash task of the Download's work_

vars == <<ranges, status_, versize_, leases, checking>>

TypeOK == /\ ranges \in SUBSET FileRangeEx
          /\ status_ \in SUBSET Status
          /\ versize_ \in {0, VerSize}
          /\ leases \in SUBSET FileRange
          /\ checking \in FileRange \cup {NoRange}

Init == /\ ranges = {[first |-> 0, last |-> Size - 1, st |-> "empty"]}
        /\ status_ = {}
        /\ versize_ = 0
        /\ leases = {}
        /\ checking = NoRange

-----------------------------------------------------------------------------
Length(r) == r.last - r.first + 1
Intersects(r, q) == r.first <= q.last /\ q.first <= r.last
Bare(r) == [first |-> r.first, last |-> r.last]

\* The ranges in the order of the std::set
Lowest(R)  == CHOOSE r \in R : \A q \in R : r.first <= q.first
Highest(R) == CHOOSE r \in R : \A q \in R : q.first <= r.first

\* FileMap::Status(FileRange): the statuses found in r
StatusIn(R, r) == {q.st : q \in {q \in R : Intersects(r, q)}}

\* FileMap::Status(): computed when the cached mask is NONE
StatusMask == IF status_ = {} THEN {q.st : q \in ranges} ELSE status_

\* FileMap::FindRange: the last range that begins at or before offset
FindRange(R, offset) == Highest({r \in R : r.first <= offset})

\* Nothing is ever merged.
MergeTurnFault(m) == m

\* One turn of the loop of ModifyRange: the range at the iterator swallows its
\* successor when both have the same status, otherwise the iterator moves on.
MergeTurn(m) ==
  LET after == {q \in m.set : q.first > m.at.first}
      next  == Lowest(after)
      whole == [first |-> m.at.first, last |-> next.last, st |-> m.at.st]
  IN IF m.at = NoRange \/ after = {} THEN [set |-> m.set, at |-> NoRange]
     ELSE IF next.first = m.at.last + 1 /\ next.st = m.at.st
     THEN [set |-> (m.set \ {m.at, next}) \cup {whole}, at |-> whole]
     ELSE [set |-> m.set, at |-> next]

\* What sticks out of r of the first and of the last range that r touches.
LeftOf(r, part) == IF r.first > part.first THEN {[part EXCEPT !.last = r.first - 1]} ELSE {}
RightOf(r, part) == IF r.last < part.last THEN {[part EXCEPT !.first = r.last + 1]} ELSE {}

\* FileMap::ModifyRange: the ranges that r touches are erased, what sticks out of
\* r is put back, r is inserted, and three turns of the merging loop begin at the
\* predecessor of r.
ModifyRange(R, r, st) ==
  LET firstPart == FindRange(R, r.first)
      lastPart  == FindRange(R, r.last)
      erased == {q \in R : firstPart.first <= q.first /\ q.first <= lastPart.first}
      new    == [first |-> r.first, last |-> r.last, st |-> st]
      cut    == (R \ erased) \cup LeftOf(r, firstPart) \cup RightOf(r, lastPart) \cup {new}
      before == {q \in cut : q.first < new.first}
      begin  == [set |-> cut, at |-> IF before = {} THEN new ELSE Highest(before)]
      turn[n \in 0 .. 3] == IF n = 0 THEN begin ELSE MergeTurn(turn[n - 1])
  IN turn[3].set

Set(r, st) == ranges' = ModifyRange(ranges, r, st) /\ status_' = {}

-----------------------------------------------------------------------------
\* FileMap::GetEmptyRange: the ranges that it may give, over all values of rand.
\* A range whose ends are not on block boundaries is served before the others.
Wanted(R) == {r \in R : r.st \in {"empty", "invalid"}}
Ragged(r, vs) == vs # 0 /\ (r.first % vs # 0 \/ (r.last + 1) % vs # 0)

Offsets(r, vs) ==
  IF vs = 0 \/ r.first % vs # 0 THEN {r.first}
  ELSE IF (r.last + 1) % vs # 0 THEN {Max({r.first, r.last - (r.last % vs)})}
  ELSE {r.first + vs * k : k \in 0 .. (Length(r) \div vs) - 1}

Cut(offset, last) ==
  [first |-> offset,
   last  |-> offset - 1 + Min({last - offset + 1, MaxLength, MaxLength - (offset % MaxLength)})]

EmptyRanges(R, vs) ==
  LET ragged == {r \in Wanted(R) : Ragged(r, vs)}
      parts  == IF ragged = {} THEN Wanted(R) ELSE {Lowest(ragged)}
  IN UNION {{Cut(offset, r.last) : offset \in Offsets(r, vs)} : r \in parts}

\* The overload that looks only at what the host has: the first wanted range that
\* meets the list, and the first member of the list that meets it.
EmptyRangesIn(R, vs, available) ==
  LET met(r) == {i \in DOMAIN available : Intersects(available[i], r)}
      parts  == {r \in Wanted(R) : met(r) # {}}
      r      == Lowest(parts)
      av     == available[Min(met(r))]
      offset == Max({av.first, r.first})
  IN IF available = <<>> THEN EmptyRanges(R, vs)
     ELSE IF parts = {} THEN {}
     ELSE {[first |-> offset,
            last  |-> offset - 1 + Min({MaxLength, Min({av.last, r.last}) - offset + 1})]}

\* FileMap::GetForValidation: the first whole block that is FULL, or else what is
\* FULL at the end of the file if it is shorter than a block.
FirstBlock(r, vs) ==
  LET down == r.first - (r.first % vs)
      up   == IF down < r.first THEN down + vs ELSE down
  IN [first |-> up, last |-> up + vs - 1]

\* The end of the file is not treated apart.
ShortTailFault(R, vs) == NoRange
ShortTail(R, vs) == LET tail == Highest(R)
                    IN IF tail.st = "full" /\ Length(tail) < vs THEN Bare(tail) ELSE NoRange

GetForValidation(R, vs) ==
  LET whole == {r \in R : /\ r.st = "full" /\ Length(r) >= vs
                          /\ FirstBlock(r, vs).last <= r.last}
  IN IF vs = 0 THEN NoRange
     ELSE IF whole # {} THEN FirstBlock(Lowest(whole), vs)
     ELSE ShortTail(R, vs)

-----------------------------------------------------------------------------
\* DownloaderImpl::FetchFile: a range is taken and marked ACTIVE.
FetchFile(available) ==
  \E r \in EmptyRangesIn(ranges, versize_, available) :
     /\ Set(r, "active")
     /\ leases' = leases \cup {r}
     /\ UNCHANGED <<versize_, checking>>

\* DownloaderImpl::TaskComplete: the whole lease has arrived.
TaskComplete(r) == /\ Set(r, "full")
                   /\ leases' = leases \ {r}
                   /\ UNCHANGED <<versize_, checking>>

\* DownloaderImpl::CancelTask when a downloader is closed or told to wait.
CancelTask(r) == /\ Set(r, "empty")
                 /\ leases' = leases \ {r}
                 /\ UNCHANGED <<versize_, checking>>

\* Download::OnTiger sets the verification size.
OnTiger == /\ versize_ = 0
           /\ versize_' = VerSize
           /\ UNCHANGED <<ranges, status_, leases, checking>>

\* Download::FileUpdated when work_ is idle: which range a hash task is run for.
Whole == [first |-> 0, last |-> Size - 1]
ToHash == IF StatusMask = {"full"} THEN Whole
          ELSE IF "full" \in StatusMask THEN GetForValidation(ranges, versize_)
          ELSE NoRange

FileUpdated == /\ checking = NoRange
               /\ ToHash # NoRange
               /\ status_' = StatusMask
               /\ checking' = ToHash
               /\ UNCHANGED <<ranges, versize_, leases>>

\* TigerTree::Get gives the hash of the block in which a range begins, so the
\* hash of a part of a block never matches.
IsBlock(r) == \/ r = Whole
              \/ /\ r.first % VerSize = 0
                 /\ r.last = Min({r.first + VerSize, Size}) - 1

\* Download::Hashed
Hashed(verdict) == /\ checking # NoRange
                   /\ verdict = "valid" => IsBlock(checking)
                   /\ Set(checking, verdict)
                   /\ checking' = NoRange
                   /\ UNCHANGED <<versize_, leases>>

\* Download::CancelTasks, and a hash task that fails: no verdict.
CancelTasks == /\ checking # NoRange
               /\ checking' = NoRange
               /\ UNCHANGED <<ranges, status_, versize_, leases>>

\* ACTIVE is written as it is.
SavedFault(r) == r

\* FileMap::ToStream, FileMap::FromStream of the next run of the program and the
\* assignment in Download::LoadParams.  The ranges are not merged.  The tiger
\* tree is saved elsewhere, from time to time: it may be lost.
Saved(r) == IF r.st = "active" THEN [r EXCEPT !.st = "empty"] ELSE r

Restart == /\ ranges' = {Saved(r) : r \in ranges}
           /\ status_' = {}
           /\ versize_' \in {0, versize_}
           /\ leases' = {}
           /\ checking' = NoRange

\* Status() is also called by AllowDownloader and by the user interfaces.
AskStatus == /\ status_' = StatusMask
             /\ UNCHANGED <<ranges, versize_, leases, checking>>

Next == \/ \E available \in Available : FetchFile(available)
        \/ \E r \in leases : TaskComplete(r) \/ CancelTask(r)
        \/ OnTiger
        \/ FileUpdated
        \/ \E verdict \in {"valid", "invalid"} : Hashed(verdict)
        \/ CancelTasks
        \/ Restart
        \/ AskStatus

Spec == Init /\ [][Next]_vars

-----------------------------------------------------------------------------
\* The ranges cover the file and do not overlap: FindRange and the iterators of
\* ModifyRange rely on it.
Tiled == \A k \in Byte : Cardinality({r \in ranges : r.first <= k /\ k <= r.last}) = 1

\* Three turns of the merging loop are enough: neighbours differ, except for the
\* EMPTY neighbours that ToStream makes of ACTIVE ranges.
Merged == \A r, q \in ranges : q.first = r.last + 1 /\ q.st = r.st => r.st = "empty"

\* The cached mask is the one that would be computed.
CacheFresh == status_ # {} => status_ = {r.st : r \in ranges}

\* What ModifyRange must leave behind after any sequence of calls: the map is
\* still one, it is as short as it can be, and no stale mask is left to decide by.
WellFormed == TypeOK /\ Tiled /\ Merged /\ CacheFresh

\* The ACTIVE bytes are those of the leases, each of exactly one lease: no
\* downloader fetches what another one fetches, and no byte is ACTIVE for nobody.
\* With it the assertions of SetFull and SetEmpty hold.
Leased == \A k \in Byte :
            LET holders == {l \in leases : l.first <= k /\ k <= l.last}
            IN IF FindRange(ranges, k).st = "active"
               THEN Cardinality(holders) = 1 ELSE holders = {}

\* With the tiger tree known and nothing left to fetch, there is always something
\* to hash until every byte has its verdict: the validation never strands.
NeverStranded ==
  LET left == {r.st : r \in ranges}
  IN versize_ # 0 /\ left \cap {"empty", "invalid", "active"} = {} /\ "full" \in left
       => GetForValidation(ranges, versize_) # NoRange

bytesBar    == [k \in Byte |-> FindRange(ranges, k).st]
leasesBar   == {l.first .. l.last : l \in leases}
checkingBar == IF checking = NoRange THEN {} ELSE checking.first .. checking.last

Bytes == INSTANCE ByteMap WITH bytes <- bytesBar, leases <- leasesBar, checking <- checkingBar

\* Splitting and merging are invisible: filemap.cpp implements ByteMap.  Every
\* assertion of ModifyRange is a guard there, and GetEmptyRange and
\* GetForValidation give nothing the map may not give.
BytesSpec == Bytes!Spec
=============================================================================
