------------------------------- MODULE ByteMap -------------------------------
(***************************************************************************)
(* What a FileMap means to a download: a status for every byte of the      *)
(* file, the ranges leased to downloaders and the range whose hash is      *)
(* being computed.  FileMap.tla, the translation of filemap.cpp, which     *)
(* keeps an ordered set of ranges instead, is shown to implement it.       *)
(***************************************************************************)
EXTENDS Integers

CONSTANT Size   \* of the file, in bytes

VARIABLES bytes,      \* the status of each byte
          leases,     \* the sets of bytes that downloaders are fetching
          checking    \* the bytes a worker is hashing, {} when none is

vars == <<bytes, leases, checking>>

Byte == 0 .. Size - 1
Status == {"empty", "active", "full", "valid", "invalid"}

Wanted(r)    == \A k \in r : bytes[k] \in {"empty", "invalid"}
All(r, st)   == \A k \in r : bytes[k] = st
Paint(r, st) == bytes' = [k \in Byte |-> IF k \in r THEN st ELSE bytes[k]]

Init == /\ bytes = [k \in Byte |-> "empty"]
        /\ leases = {}
        /\ checking = {}

\* A range that nobody fetches and that is not known to be good is handed out.
Lease(r) == /\ r # {} /\ Wanted(r)
            /\ Paint(r, "active")
            /\ leases' = leases \cup {r}
            /\ UNCHANGED checking

\* A lease ends as a whole: with all of its data, or with none of it.
Fill(r) == /\ All(r, "active")
           /\ Paint(r, "full")
           /\ leases' = leases \ {r}
           /\ UNCHANGED checking

Release(r) == /\ All(r, "active")
              /\ Paint(r, "empty")
              /\ leases' = leases \ {r}
              /\ UNCHANGED checking

\* Data is hashed after it has arrived and until the verdict nobody touches it.
Check(r) == /\ checking = {} /\ r # {} /\ All(r, "full")
            /\ checking' = r
            /\ UNCHANGED <<bytes, leases>>

Judge(verdict) == /\ checking # {} /\ All(checking, "full")
                  /\ Paint(checking, verdict)
                  /\ checking' = {}
                  /\ UNCHANGED leases

Drop == checking' = {} /\ UNCHANGED <<bytes, leases>>

\* The program is restarted: what was being fetched must be fetched again.
Restart == /\ bytes' = [k \in Byte |-> IF bytes[k] = "active" THEN "empty" ELSE bytes[k]]
           /\ leases' = {}
           /\ checking' = {}

Next == \/ \E a, z \in Byte : Lease(a .. z) \/ Check(a .. z)
        \/ \E r \in leases : Fill(r) \/ Release(r)
        \/ \E verdict \in {"valid", "invalid"} : Judge(verdict)
        \/ Drop
        \/ Restart

Spec == Init /\ [][Next]_vars
=============================================================================
