----------------------------- MODULE MCAsyncTask -----------------------------
(* Three owners compete for a pool of two threads, so that a task waits; three *)
(* addresses, so that the one of a task that is gone is given to another while *)
(* an aborted task drains.                                                     *)
EXTENDS AsyncTask

CONSTANTS o1, o2, o3, p1, p2, p3

MCOwner == {o1, o2, o3}
MCTask  == {p1, p2, p3}
=============================================================================
