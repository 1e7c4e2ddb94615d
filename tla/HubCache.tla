------------------------------- MODULE HubCache -------------------------------
(***************************************************************************)
(* HubCache, as operators on the function from the hubs that are known to  *)
(* what is known of them.  A query key is known by the endpoint that the   *)
(* hub issued it for.  Times are kept as what they are compared with.      *)
(***************************************************************************)
EXTENDS Naturals, FiniteSets, Functions

CONSTANTS Hub,      \* endpoints of hubs, one for each address
          Self,     \* our own endpoint, also for an empty proxy
          NoKey,    \* key_ = 0
          Capacity, \* maxHubs_
          LinearMax \* LINEAR_MAX

ASSUME SelfAssumption     == Self \notin Hub /\ NoKey \notin Hub \cup {Self}
ASSUME CapacityAssumption == Capacity \in Nat /\ LinearMax \in Nat \ {0}

Endpoint == Hub \cup {Self}

\* The age of tsKey_: up to QKEY_QUERY_TIMEOUT, up to QKEY_LIFE_TIME, more (or tsKey_ = 0).
Age     == {"asked", "young", "old"}
HubInfo == [key : Endpoint \cup {NoKey}, age : Age, proxy : Endpoint,
            waits : BOOLEAN] \* searchAfter_ is to come
Caches  == UNION {[S -> HubInfo] : S \in SUBSET Hub}

New == [key |-> NoKey, age |-> "old", proxy |-> Self, waits |-> FALSE]

Find(c, h) == IF h \in DOMAIN c THEN c[h] ELSE New

IsKeyValid(i) == i.key # NoKey /\ i.age # "old"

Proxy(i, p)    == [i EXCEPT !.key = NoKey, !.age = "old", !.proxy = p]
QueryKey(i, k) == [i EXCEPT !.key = k, !.age = "asked"]
KeyIssued(i)   == [i EXCEPT !.key = NoKey, !.age = "asked"]
DiscardKey(i)  == [i EXCEPT !.key = NoKey]

\* Purge: those go that were not seen for hours, and the oldest when there are too
\* many, all of the same second together.  Which these are is a choice.
Purged(c) == {Restrict(c, S) : S \in {T \in SUBSET DOMAIN c : Cardinality(T) <= Capacity}}

Update(c, h, i) == Purged([x \in DOMAIN c \cup {h} |-> IF x = h THEN i ELSE c[x]])

RemoveHub(c, h) == Restrict(c, DOMAIN c \ {h})

\* GetSearchableHub without its predicate; the order of the keys says which it is.
Searchable(c) == {h \in DOMAIN c : c[h].key # NoKey /\ ~c[h].waits}

\* The first LinearMax hubs by the time they were seen: which these are is a choice.
LastSeen(c) == {S \in SUBSET DOMAIN c : \/ S = DOMAIN c /\ Cardinality(S) <= LinearMax
                                        \/ Cardinality(S) = LinearMax}

\* GetHubWithoutKey gives, at random, one of those that are among the last seen.
WithoutKey(c) == {h \in UNION LastSeen(c) : ~IsKeyValid(c[h]) /\ c[h].age # "asked"}
=============================================================================
