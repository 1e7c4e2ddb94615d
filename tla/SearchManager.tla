---------------------------- MODULE SearchManager ----------------------------
(***************************************************************************)
(* Search::Manager with its Searchers, over HubCache.  A searcher asks one *)
(* hub at a time: a neighbor over its connection, any other hub by UDP and *)
(* with a query key that the hub has issued for the endpoint to which the  *)
(* hits are to be sent.  Whoever is firewalled has keys issued for, and    *)
(* hits sent to, a neighbor that passes them on.                           *)
(*                                                                         *)
(* Connections are those of G2Net.  Hubs send what and when they like.     *)
(***************************************************************************)
EXTENDS HubCache

CONSTANTS Searcher,       \* searchers there may be
          Neighbor,       \* hubs to which G2Net may be connected
          MinKeyRequests  \* MIN_QKEY_REQUESTS

ASSUME NeighborAssumption == Neighbor \subseteq Hub
ASSUME RequestsAssumption == MinKeyRequests \in Nat \ {0}

VARIABLES cache,      \* of HubCache
          searchers,  \* searchers_
          neighbors,  \* neighbors_: whether a neighbor rests
          needKeys,   \* needKeys_
          hubs        \* G2Net::hubs_

searchVars == <<cache, searchers, neighbors, needKeys, hubs>>

\* timestamp_ is 0; rate_ times the seconds since then has not, or has come to BASE_RATE.
Wait   == {"new", "short", "due"}
Search == [going : BOOLEAN,       \* RatedSince grows: rate_ > 0 and at most 4000 results
           wait : Wait,
           searched : SUBSET Hub, \* searchedHubs_ of the last hour
           sent : SUBSET Hub]     \* history: those to which the query really went

SearchTypeOK ==
  /\ cache \in Caches
  /\ DOMAIN searchers \subseteq Searcher /\ Range(searchers) \subseteq Search
  /\ DOMAIN neighbors \subseteq Neighbor /\ Range(neighbors) \subseteq BOOLEAN
  /\ needKeys \in 0 .. MinKeyRequests
  /\ hubs \subseteq Neighbor

\* The hubs of the saved cache, of which keys are not kept.
SearchInit ==
  /\ cache \in Purged([h \in Hub |-> New])
  /\ searchers = <<>> /\ neighbors = <<>>
  /\ needKeys = 0
  /\ hubs = {}

-----------------------------------------------------------------------------
(* Searchers.                                                                *)

Create(s) ==
  /\ s \notin DOMAIN searchers
  /\ searchers' = [x \in DOMAIN searchers \cup {s} |->
       IF x \in DOMAIN searchers THEN searchers[x]
       ELSE [going |-> TRUE, wait |-> "new", searched |-> {}, sent |-> {}]]
  /\ UNCHANGED <<cache, neighbors, needKeys, hubs>>

Detach(s) ==
  /\ s \in DOMAIN searchers
  /\ searchers' = Restrict(searchers, DOMAIN searchers \ {s})
  /\ UNCHANGED <<cache, neighbors, needKeys, hubs>>

\* A search stops, by a user's SetRate or by the hits of OnHit that make too many, or goes
\* on, by SetRate or by the ClearResults of a download that has taken them.
Rated(s) ==
  /\ s \in DOMAIN searchers
  /\ searchers' = [searchers EXCEPT ![s].going = ~@]
  /\ UNCHANGED <<cache, neighbors, needKeys, hubs>>

-----------------------------------------------------------------------------
(* Rounds of a search.                                                       *)

\* SelectSearcher: one that is new, or else the one whose rate and waiting time come to
\* most, if that is enough.
Selectable ==
  LET new == {s \in DOMAIN searchers : searchers[s].wait = "new"}
  IN IF new # {} THEN new
     ELSE {s \in DOMAIN searchers : searchers[s].going /\ searchers[s].wait = "due"}

Local(s)   == {h \in DOMAIN neighbors : ~neighbors[h] /\ h \notin searchers[s].searched}
Foreign(s) == Searchable(cache) \ searchers[s].searched

\* AddSearched and Send; the rate is halved and stays positive, so that the next round
\* takes longer to be due.
Asked(s, h, arrives) ==
  LET r == searchers[s]
  IN [searchers EXCEPT ![s] = [going |-> TRUE, wait |-> "short",
                               searched |-> r.searched \cup {h},
                               sent |-> IF arrives THEN r.sent \cup {h} ELSE r.sent]]

\* NeedMoreKeys, when a round has found nobody to ask.
NeedMoreKeys(s) == /\ needKeys' = MinKeyRequests
                   /\ searchers' = [searchers EXCEPT ![s].wait = "short"]

\* G2Net drops what is to be sent to a hub that is not connected.
LocalSearch(s) ==
  /\ s \in Selectable
  /\ \E h \in Local(s) : /\ neighbors' = [neighbors EXCEPT ![h] = TRUE]
                         /\ searchers' = Asked(s, h, h \in hubs)
  /\ UNCHANGED <<cache, needKeys, hubs>>

\* ForeignSearch, if it notices that the key is too old only after AddSearched.
ForeignSearchFault(s, h) ==
  /\ s \in Selectable /\ Local(s) = {}
  /\ h \in Foreign(s)
  /\ IF IsKeyValid(cache[h])
     THEN /\ cache' \in Update(cache, h, [cache[h] EXCEPT !.waits = TRUE])
          /\ searchers' = Asked(s, h, TRUE)
          /\ UNCHANGED needKeys
     ELSE /\ cache' \in Update(cache, h, DiscardKey(cache[h]))
          /\ searchers' = Asked(s, h, FALSE)
          /\ needKeys' = MinKeyRequests
  /\ UNCHANGED <<neighbors, hubs>>

\* ForeignSearch, of the hub that GetSearchableHub has given.
ForeignSearch(s, h) ==
  /\ s \in Selectable /\ Local(s) = {}
  /\ h \in Foreign(s)
  /\ IF IsKeyValid(cache[h])
     THEN /\ cache' \in Update(cache, h, [cache[h] EXCEPT !.waits = TRUE])
          /\ searchers' = Asked(s, h, TRUE)
          /\ UNCHANGED needKeys
     ELSE /\ cache' \in Update(cache, h, DiscardKey(cache[h]))
          /\ NeedMoreKeys(s)
  /\ UNCHANGED <<neighbors, hubs>>

\* A round that finds nobody and leaves it at that.
NobodyFoundFault(s) ==
  /\ s \in Selectable /\ Local(s) = {} /\ Foreign(s) = {}
  /\ searchers' = [searchers EXCEPT ![s].wait = "short"]
  /\ UNCHANGED <<cache, neighbors, needKeys, hubs>>

\* DoSearch, when neither search has found anybody.
NobodyFound(s) ==
  /\ s \in Selectable /\ Local(s) = {} /\ Foreign(s) = {}
  /\ NeedMoreKeys(s)
  /\ UNCHANGED <<cache, neighbors, hubs>>

-----------------------------------------------------------------------------
(* Query keys.                                                               *)

\* The second half of OnTimer, which has a period of its own.  Whether we are taken to
\* be firewalled is a choice: it depends on the pongs of the last minutes.
RequestMoreKeys(h) ==
  /\ needKeys > 0
  /\ h \in WithoutKey(cache) \ hubs
  /\ \/ \E p \in hubs : cache' \in Update(cache, h, KeyIssued(Proxy(cache[h], p)))
     \/ cache' \in Update(cache, h, KeyIssued(cache[h]))
  /\ UNCHANGED <<searchers, neighbors, needKeys, hubs>>

\* A key of a hub, which has issued it for whom it comes through: for us or a neighbor.
\* Nothing tells whether we have asked for it, or when, but that keys are wanted; when
\* they are not, it is dropped.
OnQKA(h, p) ==
  /\ needKeys > 0
  /\ p \in hubs \cup {Self}
  /\ \E i \in {IF h \in DOMAIN cache THEN cache[h] ELSE Proxy(New, p)} :
       cache' \in Update(cache, h, QueryKey(i, p))
  /\ needKeys' = needKeys - 1
  /\ UNCHANGED <<searchers, neighbors, hubs>>

\* OnQA, and HubCache::Touch by other packets: some hubs are heard of, and some of
\* them are not to be asked for a while.
OnQA(seen, done) ==
  /\ cache' \in Purged([x \in DOMAIN cache \cup seen |->
                          [Find(cache, x) EXCEPT !.waits = @ \/ x \in done]])
  /\ UNCHANGED <<searchers, neighbors, needKeys, hubs>>

-----------------------------------------------------------------------------
(* Connections.                                                              *)

\* G2Net::OnHubConnected with HubConnected.
HubConnected(h) ==
  /\ h \in Neighbor \ hubs
  /\ hubs' = hubs \cup {h}
  /\ neighbors' = [x \in DOMAIN neighbors \cup {h} |-> IF x = h THEN FALSE ELSE neighbors[x]]
  /\ UNCHANGED <<cache, searchers, needKeys>>

\* G2Net::Detach of a node.  Nothing calls HubDisconnected.
Disconnect(h) ==
  /\ h \in hubs
  /\ hubs' = hubs \ {h}
  /\ UNCHANGED <<cache, searchers, neighbors, needKeys>>

\* G2Net::Detach of a handshake that got no answer.
HandshakeFailed(h) ==
  /\ h \in DOMAIN cache \ hubs
  /\ cache' = RemoveHub(cache, h)
  /\ UNCHANGED <<searchers, neighbors, needKeys, hubs>>

-----------------------------------------------------------------------------
(* Time passes.                                                              *)

KeyAges(h) ==
  /\ h \in DOMAIN cache /\ cache[h].age # "old"
  /\ cache' = [cache EXCEPT ![h].age = IF @ = "asked" THEN "young" ELSE "old"]
  /\ UNCHANGED <<searchers, neighbors, needKeys, hubs>>

WaitEnds(h) ==
  /\ h \in DOMAIN cache /\ cache[h].waits
  /\ cache' = [cache EXCEPT ![h].waits = FALSE]
  /\ UNCHANGED <<searchers, neighbors, needKeys, hubs>>

RestEnds(h) ==
  /\ h \in DOMAIN neighbors /\ neighbors[h]
  /\ neighbors' = [neighbors EXCEPT ![h] = FALSE]
  /\ UNCHANGED <<cache, searchers, needKeys, hubs>>

\* The waiting time comes to BASE_RATE: after a second at first, after a quarter of an
\* hour once the rate has been halved down to 2.
WaitPasses(s) ==
  /\ s \in DOMAIN searchers /\ searchers[s].going /\ searchers[s].wait = "short"
  /\ searchers' = [searchers EXCEPT ![s].wait = "due"]
  /\ UNCHANGED <<cache, neighbors, needKeys, hubs>>

HourEnds(s, h) ==
  /\ s \in DOMAIN searchers /\ h \in searchers[s].searched
  /\ LET r == searchers[s]
     IN searchers' = [searchers EXCEPT ![s] = [r EXCEPT !.searched = r.searched \ {h},
                                                        !.sent = r.sent \ {h}]]
  /\ UNCHANGED <<cache, neighbors, needKeys, hubs>>

\* DoSearch, in which s is selected.
Round(s) == LocalSearch(s) \/ NobodyFound(s) \/ \E h \in Hub : ForeignSearch(s, h)

SearchNext ==
  \/ \E s \in Searcher : \/ Create(s) \/ Detach(s) \/ Rated(s) \/ WaitPasses(s)
                         \/ LocalSearch(s) \/ NobodyFound(s)
                         \/ \E h \in Hub : ForeignSearch(s, h) \/ HourEnds(s, h)
  \/ \E h \in Hub : \/ RequestMoreKeys(h) \/ \E p \in Endpoint : OnQKA(h, p)
                    \/ HubConnected(h) \/ Disconnect(h) \/ HandshakeFailed(h)
                    \/ KeyAges(h) \/ WaitEnds(h) \/ RestEnds(h)
  \/ \E seen \in SUBSET Hub \ {{}} : \E done \in SUBSET seen : OnQA(seen, done)

SearchSpec == SearchInit /\ [][SearchNext]_searchVars

\* The window of GetHubWithoutKey covers the cache.
AllInWindow == Cardinality(DOMAIN cache) <= LinearMax

\* The timers run and time passes.  A searcher that is due stays so, and its waiting
\* time grows until it is the one to be selected.  A hub without a key is drawn one
\* day, if the draw can reach it and there is a proxy if we need one; and a hub that
\* is asked for a key again and again answers, and not only when nobody wants keys.
SearchFairness ==
  /\ \A s \in Searcher : WF_searchVars(WaitPasses(s)) /\ WF_searchVars(Round(s))
  /\ \A h \in Hub :
       /\ WF_searchVars(KeyAges(h))
       /\ SF_searchVars(AllInWindow /\ hubs # {} /\ RequestMoreKeys(h))
       /\ SF_searchVars(/\ h \in DOMAIN cache /\ cache[h].key = NoKey /\ cache[h].age = "asked"
                        /\ \E p \in Endpoint : OnQKA(h, p))

SearchFairSpec == SearchSpec /\ SearchFairness

-----------------------------------------------------------------------------
(* Properties.                                                               *)

\* A search that went to a hub is remembered for the hour, on both ways; and what is
\* remembered has really been sent, but to a hub that was a neighbor once: neighbors_
\* keeps those that are gone.
SearchedIsSent == \A s \in DOMAIN searchers :
  /\ searchers[s].sent \subseteq searchers[s].searched
  /\ searchers[s].searched \ searchers[s].sent \subseteq DOMAIN neighbors

\* A search under way has a hub to ask that was never a neighbor, nothing hinders the
\* request of its key, no neighbor is there that has left, and no key has expired.
Ready(s, h) ==
  /\ s \in DOMAIN searchers /\ searchers[s].going /\ h \notin searchers[s].searched
  /\ h \in DOMAIN cache \ DOMAIN neighbors /\ ~cache[h].waits
  /\ hubs # {} /\ AllInWindow
  /\ DOMAIN neighbors \subseteq hubs
  /\ \A x \in DOMAIN cache : IsKeyValid(cache[x]) \/ cache[x].key = NoKey

\* A query of s goes out.
Sends(s) == /\ s \in DOMAIN searchers \cap DOMAIN searchers'
            /\ ~(searchers'[s].sent \subseteq searchers[s].sent)

\* As long as a search has a hub to ask, its queries go out again and again: the chain
\* from a round that finds nobody over the request of a key and its answer to the next
\* round that is due never breaks (Manager::OnTimer).
SearchesGoOn == \A s \in Searcher, h \in Hub :
  []<>~Ready(s, h) \/ []<><<Sends(s)>>_searchVars
=============================================================================
