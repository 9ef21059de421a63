----------------------------- MODULE ModelList -----------------------------
(***************************************************************************)
(* The model list of the active region (gateway/service.go: ListModels,    *)
(* SetPoolSite, invalidateModelsCache; gateway/models_flight.go: Do;       *)
(* models/models.go: List): one cached list, and concurrent requests for   *)
(* the same key that share one flight to the upstream.                     *)
(*                                                                         *)
(* An action is one critical section (the pool's, the configuration's, the *)
(* cache's, the flight table's) or the answer of the upstream.  The base   *)
(* URL and the environment in the code's cache key follow from the         *)
(* account, which is normalised: region and account are the key here.      *)
(***************************************************************************)
EXTENDS PoolStore, FiniteSets

CONSTANTS
    Requests,     \* goroutines that serve GET /v1/models, or its admin twin
    FirstStore,   \* the accounts at the start
    FirstSite,    \* the region at the start
    Domestic,     \* the region with one upstream host
    None,         \* no flight, no cached key, no list
    Dead,         \* a flight whose leader panicked: registered for ever
    MaxChanges,   \* bound on what administrators change
    MaxPanics     \* bound on panics in the function of a flight

VARIABLES
    store,     \* Pool.mem
    site,      \* the region in the configuration snapshot
    cache,     \* modelsCache: key, result, and whether expiresAt is ahead
    flights,   \* modelsFlight.m: the leader of the flight of each key
    pc, fresh, key, \* of a request: where it is, ?fresh, its cache key
    read,      \* of a request: the copy of the pool that it read
    list,      \* of a request: the list that it has, or that its flight has
    admin,     \* "switched": between the new region and the invalidation
    changes, panics

vars == <<store, site, cache, flights, pc, fresh, key, read, list, admin,
          changes, panics>>
requestVars == <<fresh, key, read, list>>
adminVars == <<store, site, admin, changes>>

Keys == [site : Sites, id : Creds]

(***************************************************************************)
(* A list is abstracted to where it comes from: the key it was fetched     *)
(* for, its modelsSource, the upstream hosts whose catalogues it merges.   *)
(* Not in the code: the requests that were under way when its fetch began. *)
(***************************************************************************)
Hosts == {"codebuddy.ai", "copilot"}

ModelLists ==
    [key : Keys \cup {None}, source : {"v3_config", "upstream", "site_catalog",
                                       "no_credentials"},
     hosts : SUBSET Hosts, asked : SUBSET Requests]

ASSUME ListAssumption ==
    /\ FirstStore \in Store /\ WellFormed(FirstStore)
    /\ FirstSite \in Sites
    /\ None \notin Requests \cup Keys \cup ModelLists
    /\ Dead \notin Requests \cup {None}
    /\ MaxChanges \in Nat /\ MaxPanics \in Nat

NoCredentials ==
    [key |-> None, source |-> "no_credentials", hosts |-> {}, asked |-> {}]

NoCache == [key |-> None, list |-> None, live |-> FALSE]

Init ==
    /\ store = FirstStore /\ site = FirstSite
    /\ cache = NoCache
    /\ flights = [k \in Keys |-> None]
    /\ pc = [r \in Requests |-> "idle"]
    /\ fresh = [r \in Requests |-> FALSE]
    /\ key = [r \in Requests |-> None]
    /\ read = [r \in Requests |-> EmptyStore]
    /\ list = [r \in Requests |-> None]
    /\ admin = "idle" /\ changes = 0 /\ panics = 0

Goto(r, label) == pc' = [pc EXCEPT ![r] = label]

-----------------------------------------------------------------------------
(* ListModels up to the cache.                                             *)

Usable(s, w) ==
    {i \in 1..Len(s.accounts) :
        s.accounts[i].enabled /\ SiteOf[s.accounts[i].cred] = w}

(***************************************************************************)
(* Primary of SummarizeStoreForSite: the first enabled account of the      *)
(* region, or of any region, or the first account, although it is          *)
(* disabled.  ListModels takes it only when it is of the region.           *)
(***************************************************************************)
Primary(s, w) ==
    IF Usable(s, w) # {} THEN First(Usable(s, w))
    ELSE LET enabled == {i \in 1..Len(s.accounts) : s.accounts[i].enabled}
         IN  IF enabled # {} THEN First(enabled) ELSE 1

HasPrimary(s, w) ==
    s.accounts # << >> /\ SiteOf[s.accounts[Primary(s, w)].cred] = w

(* What a list remembers of a request that ended is of no use to the next  *)
(* request of the same goroutine.                                          *)
Forget(l, r) == IF l = None THEN None ELSE [l EXCEPT !.asked = @ \ {r}]

Begin(r, f) ==
    /\ pc[r] = "idle"
    /\ Goto(r, "site")
    /\ fresh' = [fresh EXCEPT ![r] = f]
    /\ read' = [read EXCEPT ![r] = store]
    /\ list' = [q \in Requests |-> Forget(list[q], r)]
    /\ cache' = [cache EXCEPT !.list = Forget(cache.list, r)]
    /\ UNCHANGED <<flights, key, adminVars, panics>>

Unlisted(r) ==
    /\ pc[r] = "site" /\ ~HasPrimary(read[r], site)
    /\ Goto(r, "return")
    /\ list' = [list EXCEPT ![r] = NoCredentials]
    /\ read' = [read EXCEPT ![r] = EmptyStore]
    /\ UNCHANGED <<cache, flights, fresh, key, adminVars, panics>>

Keyed(r) ==
    /\ pc[r] = "site" /\ HasPrimary(read[r], site)
    /\ key' = [key EXCEPT ![r] =
                 [site |-> site, id |-> read[r].accounts[Primary(read[r], site)].id]]
    /\ Goto(r, IF fresh[r] THEN "join" ELSE "cache")
    /\ read' = [read EXCEPT ![r] = EmptyStore]
    /\ UNCHANGED <<cache, flights, fresh, list, adminVars, panics>>

(* Faulty variant: any key's list will do.                                 *)
HitAny(k) == cache.key # None /\ cache.live

Hit(k) == cache.key = k /\ cache.live

CacheHit(r) ==
    /\ pc[r] = "cache" /\ Hit(key[r])
    /\ Goto(r, "return")
    /\ list' = [list EXCEPT ![r] = cache.list]
    /\ UNCHANGED <<cache, flights, fresh, key, read, adminVars, panics>>

CacheMiss(r) ==
    /\ pc[r] = "cache" /\ ~Hit(key[r])
    /\ Goto(r, "join")
    /\ UNCHANGED <<cache, flights, requestVars, adminVars, panics>>

-----------------------------------------------------------------------------
(* modelsFlight.Do.                                                        *)

(* The leader answered already but is still in the table: take its answer. *)
JoinAnswered(r) ==
    /\ pc[r] = "join"
    /\ flights[key[r]] \in Requests /\ pc[flights[key[r]]] = "answered"
    /\ Goto(r, "return")
    /\ list' = [list EXCEPT ![r] = list[flights[key[r]]]]
    /\ UNCHANGED <<cache, flights, fresh, key, read, adminVars, panics>>

Join(r) ==
    /\ pc[r] = "join" /\ flights[key[r]] # None
    /\ flights[key[r]] \in Requests => pc[flights[key[r]]] # "answered"
    /\ Goto(r, "wait")
    /\ UNCHANGED <<cache, flights, requestVars, adminVars, panics>>

(* Faulty variants: a leader that does not register, one that always       *)
(* looks at the cache.                                                     *)
LeadUnregistered(r) ==
    /\ pc[r] = "join" /\ flights[key[r]] = None
    /\ Goto(r, IF fresh[r] THEN "call" ELSE "check")
    /\ UNCHANGED <<cache, flights, requestVars, adminVars, panics>>

LeadChecking(r) ==
    /\ pc[r] = "join" /\ flights[key[r]] = None
    /\ flights' = [flights EXCEPT ![key[r]] = r]
    /\ Goto(r, "check")
    /\ UNCHANGED <<cache, requestVars, adminVars, panics>>

(* Only the function of a leader that is not fresh looks at the cache.     *)
Lead(r) ==
    /\ pc[r] = "join" /\ flights[key[r]] = None
    /\ flights' = [flights EXCEPT ![key[r]] = r]
    /\ Goto(r, IF fresh[r] THEN "call" ELSE "check")
    /\ UNCHANGED <<cache, requestVars, adminVars, panics>>

(* Faulty variant: the leader returns and leaves its flight in the table.  *)
LeadHitReturning(r) ==
    /\ pc[r] = "check" /\ Hit(key[r])
    /\ Goto(r, "return")
    /\ list' = [list EXCEPT ![r] = cache.list]
    /\ UNCHANGED <<cache, flights, fresh, key, read, adminVars, panics>>

(* A leader that finds the list in the cache after all.                    *)
LeadHit(r) ==
    /\ pc[r] = "check" /\ Hit(key[r])
    /\ Goto(r, "listed")
    /\ list' = [list EXCEPT ![r] = cache.list]
    /\ UNCHANGED <<cache, flights, fresh, key, read, adminVars, panics>>

LeadMiss(r) ==
    /\ pc[r] = "check" /\ ~Hit(key[r])
    /\ Goto(r, "call")
    /\ UNCHANGED <<cache, flights, requestVars, adminVars, panics>>

(* The first request to the upstream leaves.                               *)
Fetch(r) ==
    /\ pc[r] = "call"
    /\ Goto(r, "fetch")
    /\ list' = [list EXCEPT ![r] =
                  [key |-> key[r], source |-> "site_catalog", hosts |-> {},
                   asked |-> {q \in Requests : pc[q] # "idle"}]]
    /\ UNCHANGED <<cache, flights, fresh, key, read, adminVars, panics>>

(***************************************************************************)
(* models.List: the catalogues of the hosts of the region that answer are  *)
(* merged (v3_config); when none does, one of the older paths of the first *)
(* host may (upstream); when that fails too, or the client of the leader   *)
(* has gone and took the context along, the list is "auto" only            *)
(* (site_catalog).  All three are OK and have models.                      *)
(***************************************************************************)
FirstHost(w) == IF w = Domestic THEN "copilot" ELSE "codebuddy.ai"
CandidateHosts(w) == {FirstHost(w), "copilot"}

Outcomes(w) ==
    [source : {"v3_config"}, hosts : SUBSET CandidateHosts(w) \ {{}}]
        \cup [source : {"upstream"}, hosts : {{FirstHost(w)}}]
        \cup [source : {"site_catalog"}, hosts : {{}}]

(* Faulty variant: it stores the list under the key of the region that is  *)
(* active now.                                                             *)
FetchedForActive(r) ==
    /\ pc[r] = "fetch"
    /\ \E o \in Outcomes(key[r].site) :
           LET l == [list[r] EXCEPT !.source = o.source, !.hosts = o.hosts]
           IN  /\ list' = [list EXCEPT ![r] = l]
               /\ cache' = [key |-> [key[r] EXCEPT !.site = site],
                            list |-> l, live |-> TRUE]
    /\ Goto(r, "listed")
    /\ UNCHANGED <<flights, fresh, key, read, adminVars, panics>>

(* The list is cached before anybody is told.                              *)
Fetched(r) ==
    /\ pc[r] = "fetch"
    /\ \E o \in Outcomes(key[r].site) :
           LET l == [list[r] EXCEPT !.source = o.source, !.hosts = o.hosts]
           IN  /\ list' = [list EXCEPT ![r] = l]
               /\ cache' = [key |-> key[r], list |-> l, live |-> TRUE]
    /\ Goto(r, "listed")
    /\ UNCHANGED <<flights, fresh, key, read, adminVars, panics>>

Waiting(k) == {q \in Requests : pc[q] = "wait" /\ key[q] = k}

(* c.val and wg.Done: whoever waits has the leader's list.                 *)
Answer(r) ==
    /\ pc[r] = "listed"
    /\ pc' = [q \in Requests |-> IF q = r THEN "answered"
                                 ELSE IF q \in Waiting(key[r]) THEN "return"
                                 ELSE pc[q]]
    /\ list' = [q \in Requests |-> IF q \in Waiting(key[r]) THEN list[r]
                                   ELSE list[q]]
    /\ UNCHANGED <<cache, flights, fresh, key, read, adminVars, panics>>

Unregister(r) ==
    /\ pc[r] = "answered"
    /\ flights' = [flights EXCEPT ![key[r]] = None]
    /\ Goto(r, "return")
    /\ UNCHANGED <<cache, requestVars, adminVars, panics>>

(* The function panics: the recovering handler answers 500, and nobody     *)
(* takes the flight out of the table.                                      *)
Panic(r) ==
    /\ pc[r] = "fetch" /\ panics < MaxPanics
    /\ panics' = panics + 1
    /\ flights' = [flights EXCEPT ![key[r]] = Dead]
    /\ Goto(r, "idle")
    /\ key' = [key EXCEPT ![r] = None]
    /\ list' = [list EXCEPT ![r] = None]
    /\ UNCHANGED <<cache, fresh, read, adminVars>>

Return(r) ==
    /\ pc[r] = "return"
    /\ Goto(r, "idle")
    /\ key' = [key EXCEPT ![r] = None]
    /\ list' = [list EXCEPT ![r] = None]
    /\ UNCHANGED <<cache, flights, fresh, read, adminVars, panics>>

-----------------------------------------------------------------------------
(* The administrator and the clock.                                        *)

SwitchSite(w) ==
    /\ admin = "idle" /\ w # site /\ changes < MaxChanges
    /\ site' = w /\ admin' = "switched" /\ changes' = changes + 1
    /\ UNCHANGED <<store, cache, flights, pc, requestVars, panics>>

InvalidateModelsCache ==
    /\ admin = "switched"
    /\ cache' = NoCache /\ admin' = "idle"
    /\ UNCHANGED <<store, site, flights, pc, requestVars, changes, panics>>

Toggle(id) ==
    /\ Has(store, id) /\ changes < MaxChanges
    /\ store' = SetEnabled(store, id, ~AccountAt(store, id).enabled)
    /\ changes' = changes + 1
    /\ UNCHANGED <<site, cache, flights, pc, requestVars, admin, panics>>

Remove(id) ==
    /\ Has(store, id) /\ changes < MaxChanges
    /\ store' = Delete(store, id)
    /\ changes' = changes + 1
    /\ UNCHANGED <<site, cache, flights, pc, requestVars, admin, panics>>

Expire ==
    /\ cache.live
    /\ cache' = [cache EXCEPT !.live = FALSE]
    /\ UNCHANGED <<flights, pc, requestVars, adminVars, panics>>

(* The steps by which a request goes on by itself, and with the upstream.  *)
Proceed(r) ==
    \/ Unlisted(r) \/ Keyed(r) \/ CacheHit(r) \/ CacheMiss(r)
    \/ JoinAnswered(r) \/ Join(r) \/ Lead(r) \/ LeadHit(r) \/ LeadMiss(r)
    \/ Fetch(r) \/ Answer(r) \/ Unregister(r) \/ Return(r)

Serve(r) == Proceed(r) \/ Fetched(r)

Next ==
    \/ \E r \in Requests, f \in BOOLEAN : Begin(r, f)
    \/ \E r \in Requests : Serve(r) \/ Panic(r)
    \/ \E w \in Sites : SwitchSite(w)
    \/ \E id \in Creds : Toggle(id) \/ Remove(id)
    \/ InvalidateModelsCache \/ Expire

Spec == Init /\ [][Next]_vars

(* Nothing is said of the upstream: the client has no timeout but that of  *)
(* the response header, and a body may stay unfinished for ever            *)
(* (provider/client.go:30-53).                                             *)
FairSpec == Spec /\ \A r \in Requests : WF_vars(Proceed(r))

-----------------------------------------------------------------------------
TypeOK ==
    /\ store \in Store /\ site \in Sites
    /\ cache \in [key : Keys \cup {None}, list : ModelLists \cup {None},
                  live : BOOLEAN]
    /\ flights \in [Keys -> Requests \cup {None, Dead}]
    /\ pc \in [Requests -> {"idle", "site", "cache", "join", "wait", "check",
                            "call", "fetch", "listed", "answered", "return"}]
    /\ fresh \in [Requests -> BOOLEAN]
    /\ key \in [Requests -> Keys \cup {None}]
    /\ read \in [Requests -> Store]
    /\ list \in [Requests -> ModelLists \cup {None}]
    /\ admin \in {"idle", "switched"}
    /\ changes \in 0..MaxChanges /\ panics \in 0..MaxPanics

Leading(r) == pc[r] \in {"check", "call", "fetch", "listed", "answered"}

(* Concurrent requests do not hit the upstream with the same question      *)
(* (docs/api/http.md:67).                                                  *)
OneFetchPerKey ==
    \A q, r \in Requests :
        pc[q] = "fetch" /\ pc[r] = "fetch" /\ key[q] = key[r] => q = r

(***************************************************************************)
(* Whoever is answered, from the cache, by its own fetch or by a flight    *)
(* that it joined, has a list for the account and the region it chose,     *)
(* through switches of the region and changes of the pool meanwhile.       *)
(***************************************************************************)
AnswerIsForKey ==
    \A r \in Requests :
        /\ pc[r] = "return" /\ list[r].source # "no_credentials"
        => list[r].key = key[r] /\ SiteOf[key[r].id] = key[r].site

(* A fresh request that leads its flight has a list whose fetch began      *)
(* after the request did (docs/api/http.md:40).                            *)
FreshLeaderFetches ==
    \A r \in Requests :
        pc[r] = "answered" /\ fresh[r] => r \in list[r].asked

(* Nobody waits for a flight that no leader will end: a leader of the same *)
(* key is at work, or it panicked.                                         *)
WaitersHaveLeader ==
    \A r \in Requests :
        pc[r] = "wait" =>
            \/ flights[key[r]] = Dead
            \/ \E q \in Requests :
                   /\ flights[key[r]] = q /\ key[q] = key[r]
                   /\ pc[q] \in {"check", "call", "fetch", "listed"}

(* Every request is answered, unless the leader of its key panicked, or it *)
(* is, or waits for, a leader whose upstream never finishes its answer.    *)
Stalled(r, q) ==
    /\ pc[q] = "fetch"
    /\ \/ q = r
       \/ pc[r] = "wait" /\ flights[key[r]] = q

RequestsAnswered ==
    \A r \in Requests :
        \/ []<>(\/ pc[r] = "idle"
                \/ pc[r] = "wait" /\ flights[key[r]] = Dead)
        \/ \E q \in Requests : <>[]Stalled(r, q)

(***************************************************************************)
(* The inductive invariant: who leads is registered and the other way      *)
(* round, cached and fetched lists are for the key they are kept under,    *)
(* and a key is of the region of its account.                              *)
(***************************************************************************)
LeadersRegistered ==
    /\ \A r \in Requests : Leading(r) => key[r] # None /\ flights[key[r]] = r
    /\ \A k \in Keys : flights[k] \in Requests =>
           Leading(flights[k]) /\ key[flights[k]] = k

KeysOfRegion ==
    \A r \in Requests :
        /\ pc[r] \notin {"idle", "site", "return"} => key[r] # None
        /\ key[r] # None => SiteOf[key[r].id] = key[r].site

ListsOfKey ==
    /\ cache.key # None => cache.list # None /\ cache.list.key = cache.key
    /\ cache.live => cache.key # None
    /\ \A r \in Requests :
           /\ pc[r] \in {"fetch", "listed", "answered"} =>
                  list[r] # None /\ list[r].key = key[r]
           /\ pc[r] = "return" =>
                  /\ list[r] # None
                  /\ list[r].source # "no_credentials" =>
                         key[r] # None /\ list[r].key = key[r]

FreshFetch ==
    \A r \in Requests :
        fresh[r] /\ pc[r] \in {"fetch", "listed", "answered"} => r \in list[r].asked

ListInv ==
    /\ TypeOK /\ LeadersRegistered /\ KeysOfRegion /\ ListsOfKey
    /\ WaitersHaveLeader /\ FreshFetch
    /\ WellFormed(store) /\ \A r \in Requests : WellFormed(read[r])
    /\ \A r \in Requests : fresh[r] => pc[r] # "check"
=============================================================================
