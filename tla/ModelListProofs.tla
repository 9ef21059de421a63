-------------------------- MODULE ModelListProofs --------------------------
(***************************************************************************)
(* Proofs about ModelList: its inductive invariant ListInv, and with it    *)
(* that concurrent requests share one fetch, that an answer is for the key *)
(* that was asked for, and that a fresh leader has fetched.                *)
(***************************************************************************)
EXTENDS ModelList, PoolStoreProofs

(* The steps that one request makes, with what they leave alone.           *)
USE DEF Goto

(* What the requests to models.List and the invalidations do not touch.    *)
Stores == WellFormed(store) /\ \A r \in Requests : WellFormed(read[r])

(* Where the requests are, and who leads. *)
NoFreshCheck == \A r \in Requests : fresh[r] => pc[r] # "check"

Control ==
    /\ LeadersRegistered /\ KeysOfRegion /\ WaitersHaveLeader /\ NoFreshCheck

Data == ListsOfKey /\ FreshFetch

(* The steps of a request, one by one. *)
Step(r) ==
    \/ \E f \in BOOLEAN : Begin(r, f)
    \/ Serve(r) \/ Panic(r)

Admin ==
    \/ \E w \in Sites : SwitchSite(w)
    \/ \E id \in Creds : Toggle(id) \/ Remove(id)
    \/ InvalidateModelsCache \/ Expire

LEMMA InvParts == ListInv <=> TypeOK /\ Control /\ Data /\ Stores
BY DEF ListInv, Control, Data, Stores, NoFreshCheck

LEMMA NextParts == Next <=> (\E r \in Requests : Step(r)) \/ Admin
BY DEF Next, Step, Admin

(* Values that are told apart. *)
LEMMA Distinct ==
    /\ None \notin Requests /\ Dead \notin Requests /\ None # Dead
    /\ None \notin Keys /\ None \notin ModelLists
BY ListAssumption

-----------------------------------------------------------------------------
(* The primary account of a well-formed copy of the pool.                  *)

LEMMA PrimaryKey ==
    ASSUME NEW s \in Store, WellFormed(s), NEW w \in Sites, HasPrimary(s, w)
    PROVE  /\ [site |-> w, id |-> s.accounts[Primary(s, w)].id] \in Keys
           /\ SiteOf[s.accounts[Primary(s, w)].id] = w
<1> DEFINE enabled == {i \in 1..Len(s.accounts) : s.accounts[i].enabled}
<1>1. s.accounts \in Seq(Account) /\ Len(s.accounts) \in Nat /\ Len(s.accounts) # 0
  BY DEF Store, HasPrimary
<1>2. Usable(s, w) \subseteq Nat /\ Usable(s, w) \subseteq 1..Len(s.accounts)
  BY <1>1 DEF Usable
<1>3. enabled \subseteq Nat /\ enabled \subseteq 1..Len(s.accounts)
  BY <1>1
<1>4. Primary(s, w) \in 1..Len(s.accounts)
  <2>1. CASE Usable(s, w) # {}
    BY <2>1, <1>2, FirstIsLeast DEF Primary
  <2>2. CASE Usable(s, w) = {} /\ enabled # {}
    BY <2>2, <1>3, FirstIsLeast DEF Primary
  <2>3. CASE Usable(s, w) = {} /\ enabled = {}
    BY <2>3, <1>1 DEF Primary
  <2> QED
    BY <2>1, <2>2, <2>3
<1>5. /\ s.accounts[Primary(s, w)] \in Account
      /\ SameOwner(s.accounts[Primary(s, w)].id, s.accounts[Primary(s, w)].cred)
  BY <1>4, CopyOfAccount
<1>6. SiteOf[s.accounts[Primary(s, w)].cred] = w
  BY DEF HasPrimary
<1> QED
  BY <1>5, <1>6 DEF Keys, Account, SameOwner

-----------------------------------------------------------------------------
(* Types.                                                                  *)

LEMMA EmptyStoreTypes == EmptyStore \in Store /\ WellFormed(EmptyStore)
BY DEF EmptyStore, Store, WellFormed, AccountsOK, UniqueIds, OneAccountPerOwner,
       OwnerIsFixed, CursorInRange

LEMMA ForgetTypes ==
    ASSUME NEW l \in ModelLists \cup {None}, NEW r \in Requests
    PROVE  Forget(l, r) \in ModelLists \cup {None}
BY Zenon DEF Forget, ModelLists

LEMMA OutcomeTypes ==
    ASSUME NEW w \in Sites, NEW o \in Outcomes(w), NEW l \in ModelLists
    PROVE  [l EXCEPT !.source = o.source, !.hosts = o.hosts] \in ModelLists
<1>1. o.source \in {"v3_config", "upstream", "site_catalog"}
  BY DEF Outcomes
<1>2. o.hosts \subseteq Hosts
  BY DEF Outcomes, CandidateHosts, FirstHost, Hosts
<1> QED
  BY <1>1, <1>2 DEF ModelLists
LEMMA NoCredentialsIsList == NoCredentials \in ModelLists
BY DEF NoCredentials, ModelLists, Hosts

LEMMA BeginTypes ==
    ASSUME TypeOK, NEW r \in Requests, NEW f \in BOOLEAN, Begin(r, f)
    PROVE  TypeOK'
<1>1. \A q \in Requests : Forget(list[q], r) \in ModelLists \cup {None}
  BY ForgetTypes DEF TypeOK
<1>2. list' \in [Requests -> ModelLists \cup {None}]
  BY <1>1 DEF Begin
<1>3. cache.list \in ModelLists \cup {None}
  BY DEF TypeOK
<1>4. Forget(cache.list, r) \in ModelLists \cup {None}
  BY <1>3, ForgetTypes
<1>5. cache' \in [key : Keys \cup {None}, list : ModelLists \cup {None}, live : BOOLEAN]
  BY <1>4 DEF Begin, TypeOK
<1>6. /\ pc' = [pc EXCEPT ![r] = "site"] /\ fresh' = [fresh EXCEPT ![r] = f]
      /\ read' = [read EXCEPT ![r] = store]
      /\ UNCHANGED <<flights, key, store, site, admin, changes, panics>>
  BY DEF Begin, adminVars
<1> QED
  BY <1>2, <1>5, <1>6 DEF TypeOK

LEMMA KeyedTypes ==
    ASSUME TypeOK, Stores, NEW r \in Requests, Keyed(r)
    PROVE  /\ TypeOK'
           /\ key'[r] \in Keys /\ SiteOf[key'[r].id] = key'[r].site
<1> DEFINE k == [site |-> site, id |-> read[r].accounts[Primary(read[r], site)].id]
<1>1. k \in Keys /\ SiteOf[k.id] = k.site
  <2>1. read[r] \in Store /\ WellFormed(read[r]) /\ site \in Sites
    BY DEF TypeOK, Stores
  <2>2. HasPrimary(read[r], site)
    BY DEF Keyed
  <2> QED
    BY <2>1, <2>2, PrimaryKey
<1>2. key' = [key EXCEPT ![r] = k]
  BY DEF Keyed
<1> HIDE DEF k
<1>3. EmptyStore \in Store
  BY EmptyStoreTypes
<1>4. key' \in [Requests -> Keys \cup {None}] /\ key'[r] = k
  BY <1>1, <1>2 DEF TypeOK
<1>5. /\ pc' = [pc EXCEPT ![r] = IF fresh[r] THEN "join" ELSE "cache"]
      /\ read' = [read EXCEPT ![r] = EmptyStore]
      /\ UNCHANGED <<cache, flights, fresh, list, store, site, admin, changes, panics>>
  BY DEF Keyed, adminVars
<1> QED
  BY <1>1, <1>3, <1>4, <1>5 DEF TypeOK

LEMMA FetchTypes ==
    ASSUME TypeOK, Control, Data, NEW r \in Requests, Fetch(r) \/ Fetched(r)
    PROVE  TypeOK'
<1>1. CASE Fetch(r)
  <2>1. key[r] \in Keys \cup {None}
    BY DEF TypeOK
  <2>2. list'[r] \in ModelLists
    BY <1>1, <2>1 DEF Fetch, TypeOK, ModelLists, Hosts
  <2> QED
    BY <1>1, <2>2 DEF Fetch, TypeOK, adminVars
<1>2. CASE Fetched(r)
  <2>1. pc[r] = "fetch" /\ list[r] \in ModelLists /\ key[r] \in Keys
    BY <1>2 DEF Fetched, TypeOK, Data, ListsOfKey, Control, KeysOfRegion
  <2>2. PICK o \in Outcomes(key[r].site) :
           LET l == [list[r] EXCEPT !.source = o.source, !.hosts = o.hosts]
           IN  /\ list' = [list EXCEPT ![r] = l]
               /\ cache' = [key |-> key[r], list |-> l, live |-> TRUE]
    BY <1>2 DEF Fetched
  <2> DEFINE l == [list[r] EXCEPT !.source = o.source, !.hosts = o.hosts]
  <2>3. key[r].site \in Sites
    BY <2>1 DEF Keys
  <2>4. l \in ModelLists
    BY <2>1, <2>3, OutcomeTypes
  <2>5. list' = [list EXCEPT ![r] = l] /\ cache' = [key |-> key[r], list |-> l, live |-> TRUE]
    BY <2>2
  <2> HIDE DEF l
  <2> QED
    BY <1>2, <2>1, <2>4, <2>5 DEF Fetched, TypeOK, adminVars
<1> QED
  BY <1>1, <1>2

LEMMA AnswerTypes ==
    ASSUME TypeOK, NEW r \in Requests, Answer(r)
    PROVE  TypeOK'
<1>1. pc' \in [Requests -> {"idle", "site", "cache", "join", "wait", "check",
                             "call", "fetch", "listed", "answered", "return"}]
  BY DEF TypeOK, Answer
<1>2. list' \in [Requests -> ModelLists \cup {None}]
  BY DEF TypeOK, Answer
<1> QED
  BY <1>1, <1>2 DEF TypeOK, Answer, adminVars

LEMMA SimpleTypes ==
    ASSUME TypeOK, NEW r \in Requests,
           Unlisted(r) \/ CacheHit(r) \/ CacheMiss(r) \/ JoinAnswered(r) \/ Join(r)
           \/ Lead(r) \/ LeadHit(r) \/ LeadMiss(r) \/ Unregister(r) \/ Return(r) \/ Panic(r)
    PROVE  TypeOK'
<1>1. CASE Unlisted(r)
  BY <1>1, NoCredentialsIsList, EmptyStoreTypes DEF Unlisted, TypeOK, adminVars, requestVars
<1>2. CASE CacheHit(r)
  BY <1>2 DEF CacheHit, TypeOK, adminVars, requestVars
<1>3. CASE CacheMiss(r)
  BY <1>3 DEF CacheMiss, TypeOK, adminVars, requestVars
<1>4. CASE JoinAnswered(r)
  BY <1>4 DEF JoinAnswered, TypeOK, adminVars, requestVars
<1>5. CASE Join(r)
  BY <1>5 DEF Join, TypeOK, adminVars, requestVars
<1>6. CASE Lead(r)
  BY <1>6 DEF Lead, TypeOK, adminVars, requestVars
<1>7. CASE LeadHit(r)
  BY <1>7 DEF LeadHit, TypeOK, adminVars, requestVars
<1>8. CASE LeadMiss(r)
  BY <1>8 DEF LeadMiss, TypeOK, adminVars, requestVars
<1>9. CASE Unregister(r)
  BY <1>9 DEF Unregister, TypeOK, adminVars, requestVars
<1>10. CASE Return(r)
  BY <1>10 DEF Return, TypeOK, adminVars, requestVars
<1>11. CASE Panic(r)
  <2>1. panics \in Nat /\ panics + 1 \in 0..MaxPanics
    BY <1>11, ListAssumption DEF Panic, TypeOK
  <2> QED
    BY <1>11, <2>1 DEF Panic, TypeOK, adminVars
<1> QED
  BY <1>1, <1>2, <1>3, <1>4, <1>5, <1>6, <1>7, <1>8, <1>9, <1>10, <1>11

LEMMA AdminTypes ==
    ASSUME TypeOK, Stores, Admin
    PROVE  TypeOK'
<1> USE DEF requestVars
<1>1. ASSUME NEW w \in Sites, SwitchSite(w) PROVE TypeOK'
  BY <1>1, ListAssumption DEF SwitchSite, TypeOK
<1>2. ASSUME NEW id \in Creds, Toggle(id) PROVE TypeOK'
  <2>1. AccountAt(store, id).enabled \in BOOLEAN
    BY <1>2, PositionOfId DEF Toggle, TypeOK, Account
  <2>2. store' \in Store
    BY <1>2, <2>1, SetEnabledWellFormed DEF Toggle, TypeOK, Stores
  <2> QED
    BY <1>2, <2>2, ListAssumption DEF Toggle, TypeOK
<1>3. ASSUME NEW id \in Creds, Remove(id) PROVE TypeOK'
  <2>1. store' \in Store
    BY <1>3, DeleteWellFormed DEF Remove, TypeOK, Stores
  <2> QED
    BY <1>3, <2>1, ListAssumption DEF Remove, TypeOK
<1>4. CASE InvalidateModelsCache
  BY <1>4 DEF InvalidateModelsCache, TypeOK, NoCache
<1>5. CASE Expire
  BY <1>5 DEF Expire, TypeOK, adminVars
<1> QED
  BY <1>1, <1>2, <1>3, <1>4, <1>5 DEF Admin

LEMMA TypesStep ==
    ASSUME TypeOK, Control, Data, Stores, Next
    PROVE  TypeOK'
<1>1. ASSUME NEW r \in Requests, Step(r) PROVE TypeOK'
  <2>1. ASSUME NEW f \in BOOLEAN, Begin(r, f) PROVE TypeOK'
    BY <2>1, BeginTypes
  <2>2. CASE Panic(r)
    BY <2>2, SimpleTypes
  <2>3. CASE Serve(r)
    BY <2>3, KeyedTypes, FetchTypes, AnswerTypes, SimpleTypes DEF Serve, Proceed
  <2> QED
    BY <1>1, <2>1, <2>2, <2>3 DEF Step
<1> QED
  BY <1>1, AdminTypes, NextParts
-----------------------------------------------------------------------------
(* Who leads, and who waits for whom.                                      *)

LEMMA ControlStep ==
    ASSUME TypeOK, Control, Stores, NEW r \in Requests, Step(r)
    PROVE  Control'
<1> USE Distinct DEF Control, LeadersRegistered, KeysOfRegion, WaitersHaveLeader,
        NoFreshCheck, Leading
<1>1. ASSUME NEW f \in BOOLEAN, Begin(r, f) PROVE Control'
  BY <1>1 DEF Begin, TypeOK, requestVars
<1>2. CASE Unlisted(r)
  BY <1>2 DEF Unlisted, TypeOK, requestVars
<1>3. CASE Keyed(r)
  <2> DEFINE k == [site |-> site, id |-> read[r].accounts[Primary(read[r], site)].id]
  <2>1. /\ key' = [key EXCEPT ![r] = k]
        /\ pc[r] = "site" /\ pc' = [pc EXCEPT ![r] = IF fresh[r] THEN "join" ELSE "cache"]
        /\ UNCHANGED <<flights, fresh>>
    BY <1>3 DEF Keyed
  <2> HIDE DEF k
  <2>2. key'[r] = k
    BY <2>1 DEF TypeOK
  <2>3. k \in Keys /\ SiteOf[k.id] = k.site
    BY <1>3, <2>2, KeyedTypes
  <2> QED
    BY <2>1, <2>2, <2>3 DEF TypeOK
<1>4. CASE CacheHit(r)
  BY <1>4 DEF CacheHit, TypeOK, requestVars
<1>5. CASE CacheMiss(r)
  BY <1>5 DEF CacheMiss, TypeOK, requestVars
<1>6. CASE JoinAnswered(r)
  BY <1>6 DEF JoinAnswered, TypeOK, requestVars
<1>7. CASE Join(r)
  BY <1>7 DEF Join, TypeOK, requestVars
<1>8. CASE Lead(r)
  BY <1>8 DEF Lead, TypeOK, requestVars
<1>9. CASE LeadHit(r)
  BY <1>9 DEF LeadHit, TypeOK, requestVars
<1>10. CASE LeadMiss(r)
  BY <1>10 DEF LeadMiss, TypeOK, requestVars
<1>11. CASE Fetch(r)
  BY <1>11 DEF Fetch, TypeOK, requestVars
<1>12. CASE Fetched(r)
  BY <1>12 DEF Fetched, TypeOK, requestVars
<1>13. CASE Answer(r)
  BY <1>13 DEF Answer, TypeOK, requestVars, Waiting
<1>14. CASE Unregister(r)
  BY <1>14 DEF Unregister, TypeOK, requestVars
<1>15. CASE Panic(r)
  BY <1>15 DEF Panic, TypeOK, requestVars
<1>16. CASE Return(r)
  BY <1>16 DEF Return, TypeOK, requestVars
<1> QED
  BY <1>1, <1>2, <1>3, <1>4, <1>5, <1>6, <1>7, <1>8, <1>9, <1>10, <1>11, <1>12, <1>13, <1>14, <1>15, <1>16 DEF Step, Serve, Proceed
LEMMA AdminControl ==
    ASSUME TypeOK, Control, Admin
    PROVE  Control'
<1>1. UNCHANGED <<pc, key, fresh, flights>>
  BY DEF Admin, SwitchSite, Toggle, Remove, InvalidateModelsCache, Expire, requestVars
<1> QED
  BY <1>1 DEF Control, LeadersRegistered, KeysOfRegion, WaitersHaveLeader,
              NoFreshCheck, Leading

-----------------------------------------------------------------------------
(* What the lists are for.                                                 *)

LEMMA BeginData ==
    ASSUME TypeOK, Control, Data, NEW r \in Requests, NEW f \in BOOLEAN, Begin(r, f)
    PROVE  Data'
<1>1. ASSUME NEW l \in ModelLists
      PROVE  /\ Forget(l, r) # None
             /\ Forget(l, r).key = l.key /\ Forget(l, r).source = l.source
             /\ Forget(l, r).asked = l.asked \ {r}
  <2>1. Forget(l, r) = [l EXCEPT !.asked = l.asked \ {r}]
    BY Distinct DEF Forget
  <2>2. Forget(l, r) \in ModelLists
    BY <2>1, Zenon DEF ModelLists
  <2> QED
    BY <2>1, <2>2, Distinct DEF ModelLists
<1>2. Forget(None, r) = None
  BY DEF Forget
<1>3. /\ pc[r] = "idle" /\ pc' = [pc EXCEPT ![r] = "site"]
      /\ fresh' = [fresh EXCEPT ![r] = f]
      /\ cache'.key = cache.key /\ cache'.live = cache.live
      /\ cache'.list = Forget(cache.list, r)
      /\ \A q \in Requests : list'[q] = Forget(list[q], r)
      /\ key' = key
  BY DEF Begin, TypeOK
<1>4. cache.list \in ModelLists \cup {None}
      /\ \A q \in Requests : list[q] \in ModelLists \cup {None}
  BY DEF TypeOK
<1>5. ListsOfKey'
  BY <1>1, <1>2, <1>3, <1>4 DEF Data, ListsOfKey, TypeOK
<1>6. FreshFetch'
  BY <1>1, <1>2, <1>3, <1>4 DEF Data, ListsOfKey, FreshFetch, TypeOK
<1> QED
  BY <1>5, <1>6 DEF Data

LEMMA FetchedData ==
    ASSUME TypeOK, Control, Data, NEW r \in Requests, Fetched(r)
    PROVE  Data'
<1>1. pc[r] = "fetch" /\ list[r] \in ModelLists /\ list[r].key = key[r]
      /\ (fresh[r] => r \in list[r].asked)
  BY DEF Fetched, TypeOK, Data, ListsOfKey, FreshFetch
<1>2. PICK o \in Outcomes(key[r].site) :
         LET l == [list[r] EXCEPT !.source = o.source, !.hosts = o.hosts]
         IN  /\ list' = [list EXCEPT ![r] = l]
             /\ cache' = [key |-> key[r], list |-> l, live |-> TRUE]
  BY DEF Fetched
<1> DEFINE l == [list[r] EXCEPT !.source = o.source, !.hosts = o.hosts]
<1>3. key[r] \in Keys
  BY <1>1 DEF Control, KeysOfRegion, TypeOK
<1>4. key[r].site \in Sites
  BY <1>3 DEF Keys
<1>5. l \in ModelLists
  BY <1>1, <1>4, OutcomeTypes
<1>6. l.key = list[r].key /\ l.asked = list[r].asked
  BY <1>1, Zenon DEF ModelLists
<1>7. /\ list' = [list EXCEPT ![r] = l] /\ pc' = [pc EXCEPT ![r] = "listed"]
      /\ cache'.key = key[r] /\ cache'.list = l /\ cache'.live = TRUE
      /\ UNCHANGED <<fresh, key>>
  BY <1>2 DEF Fetched
<1> HIDE DEF l
<1>8. list'[r] = l
  BY <1>7 DEF TypeOK
<1>9. ListsOfKey'
  BY <1>1, <1>3, <1>5, <1>6, <1>7, <1>8, Distinct DEF Data, ListsOfKey, TypeOK
<1>10. FreshFetch'
  BY <1>1, <1>6, <1>7, <1>8 DEF Data, FreshFetch, TypeOK
<1> QED
  BY <1>9, <1>10 DEF Data

LEMMA DataStep ==
    ASSUME TypeOK, Control, Data, Stores, NEW r \in Requests, Step(r)
    PROVE  Data'
<1> USE Distinct DEF Data, ListsOfKey, FreshFetch
<1>1. CASE Unlisted(r)
  <2>1. NoCredentials # None /\ NoCredentials.source = "no_credentials"
    BY NoCredentialsIsList DEF NoCredentials
  <2> QED
    BY <1>1, <2>1 DEF Unlisted, TypeOK
<1>2. CASE Keyed(r)
  BY <1>2 DEF Keyed, TypeOK, requestVars
<1>3. CASE CacheHit(r)
  BY <1>3 DEF CacheHit, TypeOK, Control, LeadersRegistered, KeysOfRegion, WaitersHaveLeader, NoFreshCheck, Leading, requestVars, Hit
<1>4. CASE CacheMiss(r)
  BY <1>4 DEF CacheMiss, TypeOK, requestVars
<1>5. CASE JoinAnswered(r)
  BY <1>5 DEF JoinAnswered, TypeOK, Control, LeadersRegistered, KeysOfRegion, WaitersHaveLeader, NoFreshCheck, Leading, requestVars
<1>6. CASE Join(r)
  BY <1>6 DEF Join, TypeOK, requestVars
<1>7. CASE Lead(r)
  BY <1>7 DEF Lead, TypeOK, Control, LeadersRegistered, KeysOfRegion, WaitersHaveLeader, NoFreshCheck, Leading, requestVars
<1>8. CASE LeadHit(r)
  BY <1>8 DEF LeadHit, TypeOK, Control, LeadersRegistered, KeysOfRegion, WaitersHaveLeader, NoFreshCheck, Leading, requestVars, Hit
<1>9. CASE LeadMiss(r)
  BY <1>9 DEF LeadMiss, TypeOK, Control, LeadersRegistered, KeysOfRegion, WaitersHaveLeader, NoFreshCheck, Leading, requestVars
<1>10. CASE Fetch(r)
  <2>1. key[r] \in Keys /\ pc[r] = "call"
    BY <1>10 DEF Fetch, TypeOK, Control, KeysOfRegion
  <2> DEFINE l == [key |-> key[r], source |-> "site_catalog", hosts |-> {},
                   asked |-> {q \in Requests : pc[q] # "idle"}]
  <2>2. l \in ModelLists
    BY <2>1 DEF ModelLists, Hosts
  <2>3. l.key = key[r] /\ r \in l.asked
    BY <2>1
  <2>4. /\ list' = [list EXCEPT ![r] = l] /\ pc' = [pc EXCEPT ![r] = "fetch"]
        /\ UNCHANGED <<cache, fresh, key>>
    BY <1>10 DEF Fetch
  <2> HIDE DEF l
  <2> QED
    BY <2>2, <2>3, <2>4 DEF TypeOK
<1>11. CASE Answer(r)
  BY <1>11 DEF Answer, TypeOK, Control, LeadersRegistered, KeysOfRegion, WaitersHaveLeader, NoFreshCheck, Leading, requestVars, Waiting
<1>12. CASE Unregister(r)
  BY <1>12 DEF Unregister, TypeOK, Control, LeadersRegistered, KeysOfRegion, WaitersHaveLeader, NoFreshCheck, Leading, requestVars
<1>13. CASE Panic(r)
  BY <1>13 DEF Panic, TypeOK, Control, LeadersRegistered, KeysOfRegion, WaitersHaveLeader, NoFreshCheck, Leading, requestVars
<1>14. CASE Return(r)
  BY <1>14 DEF Return, TypeOK, requestVars
<1>15. CASE Fetched(r)
  BY <1>15, FetchedData
<1>16. ASSUME NEW f \in BOOLEAN, Begin(r, f) PROVE Data'
  BY <1>16, BeginData
<1> QED
  BY <1>1, <1>2, <1>3, <1>4, <1>5, <1>6, <1>7, <1>8, <1>9, <1>10, <1>11, <1>12, <1>13, <1>14, <1>15, <1>16 DEF Step, Serve, Proceed

LEMMA AdminData ==
    ASSUME TypeOK, Data, Admin
    PROVE  Data'
<1>1. UNCHANGED <<pc, key, list, fresh>>
  BY DEF Admin, SwitchSite, Toggle, Remove, InvalidateModelsCache, Expire, requestVars
<1>2. \/ cache' = cache
      \/ cache' = NoCache
      \/ cache' = [cache EXCEPT !.live = FALSE]
  BY DEF Admin, SwitchSite, Toggle, Remove, InvalidateModelsCache, Expire
<1> QED
  BY <1>1, <1>2 DEF Data, ListsOfKey, FreshFetch, NoCache, TypeOK

-----------------------------------------------------------------------------
(* The stores, and the invariant.                                          *)

LEMMA StoresStep ==
    ASSUME TypeOK, Stores, Next
    PROVE  Stores'
<1>1. ASSUME NEW r \in Requests, Step(r) PROVE Stores'
  <2>1. store' = store
    BY <1>1 DEF Step, Serve, Proceed, Begin, Unlisted, Keyed, CacheHit, CacheMiss, JoinAnswered,
                Join, Lead, LeadHit, LeadMiss, Fetch, Fetched, Answer, Unregister,
                Panic, Return, adminVars
  <2>2. \A q \in Requests : read'[q] \in {read[q], store, EmptyStore}
    BY <1>1 DEF Step, Serve, Proceed, Begin, Unlisted, Keyed, CacheHit, CacheMiss, JoinAnswered,
                Join, Lead, LeadHit, LeadMiss, Fetch, Fetched, Answer, Unregister,
                Panic, Return, requestVars, TypeOK
  <2> QED
    BY <2>1, <2>2, EmptyStoreTypes DEF Stores
<1>2. CASE Admin
  <2>1. UNCHANGED read
    BY <1>2 DEF Admin, SwitchSite, Toggle, Remove, InvalidateModelsCache, Expire,
                requestVars
  <2>2. WellFormed(store')
    <3>1. ASSUME NEW id \in Creds, Toggle(id) PROVE WellFormed(store')
      <4>1. AccountAt(store, id).enabled \in BOOLEAN
        BY <3>1, PositionOfId DEF Toggle, TypeOK, Account
      <4> QED
        BY <3>1, <4>1, SetEnabledWellFormed DEF Toggle, TypeOK, Stores
    <3>2. ASSUME NEW id \in Creds, Remove(id) PROVE WellFormed(store')
      BY <3>2, DeleteWellFormed DEF Remove, TypeOK, Stores
    <3>3. \/ \E id \in Creds : Toggle(id) \/ Remove(id)
          \/ store' = store
      BY <1>2 DEF Admin, SwitchSite, InvalidateModelsCache, Expire, adminVars
    <3> QED
      BY <3>1, <3>2, <3>3 DEF Stores
  <2> QED
    BY <2>1, <2>2 DEF Stores
<1> QED
  BY <1>1, <1>2, NextParts

LEMMA InvInit == Init => ListInv
<1> SUFFICES ASSUME Init PROVE ListInv
  OBVIOUS
<1>1. TypeOK
  BY ListAssumption, EmptyStoreTypes DEF Init, TypeOK, NoCache
<1>2. Control
  BY Distinct DEF Init, Control, LeadersRegistered, KeysOfRegion, WaitersHaveLeader,
                  NoFreshCheck, Leading
<1>3. Data
  BY DEF Init, Data, ListsOfKey, FreshFetch, NoCache
<1>4. Stores
  BY ListAssumption, EmptyStoreTypes DEF Init, Stores
<1> QED
  BY <1>1, <1>2, <1>3, <1>4, InvParts

LEMMA InvStep == ListInv /\ [Next]_vars => ListInv'
<1> SUFFICES ASSUME ListInv, [Next]_vars PROVE ListInv'
  OBVIOUS
<1>1. TypeOK /\ Control /\ Data /\ Stores
  BY InvParts
<1>2. CASE UNCHANGED vars
  BY <1>1, <1>2, InvParts
     DEF vars, ListInv, TypeOK, LeadersRegistered, KeysOfRegion, ListsOfKey,
         WaitersHaveLeader, FreshFetch, Leading
<1>3. CASE Next
  <2>1. TypeOK'
    BY <1>1, <1>3, TypesStep
  <2>2. Stores'
    BY <1>1, <1>3, StoresStep
  <2>3. Control' /\ Data'
    BY <1>1, <1>3, NextParts, ControlStep, AdminControl, DataStep, AdminData
  <2> QED
    BY <2>1, <2>2, <2>3 DEF ListInv, Control, Data, Stores, NoFreshCheck
<1> QED
  BY <1>2, <1>3

(***************************************************************************)
(* Whatever requests, switches of the region, changes of the pool and      *)
(* panics interleave: who leads a flight is registered, who waits waits    *)
(* for a leader at work, every list is kept under the key it was fetched   *)
(* for.                                                                    *)
(***************************************************************************)
THEOREM ListInvariant == Spec => []ListInv
BY InvInit, InvStep, PTL DEF Spec

(* Two requests never ask the upstream for the same list at a time.        *)
THEOREM FetchesAreShared == Spec => []OneFetchPerKey
<1>1. ListInv => OneFetchPerKey
  BY DEF ListInv, LeadersRegistered, Leading, OneFetchPerKey
<1> QED
  BY <1>1, ListInvariant, PTL

(* No answer is for another account or region than the request chose.      *)
THEOREM AnswersAreForKey == Spec => []AnswerIsForKey
<1>1. ListInv => AnswerIsForKey
  BY DEF ListInv, ListsOfKey, KeysOfRegion, AnswerIsForKey
<1> QED
  BY <1>1, ListInvariant, PTL

(* A request for a fresh list that leads its flight has fetched it itself. *)
THEOREM FreshLeadersFetch == Spec => []FreshLeaderFetches
<1>1. ListInv => FreshLeaderFetches
  BY DEF ListInv, FreshFetch, FreshLeaderFetches
<1> QED
  BY <1>1, ListInvariant, PTL
=============================================================================
