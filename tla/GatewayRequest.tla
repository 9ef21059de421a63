--------------------------- MODULE GatewayRequest ---------------------------
(***************************************************************************)
(* Requests that are served from the account pool: CompleteFromPool of     *)
(* gateway.Service with its refresh of tokens, retries and cooldowns, the  *)
(* refresh-token handler, and an administrator who changes the pool and    *)
(* the active region meanwhile.                                            *)
(*                                                                         *)
(* A request keeps a copy of the account it selected while it asks the     *)
(* upstream, without a lock.  An action is one critical section of the     *)
(* pool together with the upstream's answer before it, which is local to   *)
(* the request.  The pool is its memory here: AccountPool has the files.   *)
(***************************************************************************)
EXTENDS PoolStore, FiniteSets

CONSTANTS
    Requests,       \* goroutines, each serves one HTTP request
    None,           \* no account
    Refreshable,    \* the credentials that come with a refresh token
    InitialStore,   \* what the process read from accounts.json
    InitialSite,    \* the region that was configured
    Errors,         \* the classes of upstream errors that are tried
    MaxDepth,       \* maxCompleteRetryDepth
    MaxChanges      \* bound: changes by the administrator and the clock

(***************************************************************************)
(* Classes of errors, by the patterns the code searches the text for:      *)
(* "rate" is 429, "gateway" 502 to 504, "invalid" an invalid request or    *)
(* site mismatch, "policy" the codes 11140, 11128, 11101, 11102, "auth"    *)
(* 401, 403, or a text that names a token or login.  A text of one of the  *)
(* first three that also names a token is a class of its own.              *)
(***************************************************************************)
AllErrors == {"rate", "rateAuth", "gateway", "gatewayAuth", "invalid", "invalidAuth",
              "policy", "auth", "other"}

ASSUME NoneAssumption == None \notin Creds \cup Sites \cup Account
ASSUME RefreshableAssumption == Refreshable \subseteq Creds
ASSUME SiteAssumption == InitialSite \in Sites
ASSUME ErrorsAssumption == Errors \subseteq AllErrors
ASSUME StoreAssumption == InitialStore \in Store /\ WellFormed(InitialStore)
ASSUME RequestBounds == MaxDepth \in Nat /\ MaxChanges \in Nat

VARIABLES
    store,      \* Pool.mem
    site,       \* the active region in Service.cfg
    now,        \* the clock, in units of 30 seconds
    changes,    \* how often the administrator or the clock changed something
    pc,         \* where each request is
    opts,       \* CompleteOptions: pinned account, excluded ones, flags
    sel,        \* the copy of the selected account
    under,      \* the region that the selection is made for
    err,        \* the last upstream error of the request
    reply,      \* how the request ended
    tried,      \* the calls to the upstream: account and credential
    marks       \* the accounts that the request marked, in order

world   == <<store, site, now, changes>>
request == <<pc, opts, sel, under, err, reply, tried, marks>>
vars    == <<world, request>>

Options == [pinned : Creds \cup {None}, exclude : SUBSET Creds,
            forced : BOOLEAN, depth : Nat]

(* The options of the handlers: no account is named. *)
Fresh == [pinned |-> None, exclude |-> {}, forced |-> FALSE, depth |-> 0]

Attempt == [id : Creds, cred : Creds, under : Sites, forced : BOOLEAN]

Steps == {"idle", "select", "pick", "refresh", "call", "forcing", "giveUp", "reissue",
          "done"}

Replies == AllErrors \cup {"none", "ok", "canceled", "noAccounts", "tooDeep",
                           "refused"}

TypeOK ==
    /\ store \in Store
    /\ site \in Sites
    /\ now \in Nat
    /\ changes \in Nat
    /\ pc \in [Requests -> Steps]
    /\ opts \in [Requests -> Options]
    /\ sel \in [Requests -> Account \cup {None}]
    /\ under \in [Requests -> Sites \cup {None}]
    /\ err \in [Requests -> AllErrors \cup {"none"}]
    /\ reply \in [Requests -> Replies]
    /\ tried \in [Requests -> Seq(Attempt)]
    /\ marks \in [Requests -> Seq(Creds)]

Init ==
    /\ store = InitialStore
    /\ site = InitialSite
    /\ now = 0
    /\ changes = 0
    /\ pc = [r \in Requests |-> "idle"]
    /\ opts = [r \in Requests |-> Fresh]
    /\ sel = [r \in Requests |-> None]
    /\ under = [r \in Requests |-> None]
    /\ err = [r \in Requests |-> "none"]
    /\ reply = [r \in Requests |-> "none"]
    /\ tried = [r \in Requests |-> << >>]
    /\ marks = [r \in Requests |-> << >>]

Goto(r, step) == pc' = [pc EXCEPT ![r] = step]

(* The request is answered and its local variables are gone. *)
Return(r, answer) ==
    /\ Goto(r, "done")
    /\ reply' = [reply EXCEPT ![r] = answer]
    /\ opts' = [opts EXCEPT ![r] = Fresh]
    /\ sel' = [sel EXCEPT ![r] = None]
    /\ under' = [under EXCEPT ![r] = None]
    /\ err' = [err EXCEPT ![r] = "none"]

(* CompleteFromPool calls itself with other options. *)
Again(r, options) ==
    /\ Goto(r, "select")
    /\ opts' = [opts EXCEPT ![r] = options]
    /\ sel' = [sel EXCEPT ![r] = None]
    /\ under' = [under EXCEPT ![r] = None]

-----------------------------------------------------------------------------
(* What the text of an error decides.                                      *)

(* reAuthFailure matches. *)
NamesAuth(e) == e \in {"auth", "rateAuth", "gatewayAuth", "invalidAuth"}

(* reRetryNextAccount matches. *)
NamesTransient(e) ==
    e \in {"rate", "rateAuth", "gateway", "gatewayAuth", "invalid", "invalidAuth"}

(* failureCooldown: 5 minutes, 2 minutes, 30 seconds or none. *)
FailureCooldown(e) ==
    CASE e = "policy"                      -> 10
      [] e \in {"rate", "rateAuth"}        -> 4
      [] e \in {"gateway", "gatewayAuth"}  -> 1
      [] OTHER                             -> 0

(* shouldRefreshAfterFailure. *)
RefreshHelps(r, e) == sel[r].cred \in Refreshable /\ NamesAuth(e)

(* shouldRetryNextAccount. *)
NextAccountHelps(r, e) ==
    /\ opts[r].pinned = None
    /\ sel[r].id \notin opts[r].exclude
    /\ ~RefreshHelps(r, e)
    /\ NamesTransient(e)

-----------------------------------------------------------------------------
(* Selection.                                                              *)

Begin(r) ==
    /\ pc[r] = "idle"
    /\ Goto(r, "select")
    /\ UNCHANGED <<world, opts, sel, under, err, reply, tried, marks>>

(* The depth is checked before anything else. *)
TooDeep(r) ==
    /\ pc[r] = "select"
    /\ opts[r].depth >= MaxDepth
    /\ Return(r, "tooDeep")
    /\ UNCHANGED <<world, tried, marks>>

(* The active region is read before the pool is locked. *)
ReadSite(r) ==
    /\ pc[r] = "select"
    /\ opts[r].depth < MaxDepth
    /\ under' = [under EXCEPT ![r] = site]
    /\ Goto(r, "pick")
    /\ UNCHANGED <<world, opts, sel, err, reply, tried, marks>>

Selected(r, i) ==
    /\ sel' = [sel EXCEPT ![r] = store.accounts[i]]
    /\ Goto(r, "refresh")

SelectNext(r) ==
    /\ pc[r] = "pick"
    /\ opts[r].pinned = None
    /\ Eligible(store, under[r], opts[r].exclude) # {}
    /\ LET i == Chosen(store, under[r], opts[r].exclude, now)
       IN  Selected(r, i) /\ store' = AfterSelect(store, i)
    /\ UNCHANGED <<site, now, changes, opts, under, err, reply, tried, marks>>

(* Faulty variants: the exhausted pool hides the upstream's error; a       *)
(* pinned account is taken whatever region is active.                      *)
NoAccountsHiding(r) ==
    /\ pc[r] = "pick"
    /\ opts[r].pinned = None
    /\ Eligible(store, under[r], opts[r].exclude) = {}
    /\ Return(r, "noAccounts")
    /\ UNCHANGED <<world, tried, marks>>

SelectPinnedAnywhere(r) ==
    /\ pc[r] = "pick"
    /\ opts[r].pinned # None
    /\ Has(store, opts[r].pinned)
    /\ AccountAt(store, opts[r].pinned).enabled
    /\ Selected(r, Position(store, opts[r].pinned))
    /\ UNCHANGED <<world, opts, under, err, reply, tried, marks>>

(* ErrNoAccounts: an earlier upstream error of this request is answered    *)
(* instead, if there was one.                                              *)
NoAccounts(r) ==
    /\ pc[r] = "pick"
    /\ opts[r].pinned = None
    /\ Eligible(store, under[r], opts[r].exclude) = {}
    /\ Return(r, IF err[r] = "none" THEN "noAccounts" ELSE err[r])
    /\ UNCHANGED <<world, tried, marks>>

(* A pinned account must exist, be enabled and be of the active region. *)
PinnedUsable(r) ==
    /\ Has(store, opts[r].pinned)
    /\ AccountAt(store, opts[r].pinned).enabled
    /\ SiteOf[AccountAt(store, opts[r].pinned).cred] = under[r]

SelectPinned(r) ==
    /\ pc[r] = "pick"
    /\ opts[r].pinned # None
    /\ PinnedUsable(r)
    /\ Selected(r, Position(store, opts[r].pinned))
    /\ UNCHANGED <<world, opts, under, err, reply, tried, marks>>

PinnedGone(r) ==
    /\ pc[r] = "pick"
    /\ opts[r].pinned # None
    /\ ~PinnedUsable(r)
    /\ Return(r, "refused")
    /\ UNCHANGED <<world, tried, marks>>

-----------------------------------------------------------------------------
(* refreshSelected before the call.                                        *)

(* The upstream is asked with an account. *)
Call(r, a) ==
    /\ sel' = [sel EXCEPT ![r] = a]
    /\ tried' = [tried EXCEPT ![r] =
                    Append(@, [id |-> a.id, cred |-> a.cred, under |-> under[r],
                               forced |-> opts[r].forced])]
    /\ Goto(r, "call")

(* The token does not expire soon, or it could not be refreshed but has    *)
(* not expired yet.                                                        *)
RefreshSkipped(r) ==
    /\ pc[r] = "refresh"
    /\ Call(r, sel[r])
    /\ UNCHANGED <<world, opts, under, err, reply, marks>>

(* The credentials a refresh of account a may yield: the new refresh token *)
(* is the old one when the upstream gives none.                            *)
Reissued(a) == {c \in Refreshable : a.cred \in Refreshable /\ SameOwner(c, a.cred)}

RefreshSaved(r) ==
    /\ pc[r] = "refresh"
    /\ Has(store, sel[r].id)
    /\ \E c \in Reissued(sel[r]) :
        /\ store' = ReplaceAccount(store, Refreshed(sel[r], c))
        /\ Call(r, Refreshed(sel[r], c))
    /\ UNCHANGED <<site, now, changes, opts, under, err, reply, marks>>

(* ReplaceAccount changes memory, and may then fail to write the file;     *)
(* without the account it fails and changes nothing.                       *)
StoreMaybeReplaced(a) ==
    \/ UNCHANGED store
    \/ /\ Has(store, a.id)
       /\ \E c \in Reissued(a) : store' = ReplaceAccount(store, Refreshed(a, c))

(* Faulty variant: another account is selected, without counting that.     *)
RefreshFailedSelecting(r) ==
    /\ pc[r] = "refresh"
    /\ sel[r].cred \in Refreshable
    /\ StoreMaybeReplaced(sel[r])
    /\ Again(r, opts[r])
    /\ UNCHANGED <<site, now, changes, err, reply, tried, marks>>

(* Its error, or that of an expired token that cannot be refreshed, ends   *)
(* the request without a mark.                                             *)
RefreshFailed(r) ==
    /\ pc[r] = "refresh"
    /\ sel[r].cred \in Refreshable
    /\ StoreMaybeReplaced(sel[r])
    /\ Return(r, "refused")
    /\ UNCHANGED <<site, now, changes, tried, marks>>

-----------------------------------------------------------------------------
(* The upstream's answer.                                                  *)

(* MarkResult does nothing when the account has gone. *)
Mark(r, ok, cooldown) ==
    /\ store' = IF Has(store, sel[r].id)
                THEN MarkResult(store, sel[r].id, ok, now, cooldown)
                ELSE store
    /\ marks' = [marks EXCEPT ![r] = Append(@, sel[r].id)]

Succeeded(r) ==
    /\ pc[r] = "call"
    /\ Mark(r, TRUE, 0)
    /\ Return(r, "ok")
    /\ UNCHANGED <<site, now, changes, tried>>

(* The client went away: neither the account nor the upstream is blamed. *)
Canceled(r) ==
    /\ pc[r] = "call"
    /\ Return(r, "canceled")
    /\ UNCHANGED <<world, tried, marks>>

(* Faulty variant: the account that failed is not excluded. *)
FailOverKeeping(r, e) ==
    /\ pc[r] = "call"
    /\ NextAccountHelps(r, e)
    /\ Mark(r, FALSE, FailureCooldown(e))
    /\ Again(r, [pinned |-> None, exclude |-> opts[r].exclude,
                 forced |-> opts[r].forced, depth |-> opts[r].depth + 1])
    /\ err' = [err EXCEPT ![r] = e]
    /\ UNCHANGED <<site, now, changes, reply, tried>>

(* The next account is tried. *)
FailOver(r, e) ==
    /\ pc[r] = "call"
    /\ NextAccountHelps(r, e)
    /\ Mark(r, FALSE, FailureCooldown(e))
    /\ Again(r, [pinned |-> None, exclude |-> opts[r].exclude \cup {sel[r].id},
                 forced |-> opts[r].forced, depth |-> opts[r].depth + 1])
    /\ err' = [err EXCEPT ![r] = e]
    /\ UNCHANGED <<site, now, changes, reply, tried>>

(* The token may be stale: it is refreshed, once for a request. *)
ForceRefresh(r, e) ==
    /\ pc[r] = "call"
    /\ ~NextAccountHelps(r, e)
    /\ ~opts[r].forced
    /\ RefreshHelps(r, e)
    /\ err' = [err EXCEPT ![r] = e]
    /\ Goto(r, "forcing")
    /\ UNCHANGED <<world, opts, sel, under, reply, tried, marks>>

(* Faulty variants: the retry is not remembered; the failure is marked     *)
(* although the account is tried again.                                    *)
RetryForgotten(r) ==
    /\ pc[r] = "forcing"
    /\ Has(store, sel[r].id)
    /\ \E c \in Reissued(sel[r]) :
        /\ c # sel[r].cred
        /\ store' = ReplaceAccount(store, Refreshed(sel[r], c))
    /\ Again(r, [pinned |-> sel[r].id, exclude |-> opts[r].exclude,
                 forced |-> FALSE, depth |-> opts[r].depth])
    /\ UNCHANGED <<site, now, changes, err, reply, tried, marks>>

RetryMarked(r) ==
    /\ pc[r] = "forcing"
    /\ Has(store, sel[r].id)
    /\ \E c \in Reissued(sel[r]) :
        /\ c # sel[r].cred
        /\ store' = ReplaceAccount(store, Refreshed(sel[r], c))
    /\ marks' = [marks EXCEPT ![r] = Append(@, sel[r].id)]
    /\ Again(r, [pinned |-> sel[r].id, exclude |-> opts[r].exclude,
                 forced |-> TRUE, depth |-> opts[r].depth + 1])
    /\ UNCHANGED <<site, now, changes, err, reply, tried>>

(* With a new token the same account is tried again, pinned. *)
RetryRefreshed(r) ==
    /\ pc[r] = "forcing"
    /\ Has(store, sel[r].id)
    /\ \E c \in Reissued(sel[r]) :
        /\ c # sel[r].cred
        /\ store' = ReplaceAccount(store, Refreshed(sel[r], c))
    /\ Again(r, [pinned |-> sel[r].id, exclude |-> opts[r].exclude,
                 forced |-> TRUE, depth |-> opts[r].depth + 1])
    /\ UNCHANGED <<site, now, changes, err, reply, tried, marks>>

(* The refresh failed, could not be saved, or gave the same token. *)
RefreshUseless(r) ==
    /\ pc[r] = "forcing"
    /\ StoreMaybeReplaced(sel[r])
    /\ Goto(r, "giveUp")
    /\ UNCHANGED <<site, now, changes, opts, sel, under, err, reply, tried, marks>>

GiveUp(r) ==
    /\ pc[r] = "giveUp"
    /\ Mark(r, FALSE, FailureCooldown(err[r]))
    /\ Return(r, err[r])
    /\ UNCHANGED <<site, now, changes, tried>>

(* Neither another account nor a refresh would help. *)
Failed(r, e) ==
    /\ pc[r] = "call"
    /\ ~NextAccountHelps(r, e)
    /\ opts[r].forced \/ ~RefreshHelps(r, e)
    /\ Mark(r, FALSE, FailureCooldown(e))
    /\ Return(r, e)
    /\ UNCHANGED <<site, now, changes, tried>>

-----------------------------------------------------------------------------
(* The administrator.                                                      *)

(* The refresh-token handler: it reads the account, asks the upstream and  *)
(* saves what it gets.                                                     *)
BeginReissue(r, id) ==
    /\ pc[r] = "idle"
    /\ Has(store, id)
    /\ sel' = [sel EXCEPT ![r] = AccountAt(store, id)]
    /\ Goto(r, "reissue")
    /\ UNCHANGED <<world, opts, under, err, reply, tried, marks>>

Reissue(r) ==
    /\ pc[r] = "reissue"
    /\ Has(store, sel[r].id)
    /\ \E c \in Reissued(sel[r]) :
        store' = ReplaceAccount(store, Refreshed(sel[r], c))
    /\ Return(r, "ok")
    /\ UNCHANGED <<site, now, changes, tried, marks>>

ReissueFails(r) ==
    /\ pc[r] = "reissue"
    /\ StoreMaybeReplaced(sel[r])
    /\ Return(r, "refused")
    /\ UNCHANGED <<site, now, changes, tried, marks>>

(* Calls that change nothing do not count. *)
Counted ==
    /\ changes < MaxChanges
    /\ changes' = IF store' = store /\ site' = site THEN changes ELSE changes + 1
    /\ UNCHANGED <<now, request>>

Login(c) == store' = Upsert(store, c) /\ UNCHANGED site /\ Counted

Remove(id) ==
    Has(store, id) /\ store' = Delete(store, id) /\ UNCHANGED site /\ Counted

Toggle(id, enabled) ==
    /\ Has(store, id)
    /\ store' = SetEnabled(store, id, enabled)
    /\ UNCHANGED site
    /\ Counted

SetPoolSite(s) == site' = s /\ UNCHANGED store /\ Counted

Tick ==
    /\ changes < MaxChanges
    /\ changes' = changes + 1
    /\ now' = now + 1
    /\ UNCHANGED <<store, site, request>>

-----------------------------------------------------------------------------
Choose(r) ==
    \/ TooDeep(r) \/ ReadSite(r) \/ SelectNext(r) \/ NoAccounts(r)
    \/ SelectPinned(r) \/ PinnedGone(r)

Refresh(r) ==
    \/ RefreshSkipped(r) \/ RefreshSaved(r) \/ RefreshFailed(r)
    \/ RetryRefreshed(r) \/ RefreshUseless(r)
    \/ Reissue(r) \/ ReissueFails(r)

Answer(r) ==
    \/ Succeeded(r) \/ Canceled(r)
    \/ \E e \in Errors : FailOver(r, e) \/ ForceRefresh(r, e) \/ Failed(r, e)

Serve(r) == Choose(r) \/ GiveUp(r) \/ Refresh(r) \/ Answer(r)

Arrive(r) == Begin(r) \/ \E id \in Creds : BeginReissue(r, id)

Administrate ==
    \/ \E c \in Creds :
        Login(c) \/ Remove(c) \/ \E enabled \in BOOLEAN : Toggle(c, enabled)
    \/ \E s \in Sites : SetPoolSite(s)

Next == (\E r \in Requests : Arrive(r) \/ Serve(r)) \/ Administrate \/ Tick

Spec == Init /\ [][Next]_vars

(* A request goes on by itself between its calls of the upstream.  Nothing *)
(* is said of these: the client has no timeout but that of the response    *)
(* header, and a body may stay unfinished for ever                         *)
(* (provider/client.go:30-53).                                             *)
FairSpec == Spec /\ \A r \in Requests : WF_vars(Choose(r) \/ GiveUp(r))

-----------------------------------------------------------------------------
(* Correctness.                                                            *)

(***************************************************************************)
(* Every call to the upstream uses an account of the region that was       *)
(* active when it was read for the selection, also a retry that is pinned  *)
(* to the account while the administrator switches the region, and an      *)
(* account that was refreshed from a copy (service.go:260-264).            *)
(***************************************************************************)
AttemptsInRegion ==
    \A r \in Requests : \A k \in 1..Len(tried[r]) :
        SiteOf[tried[r][k].cred] = tried[r][k].under

(***************************************************************************)
(* Failover visits no account twice, whatever the administrator does to    *)
(* the pool meanwhile.  Only the last attempt may repeat the account of    *)
(* the one before it: the retry after a refresh.                           *)
(***************************************************************************)
NoRepeats ==
    \A r \in Requests : \A j, k \in 1..Len(tried[r]) :
        j < k /\ tried[r][j].id = tried[r][k].id =>
            j = k - 1 /\ k = Len(tried[r]) /\ tried[r][k].forced

(***************************************************************************)
(* Failover and the refresh retry share one budget of MaxDepth calls       *)
(* (service.go:256).                                                       *)
(***************************************************************************)
AttemptsBounded == \A r \in Requests : Len(tried[r]) <= MaxDepth

(***************************************************************************)
(* "No accounts" is never the answer to a request that did reach the       *)
(* upstream: the upstream's own error is (service.go:293).                 *)
(***************************************************************************)
ErrorNotHidden ==
    \A r \in Requests : reply[r] = "noAccounts" => tried[r] = << >>

Ids(q) == {q[k].id : k \in 1..Len(q)}

Marked(r) == {marks[r][k] : k \in 1..Len(marks[r])}

(***************************************************************************)
(* The accounting of the pool: a request that ends with an answer or with  *)
(* an upstream error has marked each account it tried exactly once, the    *)
(* one that was refreshed and tried again too.                             *)
(***************************************************************************)
MarkedOnce ==
    \A r \in Requests :
        /\ \A j, k \in 1..Len(marks[r]) : marks[r][j] = marks[r][k] => j = k
        /\ reply[r] \in AllErrors \cup {"ok"} => Marked(r) = Ids(tried[r])

(***************************************************************************)
(* Every request that arrives is answered, whatever errors, refreshes and  *)
(* changes of the pool follow each other: none is in service for ever,     *)
(* unless it ends up in one call of the upstream that never returns.       *)
(***************************************************************************)
Calls == {"refresh", "call", "forcing", "reissue"}

RequestReturns ==
    \A r \in Requests :
        \/ []<>(pc[r] \in {"idle", "done"})
        \/ \E step \in Calls : <>[](pc[r] = step)

-----------------------------------------------------------------------------
(* The inductive invariant behind the safety properties.                   *)

(* A request that has an account, and one that has sent it to the upstream. *)
Active == {"refresh", "call", "forcing", "giveUp"}
Asked  == {"call", "forcing", "giveUp"}

(* A copy is of an account that keeps its owner, hence its region. *)
HoldsAccount(r) ==
    /\ pc[r] \in Active \cup {"reissue"} =>
           sel[r] \in Account /\ SameOwner(sel[r].id, sel[r].cred)
    /\ pc[r] \in Active => SiteOf[sel[r].cred] = under[r]
    /\ pc[r] \in Active \cup {"pick"} => under[r] \in Sites

(* A request that has not begun to select has done nothing. *)
Untouched(r) ==
    /\ pc[r] \in {"idle", "reissue"} =>
           opts[r] = Fresh /\ tried[r] = << >> /\ marks[r] = << >>
    /\ pc[r] # "done" => reply[r] = "none"

(* The depth counts the calls. *)
Budget(r) ==
    /\ opts[r].depth <= MaxDepth
    /\ pc[r] \in Active \cup {"pick"} => opts[r].depth < MaxDepth
    /\ pc[r] \in {"select", "pick", "refresh"} => Len(tried[r]) = opts[r].depth
    /\ pc[r] \in Asked => Len(tried[r]) = opts[r].depth + 1

(* A request that selects again knows why. *)
ErrorKept(r) ==
    /\ pc[r] \in {"select", "pick"} /\ tried[r] # << >> => err[r] # "none"
    /\ pc[r] \in {"forcing", "giveUp"} => err[r] # "none"

(* Excluded are the accounts that failed and were marked; all that was     *)
(* tried is excluded or is the account of now.                             *)
Excluded(r) ==
    /\ opts[r].forced <=> opts[r].pinned # None
    /\ pc[r] \in {"select", "pick", "refresh"} =>
           /\ opts[r].pinned = None => Ids(tried[r]) = opts[r].exclude
           /\ opts[r].pinned # None =>
                  /\ Ids(tried[r]) = opts[r].exclude \cup {opts[r].pinned}
                  /\ opts[r].pinned \notin opts[r].exclude
                  /\ Len(tried[r]) > 0
                  /\ tried[r][Len(tried[r])].id = opts[r].pinned
           /\ \A k \in 1..Len(tried[r]) : ~tried[r][k].forced
    /\ pc[r] \in Active =>
           /\ sel[r].id \notin opts[r].exclude
           /\ opts[r].pinned # None => sel[r].id = opts[r].pinned
    /\ pc[r] \in Asked =>
           /\ Ids(tried[r]) = opts[r].exclude \cup {sel[r].id}
           /\ tried[r][Len(tried[r])].id = sel[r].id
           /\ ~opts[r].forced => \A k \in 1..Len(tried[r]) : ~tried[r][k].forced
    /\ pc[r] \in {"forcing", "giveUp"} => ~opts[r].forced
    /\ pc[r] \in Active \cup {"select", "pick"} => Marked(r) = opts[r].exclude

RequestInv ==
    /\ TypeOK /\ WellFormed(store)
    /\ AttemptsInRegion /\ NoRepeats /\ AttemptsBounded /\ ErrorNotHidden /\ MarkedOnce
    /\ \A r \in Requests :
        HoldsAccount(r) /\ Untouched(r) /\ Budget(r) /\ ErrorKept(r) /\ Excluded(r)

-----------------------------------------------------------------------------
(* What the documentation says and the code does not do.                   *)

(***************************************************************************)
(* docs/operations/runbook.md:67: a failure cools an account down, a       *)
(* success clears it.  An account that is cooling keeps its cooldown until *)
(* a request succeeds with it, unless the administrator is refreshing.     *)
(***************************************************************************)
CooldownKept ==
    [][\A id \in Creds :
        /\ Has(store, id) /\ Has(store', id)
        /\ InCooldown(AccountAt(store, id), now)
        /\ AccountAt(store', id).cooldownUntil = 0
        /\ \A r \in Requests : pc[r] # "reissue"
        => AccountAt(store', id).success > AccountAt(store, id).success]_vars
=============================================================================
