------------------------ MODULE GatewayRequestProofs ------------------------
(***************************************************************************)
(* The theorems about GatewayRequest, for any number of requests, accounts *)
(* and regions, any retry budget and any administrator.  The invariant is  *)
(* split by request.  A step changes the pool and one request; that the    *)
(* pool stays well formed is what PoolStoreProofs says of its operations,  *)
(* and a request's own part does not mention the pool, so that the other   *)
(* requests keep theirs.                                                   *)
(***************************************************************************)
EXTENDS GatewayRequest, PoolStoreProofs

(* The safety properties, of one request. *)
Outcome(r) ==
    /\ \A k \in 1..Len(tried[r]) : SiteOf[tried[r][k].cred] = tried[r][k].under
    /\ \A j, k \in 1..Len(tried[r]) :
        j < k /\ tried[r][j].id = tried[r][k].id =>
            j = k - 1 /\ k = Len(tried[r]) /\ tried[r][k].forced
    /\ Len(tried[r]) <= MaxDepth
    /\ reply[r] = "noAccounts" => tried[r] = << >>
    /\ \A j, k \in 1..Len(marks[r]) : marks[r][j] = marks[r][k] => j = k
    /\ reply[r] \in AllErrors \cup {"ok"} => Marked(r) = Ids(tried[r])

OneRequest(r) ==
    HoldsAccount(r) /\ Untouched(r) /\ Budget(r) /\ ErrorKept(r) /\ Excluded(r) /\ Outcome(r)

PoolOK == store \in Store /\ WellFormed(store)

LEMMA Split ==
    RequestInv <=> TypeOK /\ PoolOK /\ \A r \in Requests : OneRequest(r)
<1>1. RequestInv => TypeOK /\ PoolOK /\ \A r \in Requests : OneRequest(r)
  BY Zenon DEF RequestInv, PoolOK, TypeOK, OneRequest, Outcome, AttemptsInRegion,
               NoRepeats, AttemptsBounded, ErrorNotHidden, MarkedOnce
<1>2. TypeOK /\ PoolOK /\ (\A r \in Requests : OneRequest(r)) => RequestInv
  BY Zenon DEF RequestInv, PoolOK, TypeOK, OneRequest, Outcome, AttemptsInRegion,
               NoRepeats, AttemptsBounded, ErrorNotHidden, MarkedOnce
<1>3. QED
  BY <1>1, <1>2

(* The local variables of a request do not change. *)
Same(q) ==
    /\ pc'[q] = pc[q] /\ opts'[q] = opts[q] /\ sel'[q] = sel[q]
    /\ under'[q] = under[q] /\ err'[q] = err[q] /\ reply'[q] = reply[q]
    /\ tried'[q] = tried[q] /\ marks'[q] = marks[q]

LEMMA OthersKeep ==
    ASSUME NEW q \in Requests, OneRequest(q), Same(q)
    PROVE  OneRequest(q)'
<1>1. HoldsAccount(q)' /\ Untouched(q)' /\ Budget(q)' /\ ErrorKept(q)'
  BY Zenon DEF OneRequest, Same, HoldsAccount, Untouched, Budget, ErrorKept
<1>2. Marked(q)' = Marked(q)
  BY Zenon DEF Same, Marked
<1>3. Excluded(q)'
  BY <1>2, Zenon DEF OneRequest, Same, Excluded
<1>4. Outcome(q)'
  BY <1>2, Zenon DEF OneRequest, Same, Outcome
<1>5. QED
  BY <1>1, <1>3, <1>4 DEF OneRequest

(* What is left to show of a step of request r. *)
Moves(r) ==
    /\ TypeOK' /\ PoolOK' /\ OneRequest(r)'
    /\ \A q \in Requests : q # r => Same(q)

LEMMA MovesKeepInv ==
    ASSUME RequestInv, NEW r \in Requests, Moves(r)
    PROVE  RequestInv'
<1>1. ASSUME NEW q \in Requests
      PROVE  OneRequest(q)'
  <2>1. CASE q = r
    BY <2>1 DEF Moves
  <2>2. CASE q # r
    BY <2>2, Split, OthersKeep DEF Moves
  <2>3. QED
    BY <2>1, <2>2
<1>2. TypeOK' /\ PoolOK'
  BY DEF Moves
<1>3. QED
  BY <1>1, <1>2, Zenon DEF RequestInv, PoolOK, OneRequest, Outcome,
     AttemptsInRegion, NoRepeats, AttemptsBounded, ErrorNotHidden, MarkedOnce

-----------------------------------------------------------------------------
(* The pool stays well formed under what requests do to it.                *)

(* What the upstream reissues belongs to the same owner. *)
LEMMA ReissuedOwner ==
    ASSUME NEW a \in Account, SameOwner(a.id, a.cred), NEW c \in Reissued(a)
    PROVE  /\ c \in Creds /\ SiteOf[c] = SiteOf[a.cred]
           /\ Refreshed(a, c) \in Account /\ Refreshed(a, c).id = a.id
           /\ Refreshed(a, c).cred = c /\ SameOwner(a.id, c)
<1>1. c \in Refreshable /\ SameOwner(c, a.cred)
  BY DEF Reissued
<1>2. c \in Creds
  BY <1>1, RefreshableAssumption
<1>3. SameOwner(a.id, c) /\ SiteOf[c] = SiteOf[a.cred]
  BY <1>1 DEF SameOwner
<1>4. QED
  BY <1>2, <1>3, RefreshedAccount

LEMMA ReplacedPool ==
    ASSUME PoolOK, NEW a \in Account, SameOwner(a.id, a.cred), Has(store, a.id),
           NEW c \in Reissued(a), store' = ReplaceAccount(store, Refreshed(a, c))
    PROVE  PoolOK'
<1> DEFINE b == Refreshed(a, c)
<1>1. b \in Account /\ b.id = a.id /\ SameOwner(b.id, b.cred)
  BY ReissuedOwner
<1> HIDE DEF b
<1>2. ReplaceAccount(store, b) \in Store /\ WellFormed(ReplaceAccount(store, b))
  BY <1>1, ReplaceWellFormed DEF PoolOK
<1>3. QED
  BY <1>2 DEF b, PoolOK

LEMMA MaybeReplacedPool ==
    ASSUME PoolOK, NEW a \in Account, SameOwner(a.id, a.cred), StoreMaybeReplaced(a)
    PROVE  PoolOK'
<1>1. CASE UNCHANGED store
  BY <1>1 DEF PoolOK
<1>2. CASE Has(store, a.id) /\ \E c \in Reissued(a) :
             store' = ReplaceAccount(store, Refreshed(a, c))
  BY <1>2, ReplacedPool
<1>3. QED
  BY <1>1, <1>2 DEF StoreMaybeReplaced

(* The marks of a request that has asked with the account it holds. *)
LEMMA MarkKeeps ==
    ASSUME RequestInv, NEW r \in Requests, pc[r] \in Asked,
           NEW ok \in BOOLEAN, NEW cooldown \in Nat, Mark(r, ok, cooldown)
    PROVE  /\ PoolOK' /\ marks' \in [Requests -> Seq(Creds)]
           /\ \A q \in Requests : q # r => marks'[q] = marks[q]
           /\ Marked(r)' = opts[r].exclude \cup {sel[r].id}
           /\ \A j, k \in 1..Len(marks'[r]) : marks'[r][j] = marks'[r][k] => j = k
<1>1. TypeOK /\ PoolOK /\ OneRequest(r)
  BY Split
<1>2. sel[r] \in Account /\ sel[r].id \in Creds
  BY <1>1 DEF OneRequest, HoldsAccount, Asked, Active, Account
<1>3. PoolOK'
  <2>1. CASE Has(store, sel[r].id)
    BY <1>1, <2>1, MarkResultWellFormed DEF Mark, PoolOK, TypeOK
  <2>2. CASE ~Has(store, sel[r].id)
    BY <1>1, <2>2 DEF Mark, PoolOK
  <2>3. QED
    BY <2>1, <2>2
<1>4. marks[r] \in Seq(Creds) /\ marks'[r] = Append(marks[r], sel[r].id)
  BY <1>1 DEF TypeOK, Mark
<1>5. marks' \in [Requests -> Seq(Creds)] /\ \A q \in Requests : q # r => marks'[q] = marks[q]
  BY <1>1, <1>2 DEF TypeOK, Mark
<1>6. Marked(r) = opts[r].exclude /\ sel[r].id \notin Marked(r)
  BY <1>1 DEF OneRequest, Excluded, Asked, Active
<1>7. /\ Len(marks'[r]) = Len(marks[r]) + 1 /\ Len(marks[r]) \in Nat
      /\ marks'[r][Len(marks[r]) + 1] = sel[r].id
      /\ \A k \in 1..Len(marks[r]) : marks'[r][k] = marks[r][k]
  BY <1>2, <1>4
<1>8. Marked(r)' = Marked(r) \cup {sel[r].id}
  BY <1>7 DEF Marked
<1>9. ASSUME NEW j \in 1..Len(marks'[r]), NEW k \in 1..Len(marks'[r]),
             marks'[r][j] = marks'[r][k]
      PROVE  j = k
  <2>1. \A i \in 1..Len(marks[r]) : marks'[r][i] # sel[r].id
    BY <1>6, <1>7 DEF Marked
  <2>2. CASE j \in 1..Len(marks[r]) /\ k \in 1..Len(marks[r])
    BY <1>1, <1>7, <1>9, <2>2 DEF OneRequest, Outcome
  <2>3. QED
    BY <1>7, <1>9, <2>1, <2>2
<1>10. QED
  BY <1>3, <1>5, <1>6, <1>8, <1>9

LEMMA CooldownIsNat == \A e : FailureCooldown(e) \in Nat
BY DEF FailureCooldown

-----------------------------------------------------------------------------
(* Requests that are answered.                                             *)

Rest == <<site, now, changes>>

LEMMA FreshOptions ==
    /\ Fresh \in Options /\ ~Fresh.forced /\ Fresh.pinned = None /\ Fresh.depth = 0
    /\ Fresh.exclude = {}
BY DEF Fresh, Options

(* Of a request that has returned only the outcome is left. *)
LEMMA ReturnMoves ==
    ASSUME RequestInv, NEW r \in Requests, NEW answer \in Replies,
           Return(r, answer), PoolOK', UNCHANGED Rest, Outcome(r)',
           marks' \in [Requests -> Seq(Creds)], UNCHANGED tried,
           \A q \in Requests : q # r => marks'[q] = marks[q]
    PROVE  Moves(r)
<1>1. TypeOK
  BY Split
<1>2. "done" \in Steps
  BY DEF Steps
<1>3. TypeOK'
  BY <1>1, <1>2, FreshOptions DEF TypeOK, PoolOK, Rest, Return, Goto
<1>4. pc'[r] = "done" /\ opts'[r] = Fresh
  BY <1>1 DEF TypeOK, Return, Goto
<1>5. HoldsAccount(r)' /\ Untouched(r)' /\ ErrorKept(r)'
  BY <1>4 DEF HoldsAccount, Untouched, ErrorKept, Active
<1>6. Budget(r)'
  BY <1>4, FreshOptions, RequestBounds DEF Budget, Active, Asked
<1>7. Excluded(r)'
  BY <1>4, FreshOptions DEF Excluded, Active, Asked
<1>8. \A q \in Requests : q # r => Same(q)
  BY <1>1 DEF TypeOK, Return, Goto, Same
<1>9. QED
  BY <1>3, <1>5, <1>6, <1>7, <1>8 DEF Moves, OneRequest

(* What has to be shown of an answer. *)
LEMMA OutcomeOf ==
    ASSUME NEW r \in Requests, Outcome(r), tried'[r] = tried[r],
           reply'[r] = "noAccounts" => tried[r] = << >>,
           \A j, k \in 1..Len(marks'[r]) : marks'[r][j] = marks'[r][k] => j = k,
           reply'[r] \in AllErrors \cup {"ok"} => Marked(r)' = Ids(tried[r])
    PROVE  Outcome(r)'
BY Zenon DEF Outcome

LEMMA OutcomeKept ==
    ASSUME NEW r \in Requests, Outcome(r), tried'[r] = tried[r],
           reply'[r] = reply[r], marks'[r] = marks[r]
    PROVE  Outcome(r)'
<1>1. Marked(r)' = Marked(r)
  BY Zenon DEF Marked
<1>2. QED
  BY <1>1, Zenon DEF Outcome

(* An answer that is no outcome of the upstream, and changes no mark. *)
LEMMA PlainReturn ==
    ASSUME RequestInv, NEW r \in Requests, NEW answer \in {"tooDeep", "refused", "canceled"},
           Return(r, answer), PoolOK', UNCHANGED <<Rest, tried, marks>>
    PROVE  Moves(r)
<1>1. TypeOK /\ OneRequest(r)
  BY Split
<1>2. reply'[r] = answer /\ answer \in Replies /\ answer \notin AllErrors \cup {"ok"}
  BY <1>1 DEF TypeOK, Return, AllErrors, Replies
<1>3. answer # "noAccounts"
  OBVIOUS
<1>4. Outcome(r)'
  <2>1. Outcome(r)
    BY <1>1 DEF OneRequest
  <2>2. tried'[r] = tried[r] /\ marks'[r] = marks[r]
    OBVIOUS
  <2>3. \A j, k \in 1..Len(marks[r]) : marks[r][j] = marks[r][k] => j = k
    BY <2>1 DEF Outcome
  <2>4. QED
    BY <1>2, <1>3, <2>1, <2>2, <2>3, OutcomeOf
<1>5. QED
  BY <1>1, <1>2, <1>4, ReturnMoves DEF TypeOK

LEMMA RefusedMoves ==
    ASSUME RequestInv, NEW r \in Requests,
           \/ TooDeep(r) \/ PinnedGone(r) \/ Canceled(r) \/ RefreshFailed(r)
           \/ ReissueFails(r)
    PROVE  Moves(r)
<1>1. PoolOK /\ OneRequest(r)
  BY Split
<1>2. CASE TooDeep(r)
  BY <1>1, <1>2, PlainReturn DEF TooDeep, world, PoolOK, Rest
<1>3. CASE PinnedGone(r)
  BY <1>1, <1>3, PlainReturn DEF PinnedGone, world, PoolOK, Rest
<1>4. CASE Canceled(r)
  BY <1>1, <1>4, PlainReturn DEF Canceled, world, PoolOK, Rest
<1>5. CASE RefreshFailed(r)
  <2>1. sel[r] \in Account /\ SameOwner(sel[r].id, sel[r].cred)
    BY <1>1, <1>5 DEF RefreshFailed, OneRequest, HoldsAccount, Active
  <2>2. PoolOK'
    BY <1>1, <1>5, <2>1, MaybeReplacedPool DEF RefreshFailed
  <2>3. QED
    BY <1>5, <2>2, PlainReturn DEF RefreshFailed, Rest
<1>6. CASE ReissueFails(r)
  <2>1. sel[r] \in Account /\ SameOwner(sel[r].id, sel[r].cred)
    BY <1>1, <1>6 DEF ReissueFails, OneRequest, HoldsAccount, Active
  <2>2. PoolOK'
    BY <1>1, <1>6, <2>1, MaybeReplacedPool DEF ReissueFails
  <2>3. QED
    BY <1>6, <2>2, PlainReturn DEF ReissueFails, Rest
<1>7. QED
  BY <1>2, <1>3, <1>4, <1>5, <1>6

(* Without an account the answer is the error of the last one, if any. *)
LEMMA NoAccountsMoves ==
    ASSUME RequestInv, NEW r \in Requests, NoAccounts(r)
    PROVE  Moves(r)
<1> DEFINE answer == IF err[r] = "none" THEN "noAccounts" ELSE err[r]
<1>1. TypeOK /\ PoolOK /\ OneRequest(r)
  BY Split
<1>2. pc[r] = "pick" /\ opts[r].pinned = None /\ Return(r, answer)
      /\ UNCHANGED <<world, tried, marks>>
  BY DEF NoAccounts
<1>3. err[r] \in AllErrors \cup {"none"}
  BY <1>1 DEF TypeOK
<1>4. answer \in Replies /\ reply'[r] = answer
  BY <1>1, <1>2, <1>3 DEF Replies, AllErrors, TypeOK, Return
<1>5. answer = "noAccounts" => tried[r] = << >>
  BY <1>1, <1>2, <1>3 DEF OneRequest, ErrorKept, AllErrors
<1>6. Marked(r) = Ids(tried[r])
  BY <1>1, <1>2 DEF OneRequest, Excluded, Active
<1>7. Marked(r)' = Ids(tried[r])'
  BY <1>2, <1>6 DEF Marked, Ids
<1> HIDE DEF answer
<1>8. Outcome(r)'
  BY <1>1, <1>2, <1>4, <1>5, <1>7 DEF OneRequest, Outcome
<1>9. PoolOK' /\ UNCHANGED Rest
  BY <1>1, <1>2 DEF world, PoolOK, Rest
<1>10. QED
  BY <1>1, <1>2, <1>4, <1>8, <1>9, ReturnMoves DEF TypeOK

(* The upstream's answer ends the request: the account is marked. *)
LEMMA MarkedReturn ==
    ASSUME RequestInv, NEW r \in Requests, pc[r] \in Asked,
           NEW ok \in BOOLEAN, NEW cooldown \in Nat, Mark(r, ok, cooldown),
           NEW answer \in AllErrors \cup {"ok"}, Return(r, answer),
           UNCHANGED <<Rest, tried>>
    PROVE  Moves(r)
<1>1. TypeOK /\ OneRequest(r)
  BY Split
<1>2. /\ PoolOK' /\ marks' \in [Requests -> Seq(Creds)]
      /\ \A q \in Requests : q # r => marks'[q] = marks[q]
      /\ Marked(r)' = opts[r].exclude \cup {sel[r].id}
      /\ \A j, k \in 1..Len(marks'[r]) : marks'[r][j] = marks'[r][k] => j = k
  BY MarkKeeps
<1>3. Ids(tried[r]) = opts[r].exclude \cup {sel[r].id}
  BY <1>1 DEF OneRequest, Excluded
<1>4. answer \in Replies /\ reply'[r] = answer /\ answer # "noAccounts"
  BY <1>1 DEF TypeOK, Return, AllErrors, Replies
<1>5. Outcome(r) /\ tried'[r] = tried[r]
  BY <1>1 DEF OneRequest
<1>6. Outcome(r)'
  BY <1>2, <1>3, <1>4, <1>5, OutcomeOf
<1>7. QED
  BY <1>2, <1>4, <1>6, ReturnMoves

LEMMA AnsweredMoves ==
    ASSUME RequestInv, NEW r \in Requests,
           Succeeded(r) \/ GiveUp(r) \/ \E e \in Errors : Failed(r, e)
    PROVE  Moves(r)
<1>1. TypeOK /\ OneRequest(r)
  BY Split
<1>2. CASE Succeeded(r)
  BY <1>2, MarkedReturn DEF Succeeded, Rest, Asked
<1>3. CASE GiveUp(r)
  <2>1. err[r] \in AllErrors
    BY <1>1, <1>3 DEF TypeOK, GiveUp, OneRequest, ErrorKept
  <2>2. QED
    BY <1>3, <2>1, CooldownIsNat, MarkedReturn DEF GiveUp, Rest, Asked
<1>4. ASSUME NEW e \in Errors, Failed(r, e)
      PROVE  Moves(r)
  BY <1>4, CooldownIsNat, ErrorsAssumption, MarkedReturn DEF Failed, Rest, Asked
<1>5. QED
  BY <1>2, <1>3, <1>4

(* The refresh-token handler has tried and marked nothing. *)
LEMMA ReissueMoves ==
    ASSUME RequestInv, NEW r \in Requests, Reissue(r)
    PROVE  Moves(r)
<1>1. TypeOK /\ PoolOK /\ OneRequest(r)
  BY Split
<1>2. /\ pc[r] = "reissue" /\ Return(r, "ok")
      /\ UNCHANGED <<site, now, changes, tried, marks>>
  BY DEF Reissue
<1>3. sel[r] \in Account /\ SameOwner(sel[r].id, sel[r].cred)
  BY <1>1, <1>2 DEF OneRequest, HoldsAccount, Active
<1>4. PoolOK'
  BY <1>1, <1>3, ReplacedPool DEF Reissue
<1>5. tried[r] = << >> /\ marks[r] = << >>
  BY <1>1, <1>2 DEF OneRequest, Untouched
<1>6. Marked(r)' = Ids(tried[r]) /\ tried'[r] = tried[r]
  BY <1>2, <1>5 DEF Marked, Ids
<1>7. reply'[r] = "ok" /\ "ok" \in Replies /\ "ok" # "noAccounts"
  BY <1>1, <1>2 DEF TypeOK, Return, Replies
<1>8. Outcome(r)'
  <2>1. \A j, k \in 1..Len(marks'[r]) : marks'[r][j] = marks'[r][k] => j = k
    BY <1>2, <1>5
  <2>2. QED
    BY <1>1, <1>6, <1>7, <2>1, OutcomeOf, Zenon DEF OneRequest
<1>9. QED
  BY <1>1, <1>2, <1>4, <1>7, <1>8, ReturnMoves DEF TypeOK, Rest

-----------------------------------------------------------------------------
(* Requests that arrive, and steps that only change where a request is.    *)

LEMMA ArriveMoves ==
    ASSUME RequestInv, NEW r \in Requests,
           Begin(r) \/ \E id \in Creds : BeginReissue(r, id)
    PROVE  Moves(r)
<1>1. TypeOK /\ PoolOK /\ OneRequest(r)
  BY Split
<1>2. /\ pc[r] = "idle" /\ UNCHANGED <<world, opts, under, err, reply, tried, marks>>
      /\ pc' \in [Requests -> Steps] /\ pc'[r] \in {"select", "reissue"}
      /\ \A q \in Requests : q # r => pc'[q] = pc[q]
  BY <1>1 DEF Begin, BeginReissue, TypeOK, Goto, Steps
<1>3. /\ opts[r] = Fresh /\ tried[r] = << >> /\ marks[r] = << >>
      /\ reply[r] = "none" /\ Outcome(r)
  BY <1>1, <1>2 DEF OneRequest, Untouched
<1>4. /\ sel' \in [Requests -> Account \cup {None}]
      /\ \A q \in Requests : q # r => sel'[q] = sel[q]
      /\ pc'[r] = "reissue" => sel'[r] \in Account /\ SameOwner(sel'[r].id, sel'[r].cred)
  <2>1. CASE Begin(r)
    BY <1>1, <2>1 DEF Begin, TypeOK, Goto
  <2>2. ASSUME NEW id \in Creds, BeginReissue(r, id)
        PROVE  <1>4!:
    <3>1. Position(store, id) \in 1..Len(store.accounts)
      BY <1>1, <2>2, PositionOfId DEF BeginReissue, PoolOK
    <3>2. AccountAt(store, id) \in Account
          /\ SameOwner(AccountAt(store, id).id, AccountAt(store, id).cred)
      BY <1>1, <3>1, CopyOfAccount DEF PoolOK, AccountAt
    <3>3. sel' = [sel EXCEPT ![r] = AccountAt(store, id)]
      BY <2>2 DEF BeginReissue
    <3>4. QED
      BY <1>1, <3>2, <3>3 DEF TypeOK
  <2>3. QED
    BY <2>1, <2>2
<1>5. TypeOK' /\ PoolOK'
  BY <1>1, <1>2, <1>4 DEF TypeOK, PoolOK, world
<1>6. HoldsAccount(r)' /\ Untouched(r)' /\ Budget(r)' /\ ErrorKept(r)'
  BY <1>2, <1>3, <1>4, FreshOptions, RequestBounds
     DEF HoldsAccount, Untouched, Budget, ErrorKept, Active, Asked
<1>7. Excluded(r)'
  <2>1. Ids(tried'[r]) = {} /\ Marked(r)' = {} /\ Len(tried'[r]) = 0
    BY <1>2, <1>3 DEF Ids, Marked
  <2>2. ~opts'[r].forced /\ opts'[r].pinned = None /\ opts'[r].exclude = {}
    BY <1>2, <1>3, FreshOptions
  <2>3. pc'[r] \notin Active /\ pc'[r] \notin Asked /\ pc'[r] \notin {"forcing", "giveUp"}
    BY <1>2 DEF Active, Asked
  <2>4. QED
    BY <2>1, <2>2, <2>3 DEF Excluded
<1>8. Outcome(r)'
  BY <1>2, <1>3, OutcomeKept
<1>9. \A q \in Requests : q # r => Same(q)
  BY <1>2, <1>4 DEF Same
<1>10. QED
  BY <1>5, <1>6, <1>7, <1>8, <1>9 DEF Moves, OneRequest

LEMMA RefreshingMoves ==
    ASSUME RequestInv, NEW r \in Requests,
           RefreshUseless(r) \/ \E e \in Errors : ForceRefresh(r, e)
    PROVE  Moves(r)
<1>1. TypeOK /\ PoolOK /\ OneRequest(r)
  BY Split
<1>2. /\ pc[r] \in {"call", "forcing"} /\ pc'[r] \in {"forcing", "giveUp"}
      /\ UNCHANGED <<Rest, opts, sel, under, reply, tried, marks>>
      /\ pc' \in [Requests -> Steps]
      /\ \A q \in Requests : q # r => pc'[q] = pc[q]
  BY <1>1 DEF RefreshUseless, ForceRefresh, TypeOK, Goto, Steps, world, Rest
<1>3. sel[r] \in Account /\ SameOwner(sel[r].id, sel[r].cred) /\ Outcome(r)
  BY <1>1, <1>2 DEF OneRequest, HoldsAccount, Active
<1>4. PoolOK'
  BY <1>1, <1>3, MaybeReplacedPool DEF RefreshUseless, ForceRefresh, PoolOK, world
<1>5. /\ err' \in [Requests -> AllErrors \cup {"none"}] /\ err'[r] # "none"
      /\ \A q \in Requests : q # r => err'[q] = err[q]
  <2>1. CASE RefreshUseless(r)
    BY <1>1, <2>1 DEF RefreshUseless, TypeOK, OneRequest, ErrorKept
  <2>2. ASSUME NEW e \in Errors, ForceRefresh(r, e)
        PROVE  <1>5!:
    <3>1. e \in AllErrors /\ e # "none"
      BY ErrorsAssumption DEF AllErrors
    <3>2. QED
      BY <1>1, <2>2, <3>1 DEF ForceRefresh, TypeOK
  <2>3. QED
    BY <2>1, <2>2
<1>6. TypeOK'
  BY <1>1, <1>2, <1>4, <1>5 DEF TypeOK, PoolOK, Rest
<1>7. HoldsAccount(r)' /\ Untouched(r)' /\ Budget(r)' /\ ErrorKept(r)'
  BY <1>1, <1>2, <1>5 DEF OneRequest, HoldsAccount, Untouched, Budget, ErrorKept,
                          Active, Asked
<1>8. Excluded(r)'
  <2>1. ~opts[r].forced
    BY <1>1, <1>2 DEF RefreshUseless, ForceRefresh, OneRequest, Excluded
  <2>2. Marked(r)' = Marked(r)
    BY <1>2 DEF Marked
  <2>3. QED
    BY <1>1, <1>2, <2>1, <2>2 DEF OneRequest, Excluded, Active, Asked
<1>9. Outcome(r)'
  BY <1>2, <1>3, OutcomeKept
<1>10. \A q \in Requests : q # r => Same(q)
  BY <1>2, <1>5 DEF Same
<1>11. QED
  BY <1>4, <1>6, <1>7, <1>8, <1>9, <1>10 DEF Moves, OneRequest

-----------------------------------------------------------------------------
(* Selecting an account, and asking the upstream with it.                  *)

LEMMA ReadSiteMoves ==
    ASSUME RequestInv, NEW r \in Requests, ReadSite(r)
    PROVE  Moves(r)
<1>1. TypeOK /\ PoolOK /\ OneRequest(r)
  BY Split
<1>2. /\ pc[r] = "select" /\ opts[r].depth < MaxDepth
      /\ UNCHANGED <<world, opts, sel, err, reply, tried, marks>>
  BY DEF ReadSite
<1>3. pc'[r] = "pick" /\ under'[r] = site /\ site \in Sites /\ "pick" \in Steps
  BY <1>1 DEF TypeOK, ReadSite, Goto, Steps
<1>4. TypeOK' /\ PoolOK'
  BY <1>1, <1>2, <1>3 DEF TypeOK, PoolOK, world, ReadSite, Goto
<1>5. HoldsAccount(r)' /\ Untouched(r)' /\ Budget(r)' /\ ErrorKept(r)'
  BY <1>1, <1>2, <1>3 DEF OneRequest, HoldsAccount, Untouched, Budget, ErrorKept,
                          Active, Asked
<1>6. Excluded(r)'
  <2>1. Marked(r)' = Marked(r) /\ Excluded(r)
    BY <1>1, <1>2 DEF Marked, OneRequest
  <2>2. opts'[r] = opts[r] /\ tried'[r] = tried[r]
    BY <1>2
  <2>3. QED
    BY <1>2, <1>3, <2>1, <2>2 DEF Excluded, Active, Asked
<1>7. Outcome(r)'
  BY <1>1, <1>2, OutcomeKept DEF OneRequest
<1>8. \A q \in Requests : q # r => Same(q)
  BY <1>1, <1>2 DEF TypeOK, Same, ReadSite, Goto
<1>9. QED
  BY <1>4, <1>5, <1>6, <1>7, <1>8 DEF Moves, OneRequest

(* The selected account is of the region that was read and was not tried   *)
(* before, unless it is the pinned one.                                    *)
LEMMA SelectedMoves ==
    ASSUME RequestInv, NEW r \in Requests, pc[r] = "pick",
           NEW i \in 1..Len(store.accounts),
           Selected(r, i), SiteOf[store.accounts[i].cred] = under[r],
           store.accounts[i].id \notin opts[r].exclude,
           opts[r].pinned # None => store.accounts[i].id = opts[r].pinned,
           PoolOK', UNCHANGED <<Rest, opts, under, err, reply, tried, marks>>
    PROVE  Moves(r)
<1>1. TypeOK /\ PoolOK /\ OneRequest(r)
  BY Split
<1>2. store.accounts[i] \in Account
      /\ SameOwner(store.accounts[i].id, store.accounts[i].cred)
  BY <1>1, CopyOfAccount DEF PoolOK
<1>3. /\ pc'[r] = "refresh" /\ sel'[r] = store.accounts[i] /\ under'[r] = under[r]
      /\ "refresh" \in Steps
  BY <1>1 DEF TypeOK, Selected, Goto, Steps
<1>4. TypeOK'
  BY <1>1, <1>2, <1>3 DEF TypeOK, PoolOK, Rest, Selected, Goto
<1>5. HoldsAccount(r)' /\ Untouched(r)' /\ Budget(r)' /\ ErrorKept(r)'
  BY <1>1, <1>2, <1>3 DEF OneRequest, HoldsAccount, Untouched, Budget, ErrorKept,
                          Active, Asked
<1>6. /\ opts'[r] = opts[r] /\ tried'[r] = tried[r] /\ marks'[r] = marks[r]
      /\ reply'[r] = reply[r]
  OBVIOUS
<1>7. Excluded(r)'
  <2>1. Marked(r)' = Marked(r)
    BY <1>6 DEF Marked
  <2>2. Excluded(r)
    BY <1>1 DEF OneRequest
  <2>3. QED
    BY <1>3, <1>6, <2>1, <2>2 DEF Excluded, Active, Asked
<1>8. Outcome(r)'
  BY <1>1, <1>6, OutcomeKept DEF OneRequest
<1>9. \A q \in Requests : q # r => Same(q)
  BY <1>1 DEF TypeOK, Same, Selected, Goto
<1>10. QED
  BY <1>4, <1>5, <1>7, <1>8, <1>9 DEF Moves, OneRequest

LEMMA SelectMoves ==
    ASSUME RequestInv, NEW r \in Requests, SelectNext(r) \/ SelectPinned(r)
    PROVE  Moves(r)
<1>1. TypeOK /\ PoolOK /\ OneRequest(r)
  BY Split
<1>2. CASE SelectNext(r)
  <2> DEFINE i == Chosen(store, under[r], opts[r].exclude, now)
  <2>1. /\ pc[r] = "pick" /\ opts[r].pinned = None
        /\ Eligible(store, under[r], opts[r].exclude) # {}
        /\ Selected(r, i) /\ store' = AfterSelect(store, i)
        /\ UNCHANGED <<Rest, opts, under, err, reply, tried, marks>>
    BY <1>2 DEF SelectNext, Rest
  <2>2. i \in 1..Len(store.accounts)
    BY <1>1, <2>1, ChosenInStore DEF PoolOK, TypeOK
  <2>3. /\ SiteOf[store.accounts[i].cred] = under[r]
        /\ store.accounts[i].id \notin opts[r].exclude
    <3>1. store \in Store /\ now \in Nat
      BY <1>1 DEF TypeOK
    <3>2. LET a == store.accounts[i]
          IN  a.enabled /\ SiteOf[a.cred] = under[r] /\ a.id \notin opts[r].exclude
      BY <2>1, <3>1, ChosenIsEligible
    <3>3. QED
      BY <3>2
  <2> HIDE DEF i
  <2>4. PoolOK'
    BY <1>1, <2>1, <2>2, SelectWellFormed DEF PoolOK
  <2>5. QED
    BY <2>1, <2>2, <2>3, <2>4, SelectedMoves
<1>3. CASE SelectPinned(r)
  <2> DEFINE i == Position(store, opts[r].pinned)
  <2>1. /\ pc[r] = "pick" /\ opts[r].pinned # None
        /\ PinnedUsable(r) /\ Selected(r, i)
        /\ UNCHANGED <<world, opts, under, err, reply, tried, marks>>
    BY <1>3 DEF SelectPinned
  <2>2. i \in 1..Len(store.accounts) /\ store.accounts[i].id = opts[r].pinned
    BY <1>1, <2>1, PositionOfId DEF PinnedUsable, PoolOK
  <2>3. SiteOf[store.accounts[i].cred] = under[r]
    BY <2>1 DEF PinnedUsable, AccountAt
  <2>4. opts[r].pinned \notin opts[r].exclude
    BY <1>1, <2>1 DEF OneRequest, Excluded
  <2>5. PoolOK' /\ UNCHANGED Rest
    BY <1>1, <2>1 DEF PoolOK, world, Rest
  <2> HIDE DEF i
  <2>6. QED
    BY <2>1, <2>2, <2>3, <2>4, <2>5, SelectedMoves
<1>4. QED
  BY <1>2, <1>3

(* One more call: the account is new, or it is the pinned one again. *)
LEMMA CallMoves ==
    ASSUME RequestInv, NEW r \in Requests, pc[r] = "refresh",
           NEW a \in Account, SameOwner(a.id, a.cred), a.id = sel[r].id,
           SiteOf[a.cred] = SiteOf[sel[r].cred], Call(r, a), PoolOK',
           UNCHANGED <<Rest, opts, under, err, reply, marks>>
    PROVE  Moves(r)
<1> DEFINE e == [id |-> a.id, cred |-> a.cred, under |-> under[r],
                 forced |-> opts[r].forced]
           n == Len(tried[r])
<1>1. TypeOK /\ PoolOK /\ OneRequest(r)
  BY Split
<1>2. /\ HoldsAccount(r) /\ Untouched(r) /\ Budget(r) /\ ErrorKept(r) /\ Excluded(r)
      /\ Outcome(r)
  BY <1>1 DEF OneRequest
<1>3. under[r] \in Sites /\ SiteOf[a.cred] = under[r]
  BY <1>2 DEF HoldsAccount, Active
<1>4. e \in Attempt
  <2>1. opts[r].forced \in BOOLEAN /\ a.id \in Creds /\ a.cred \in Creds
    BY <1>1 DEF TypeOK, Options, Account
  <2>2. QED
    BY <1>3, <2>1, Zenon DEF Attempt
<1>5. /\ e.id = a.id /\ e.cred = a.cred /\ e.under = under[r]
      /\ e.forced = opts[r].forced
  BY Zenon
<1>6. tried[r] \in Seq(Attempt) /\ tried'[r] = Append(tried[r], e)
  BY <1>1 DEF TypeOK, Call
<1>7. /\ pc'[r] = "call" /\ sel'[r] = a /\ opts'[r] = opts[r] /\ "call" \in Steps
      /\ reply'[r] = reply[r] /\ marks'[r] = marks[r] /\ under'[r] = under[r]
  BY <1>1 DEF TypeOK, Call, Goto, Steps
<1>8. TypeOK'
  BY <1>1, <1>4, <1>7 DEF TypeOK, PoolOK, Rest, Call, Goto
<1> HIDE DEF e
<1>9. /\ n \in Nat /\ Len(tried'[r]) = n + 1 /\ tried'[r][n + 1] = e
      /\ \A k \in 1..n : tried'[r][k] = tried[r][k]
  BY <1>4, <1>6
<1>10. Ids(tried'[r]) = Ids(tried[r]) \cup {a.id}
  <2>1. /\ \A k \in 1..n : tried'[r][k].id = tried[r][k].id
        /\ tried'[r][n + 1].id = a.id
    BY <1>5, <1>9
  <2>2. 1..Len(tried'[r]) = 1..n \cup {n + 1}
    BY <1>9
  <2>3. Ids(tried'[r]) = {tried'[r][k].id : k \in 1..n \cup {n + 1}}
    BY <2>2, Zenon DEF Ids
  <2>4. Ids(tried[r]) = {tried[r][k].id : k \in 1..n}
    BY DEF Ids
  <2>5. QED
    BY <2>1, <2>3, <2>4
<1>11. Marked(r)' = Marked(r)
  BY <1>7 DEF Marked
<1>12. HoldsAccount(r)' /\ Untouched(r)' /\ ErrorKept(r)'
  BY <1>2, <1>3, <1>7 DEF HoldsAccount, Untouched, ErrorKept, Active
<1>13. Budget(r)' /\ n + 1 <= MaxDepth
  BY <1>1, <1>2, <1>7, <1>9, RequestBounds DEF Budget, Active, Asked, TypeOK, Options
<1>14. /\ opts[r].pinned = None => Ids(tried[r]) = opts[r].exclude
       /\ opts[r].pinned # None =>
              /\ Ids(tried[r]) = opts[r].exclude \cup {opts[r].pinned}
              /\ n > 0 /\ tried[r][n].id = opts[r].pinned /\ a.id = opts[r].pinned
       /\ a.id \notin opts[r].exclude
       /\ Marked(r) = opts[r].exclude
       /\ \A k \in 1..n : ~tried[r][k].forced
       /\ opts[r].forced <=> opts[r].pinned # None
  BY <1>2 DEF Excluded, Active
<1>15. Ids(tried'[r]) = opts[r].exclude \cup {a.id}
  BY <1>10, <1>14
<1>16. ~opts[r].forced => \A k \in 1..(n + 1) : ~tried'[r][k].forced
  BY <1>5, <1>9, <1>14
<1>17. Excluded(r)'
  <2>1. /\ "call" \notin {"select", "pick", "refresh"} /\ "call" \notin {"forcing", "giveUp"}
        /\ pc'[r] = "call" /\ sel'[r].id = a.id /\ opts'[r] = opts[r]
    BY <1>7
  <2>2. tried'[r][Len(tried'[r])].id = a.id
    BY <1>5, <1>9
  <2>3. ~opts[r].forced => \A k \in 1..Len(tried'[r]) : ~tried'[r][k].forced
    BY <1>9, <1>16
  <2>4. opts[r].pinned # None => a.id = opts[r].pinned
    BY <1>14
  <2>5. Marked(r)' = opts[r].exclude
    BY <1>11, <1>14
  <2> QED
    BY <1>14, <1>15, <2>1, <2>2, <2>3, <2>4, <2>5 DEF Excluded
<1>18. \A k \in 1..(n + 1) : SiteOf[tried'[r][k].cred] = tried'[r][k].under
  <2>1. \A k \in 1..n : SiteOf[tried[r][k].cred] = tried[r][k].under
    BY <1>2 DEF Outcome
  <2>2. SiteOf[tried'[r][n + 1].cred] = tried'[r][n + 1].under
    BY <1>3, <1>5, <1>9
  <2>3. \A k \in 1..(n + 1) : k = n + 1 \/ k \in 1..n
    BY <1>9
  <2> QED
    BY <1>9, <2>1, <2>2, <2>3, Zenon
<1>19. ASSUME NEW j \in 1..(n + 1), NEW k \in 1..(n + 1), j < k,
              tried'[r][j].id = tried'[r][k].id
       PROVE  j = k - 1 /\ k = n + 1 /\ tried'[r][k].forced
  <2>1. \A i, m \in 1..n : i < m => tried[r][i].id # tried[r][m].id
    BY <1>2, <1>14 DEF Outcome
  <2>2. k = n + 1 /\ j \in 1..n
    <3>1. CASE k \in 1..n
      <4>1. j \in 1..n
        BY <1>9, <1>19, <3>1
      <4>2. tried[r][j].id = tried[r][k].id
        BY <1>9, <1>19, <3>1, <4>1
      <4>3. QED
        BY <1>19, <2>1, <3>1, <4>1, <4>2
    <3>2. CASE k \notin 1..n
      BY <1>9, <1>19, <3>2
    <3>3. QED
      BY <3>1, <3>2
  <2>3. tried[r][j].id = a.id
    BY <1>5, <1>9, <1>19, <2>2
  <2>4. a.id \in Ids(tried[r])
    BY <2>2, <2>3, Zenon DEF Ids
  <2>5. opts[r].pinned # None /\ tried[r][n].id = a.id /\ n \in 1..n /\ opts[r].forced
    BY <1>9, <1>14, <2>4
  <2>6. j = n
    BY <1>9, <2>1, <2>2, <2>3, <2>5
  <2>7. tried'[r][k].forced
    BY <1>5, <1>9, <2>2, <2>5, Zenon
  <2>8. QED
    BY <1>9, <2>2, <2>6, <2>7
<1>20. reply[r] = "none"
  BY <1>2 DEF Untouched
<1>21. \A j, k \in 1..Len(marks'[r]) : marks'[r][j] = marks'[r][k] => j = k
  BY <1>2, <1>7 DEF Outcome
<1>22. Outcome(r)'
  <2>1. reply'[r] # "noAccounts" /\ reply'[r] \notin AllErrors \cup {"ok"}
    BY <1>7, <1>20 DEF AllErrors
  <2>2. QED
    BY <1>9, <1>13, <1>18, <1>19, <1>21, <2>1 DEF Outcome
<1>23. \A q \in Requests : q # r => Same(q)
  BY <1>1 DEF TypeOK, Same, Call, Goto
<1>24. QED
  BY <1>8, <1>12, <1>13, <1>17, <1>22, <1>23 DEF Moves, OneRequest

LEMMA AskMoves ==
    ASSUME RequestInv, NEW r \in Requests, RefreshSkipped(r) \/ RefreshSaved(r)
    PROVE  Moves(r)
<1>1. TypeOK /\ PoolOK /\ OneRequest(r)
  BY Split
<1>2. pc[r] = "refresh" /\ UNCHANGED <<Rest, opts, under, err, reply, marks>>
  BY DEF RefreshSkipped, RefreshSaved, world, Rest
<1>3. sel[r] \in Account /\ SameOwner(sel[r].id, sel[r].cred)
  BY <1>1, <1>2 DEF OneRequest, HoldsAccount, Active
<1>4. CASE RefreshSkipped(r)
  BY <1>1, <1>2, <1>3, <1>4, CallMoves DEF RefreshSkipped, PoolOK, world
<1>5. CASE RefreshSaved(r)
  <2>1. PICK c \in Reissued(sel[r]) :
            /\ store' = ReplaceAccount(store, Refreshed(sel[r], c))
            /\ Call(r, Refreshed(sel[r], c))
    BY <1>5 DEF RefreshSaved
  <2> DEFINE a == Refreshed(sel[r], c)
  <2>2. /\ a \in Account /\ a.id = sel[r].id /\ SameOwner(a.id, a.cred)
        /\ SiteOf[a.cred] = SiteOf[sel[r].cred]
    BY <1>3, ReissuedOwner
  <2>3. PoolOK'
    BY <1>1, <1>3, <1>5, <2>1, ReplacedPool DEF RefreshSaved
  <2>4. Call(r, a)
    BY <2>1
  <2> HIDE DEF a
  <2>5. QED
    BY <1>2, <2>2, <2>3, <2>4, CallMoves
<1>6. QED
  BY <1>4, <1>5

-----------------------------------------------------------------------------
(* CompleteFromPool calls itself.                                          *)

LEMMA AgainTypes ==
    ASSUME TypeOK, NEW r \in Requests, NEW o \in Options, Again(r, o)
    PROVE  /\ pc' \in [Requests -> Steps] /\ opts' \in [Requests -> Options]
           /\ sel' \in [Requests -> Account \cup {None}]
           /\ under' \in [Requests -> Sites \cup {None}]
           /\ pc'[r] = "select" /\ opts'[r] = o
           /\ \A q \in Requests : q # r =>
                  /\ pc'[q] = pc[q] /\ opts'[q] = opts[q]
                  /\ sel'[q] = sel[q] /\ under'[q] = under[q]
<1>1. "select" \in Steps
  BY DEF Steps
<1>2. QED
  BY <1>1 DEF TypeOK, Again, Goto

(* The next account: the one that failed is marked and excluded. *)
LEMMA FailOverMoves ==
    ASSUME RequestInv, NEW r \in Requests, NEW e \in Errors, FailOver(r, e)
    PROVE  Moves(r)
<1> DEFINE o == [pinned |-> None, exclude |-> opts[r].exclude \cup {sel[r].id},
                 forced |-> opts[r].forced, depth |-> opts[r].depth + 1]
<1>1. TypeOK /\ PoolOK /\ OneRequest(r)
  BY Split
<1>2. /\ pc[r] = "call" /\ opts[r].pinned = None /\ Again(r, o)
      /\ Mark(r, FALSE, FailureCooldown(e)) /\ err' = [err EXCEPT ![r] = e]
      /\ UNCHANGED <<Rest, reply, tried>>
  BY DEF FailOver, NextAccountHelps, Rest
<1>3. /\ HoldsAccount(r) /\ Untouched(r) /\ Budget(r) /\ Excluded(r) /\ Outcome(r)
  BY <1>1 DEF OneRequest
<1>4. opts[r] \in Options /\ sel[r].id \in Creds
  BY <1>1, <1>2, <1>3 DEF TypeOK, HoldsAccount, Active, Account
<1>5. o \in Options
  <2>1. /\ opts[r].exclude \cup {sel[r].id} \in SUBSET Creds
        /\ opts[r].forced \in BOOLEAN /\ opts[r].depth + 1 \in Nat
    BY <1>4 DEF Options
  <2>2. QED
    BY <2>1, Zenon DEF Options
<1>6. /\ o.pinned = None /\ o.exclude = opts[r].exclude \cup {sel[r].id}
      /\ o.forced = opts[r].forced /\ o.depth = opts[r].depth + 1
  BY Zenon
<1> HIDE DEF o
<1>7. ~o.forced
  BY <1>2, <1>3, <1>6, Zenon DEF Excluded
<1>8. /\ PoolOK' /\ marks' \in [Requests -> Seq(Creds)]
      /\ \A q \in Requests : q # r => marks'[q] = marks[q]
      /\ Marked(r)' = opts[r].exclude \cup {sel[r].id}
      /\ \A j, k \in 1..Len(marks'[r]) : marks'[r][j] = marks'[r][k] => j = k
  BY <1>2, CooldownIsNat, MarkKeeps DEF Asked
<1>9. e \in AllErrors /\ e # "none" /\ err'[r] = e
  BY <1>1, <1>2, ErrorsAssumption DEF AllErrors, TypeOK
<1>10. TypeOK'
  BY <1>1, <1>2, <1>5, <1>8, <1>9, AgainTypes DEF TypeOK, PoolOK, Rest
<1>11. pc'[r] = "select" /\ opts'[r] = o /\ tried'[r] = tried[r] /\ reply'[r] = reply[r]
  BY <1>1, <1>2, <1>5, AgainTypes
<1>12. HoldsAccount(r)' /\ Untouched(r)' /\ ErrorKept(r)'
  BY <1>2, <1>3, <1>9, <1>11 DEF HoldsAccount, Untouched, ErrorKept, Active
<1>13. Budget(r)'
  BY <1>2, <1>3, <1>4, <1>6, <1>11, RequestBounds
     DEF Budget, Active, Asked, Options
<1>14. Excluded(r)'
  <2>1. /\ Ids(tried[r]) = o.exclude
        /\ \A k \in 1..Len(tried[r]) : ~tried[r][k].forced
    BY <1>2, <1>3, <1>6, <1>7 DEF Excluded, Asked
  <2>2. Marked(r)' = o.exclude
    BY <1>6, <1>8
  <2>3. QED
    BY <1>6, <1>7, <1>11, <2>1, <2>2 DEF Excluded, Active, Asked
<1>15. Outcome(r)'
  <2>1. reply'[r] # "noAccounts" /\ reply'[r] \notin AllErrors \cup {"ok"}
    BY <1>2, <1>3, <1>11 DEF Untouched, AllErrors
  <2>2. QED
    BY <1>3, <1>8, <1>11, <2>1, OutcomeOf
<1>16. \A q \in Requests : q # r => Same(q)
  BY <1>1, <1>2, <1>5, <1>8, AgainTypes DEF Same, TypeOK
<1>17. QED
  BY <1>8, <1>10, <1>12, <1>13, <1>14, <1>15, <1>16 DEF Moves, OneRequest

(* The same account again, with its new token. *)
LEMMA RetryMoves ==
    ASSUME RequestInv, NEW r \in Requests, RetryRefreshed(r)
    PROVE  Moves(r)
<1> DEFINE o == [pinned |-> sel[r].id, exclude |-> opts[r].exclude,
                 forced |-> TRUE, depth |-> opts[r].depth + 1]
<1>1. TypeOK /\ PoolOK /\ OneRequest(r)
  BY Split
<1>2. /\ pc[r] = "forcing" /\ Again(r, o)
      /\ UNCHANGED <<Rest, err, reply, tried, marks>>
  BY DEF RetryRefreshed, Rest
<1>3. /\ HoldsAccount(r) /\ Untouched(r) /\ Budget(r) /\ ErrorKept(r) /\ Excluded(r)
      /\ Outcome(r)
  BY <1>1 DEF OneRequest
<1>4. /\ opts[r] \in Options /\ sel[r].id \in Creds /\ sel[r].id # None
      /\ sel[r] \in Account /\ SameOwner(sel[r].id, sel[r].cred)
  BY <1>1, <1>2, <1>3, NoneAssumption DEF TypeOK, HoldsAccount, Active, Account
<1>5. o \in Options
  <2>1. opts[r].exclude \in SUBSET Creds /\ opts[r].depth + 1 \in Nat
    BY <1>4 DEF Options
  <2>2. QED
    BY <1>4, <2>1, Zenon DEF Options
<1>6. /\ o.pinned = sel[r].id /\ o.exclude = opts[r].exclude
      /\ o.forced /\ o.depth = opts[r].depth + 1
  BY Zenon
<1> HIDE DEF o
<1>7. PoolOK'
  BY <1>1, <1>4, ReplacedPool DEF RetryRefreshed
<1>8. TypeOK'
  BY <1>1, <1>2, <1>5, <1>7, AgainTypes DEF TypeOK, PoolOK, Rest
<1>9. /\ pc'[r] = "select" /\ opts'[r] = o /\ tried'[r] = tried[r]
      /\ reply'[r] = reply[r] /\ marks'[r] = marks[r] /\ err'[r] = err[r]
  BY <1>1, <1>2, <1>5, AgainTypes
<1>10. HoldsAccount(r)' /\ Untouched(r)' /\ ErrorKept(r)'
  BY <1>2, <1>3, <1>9 DEF HoldsAccount, Untouched, ErrorKept, Active
<1>11. Budget(r)' /\ Len(tried[r]) > 0
  BY <1>2, <1>3, <1>4, <1>6, <1>9, RequestBounds
     DEF Budget, Active, Asked, Options
<1>12. Excluded(r)'
  <2>1. /\ Ids(tried[r]) = o.exclude \cup {o.pinned} /\ o.pinned \notin o.exclude
        /\ tried[r][Len(tried[r])].id = o.pinned
        /\ Marked(r) = o.exclude
        /\ \A k \in 1..Len(tried[r]) : ~tried[r][k].forced
    BY <1>2, <1>3, <1>6 DEF Excluded, Active, Asked
  <2>2. Marked(r)' = o.exclude
    BY <1>9, <2>1 DEF Marked
  <2>3. o.pinned # None
    BY <1>4, <1>6
  <2>4. QED
    BY <1>6, <1>9, <1>11, <2>1, <2>2, <2>3 DEF Excluded, Active, Asked
<1>13. Outcome(r)'
  BY <1>3, <1>9, OutcomeKept
<1>14. \A q \in Requests : q # r => Same(q)
  BY <1>1, <1>2, <1>5, AgainTypes DEF Same
<1>15. QED
  BY <1>7, <1>8, <1>10, <1>11, <1>12, <1>13, <1>14 DEF Moves, OneRequest

-----------------------------------------------------------------------------
(* The administrator and the clock change no request.                      *)

LEMMA RequestsStay ==
    ASSUME RequestInv, UNCHANGED request, PoolOK', site' \in Sites,
           now' \in Nat, changes' \in Nat
    PROVE  RequestInv'
<1>1. TypeOK /\ \A r \in Requests : OneRequest(r)
  BY Split
<1>2. TypeOK'
  BY <1>1 DEF TypeOK, request, PoolOK
<1>3. ASSUME NEW r \in Requests
      PROVE  OneRequest(r)'
  <2>1. Same(r)
    BY DEF Same, request
  <2>2. QED
    BY <1>1, <2>1, OthersKeep
<1>4. QED
  BY <1>2, <1>3, Zenon DEF RequestInv, PoolOK, OneRequest, Outcome,
     AttemptsInRegion, NoRepeats, AttemptsBounded, ErrorNotHidden, MarkedOnce

LEMMA AdministratorKeeps ==
    ASSUME RequestInv, Administrate \/ Tick
    PROVE  RequestInv'
<1>1. TypeOK /\ PoolOK
  BY Split
<1>2. Counted => UNCHANGED request /\ now' \in Nat /\ changes' \in Nat
  BY <1>1 DEF Counted, TypeOK
<1>3. ASSUME NEW c \in Creds, Login(c)
      PROVE  RequestInv'
  <2>1. PoolOK'
    BY <1>1, <1>3, UpsertWellFormed DEF Login, PoolOK
  <2>2. QED
    BY <1>1, <1>2, <1>3, <2>1, RequestsStay DEF Login, TypeOK
<1>4. ASSUME NEW c \in Creds, Remove(c)
      PROVE  RequestInv'
  <2>1. PoolOK'
    BY <1>1, <1>4, DeleteWellFormed DEF Remove, PoolOK
  <2>2. QED
    BY <1>1, <1>2, <1>4, <2>1, RequestsStay DEF Remove, TypeOK
<1>5. ASSUME NEW c \in Creds, NEW enabled \in BOOLEAN, Toggle(c, enabled)
      PROVE  RequestInv'
  <2>1. PoolOK'
    BY <1>1, <1>5, SetEnabledWellFormed DEF Toggle, PoolOK
  <2>2. QED
    BY <1>1, <1>2, <1>5, <2>1, RequestsStay DEF Toggle, TypeOK
<1>6. ASSUME NEW s \in Sites, SetPoolSite(s)
      PROVE  RequestInv'
  <2>1. PoolOK' /\ site' \in Sites
    BY <1>1, <1>6 DEF SetPoolSite, PoolOK
  <2>2. QED
    BY <1>2, <1>6, <2>1, RequestsStay DEF SetPoolSite
<1>7. CASE Tick
  BY <1>1, <1>7, RequestsStay DEF Tick, TypeOK, PoolOK
<1>8. QED
  BY <1>3, <1>4, <1>5, <1>6, <1>7 DEF Administrate

-----------------------------------------------------------------------------
LEMMA InitInv == Init => RequestInv
<1> SUFFICES ASSUME Init PROVE RequestInv
  OBVIOUS
<1>1. PoolOK
  BY StoreAssumption DEF Init, PoolOK
<1>2. "idle" \in Steps /\ "none" \in Replies
  BY DEF Steps, Replies
<1>3. TypeOK
  BY <1>1, <1>2, FreshOptions, SiteAssumption DEF Init, TypeOK, PoolOK
<1>4. ASSUME NEW r \in Requests
      PROVE  OneRequest(r)
  <2>1. /\ pc[r] = "idle" /\ opts[r] = Fresh /\ tried[r] = << >> /\ marks[r] = << >>
        /\ reply[r] = "none" /\ err[r] = "none"
    BY <1>4 DEF Init
  <2>2. HoldsAccount(r) /\ Untouched(r) /\ Budget(r) /\ ErrorKept(r)
    BY <2>1, FreshOptions, RequestBounds
       DEF HoldsAccount, Untouched, Budget, ErrorKept, Active, Asked
  <2>3. ~opts[r].forced /\ opts[r].pinned = None
    BY <2>1, FreshOptions
  <2>4. Excluded(r)
    BY <2>1, <2>3 DEF Excluded, Active, Asked
  <2>5. Len(tried[r]) = 0 /\ Len(marks[r]) = 0
    BY <2>1
  <2>6. reply[r] # "noAccounts" /\ reply[r] \notin AllErrors \cup {"ok"}
    BY <2>1 DEF AllErrors
  <2>7. Outcome(r)
    BY <2>5, <2>6, RequestBounds DEF Outcome
  <2>8. QED
    BY <2>2, <2>4, <2>7 DEF OneRequest
<1>5. QED
  BY <1>1, <1>3, <1>4, Split

LEMMA StepInv == RequestInv /\ [Next]_vars => RequestInv'
<1> SUFFICES ASSUME RequestInv, [Next]_vars PROVE RequestInv'
  OBVIOUS
<1>1. ASSUME NEW r \in Requests, Arrive(r)
      PROVE  RequestInv'
  BY <1>1, ArriveMoves, MovesKeepInv DEF Arrive
<1>2. ASSUME NEW r \in Requests, Choose(r)
      PROVE  RequestInv'
  BY <1>2, RefusedMoves, ReadSiteMoves, SelectMoves, NoAccountsMoves, MovesKeepInv
     DEF Choose
<1>3. ASSUME NEW r \in Requests, GiveUp(r) \/ Refresh(r)
      PROVE  RequestInv'
  BY <1>3, AskMoves, RefusedMoves, RetryMoves, RefreshingMoves, AnsweredMoves,
     ReissueMoves, MovesKeepInv DEF Refresh
<1>4. ASSUME NEW r \in Requests, Answer(r)
      PROVE  RequestInv'
  BY <1>4, AnsweredMoves, RefusedMoves, FailOverMoves, RefreshingMoves,
     MovesKeepInv DEF Answer
<1>5. CASE Administrate \/ Tick
  BY <1>5, AdministratorKeeps
<1>6. CASE UNCHANGED vars
  <2>1. TypeOK /\ PoolOK
    BY Split
  <2>2. /\ UNCHANGED request /\ PoolOK' /\ site' \in Sites /\ now' \in Nat
        /\ changes' \in Nat
    BY <1>6, <2>1 DEF vars, world, PoolOK, TypeOK
  <2>3. QED
    BY <2>2, RequestsStay
<1>7. QED
  BY <1>1, <1>2, <1>3, <1>4, <1>5, <1>6 DEF Next, Serve

(***************************************************************************)
(* The invariant, for any number of requests, accounts, regions and        *)
(* changes of the administrator: what CompleteFromPool carries from one    *)
(* level of its recursion to the next (service.go:255-319).                *)
(***************************************************************************)
THEOREM RequestInvariant == Spec => []RequestInv
<1>1. QED
  BY InitInv, StepInv, PTL DEF Spec

(***************************************************************************)
(* Every call goes to an account of the region that was active when it was *)
(* read for the selection, a pinned retry and a refreshed copy included    *)
(* (service.go:260-270).                                                   *)
(***************************************************************************)
THEOREM CallsStayInRegion == Spec => []AttemptsInRegion
<1>1. RequestInv => AttemptsInRegion
  BY DEF RequestInv
<1>2. QED
  BY <1>1, RequestInvariant, PTL

(***************************************************************************)
(* No account is visited twice but by the one retry after a refresh        *)
(* (service.go:284-311).                                                   *)
(***************************************************************************)
THEOREM FailoverVisitsOnce == Spec => []NoRepeats
<1>1. RequestInv => NoRepeats
  BY DEF RequestInv
<1>2. QED
  BY <1>1, RequestInvariant, PTL

(***************************************************************************)
(* However failover and refresh retries alternate, a request makes at most *)
(* MaxDepth calls (service.go:256).                                        *)
(***************************************************************************)
THEOREM CallsBounded == Spec => []AttemptsBounded
<1>1. RequestInv => AttemptsBounded
  BY DEF RequestInv
<1>2. QED
  BY <1>1, RequestInvariant, PTL

(***************************************************************************)
(* The exhausted pool never hides an upstream error (service.go:293-295).  *)
(***************************************************************************)
THEOREM UpstreamErrorShown == Spec => []ErrorNotHidden
<1>1. RequestInv => ErrorNotHidden
  BY DEF RequestInv
<1>2. QED
  BY <1>1, RequestInvariant, PTL

(***************************************************************************)
(* A request that the upstream answered has marked each account it tried   *)
(* exactly once (service.go:285, 310, 313).                                *)
(***************************************************************************)
THEOREM EachTriedMarkedOnce == Spec => []MarkedOnce
<1>1. RequestInv => MarkedOnce
  BY DEF RequestInv
<1>2. QED
  BY <1>1, RequestInvariant, PTL
=============================================================================
