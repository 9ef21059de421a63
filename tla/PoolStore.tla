----------------------------- MODULE PoolStore -----------------------------
(***************************************************************************)
(* The data of the account pool (internal/accounts/pool.go) and what each  *)
(* pool operation does to it, as functions from a store to a store.  The   *)
(* modules that add locks, files and requests are built on these.          *)
(*                                                                         *)
(* A credential (bearer token or API key) is a value of Creds.  The token  *)
(* itself names its user (the JWT claims; NoUser when it is opaque) and    *)
(* the region it was issued by.  An account's id is the hash of identity,  *)
(* credential, base URL and site it was first created with, so the id is   *)
(* modelled by that first credential.                                      *)
(***************************************************************************)
EXTENDS Integers, Sequences

CONSTANTS
    Creds,      \* the credentials that the upstream ever issues
    Sites,      \* the regions: "domestic" and "global" in the code
    NoUser,     \* the user id of an opaque credential
    UserOf,     \* UserOf[c]: the user that credential c belongs to, or NoUser
    SiteOf      \* SiteOf[c]: the region that issued credential c

ASSUME IssuerAssumption == SiteOf \in [Creds -> Sites]

Account == [id : Creds, cred : Creds, enabled : BOOLEAN, cooldownUntil : Nat,
            success : Nat, failed : Nat]

Store == [nextIndex : Nat, accounts : Seq(Account)]

EmptyStore == [nextIndex |-> 0, accounts |-> << >>]

CreateAccount(c) ==
    [id |-> c, cred |-> c, enabled |-> TRUE, cooldownUntil |-> 0,
     success |-> 0, failed |-> 0]

SameOwner(c, d) == UserOf[c] = UserOf[d] /\ SiteOf[c] = SiteOf[d]

(* The first element a left-to-right scan meets. *)
First(S) == CHOOSE k \in S : \A j \in S : k <= j

(* The positions of the account with an id.  Ids are unique, see UniqueIds. *)
At(s, id) == {i \in 1..Len(s.accounts) : s.accounts[i].id = id}

Has(s, id) == At(s, id) # {}

Position(s, id) == First(At(s, id))

AccountAt(s, id) == s.accounts[Position(s, id)]

(* The store with account a at position i. *)
Put(s, i, a) ==
    [nextIndex |-> s.nextIndex, accounts |-> [s.accounts EXCEPT ![i] = a]]

(***************************************************************************)
(* NormalizeStore.  Every credential of Creds is non-empty, so no account  *)
(* is dropped; what is left is the round-robin cursor, brought back into   *)
(* range after a deletion.                                                 *)
(***************************************************************************)
NormalizeStore(s) ==
    [nextIndex |-> IF s.accounts = << >> THEN 0
                   ELSE s.nextIndex % Len(s.accounts),
     accounts  |-> s.accounts]

-----------------------------------------------------------------------------
(* Administration: OAuth login, delete, enable/disable, token refresh.     *)

(* Faulty variants: a login that looks for the same token only, and one    *)
(* that gives the refreshed account the id of its new credential.          *)
MatchesByCredential(a, c) == a.id = c \/ a.cred = c
ReloggedWithNewId(a, c) == [a EXCEPT !.id = c, !.cred = c, !.enabled = TRUE]

(* Does a login with credential c refresh the existing account a? *)
Matches(a, c) ==
    \/ a.id = c
    \/ a.cred = c
    \/ UserOf[c] # NoUser /\ SameOwner(a.cred, c)

Relogged(a, c) == [a EXCEPT !.cred = c, !.enabled = TRUE]

(* The positions of the accounts that a login with c refreshes. *)
Hits(s, c) == {i \in 1..Len(s.accounts) : Matches(s.accounts[i], c)}

Upsert(s, c) ==
    LET i == First(Hits(s, c))
    IN  NormalizeStore(
            IF Hits(s, c) = {}
            THEN [nextIndex |-> s.nextIndex,
                  accounts  |-> Append(s.accounts, CreateAccount(c))]
            ELSE Put(s, i, Relogged(s.accounts[i], c)))

Without(q, i) == SubSeq(q, 1, i - 1) \o SubSeq(q, i + 1, Len(q))

Delete(s, id) ==
    NormalizeStore([nextIndex |-> s.nextIndex,
                    accounts  |-> Without(s.accounts, Position(s, id))])

SetEnabled(s, id, enabled) ==
    Put(s, Position(s, id), [AccountAt(s, id) EXCEPT !.enabled = enabled])

ReplaceAccount(s, a) == NormalizeStore(Put(s, Position(s, a.id), a))

(***************************************************************************)
(* The record a token refresh saves: built from the account the caller     *)
(* read before it asked the upstream for the new credential c, without the *)
(* cooldown.                                                               *)
(***************************************************************************)
Refreshed(a, c) == [a EXCEPT !.cred = c, !.cooldownUntil = 0]

-----------------------------------------------------------------------------
(* Requests: selection of an account and the result of the attempt.        *)

InCooldown(a, now) == a.cooldownUntil > now

(* The account that the scan meets at an offset from the cursor. *)
Index(s, k) == ((s.nextIndex + k) % Len(s.accounts)) + 1

Eligible(s, site, exclude) ==
    {k \in 0..(Len(s.accounts) - 1) :
        LET a == s.accounts[Index(s, k)]
        IN  a.enabled /\ SiteOf[a.cred] = site /\ a.id \notin exclude}

Ready(s, site, exclude, now) ==
    {k \in Eligible(s, site, exclude) :
        ~InCooldown(s.accounts[Index(s, k)], now)}

(* The eligible accounts that leave their cooldown first. *)
Soonest(s, site, exclude) ==
    {k \in Eligible(s, site, exclude) :
        \A j \in Eligible(s, site, exclude) :
            s.accounts[Index(s, k)].cooldownUntil
                <= s.accounts[Index(s, j)].cooldownUntil}

(***************************************************************************)
(* Select without a pinned account: the position of the first account in   *)
(* round-robin order that is eligible and not cooling down; when all are   *)
(* cooling, the one that recovers first (the first of them in scan order). *)
(* Only meaningful when Eligible is not empty: ErrNoAccounts otherwise.    *)
(***************************************************************************)
Chosen(s, site, exclude, now) ==
    Index(s, First(IF Ready(s, site, exclude, now) # {}
                   THEN Ready(s, site, exclude, now)
                   ELSE Soonest(s, site, exclude)))

(* The cursor moves just past the chosen position. *)
AfterSelect(s, i) ==
    [nextIndex |-> i % Len(s.accounts), accounts |-> s.accounts]

(* Faulty variant: a failure counts as one success less. *)
MarkResultUndoing(s, id, ok, now, cooldown) ==
    Put(s, Position(s, id),
        [AccountAt(s, id) EXCEPT !.success = IF ok THEN @ + 1 ELSE @ - 1])

MarkResult(s, id, ok, now, cooldown) ==
    LET a == AccountAt(s, id)
    IN  Put(s, Position(s, id),
            IF ok
            THEN [a EXCEPT !.success = a.success + 1, !.cooldownUntil = 0]
            ELSE [a EXCEPT !.failed = a.failed + 1,
                           !.cooldownUntil = IF cooldown > 0 THEN now + cooldown
                                             ELSE a.cooldownUntil])

-----------------------------------------------------------------------------
(* What every store, in memory or in a file, satisfies.                    *)

UniqueIds(s) ==
    \A i, j \in 1..Len(s.accounts) :
        s.accounts[i].id = s.accounts[j].id => i = j

(* One account for one user of one region. *)
OneAccountPerOwner(s) ==
    \A i, j \in 1..Len(s.accounts) :
        /\ UserOf[s.accounts[i].cred] # NoUser
        /\ SameOwner(s.accounts[i].cred, s.accounts[j].cred)
        => i = j

(* An account belongs for ever to the owner that it was created for. *)
OwnerIsFixed(s) ==
    \A i \in 1..Len(s.accounts) :
        SameOwner(s.accounts[i].id, s.accounts[i].cred)

CursorInRange(s) ==
    IF s.accounts = << >> THEN s.nextIndex = 0 ELSE s.nextIndex < Len(s.accounts)

AccountsOK(s) == UniqueIds(s) /\ OneAccountPerOwner(s) /\ OwnerIsFixed(s)

WellFormed(s) == AccountsOK(s) /\ CursorInRange(s)
=============================================================================
