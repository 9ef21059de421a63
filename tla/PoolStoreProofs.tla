-------------------------- MODULE PoolStoreProofs --------------------------
(***************************************************************************)
(* What the operations of PoolStore preserve, for every set of credentials *)
(* and regions and for stores of any length.                               *)
(***************************************************************************)
EXTENDS PoolStore, TLAPS, SequenceTheorems, WellFoundedInduction

(* A scan that has something to meet meets the least position. *)
LEMMA NatHasLeast ==
    ASSUME NEW S, S \subseteq Nat, S # {}
    PROVE  \E k \in S : \A j \in S : k <= j
<1> DEFINE R == OpToRel(<, Nat)
<1>1. IsWellFoundedOn(R, Nat)
  BY NatLessThanWellFounded
<1>2. \A x, y \in Nat : x < y => <<x, y>> \in R
  BY DEF OpToRel
<1> HIDE DEF R
<1>3. \E x \in S : \A y \in S : ~ (<<y, x>> \in R)
  BY <1>1, WFMin, Zenon
<1>4. PICK x \in S : \A y \in S : ~ (<<y, x>> \in R)
  BY <1>3
<1>5. \A y \in S : ~ (y < x)
  BY <1>2, <1>4
<1>6. \A y \in S : x <= y
  BY <1>5, SMT
<1>7. QED
  BY <1>6

LEMMA FirstIsLeast ==
    ASSUME NEW S, S \subseteq Nat, S # {}
    PROVE  First(S) \in S /\ \A j \in S : First(S) <= j
BY NatHasLeast DEF First

(* The account with an id is found at a position of the store. *)
LEMMA PositionOfId ==
    ASSUME NEW s \in Store, NEW id, Has(s, id)
    PROVE  /\ Position(s, id) \in 1..Len(s.accounts)
           /\ s.accounts[Position(s, id)].id = id
           /\ AccountAt(s, id) \in Account
           /\ AccountAt(s, id).id = id
<1>1. At(s, id) \subseteq Nat /\ At(s, id) # {}
  BY DEF At, Has, Store
<1>2. First(At(s, id)) \in At(s, id)
  BY <1>1, FirstIsLeast
<1>3. QED
  BY <1>2 DEF At, AccountAt, Position, Store

LEMMA ModRange ==
    ASSUME NEW k \in Nat, NEW n \in Nat, n > 0
    PROVE  k % n \in Nat /\ k % n < n
BY SMT

(***************************************************************************)
(* NormalizeStore touches the cursor only, and puts it into range.         *)
(***************************************************************************)
LEMMA NormalizeWellFormed ==
    ASSUME NEW s \in Store, AccountsOK(s)
    PROVE  NormalizeStore(s) \in Store /\ WellFormed(NormalizeStore(s))
<1>1. AccountsOK(NormalizeStore(s))
  BY DEF NormalizeStore, AccountsOK, UniqueIds, OneAccountPerOwner, OwnerIsFixed
<1>2. CASE s.accounts = << >>
  BY <1>1, <1>2 DEF NormalizeStore, Store, CursorInRange, WellFormed
<1>3. CASE s.accounts # << >>
  <2>1. Len(s.accounts) \in Nat /\ Len(s.accounts) > 0
    BY <1>3, EmptySeq, LenProperties DEF Store
  <2>2. /\ s.nextIndex % Len(s.accounts) \in Nat
        /\ s.nextIndex % Len(s.accounts) < Len(s.accounts)
    <3>1. s.nextIndex \in Nat
      BY DEF Store
    <3>2. QED
      BY <2>1, <3>1, ModRange
  <2>3. QED
    BY <1>1, <1>3, <2>2 DEF NormalizeStore, Store, CursorInRange, WellFormed
<1>4. QED
  BY <1>2, <1>3

(***************************************************************************)
(* Writing an account over one with the same id and the same owner: this   *)
(* is what SetEnabled, MarkResult, a refresh and a repeated login do.      *)
(***************************************************************************)
LEMMA PutKeepsOrder ==
    ASSUME NEW s \in Store, WellFormed(s),
           NEW i \in 1..Len(s.accounts), NEW a \in Account,
           a.id = s.accounts[i].id, SameOwner(a.cred, s.accounts[i].cred)
    PROVE  Put(s, i, a) \in Store /\ WellFormed(Put(s, i, a))
<1> DEFINE q == s.accounts
           r == [q EXCEPT ![i] = a]
<1>1. q \in Seq(Account) /\ s.nextIndex \in Nat
  BY DEF Store
<1>2. r \in Seq(Account) /\ Len(r) = Len(q)
  BY <1>1
<1>3. \A j \in 1..Len(q) : r[j] = IF j = i THEN a ELSE q[j]
  BY <1>1
<1>4. Put(s, i, a).accounts = r /\ Put(s, i, a).nextIndex = s.nextIndex
  BY DEF Put
<1>5. Put(s, i, a) \in Store
  BY <1>1, <1>2 DEF Put, Store
<1>6. \A j \in 1..Len(q) : r[j].id = q[j].id /\ SameOwner(r[j].cred, q[j].cred)
  BY <1>3 DEF SameOwner
<1>7. AccountsOK(Put(s, i, a))
  <2> HIDE DEF r
  <2>1. UniqueIds(Put(s, i, a))
    BY <1>2, <1>4, <1>6 DEF WellFormed, AccountsOK, UniqueIds
  <2>2. OneAccountPerOwner(Put(s, i, a))
    BY <1>2, <1>4, <1>6 DEF WellFormed, AccountsOK, OneAccountPerOwner, SameOwner
  <2>3. OwnerIsFixed(Put(s, i, a))
    BY <1>2, <1>4, <1>6 DEF WellFormed, AccountsOK, OwnerIsFixed, SameOwner
  <2>4. QED
    BY <2>1, <2>2, <2>3 DEF AccountsOK
<1>8. CursorInRange(Put(s, i, a))
  <2>1. q # << >> /\ r # << >>
    BY <1>1, <1>2
  <2>2. QED
    BY <1>2, <1>4, <2>1 DEF WellFormed, CursorInRange
<1>9. QED
  BY <1>5, <1>7, <1>8 DEF WellFormed

-----------------------------------------------------------------------------
(* The operations.                                                         *)

LEMMA SetEnabledWellFormed ==
    ASSUME NEW s \in Store, WellFormed(s), NEW id, Has(s, id),
           NEW enabled \in BOOLEAN
    PROVE  SetEnabled(s, id, enabled) \in Store
           /\ WellFormed(SetEnabled(s, id, enabled))
<1> DEFINE a == [AccountAt(s, id) EXCEPT !.enabled = enabled]
<1>1. AccountAt(s, id) \in Account
  BY PositionOfId
<1>2. a \in Account /\ a.id = AccountAt(s, id).id /\ a.cred = AccountAt(s, id).cred
  BY <1>1 DEF Account
<1>3. QED
  BY <1>2, PositionOfId, PutKeepsOrder DEF SetEnabled, AccountAt, SameOwner

LEMMA MarkResultWellFormed ==
    ASSUME NEW s \in Store, WellFormed(s), NEW id, Has(s, id),
           NEW ok \in BOOLEAN, NEW now \in Nat, NEW cooldown \in Nat
    PROVE  MarkResult(s, id, ok, now, cooldown) \in Store
           /\ WellFormed(MarkResult(s, id, ok, now, cooldown))
<1> DEFINE a == AccountAt(s, id)
           good(n, t) == [a EXCEPT !.success = n, !.cooldownUntil = t]
           bad(n, t) == [a EXCEPT !.failed = n, !.cooldownUntil = t]
<1>1. a \in Account
  BY PositionOfId
<1>2. /\ Position(s, id) \in 1..Len(s.accounts)
      /\ a = s.accounts[Position(s, id)]
  BY PositionOfId DEF AccountAt
<1> HIDE DEF a
<1>3. ASSUME NEW n \in Nat, NEW t \in Nat
      PROVE  good(n, t) \in Account /\ good(n, t).id = a.id /\ good(n, t).cred = a.cred
  BY <1>1, Zenon DEF Account
<1>4. ASSUME NEW n \in Nat, NEW t \in Nat
      PROVE  bad(n, t) \in Account /\ bad(n, t).id = a.id /\ bad(n, t).cred = a.cred
  BY <1>1, Zenon DEF Account
<1>5. /\ a.cooldownUntil \in Nat /\ now + cooldown \in Nat
      /\ a.success + 1 \in Nat /\ a.failed + 1 \in Nat
  BY <1>1 DEF Account
<1>6. PICK b \in Account :
          /\ b.id = a.id /\ b.cred = a.cred
          /\ MarkResult(s, id, ok, now, cooldown) = Put(s, Position(s, id), b)
  <2>1. CASE ok
    <3>1. MarkResult(s, id, ok, now, cooldown)
            = Put(s, Position(s, id), good(a.success + 1, 0))
      BY <2>1 DEF MarkResult, a
    <3> HIDE DEF good
    <3>2. QED
      BY <3>1, <1>3, <1>5
  <2>2. CASE ~ok
    <3> DEFINE u == IF cooldown > 0 THEN now + cooldown ELSE a.cooldownUntil
    <3>1. MarkResult(s, id, ok, now, cooldown)
            = Put(s, Position(s, id), bad(a.failed + 1, u))
      BY <2>2 DEF MarkResult, a
    <3>2. u \in Nat
      BY <1>5
    <3> HIDE DEF u, bad
    <3>3. QED
      BY <3>1, <3>2, <1>4, <1>5
  <2>3. QED
    BY <2>1, <2>2
<1>7. QED
  BY <1>2, <1>6, PutKeepsOrder DEF SameOwner

(* The caller's copy may be stale in everything but the id and the owner. *)
LEMMA ReplaceWellFormed ==
    ASSUME NEW s \in Store, WellFormed(s), NEW a \in Account, Has(s, a.id),
           SameOwner(a.id, a.cred)
    PROVE  ReplaceAccount(s, a) \in Store /\ WellFormed(ReplaceAccount(s, a))
<1> DEFINE i == Position(s, a.id)
<1>1. i \in 1..Len(s.accounts) /\ s.accounts[i].id = a.id
  BY PositionOfId
<1>2. SameOwner(a.cred, s.accounts[i].cred)
  BY <1>1 DEF WellFormed, AccountsOK, OwnerIsFixed, SameOwner
<1>3. Put(s, i, a) \in Store /\ WellFormed(Put(s, i, a))
  BY <1>1, <1>2, PutKeepsOrder
<1>4. QED
  BY <1>3, NormalizeWellFormed DEF ReplaceAccount, WellFormed

LEMMA SelectWellFormed ==
    ASSUME NEW s \in Store, WellFormed(s), NEW i \in 1..Len(s.accounts)
    PROVE  AfterSelect(s, i) \in Store /\ WellFormed(AfterSelect(s, i))
<1>1. Len(s.accounts) \in Nat /\ Len(s.accounts) > 0 /\ i \in Nat
  BY DEF Store
<1>2. i % Len(s.accounts) \in Nat /\ i % Len(s.accounts) < Len(s.accounts)
  BY <1>1, ModRange
<1>3. s.accounts # << >>
  BY <1>1
<1>4. QED
  BY <1>2, <1>3 DEF AfterSelect, Store, WellFormed, AccountsOK, UniqueIds,
                    OneAccountPerOwner, OwnerIsFixed, CursorInRange

(* An account taken from a well formed store, as a caller holds it. *)
LEMMA CopyOfAccount ==
    ASSUME NEW s \in Store, WellFormed(s), NEW i \in 1..Len(s.accounts)
    PROVE  /\ s.accounts[i] \in Account
           /\ SameOwner(s.accounts[i].id, s.accounts[i].cred)
BY DEF Store, WellFormed, AccountsOK, OwnerIsFixed

(* Select finds an account whenever one is eligible, and finds one of those. *)
LEMMA ChosenInStore ==
    ASSUME NEW s \in Store, NEW site, NEW exclude, NEW t \in Nat,
           Eligible(s, site, exclude) # {}
    PROVE  /\ Chosen(s, site, exclude, t) \in 1..Len(s.accounts)
           /\ \E k \in Eligible(s, site, exclude) :
                  Chosen(s, site, exclude, t) = Index(s, k)
<1> DEFINE E == Eligible(s, site, exclude)
           cool(k) == s.accounts[Index(s, k)].cooldownUntil
           S == {cool(k) : k \in E}
<1>1. Len(s.accounts) \in Nat /\ Len(s.accounts) > 0 /\ s.nextIndex \in Nat
  BY DEF Eligible, Store
<1>2. ASSUME NEW k \in 0..(Len(s.accounts) - 1)
      PROVE  Index(s, k) \in 1..Len(s.accounts)
  <2>1. s.nextIndex + k \in Nat
    BY <1>1
  <2>2. /\ (s.nextIndex + k) % Len(s.accounts) \in Nat
        /\ (s.nextIndex + k) % Len(s.accounts) < Len(s.accounts)
    BY <1>1, <2>1, ModRange
  <2>3. QED
    BY <1>1, <2>2 DEF Index
<1>3. E \subseteq 0..(Len(s.accounts) - 1)
  BY DEF Eligible
<1>4. ASSUME NEW k \in E PROVE cool(k) \in Nat
  <2>1. Index(s, k) \in 1..Len(s.accounts)
    BY <1>2, <1>3
  <2>2. s.accounts[Index(s, k)] \in Account
    BY <2>1 DEF Store
  <2>3. QED
    BY <2>2 DEF Account
<1>5. Soonest(s, site, exclude) # {}
  <2> HIDE DEF cool
  <2>1. S \subseteq Nat /\ S # {}
    BY <1>4
  <2>2. PICK m \in S : \A x \in S : m <= x
    BY <2>1, NatHasLeast
  <2>3. PICK k \in E : m = cool(k)
    BY <2>2
  <2>4. \A j \in E : cool(k) <= cool(j)
    BY <2>2, <2>3
  <2>5. k \in Soonest(s, site, exclude)
    BY <2>3, <2>4 DEF Soonest, cool
  <2>6. QED
    BY <2>5
<1> DEFINE C == IF Ready(s, site, exclude, t) # {}
                THEN Ready(s, site, exclude, t) ELSE Soonest(s, site, exclude)
<1>6. C \subseteq E /\ C # {}
  BY <1>5 DEF Ready, Soonest
<1>7. First(C) \in C
  <2>1. C \subseteq Nat
    BY <1>3, <1>6
  <2> HIDE DEF C
  <2>2. QED
    BY <1>6, <2>1, FirstIsLeast
<1>8. First(C) \in 0..(Len(s.accounts) - 1)
  BY <1>3, <1>6, <1>7
<1>9. Chosen(s, site, exclude, t) = Index(s, First(C))
  BY DEF Chosen
<1> HIDE DEF C
<1>10. First(C) \in E
  BY <1>6, <1>7
<1>11. QED
  BY <1>2, <1>8, <1>9, <1>10

(* What the caller may rely on. *)
LEMMA ChosenIsEligible ==
    ASSUME NEW s \in Store, NEW site, NEW exclude, NEW t \in Nat,
           Eligible(s, site, exclude) # {}
    PROVE  LET a == s.accounts[Chosen(s, site, exclude, t)]
           IN  a.enabled /\ SiteOf[a.cred] = site /\ a.id \notin exclude
<1>1. PICK k \in Eligible(s, site, exclude) : Chosen(s, site, exclude, t) = Index(s, k)
  BY ChosenInStore
<1>2. QED
  BY <1>1, Zenon DEF Eligible

(* A refreshed account is an account of the same id, with the new credential. *)
LEMMA RefreshedAccount ==
    ASSUME NEW a \in Account, NEW c \in Creds
    PROVE  /\ Refreshed(a, c) \in Account
           /\ Refreshed(a, c).id = a.id /\ Refreshed(a, c).cred = c
BY Zenon, 0 \in Nat DEF Account, Refreshed

LEMMA WithoutElement ==
    ASSUME NEW T, NEW q \in Seq(T), NEW i \in 1..Len(q)
    PROVE  /\ Without(q, i) \in Seq(T)
           /\ Len(Without(q, i)) = Len(q) - 1
           /\ \A j \in 1..(Len(q) - 1) :
                  Without(q, i)[j] = q[IF j < i THEN j ELSE j + 1]
<1> DEFINE front == SubSeq(q, 1, i - 1)
           back  == SubSeq(q, i + 1, Len(q))
<1>1. /\ front \in Seq(T) /\ Len(front) = i - 1
      /\ \A j \in 1..(i - 1) : front[j] = q[j]
  BY SubSeqProperties
<1>2. /\ back \in Seq(T) /\ Len(back) = Len(q) - i
      /\ \A j \in 1..(Len(q) - i) : back[j] = q[i + j]
  BY SubSeqProperties
<1>3. Without(q, i) = front \o back
  BY DEF Without
<1> HIDE DEF front, back
<1>4. Len(q) \in Nat /\ i \in Nat
  OBVIOUS
<1>5. /\ front \o back \in Seq(T)
      /\ Len(front \o back) = Len(front) + Len(back)
      /\ \A j \in 1..(Len(front) + Len(back)) :
             (front \o back)[j] = IF j <= Len(front) THEN front[j]
                                  ELSE back[j - Len(front)]
  BY <1>1, <1>2, ConcatProperties
<1>6. Len(front) + Len(back) = Len(q) - 1
  BY <1>1, <1>2, <1>4
<1>7. ASSUME NEW j \in 1..(Len(q) - 1)
      PROVE  (front \o back)[j] = q[IF j < i THEN j ELSE j + 1]
  <2>1. CASE j < i
    <3>1. j <= Len(front) /\ j \in 1..(i - 1)
      BY <1>1, <1>4, <2>1
    <3>2. (front \o back)[j] = front[j]
      BY <1>5, <1>6, <3>1
    <3>3. QED
      BY <1>1, <2>1, <3>1, <3>2
  <2>2. CASE ~(j < i)
    <3>1. ~(j <= Len(front)) /\ j - Len(front) = j - i + 1
      BY <1>1, <1>4, <2>2
    <3>2. (front \o back)[j] = back[j - i + 1]
      BY <1>5, <1>6, <3>1
    <3>3. j - i + 1 \in 1..(Len(q) - i) /\ i + (j - i + 1) = j + 1
      BY <1>4, <2>2
    <3>4. QED
      BY <1>2, <2>2, <3>2, <3>3
  <2>3. QED
    BY <2>1, <2>2
<1>8. QED
  BY <1>3, <1>5, <1>6, <1>7

LEMMA DeleteWellFormed ==
    ASSUME NEW s \in Store, WellFormed(s), NEW id, Has(s, id)
    PROVE  Delete(s, id) \in Store /\ WellFormed(Delete(s, id))
<1> DEFINE i == Position(s, id)
           r == Without(s.accounts, i)
           t == [nextIndex |-> s.nextIndex, accounts |-> r]
           f(j) == IF j < i THEN j ELSE j + 1
<1>1. s.accounts \in Seq(Account) /\ i \in 1..Len(s.accounts)
  BY PositionOfId DEF Store
<1>2. /\ r \in Seq(Account) /\ Len(r) = Len(s.accounts) - 1
      /\ \A j \in 1..Len(r) : r[j] = s.accounts[f(j)]
  BY <1>1, WithoutElement
<1>3. \A j, k \in 1..Len(r) :
          f(j) \in 1..Len(s.accounts) /\ (f(j) = f(k) => j = k)
  BY <1>1, <1>2
<1> HIDE DEF i, r, f
<1>4. t \in Store /\ t.accounts = r
  BY <1>2 DEF Store
<1> HIDE DEF t
<1>5. AccountsOK(t)
  <2>1. UniqueIds(t)
    <3>1. SUFFICES ASSUME NEW j \in 1..Len(r), NEW k \in 1..Len(r),
                          r[j].id = r[k].id
                   PROVE  j = k
      BY <1>4 DEF UniqueIds
    <3>2. r[j] = s.accounts[f(j)] /\ r[k] = s.accounts[f(k)]
      BY <1>2
    <3>3. f(j) \in 1..Len(s.accounts) /\ f(k) \in 1..Len(s.accounts)
      BY <1>3
    <3>4. f(j) = f(k)
      BY <3>1, <3>2, <3>3, Zenon DEF WellFormed, AccountsOK, UniqueIds
    <3>5. QED
      BY <1>3, <3>4
  <2>2. OneAccountPerOwner(t)
    <3>1. SUFFICES ASSUME NEW j \in 1..Len(r), NEW k \in 1..Len(r),
                          UserOf[r[j].cred] # NoUser,
                          SameOwner(r[j].cred, r[k].cred)
                   PROVE  j = k
      BY <1>4 DEF OneAccountPerOwner
    <3>2. r[j] = s.accounts[f(j)] /\ r[k] = s.accounts[f(k)]
      BY <1>2
    <3>3. f(j) \in 1..Len(s.accounts) /\ f(k) \in 1..Len(s.accounts)
      BY <1>3
    <3>4. f(j) = f(k)
      BY <3>1, <3>2, <3>3, Zenon DEF WellFormed, AccountsOK, OneAccountPerOwner
    <3>5. QED
      BY <1>3, <3>4
  <2>3. OwnerIsFixed(t)
    BY <1>2, <1>3, <1>4 DEF WellFormed, AccountsOK, OwnerIsFixed
  <2>4. QED
    BY <2>1, <2>2, <2>3 DEF AccountsOK
<1>6. QED
  BY <1>4, <1>5, NormalizeWellFormed DEF Delete, t, r, i

LEMMA UpsertWellFormed ==
    ASSUME NEW s \in Store, WellFormed(s), NEW c \in Creds
    PROVE  Upsert(s, c) \in Store /\ WellFormed(Upsert(s, c))
<1>1. CASE Hits(s, c) = {}
  <2> DEFINE r == Append(s.accounts, CreateAccount(c))
             t == [nextIndex |-> s.nextIndex, accounts |-> r]
  <2>1. CreateAccount(c) \in Account
    BY DEF CreateAccount, Account
  <2>2. /\ r \in Seq(Account) /\ Len(r) = Len(s.accounts) + 1
        /\ Len(s.accounts) \in Nat
        /\ \A j \in 1..Len(s.accounts) : r[j] = s.accounts[j]
        /\ r[Len(r)] = CreateAccount(c)
    BY <2>1, AppendProperties DEF Store
  <2>3. \A j \in 1..Len(s.accounts) : ~Matches(s.accounts[j], c)
    BY <1>1 DEF Hits
  <2>4. CreateAccount(c).id = c /\ CreateAccount(c).cred = c
    BY DEF CreateAccount
  <2> HIDE DEF r
  <2>5. t \in Store /\ t.accounts = r
    BY <2>2 DEF Store
  <2>6. UniqueIds(t)
    <3>1. \A j, k \in 1..Len(s.accounts) :
              s.accounts[j].id = s.accounts[k].id => j = k
      BY DEF WellFormed, AccountsOK, UniqueIds
    <3>2. \A j \in 1..Len(s.accounts) : s.accounts[j].id # c
      BY <2>3 DEF Matches
    <3> SUFFICES ASSUME NEW j \in 1..Len(r), NEW k \in 1..Len(r), r[j].id = r[k].id
                 PROVE  j = k
      BY <2>5 DEF UniqueIds
    <3>3. CASE j = Len(r) \/ k = Len(r)
      BY <2>2, <2>4, <3>2, <3>3
    <3>4. CASE j # Len(r) /\ k # Len(r)
      <4>1. j \in 1..Len(s.accounts) /\ k \in 1..Len(s.accounts)
        BY <2>2, <3>4
      <4>2. r[j] = s.accounts[j] /\ r[k] = s.accounts[k]
        BY <2>2, <4>1
      <4> QED
        BY <3>1, <4>1, <4>2
    <3>5. QED
      BY <3>3, <3>4
  <2>7. OneAccountPerOwner(t)
    <3>1. SUFFICES ASSUME NEW j \in 1..Len(r), NEW k \in 1..Len(r),
                          UserOf[r[j].cred] # NoUser,
                          SameOwner(r[j].cred, r[k].cred)
                   PROVE  j = k
      BY <2>5 DEF OneAccountPerOwner
    <3>2. CASE j = Len(r) /\ k # Len(r)
      <4>1. k \in 1..Len(s.accounts) /\ r[k] = s.accounts[k]
        BY <2>2, <3>2
      <4>2. r[j].cred = c
        BY <2>2, <2>4, <3>2
      <4>3. UserOf[c] # NoUser /\ SameOwner(s.accounts[k].cred, c)
        BY <3>1, <4>1, <4>2 DEF SameOwner
      <4> QED
        BY <2>3, <4>1, <4>3 DEF Matches
    <3>3. CASE j # Len(r) /\ k = Len(r)
      <4>1. j \in 1..Len(s.accounts) /\ r[j] = s.accounts[j]
        BY <2>2, <3>3
      <4>2. r[k].cred = c
        BY <2>2, <2>4, <3>3
      <4>3. UserOf[c] # NoUser /\ SameOwner(s.accounts[j].cred, c)
        BY <3>1, <4>1, <4>2 DEF SameOwner
      <4> QED
        BY <2>3, <4>1, <4>3 DEF Matches
    <3>4. CASE j # Len(r) /\ k # Len(r)
      <4>1. j \in 1..Len(s.accounts) /\ k \in 1..Len(s.accounts)
        BY <2>2, <3>4
      <4>2. r[j] = s.accounts[j] /\ r[k] = s.accounts[k]
        BY <2>2, <4>1
      <4>3. QED
        BY <3>1, <4>1, <4>2, Zenon DEF WellFormed, AccountsOK, OneAccountPerOwner
    <3>5. QED
      BY <3>2, <3>3, <3>4
  <2>8. OwnerIsFixed(t)
    <3>1. SUFFICES ASSUME NEW j \in 1..Len(r) PROVE SameOwner(r[j].id, r[j].cred)
      BY <2>5 DEF OwnerIsFixed
    <3>2. CASE j = Len(r)
      BY <2>2, <2>4, <3>2 DEF SameOwner
    <3>3. CASE j # Len(r)
      <4>1. j \in 1..Len(s.accounts) /\ r[j] = s.accounts[j]
        BY <2>2, <3>3
      <4> QED
        BY <4>1 DEF WellFormed, AccountsOK, OwnerIsFixed
    <3>4. QED
      BY <3>2, <3>3
  <2>9. Upsert(s, c) = NormalizeStore(t)
    BY <1>1 DEF Upsert, r
  <2>10. QED
    BY <2>5, <2>6, <2>7, <2>8, <2>9, NormalizeWellFormed DEF AccountsOK
<1>2. CASE Hits(s, c) # {}
  <2> DEFINE i == First(Hits(s, c))
             a == Relogged(s.accounts[i], c)
  <2>1. Hits(s, c) \subseteq Nat
    BY DEF Hits, Store
  <2>2. i \in Hits(s, c)
    BY <1>2, <2>1, FirstIsLeast
  <2>3. i \in 1..Len(s.accounts) /\ Matches(s.accounts[i], c)
    BY <2>2 DEF Hits
  <2>4. s.accounts[i] \in Account
    BY <2>3 DEF Store
  <2> HIDE DEF i
  <2>5. a \in Account /\ a.id = s.accounts[i].id /\ a.cred = c
    BY <2>4 DEF Relogged, Account
  <2>6. SameOwner(c, s.accounts[i].cred)
    BY <2>3 DEF Matches, SameOwner, WellFormed, AccountsOK, OwnerIsFixed
  <2>7. Put(s, i, a) \in Store /\ WellFormed(Put(s, i, a))
    BY <2>3, <2>5, <2>6, PutKeepsOrder
  <2>8. QED
    BY <1>2, <2>7, NormalizeWellFormed DEF Upsert, WellFormed, i
<1>3. QED
  BY <1>1, <1>2

-----------------------------------------------------------------------------
(* Ids of users.                                                           *)

(* The account of a user has the same id in both stores.                   *)
KeepsIds(s, t) ==
    \A i \in 1..Len(s.accounts), j \in 1..Len(t.accounts) :
        /\ UserOf[s.accounts[i].cred] # NoUser
        /\ SameOwner(s.accounts[i].cred, t.accounts[j].cred)
        => s.accounts[i].id = t.accounts[j].id

(* An account with the id and the owner of one of the store's.             *)
Known(s, b) ==
    \E i \in 1..Len(s.accounts) :
        b.id = s.accounts[i].id /\ SameOwner(b.cred, s.accounts[i].cred)

LEMMA KnownKeepsIds ==
    ASSUME NEW s \in Store, WellFormed(s), NEW t,
           \A j \in 1..Len(t.accounts) : Known(s, t.accounts[j])
    PROVE  KeepsIds(s, t)
<1> SUFFICES ASSUME NEW i \in 1..Len(s.accounts), NEW j \in 1..Len(t.accounts),
                    UserOf[s.accounts[i].cred] # NoUser,
                    SameOwner(s.accounts[i].cred, t.accounts[j].cred)
             PROVE  s.accounts[i].id = t.accounts[j].id
  BY DEF KeepsIds
<1>1. PICK k \in 1..Len(s.accounts) :
          /\ t.accounts[j].id = s.accounts[k].id
          /\ SameOwner(t.accounts[j].cred, s.accounts[k].cred)
  BY Zenon DEF Known
<1>2. SameOwner(s.accounts[i].cred, s.accounts[k].cred)
  BY <1>1 DEF SameOwner
<1>3. i = k
  BY <1>2, Zenon DEF WellFormed, AccountsOK, OneAccountPerOwner
<1>4. QED
  BY <1>1, <1>3

LEMMA SameAccountsKeepIds ==
    ASSUME NEW s \in Store, WellFormed(s), NEW t, t.accounts = s.accounts
    PROVE  KeepsIds(s, t)
<1>1. \A j \in 1..Len(t.accounts) : Known(s, t.accounts[j])
  BY DEF Known, SameOwner
<1>2. QED
  BY <1>1, KnownKeepsIds

LEMMA PutKeepsIds ==
    ASSUME NEW s \in Store, WellFormed(s), NEW i \in 1..Len(s.accounts), NEW a,
           a.id = s.accounts[i].id, SameOwner(a.cred, s.accounts[i].cred),
           NEW t, t.accounts = Put(s, i, a).accounts
    PROVE  KeepsIds(s, t)
<1>1. t.accounts = [s.accounts EXCEPT ![i] = a]
  BY DEF Put
<1>2. /\ Len(t.accounts) = Len(s.accounts)
      /\ \A j \in 1..Len(s.accounts) :
             t.accounts[j] = IF j = i THEN a ELSE s.accounts[j]
  BY <1>1 DEF Store
<1>3. \A j \in 1..Len(t.accounts) : Known(s, t.accounts[j])
  BY <1>2 DEF Known, SameOwner
<1>4. QED
  BY <1>3, KnownKeepsIds

LEMMA SetEnabledKeepsIds ==
    ASSUME NEW s \in Store, WellFormed(s), NEW id, Has(s, id), NEW enabled
    PROVE  KeepsIds(s, SetEnabled(s, id, enabled))
<1> DEFINE a == [AccountAt(s, id) EXCEPT !.enabled = enabled]
<1>1. AccountAt(s, id) \in Account /\ Position(s, id) \in 1..Len(s.accounts)
  BY PositionOfId
<1>2. a.id = AccountAt(s, id).id /\ a.cred = AccountAt(s, id).cred
  BY <1>1 DEF Account
<1>3. SetEnabled(s, id, enabled).accounts = Put(s, Position(s, id), a).accounts
  BY DEF SetEnabled
<1> HIDE DEF a
<1>4. QED
  BY <1>1, <1>2, <1>3, PutKeepsIds DEF AccountAt, SameOwner

LEMMA MarkResultKeepsIds ==
    ASSUME NEW s \in Store, WellFormed(s), NEW id, Has(s, id), NEW ok, NEW now,
           NEW cooldown
    PROVE  KeepsIds(s, MarkResult(s, id, ok, now, cooldown))
<1> DEFINE a == AccountAt(s, id)
           good(n) == [a EXCEPT !.success = n, !.cooldownUntil = 0]
           bad(n, t) == [a EXCEPT !.failed = n, !.cooldownUntil = t]
<1>1. a \in Account /\ Position(s, id) \in 1..Len(s.accounts)
      /\ a = s.accounts[Position(s, id)]
  BY PositionOfId DEF AccountAt
<1> HIDE DEF a
<1>2. \A n : good(n).id = a.id /\ good(n).cred = a.cred
  BY <1>1, Zenon DEF Account
<1>3. \A n, t : bad(n, t).id = a.id /\ bad(n, t).cred = a.cred
  BY <1>1, Zenon DEF Account
<1>4. CASE ok
  <2>1. MarkResult(s, id, ok, now, cooldown)
          = Put(s, Position(s, id), good(a.success + 1))
    BY <1>4 DEF MarkResult, a
  <2> HIDE DEF good
  <2>2. QED
    BY <1>1, <1>2, <2>1, PutKeepsIds DEF SameOwner
<1>5. CASE ~ok
  <2> DEFINE u == IF cooldown > 0 THEN now + cooldown ELSE a.cooldownUntil
  <2>1. MarkResult(s, id, ok, now, cooldown)
          = Put(s, Position(s, id), bad(a.failed + 1, u))
    BY <1>5 DEF MarkResult, a
  <2> HIDE DEF bad, u
  <2>2. QED
    BY <1>1, <1>3, <2>1, PutKeepsIds DEF SameOwner
<1>6. QED
  BY <1>4, <1>5

LEMMA ReplaceKeepsIds ==
    ASSUME NEW s \in Store, WellFormed(s), NEW a, Has(s, a.id),
           SameOwner(a.id, a.cred)
    PROVE  KeepsIds(s, ReplaceAccount(s, a))
<1>1. /\ Position(s, a.id) \in 1..Len(s.accounts)
      /\ s.accounts[Position(s, a.id)].id = a.id
  BY PositionOfId
<1>2. SameOwner(a.cred, s.accounts[Position(s, a.id)].cred)
  BY <1>1 DEF WellFormed, AccountsOK, OwnerIsFixed, SameOwner
<1>3. ReplaceAccount(s, a).accounts = Put(s, Position(s, a.id), a).accounts
  BY DEF ReplaceAccount, NormalizeStore
<1>4. QED
  BY <1>1, <1>2, <1>3, PutKeepsIds

LEMMA DeleteKeepsIds ==
    ASSUME NEW s \in Store, WellFormed(s), NEW id, Has(s, id)
    PROVE  KeepsIds(s, Delete(s, id))
<1> DEFINE r == Without(s.accounts, Position(s, id))
<1>1. s.accounts \in Seq(Account) /\ Position(s, id) \in 1..Len(s.accounts)
  BY PositionOfId DEF Store
<1>2. /\ Len(r) = Len(s.accounts) - 1
      /\ \A j \in 1..(Len(s.accounts) - 1) :
             r[j] = s.accounts[IF j < Position(s, id) THEN j ELSE j + 1]
  BY <1>1, WithoutElement
<1>3. Delete(s, id).accounts = r
  BY DEF Delete, NormalizeStore
<1> HIDE DEF r
<1>4. ASSUME NEW j \in 1..Len(r) PROVE Known(s, r[j])
  <2> DEFINE k == IF j < Position(s, id) THEN j ELSE j + 1
  <2>1. k \in 1..Len(s.accounts) /\ r[j] = s.accounts[k]
    BY <1>1, <1>2
  <2> HIDE DEF k
  <2>2. QED
    BY <2>1 DEF Known, SameOwner
<1>5. QED
  BY <1>3, <1>4, KnownKeepsIds

(* A login appends an account only when no account has its owner.          *)
LEMMA UpsertKeepsIds ==
    ASSUME NEW s \in Store, WellFormed(s), NEW c \in Creds
    PROVE  KeepsIds(s, Upsert(s, c))
<1>1. CASE Hits(s, c) = {}
  <2> DEFINE r == Append(s.accounts, CreateAccount(c))
  <2>1. Upsert(s, c).accounts = r
    BY <1>1 DEF Upsert, NormalizeStore
  <2>2. /\ Len(r) = Len(s.accounts) + 1 /\ Len(s.accounts) \in Nat
        /\ \A j \in 1..Len(s.accounts) : r[j] = s.accounts[j]
        /\ r[Len(r)] = CreateAccount(c)
    <3>1. CreateAccount(c) \in Account
      BY DEF CreateAccount, Account
    <3>2. QED
      BY <3>1, AppendProperties DEF Store
  <2> HIDE DEF r
  <2>3. SUFFICES ASSUME NEW i \in 1..Len(s.accounts), NEW j \in 1..Len(r),
                        UserOf[s.accounts[i].cred] # NoUser,
                        SameOwner(s.accounts[i].cred, r[j].cred)
                 PROVE  s.accounts[i].id = r[j].id
    BY <2>1 DEF KeepsIds
  <2>4. CASE j = Len(r)
    <3>1. r[j].cred = c
      BY <2>2, <2>4 DEF CreateAccount
    <3>2. Matches(s.accounts[i], c)
      BY <2>3, <3>1 DEF Matches, SameOwner
    <3>3. QED
      BY <1>1, <3>2 DEF Hits
  <2>5. CASE j # Len(r)
    <3>1. j \in 1..Len(s.accounts) /\ r[j] = s.accounts[j]
      BY <2>2, <2>5
    <3>2. i = j
      BY <2>3, <3>1, Zenon DEF WellFormed, AccountsOK, OneAccountPerOwner
    <3>3. QED
      BY <3>1, <3>2
  <2>6. QED
    BY <2>4, <2>5
<1>2. CASE Hits(s, c) # {}
  <2> DEFINE i == First(Hits(s, c))
             a == Relogged(s.accounts[i], c)
  <2>1. i \in Hits(s, c)
    <3>1. Hits(s, c) \subseteq Nat
      BY DEF Hits, Store
    <3>2. QED
      BY <1>2, <3>1, FirstIsLeast
  <2>2. i \in 1..Len(s.accounts) /\ Matches(s.accounts[i], c)
    BY <2>1 DEF Hits
  <2>3. s.accounts[i] \in Account
    BY <2>2 DEF Store
  <2>4. Upsert(s, c).accounts = Put(s, i, a).accounts
    BY <1>2 DEF Upsert, NormalizeStore
  <2> HIDE DEF i
  <2>5. a.id = s.accounts[i].id /\ a.cred = c
    BY <2>3 DEF Relogged, Account
  <2>6. SameOwner(c, s.accounts[i].cred)
    BY <2>2 DEF Matches, SameOwner, WellFormed, AccountsOK, OwnerIsFixed
  <2>7. QED
    BY <2>2, <2>4, <2>5, <2>6, PutKeepsIds
<1>3. QED
  BY <1>1, <1>2

-----------------------------------------------------------------------------
(* Rotation: the scan starts behind the account that was chosen last.      *)

LEMMA SmallMod ==
    ASSUME NEW n \in Nat, n > 0, NEW a \in Nat
    PROVE  /\ a < n => a % n = a
           /\ n <= a /\ a < 2 * n => a % n = a - n
<1>1. a < n => a % n = a
  BY SMT
<1>2. n <= a /\ a < 2 * n => a % n = a - n
  BY SMT
<1>3. QED
  BY <1>1, <1>2

(* After a selection at offset c, what was at offset k > c is at k - c - 1. *)
LEMMA OffsetsShift ==
    ASSUME NEW n \in Nat, n > 0, NEW x \in 0..(n - 1), NEW k \in 0..(n - 1),
           NEW c \in 0..(k - 1)
    PROVE  (((((x + c) % n) + 1) % n) + (k - c - 1)) % n = (x + k) % n
<1> DEFINE y == (((x + c) % n) + 1) % n
<1>1. y = IF x + c + 1 < n THEN x + c + 1 ELSE x + c + 1 - n
  <2>1. CASE x + c < n
    <3>1. (x + c) % n = x + c
      BY <2>1, SmallMod
    <3>2. CASE x + c + 1 < n
      BY <3>1, <3>2, SmallMod
    <3>3. CASE x + c + 1 = n
      <4>1. n % n = 0
        BY SmallMod
      <4>2. QED
        BY <3>1, <3>3, <4>1
    <3>4. QED
      BY <2>1, <3>2, <3>3
  <2>2. CASE n <= x + c
    <3>1. (x + c) % n = x + c - n
      BY <2>2, SmallMod
    <3>2. x + c - n + 1 \in Nat /\ x + c - n + 1 < n
      BY <2>2
    <3>3. (x + c - n + 1) % n = x + c - n + 1
      BY <3>2, SmallMod
    <3>4. QED
      BY <2>2, <3>1, <3>3
  <2>3. QED
    BY <2>1, <2>2
<1> HIDE DEF y
<1>2. CASE x + c + 1 < n
  <2>1. y + (k - c - 1) = x + k
    BY <1>1, <1>2
  <2>2. QED
    BY <2>1 DEF y
<1>3. CASE ~(x + c + 1 < n)
  <2>1. y + (k - c - 1) = x + k - n /\ n <= x + k /\ x + k < 2 * n
    BY <1>1, <1>3
  <2>2. (x + k) % n = x + k - n
    BY <2>1, SmallMod
  <2>3. x + k - n \in Nat /\ x + k - n < n
    BY <2>1
  <2>4. (x + k - n) % n = x + k - n
    BY <2>3, SmallMod
  <2>5. QED
    BY <2>1, <2>2, <2>4 DEF y
<1>4. QED
  BY <1>2, <1>3

(* Every position is met by the scan. *)
LEMMA OffsetOfPosition ==
    ASSUME NEW n \in Nat, n > 0, NEW x \in 0..(n - 1), NEW p \in 1..n
    PROVE  \E k \in 0..(n - 1) : ((x + k) % n) + 1 = p
<1>1. CASE x <= p - 1
  <2> DEFINE k == p - 1 - x
  <2>1. k \in 0..(n - 1) /\ x + k = p - 1
    BY <1>1
  <2>2. (p - 1) % n = p - 1
    BY SmallMod
  <2> HIDE DEF k
  <2>3. ((x + k) % n) + 1 = p
    BY <2>1, <2>2
  <2>4. QED
    BY <2>1, <2>3
<1>2. CASE ~(x <= p - 1)
  <2> DEFINE k == p - 1 - x + n
  <2>1. k \in 0..(n - 1) /\ x + k = p - 1 + n
    BY <1>2
  <2>2. (p - 1 + n) % n = p - 1
    BY SmallMod
  <2> HIDE DEF k
  <2>3. ((x + k) % n) + 1 = p
    BY <2>1, <2>2
  <2>4. QED
    BY <2>1, <2>3
<1>3. QED
  BY <1>1, <1>2

ReadyAt(s, p, site, exclude, now) ==
    LET a == s.accounts[p]
    IN  a.enabled /\ SiteOf[a.cred] = site /\ a.id \notin exclude /\ ~InCooldown(a, now)

(* Selection passes over no account that is ready: it chooses it, or       *)
(* something before it, so that it is nearer to the cursor afterwards.     *)
LEMMA ReadyComesNearer ==
    ASSUME NEW s \in Store, CursorInRange(s), NEW site, NEW exclude, NEW now,
           NEW k \in 0..(Len(s.accounts) - 1), ReadyAt(s, Index(s, k), site, exclude, now),
           Chosen(s, site, exclude, now) # Index(s, k)
    PROVE  \E c \in 0..(k - 1) :
               Index(AfterSelect(s, Chosen(s, site, exclude, now)), k - c - 1) = Index(s, k)
<1> DEFINE n == Len(s.accounts)
           R == Ready(s, site, exclude, now)
           c == First(R)
<1>1. n \in Nat /\ n > 0
  BY DEF Store
<1>2. s.nextIndex \in 0..(n - 1)
  BY <1>1 DEF CursorInRange, Store
<1>3. k \in R
  BY DEF Ready, Eligible, ReadyAt
<1>4. R \subseteq 0..(n - 1)
  BY DEF Ready, Eligible
<1>5. Chosen(s, site, exclude, now) = Index(s, c)
  BY <1>3 DEF Chosen
<1> HIDE DEF R
<1>6. c \in R /\ c <= k
  <2>1. R \subseteq Nat /\ R # {}
    BY <1>1, <1>3, <1>4
  <2>2. QED
    BY <1>3, <2>1, FirstIsLeast
<1>7. c \in 0..(n - 1) /\ c # k
  BY <1>4, <1>5, <1>6
<1> HIDE DEF c
<1>8. c \in 0..(k - 1)
  BY <1>6, <1>7
<1> DEFINE u == AfterSelect(s, Index(s, c))
<1>9. u.nextIndex = (((s.nextIndex + c) % n) + 1) % n /\ Len(u.accounts) = n
  BY DEF AfterSelect, Index
<1>10. (u.nextIndex + (k - c - 1)) % n = (s.nextIndex + k) % n
  BY <1>1, <1>2, <1>8, <1>9, OffsetsShift
<1> HIDE DEF n
<1>11. Index(u, k - c - 1) = Index(s, k)
  BY <1>9, <1>10 DEF Index, n
<1>12. QED
  BY <1>5, <1>8, <1>11

(***************************************************************************)
(* Round robin: of n selections one chooses the account at position p, if  *)
(* it is ready for each of them and no account is added or removed         *)
(* meanwhile.  Between selections accounts may be marked, cooled, disabled *)
(* or refreshed, and each selection may exclude what its request has tried *)
(* (pool.go:496-521).  Selections for another region share the cursor: the *)
(* account is not ready for them, and they may move it past.               *)
(***************************************************************************)
THEOREM ReadyAccountsTakeTurns ==
    ASSUME NEW n \in Nat, NEW p \in 1..n, NEW site, NEW exclude, NEW now, NEW store,
           \A m \in 0..(n - 1) :
               /\ store[m] \in Store /\ CursorInRange(store[m])
               /\ Len(store[m].accounts) = n
               /\ ReadyAt(store[m], p, site, exclude[m], now[m]),
           \A m \in 0..(n - 2) :
               store[m + 1].nextIndex
                   = AfterSelect(store[m],
                                 Chosen(store[m], site, exclude[m], now[m])).nextIndex
    PROVE  \E m \in 0..(n - 1) : Chosen(store[m], site, exclude[m], now[m]) = p
<1> DEFINE choice(m) == Chosen(store[m], site, exclude[m], now[m])
           near(m) == \E k \in 0..(n - 1 - m) : Index(store[m], k) = p
<1>1. SUFFICES ASSUME \A m \in 0..(n - 1) : choice(m) # p PROVE FALSE
  OBVIOUS
<1>2. n > 0 /\ \A m \in 0..(n - 1) : store[m].nextIndex \in 0..(n - 1)
  <2>1. n > 0
    OBVIOUS
  <2>2. ASSUME NEW m \in 0..(n - 1) PROVE store[m].nextIndex \in 0..(n - 1)
    <3>1. store[m].accounts # << >> /\ store[m].nextIndex \in Nat
      BY <2>1 DEF Store
    <3>2. QED
      BY <3>1 DEF CursorInRange
  <2>3. QED
    BY <2>1, <2>2
(* At every selection the account is nearer than at the one before. *)
<1>3. ASSUME NEW m \in 0..(n - 1), NEW k \in 0..(n - 1 - m), Index(store[m], k) = p
      PROVE  \E c \in 0..(k - 1) :
                 Index(AfterSelect(store[m], choice(m)), k - c - 1) = p
  <2>1. choice(m) # p /\ k \in 0..(n - 1)
    BY <1>1
  <2>2. store[m] \in Store /\ CursorInRange(store[m]) /\ Len(store[m].accounts) = n
        /\ ReadyAt(store[m], Index(store[m], k), site, exclude[m], now[m])
    BY <1>3
  <2> DEFINE s == store[m]
  <2> HIDE DEF s
  <2>3. \E c \in 0..(k - 1) :
           Index(AfterSelect(s, Chosen(s, site, exclude[m], now[m])), k - c - 1) = Index(s, k)
    <3>1. Chosen(s, site, exclude[m], now[m]) # Index(s, k)
      BY <1>3, <2>1 DEF s
    <3>2. k \in 0..(Len(s.accounts) - 1)
      BY <2>1, <2>2 DEF s
    <3>3. s \in Store /\ CursorInRange(s)
          /\ ReadyAt(s, Index(s, k), site, exclude[m], now[m])
      BY <2>2 DEF s
    <3>4. QED
      BY <3>1, <3>2, <3>3, ReadyComesNearer
  <2>4. QED
    BY <1>3, <2>3 DEF s
<1>4. ASSUME NEW m \in 0..(n - 2), near(m) PROVE near(m + 1)
  <2>1. PICK k \in 0..(n - 1 - m) : Index(store[m], k) = p
    BY <1>4
  <2>2. m \in 0..(n - 1) /\ m + 1 \in 0..(n - 1)
    OBVIOUS
  <2>3. PICK c \in 0..(k - 1) : Index(AfterSelect(store[m], choice(m)), k - c - 1) = p
    BY <1>3, <2>1, <2>2
  <2>4. Index(store[m + 1], k - c - 1) = p
    <3>1. store[m + 1].nextIndex = AfterSelect(store[m], choice(m)).nextIndex
      OBVIOUS
    <3>2. Len(store[m + 1].accounts) = n
          /\ Len(AfterSelect(store[m], choice(m)).accounts) = n
      BY <2>2 DEF AfterSelect
    <3> HIDE DEF choice
    <3>3. QED
      BY <2>3, <3>1, <3>2 DEF Index
  <2>5. k - c - 1 \in 0..(n - 1 - (m + 1))
    BY <2>1, <2>3
  <2>6. QED
    BY <2>4, <2>5
<1>5. near(0)
  <2>1. 0 \in 0..(n - 1)
    BY <1>2
  <2>2. PICK k \in 0..(n - 1) : ((store[0].nextIndex + k) % n) + 1 = p
    BY <1>2, <2>1, OffsetOfPosition
  <2>3. Index(store[0], k) = p
    BY <2>1, <2>2 DEF Index
  <2>4. QED
    BY <2>2, <2>3
<1> HIDE DEF near
(* A selection before which it is not would have a first one. *)
<1>6. near(n - 1)
  <2> DEFINE S == {m \in 0..(n - 1) : ~near(m)}
  <2>1. CASE S = {}
    BY <1>2, <2>1
  <2>2. CASE S # {}
    <3>1. PICK m \in S : \A j \in S : m <= j
      <4>1. S \subseteq Nat
        BY <1>2
      <4> HIDE DEF S
      <4>2. QED
        BY <2>2, <4>1, NatHasLeast
    <3>2. m # 0
      BY <1>5, <3>1
    <3>3. m - 1 \in 0..(n - 2) /\ (m - 1) + 1 = m
      BY <3>1, <3>2
    <3>4. near(m - 1)
      BY <3>1, <3>3
    <3>5. QED
      BY <1>4, <3>1, <3>3, <3>4
  <2>3. QED
    BY <2>1, <2>2
<1>7. PICK k \in 0..(n - 1 - (n - 1)) : Index(store[n - 1], k) = p
  BY <1>6 DEF near
<1>8. n - 1 \in 0..(n - 1)
  BY <1>2
<1>9. 0..(k - 1) = {}
  BY <1>7
<1>10. QED
  BY <1>3, <1>7, <1>8, <1>9
=============================================================================
