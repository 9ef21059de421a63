------------------------- MODULE AccountPoolProofs -------------------------
(***************************************************************************)
(* Safety of the account pool for every number of callers, credentials,    *)
(* failures, kills and changes of memory.                                  *)
(***************************************************************************)
EXTENDS AccountPool, PoolStoreProofs

-----------------------------------------------------------------------------
(* Facts about the parts of the state.                                     *)

LEMMA ProcTypes ==
    /\ Callers \subseteq Procs /\ Loop \in Procs /\ Closer \in Procs
    /\ Loop \notin Callers /\ Closer \notin Callers /\ Loop # Closer
    /\ None \notin Procs
BY ProcsAssumption DEF Procs

LEMMA AfterIsPhase ==
    ASSUME NEW p \in Procs
    PROVE  After(p) \in {"exited", "select", "closed", "idle"}
BY DEF After

LEMMA EmptyStoreWellFormed == EmptyStore \in Store /\ WellFormed(EmptyStore)
<1>1. << >> \in Seq(Account) /\ Len(<< >>) = 0
  BY EmptySeq
<1>2. EmptyStore \in Store
  BY <1>1 DEF EmptyStore, Store
<1>3. 1..0 = {}
  BY SMT
<1>4. QED
  BY <1>1, <1>2, <1>3 DEF EmptyStore, WellFormed, AccountsOK, UniqueIds,
                          OneAccountPerOwner, OwnerIsFixed, CursorInRange

(* What an operation finds in memory, or loads into it, is well formed. *)
LEMMA StoreNowWellFormed ==
    ASSUME StoresInv
    PROVE  /\ StoreNow \in Store /\ WellFormed(StoreNow)
           /\ disk \in Snapshot /\ disk.store \in Store /\ WellFormed(disk.store)
BY DEF StoresInv, TypeOK, WellFormedStores, DiskIsWhole, StoreNow, Snapshot

-----------------------------------------------------------------------------
(* The three kinds of step that touch memory keep the stores well formed.  *)

(* A caller puts a copy of an account aside, or forgets it. *)
LEMMA HeldStep ==
    ASSUME StoresInv, NEW p \in Callers, NEW x \in Account \cup {None},
           x # None => SameOwner(x.id, x.cred),
           held' = [held EXCEPT ![p] = x]
    PROVE  held' \in [Callers -> Account \cup {None}] /\ HeldOwners'
<1>1. held \in [Callers -> Account \cup {None}] /\ HeldOwners
  BY DEF StoresInv, TypeOK
<1>2. held' \in [Callers -> Account \cup {None}]
  BY <1>1
<1>3. \A q \in Callers : held'[q] = IF q = p THEN x ELSE held[q]
  BY <1>1
<1>4. QED
  BY <1>1, <1>2, <1>3 DEF HeldOwners

(* Memory changes, and nobody moves. *)
LEMMA MemoryStep ==
    ASSUME StoresInv, mem' \in Store, WellFormed(mem'),
           loaded' \in BOOLEAN, dirty' \in BOOLEAN, token' \in BOOLEAN,
           orphan' \in BOOLEAN, version' \in Nat,
           held' \in [Callers -> Account \cup {None}], HeldOwners',
           UNCHANGED <<file, ending, pc, snap, now>>
    PROVE  StoresInv'
<1>1. TypeOK'
  BY DEF StoresInv, TypeOK, file, ending
<1>2. WellFormedStores'
  BY DEF StoresInv, WellFormedStores, Writing, file
<1>3. QED
  BY <1>1, <1>2 DEF StoresInv, DiskIsWhole, RenamesOwnFile, HoldsLock, HasSnapshot,
                    Writing, file

LEMMA TouchStep ==
    ASSUME StoresInv, NEW s \in Store, WellFormed(s), Touch(s),
           held' \in [Callers -> Account \cup {None}], HeldOwners',
           UNCHANGED <<file, ending, pc, snap, now>>
    PROVE  StoresInv'
<1>1. mem' = s /\ loaded' = TRUE /\ dirty' = TRUE /\ token' = TRUE /\ orphan' = FALSE
      /\ version' = version + 1
  BY DEF Touch
<1>2. version' \in Nat
  BY <1>1 DEF StoresInv, TypeOK
<1>3. QED
  BY <1>1, <1>2, MemoryStep

(* Memory changes, and a caller leaves with a snapshot to write. *)
LEMMA CommitStep ==
    ASSUME StoresInv, NEW p \in Callers, pc[p] = "idle",
           NEW s \in Store, WellFormed(s), Commit(p, s),
           held' \in [Callers -> Account \cup {None}], HeldOwners',
           UNCHANGED <<file, ending, now>>
    PROVE  StoresInv'
<1> DEFINE v == [version |-> version + 1, store |-> s]
<1>1. /\ mem' = s /\ loaded' = TRUE /\ dirty' = FALSE /\ orphan' = FALSE
      /\ token' = token /\ version' = version + 1
      /\ snap' = [snap EXCEPT ![p] = v] /\ pc' = [pc EXCEPT ![p] = "write"]
  BY DEF Commit
<1>2. TypeOK
  BY DEF StoresInv
<1>3. v \in Snapshot /\ v.store = s /\ v # None
  BY <1>2, SentinelAssumption DEF Snapshot, TypeOK
<1> HIDE DEF v
<1>4. p \in Procs
  BY ProcTypes
<1>5. \A q \in Procs : /\ snap'[q] = IF q = p THEN v ELSE snap[q]
                       /\ pc'[q] = IF q = p THEN "write" ELSE pc[q]
  BY <1>1, <1>2 DEF TypeOK
<1>6. TypeOK'
  <2>1. pc' \in [Procs -> Phase] /\ snap' \in [Procs -> Snapshot \cup {None}]
    BY <1>1, <1>2, <1>3 DEF TypeOK, Phase
  <2>2. mem' \in Store /\ version' \in Nat
    BY <1>1, <1>2 DEF TypeOK
  <2>3. QED
    BY <1>1, <1>2, <2>1, <2>2 DEF TypeOK, file, ending
<1>7. WellFormedStores'
  BY <1>1, <1>3, <1>5 DEF StoresInv, WellFormedStores, Writing, file
<1>8. RenamesOwnFile' /\ HoldsLock' /\ HasSnapshot'
  BY <1>3, <1>5 DEF StoresInv, RenamesOwnFile, HoldsLock, HasSnapshot, Writing, file
<1>9. QED
  BY <1>6, <1>7, <1>8 DEF StoresInv, DiskIsWhole, file

-----------------------------------------------------------------------------
(* The operations of a request goroutine.                                  *)

LEMMA OperationKeepsStores ==
    ASSUME StoresInv, NEW p \in Callers, Operation(p)
    PROVE  StoresInv'
<1> DEFINE HeldOK == held' \in [Callers -> Account \cup {None}] /\ HeldOwners'
<1>1. StoreNow \in Store /\ WellFormed(StoreNow)
  BY StoreNowWellFormed
<1>2. TypeOK /\ HeldOwners
  BY DEF StoresInv
<1>3. UNCHANGED held => HeldOK
  BY <1>2 DEF TypeOK, HeldOwners
<1>4. held' = [held EXCEPT ![p] = None] => HeldOK
  BY HeldStep
<1>5. ASSUME NEW i \in 1..Len(StoreNow.accounts),
             held' = [held EXCEPT ![p] = StoreNow.accounts[i]]
      PROVE  HeldOK
  BY <1>1, <1>5, HeldStep, CopyOfAccount
<1>6. ASSUME NEW id, Has(StoreNow, id),
             held' = [held EXCEPT ![p] = AccountAt(StoreNow, id)]
      PROVE  HeldOK
  BY <1>1, <1>5, <1>6, PositionOfId DEF AccountAt
<1>7. ASSUME held[p] # None
      PROVE  held[p] \in Account /\ SameOwner(held[p].id, held[p].cred)
  BY <1>2, <1>7 DEF TypeOK, HeldOwners
<1> HIDE DEF HeldOK
<1>8. CASE Load(p)
  <2>1. mem' = disk.store /\ loaded' = TRUE /\ dirty' = FALSE
        /\ UNCHANGED <<token, version, orphan, file, ending, pc, snap, held, now>>
    BY <1>8 DEF Load
  <2>2. disk.store \in Store /\ WellFormed(disk.store)
    BY StoreNowWellFormed
  <2>3. HeldOK
    BY <1>3, <2>1
  <2>4. QED
    BY <1>2, <2>1, <2>2, <2>3, MemoryStep DEF TypeOK, HeldOK
<1>9. ASSUME NEW c \in Creds, Login(p, c) PROVE StoresInv'
  <2>1. pc[p] = "idle" /\ Commit(p, Upsert(StoreNow, c))
        /\ UNCHANGED <<file, ending, held, now>>
    BY <1>9 DEF Login
  <2>2. Upsert(StoreNow, c) \in Store /\ WellFormed(Upsert(StoreNow, c))
    BY <1>1, UpsertWellFormed
  <2>3. QED
    BY <1>3, <2>1, <2>2, CommitStep DEF HeldOK
<1>10. ASSUME NEW id \in Creds, Remove(p, id) PROVE StoresInv'
  <2>1. pc[p] = "idle" /\ Commit(p, Delete(StoreNow, id))
        /\ Has(StoreNow, id) /\ UNCHANGED <<file, ending, held, now>>
    BY <1>10 DEF Remove
  <2>2. Delete(StoreNow, id) \in Store /\ WellFormed(Delete(StoreNow, id))
    BY <1>1, <2>1, DeleteWellFormed
  <2>3. QED
    BY <1>3, <2>1, <2>2, CommitStep DEF HeldOK
<1>11. ASSUME NEW id \in Creds, NEW enabled \in BOOLEAN, Toggle(p, id, enabled)
       PROVE  StoresInv'
  <2>1. pc[p] = "idle" /\ Commit(p, SetEnabled(StoreNow, id, enabled))
        /\ Has(StoreNow, id) /\ UNCHANGED <<file, ending, held, now>>
    BY <1>11 DEF Toggle
  <2>2. /\ SetEnabled(StoreNow, id, enabled) \in Store
        /\ WellFormed(SetEnabled(StoreNow, id, enabled))
    BY <1>1, <2>1, SetEnabledWellFormed
  <2>3. QED
    BY <1>3, <2>1, <2>2, CommitStep DEF HeldOK
<1>12. ASSUME NEW id \in Creds, Read(p, id) PROVE StoresInv'
  <2>1. /\ mem' = StoreNow /\ loaded' = TRUE /\ dirty' = (loaded /\ dirty)
        /\ Has(StoreNow, id) /\ held' = [held EXCEPT ![p] = AccountAt(StoreNow, id)]
        /\ UNCHANGED <<token, version, orphan, file, ending, pc, snap, now>>
    BY <1>12 DEF Read
  <2>2. HeldOK
    BY <1>6, <2>1
  <2>3. dirty' \in BOOLEAN /\ token' \in BOOLEAN /\ orphan' \in BOOLEAN
        /\ loaded' \in BOOLEAN /\ version' \in Nat
    BY <1>2, <2>1 DEF TypeOK
  <2>4. QED
    BY <1>1, <2>1, <2>2, <2>3, MemoryStep DEF HeldOK
<1>13. ASSUME NEW id \in Creds, NEW site \in Sites, SelectPinned(p, id, site)
       PROVE  StoresInv'
  <2>1. /\ Has(StoreNow, id) /\ held' = [held EXCEPT ![p] = AccountAt(StoreNow, id)]
        /\ Touch(StoreNow) /\ UNCHANGED <<file, ending, pc, snap, now>>
    BY <1>13 DEF SelectPinned
  <2>2. HeldOK
    BY <1>6, <2>1
  <2>3. QED
    BY <1>1, <2>1, <2>2, TouchStep DEF HeldOK
<1>14. ASSUME NEW site \in Sites, NEW exclude, Select(p, site, exclude)
       PROVE  StoresInv'
  <2> DEFINE i == Chosen(StoreNow, site, exclude, now)
  <2>1. /\ Eligible(StoreNow, site, exclude) # {}
        /\ Touch(AfterSelect(StoreNow, i))
        /\ held' = [held EXCEPT ![p] = StoreNow.accounts[i]]
        /\ UNCHANGED <<file, ending, pc, snap, now>>
    BY <1>14 DEF Select
  <2>2. i \in 1..Len(StoreNow.accounts)
    BY <1>1, <1>2, <2>1, ChosenInStore DEF TypeOK
  <2> HIDE DEF i
  <2>3. AfterSelect(StoreNow, i) \in Store /\ WellFormed(AfterSelect(StoreNow, i))
    BY <1>1, <2>2, SelectWellFormed
  <2>4. HeldOK
    BY <1>5, <2>1, <2>2
  <2>5. QED
    BY <2>1, <2>3, <2>4, TouchStep DEF HeldOK
<1>15. ASSUME NEW ok \in BOOLEAN, NEW cooldown \in Cooldowns, Result(p, ok, cooldown)
       PROVE  StoresInv'
  <2> DEFINE s == MarkResult(StoreNow, held[p].id, ok, now, cooldown)
  <2>1. /\ held' = [held EXCEPT ![p] = None]
        /\ UNCHANGED <<file, ending, pc, snap, now>>
    BY <1>15 DEF Result
  <2>2. HeldOK
    BY <1>4, <2>1
  <2>3. CASE Has(StoreNow, held[p].id) /\ Touch(s)
    <3>1. cooldown \in Nat /\ now \in Nat
      BY <1>2, BoundsAssumption DEF TypeOK
    <3>2. s \in Store /\ WellFormed(s)
      BY <1>1, <2>3, <3>1, MarkResultWellFormed
    <3> HIDE DEF s
    <3>3. QED
      BY <2>1, <2>2, <2>3, <3>2, TouchStep DEF HeldOK
  <2>4. CASE UNCHANGED memory
    <3>1. /\ mem' = mem /\ loaded' = loaded /\ dirty' = dirty /\ token' = token
          /\ orphan' = orphan /\ version' = version
      BY <2>4 DEF memory
    <3>2. WellFormed(mem)
      BY DEF StoresInv, WellFormedStores
    <3>3. QED
      BY <1>2, <2>1, <2>2, <3>1, <3>2, MemoryStep DEF TypeOK, HeldOK
  <2>5. QED
    BY <1>15, <2>3, <2>4 DEF Result
<1>16. ASSUME NEW c \in Creds, Refresh(p, c) PROVE StoresInv'
  <2> DEFINE a == Refreshed(held[p], c)
  <2>1. /\ pc[p] = "idle" /\ held[p] # None /\ SameOwner(c, held[p].cred)
        /\ UNCHANGED <<file, ending, now>>
    BY <1>16 DEF Refresh
  <2>2. held[p] \in Account /\ SameOwner(held[p].id, held[p].cred)
    BY <1>7, <2>1
  <2>3. a \in Account /\ a.id = held[p].id /\ a.cred = c
    BY <2>2, Zenon, 0 \in Nat DEF Account, Refreshed
  <2>4. SameOwner(a.id, a.cred)
    BY <2>1, <2>2, <2>3 DEF SameOwner
  <2>5. a # None
    BY <2>3, SentinelAssumption
  <2>6. CASE /\ Has(StoreNow, held[p].id)
             /\ Commit(p, ReplaceAccount(StoreNow, a))
             /\ held' = [held EXCEPT ![p] = a]
    <3> HIDE DEF a
    <3>1. HeldOK
      BY <2>3, <2>4, <2>6, HeldStep DEF HeldOK
    <3>2. ReplaceAccount(StoreNow, a) \in Store /\ WellFormed(ReplaceAccount(StoreNow, a))
      BY <1>1, <2>3, <2>4, <2>6, ReplaceWellFormed
    <3>3. QED
      BY <2>1, <2>6, <3>1, <3>2, CommitStep DEF HeldOK
  <2>7. CASE held' = [held EXCEPT ![p] = None] /\ UNCHANGED <<memory, pc, snap>>
    <3>1. /\ mem' = mem /\ loaded' = loaded /\ dirty' = dirty /\ token' = token
          /\ orphan' = orphan /\ version' = version
      BY <2>7 DEF memory
    <3>2. WellFormed(mem) /\ HeldOK
      BY <1>4, <2>7 DEF StoresInv, WellFormedStores
    <3>3. QED
      BY <1>2, <2>1, <2>7, <3>1, <3>2, MemoryStep DEF TypeOK, HeldOK
  <2>8. QED
    BY <1>16, <2>6, <2>7 DEF Refresh
<1>17. CASE Abandon(p)
  <2>1. /\ held' = [held EXCEPT ![p] = None]
        /\ UNCHANGED <<mem, loaded, dirty, token, version, orphan>>
        /\ UNCHANGED <<file, ending, pc, snap, now>>
    BY <1>17 DEF Abandon, memory
  <2>2. WellFormed(mem) /\ HeldOK
    BY <1>4, <2>1 DEF StoresInv, WellFormedStores
  <2>3. QED
    BY <1>2, <2>1, <2>2, MemoryStep DEF TypeOK, HeldOK
<1>18. QED
  BY <1>8, <1>9, <1>10, <1>11, <1>12, <1>13, <1>14, <1>15, <1>16, <1>17 DEF Operation

-----------------------------------------------------------------------------
(* writeDisk.                                                              *)

LEMMA WriteKeepsStores ==
    ASSUME StoresInv, NEW p \in Procs, WriteStep(p)
    PROVE  StoresInv'
<1> USE DEF StoresInv
<1>1. /\ TypeOK /\ p \in Procs
      /\ pc \in [Procs -> Phase] /\ snap \in [Procs -> Snapshot \cup {None}]
  BY DEF TypeOK
<1>2. CASE BeginWrite(p)
  <2>1. /\ pc[p] = "write" /\ persistMu = None /\ persistMu' = p /\ tmp' = Partial
        /\ pc' = [pc EXCEPT ![p] = "tmp"]
        /\ UNCHANGED <<memory, ending, disk, newest, acked, failures, snap, held, now>>
    BY <1>2 DEF BeginWrite
  <2>2. \A q \in Procs : pc'[q] = IF q = p THEN "tmp" ELSE pc[q]
    BY <1>1, <2>1
  <2>3. \A q \in Procs : pc[q] \notin {"tmp", "rename"}
    BY <2>1, ProcTypes DEF HoldsLock
  <2>4. TypeOK'
    BY <1>1, <2>1 DEF TypeOK, memory, ending, Phase
  <2>5. WellFormedStores' /\ DiskIsWhole'
    BY <2>1 DEF WellFormedStores, DiskIsWhole, Writing, memory
  <2>6. RenamesOwnFile' /\ HoldsLock' /\ HasSnapshot'
    BY <2>1, <2>2, <2>3 DEF RenamesOwnFile, HoldsLock, HasSnapshot, Writing
  <2>7. QED
    BY <2>1, <2>4, <2>5, <2>6 DEF HeldOwners
<1>3. CASE FillTmp(p)
  <2>1. /\ pc[p] = "tmp" /\ tmp' = snap[p] /\ pc' = [pc EXCEPT ![p] = "rename"]
        /\ UNCHANGED <<memory, ending, persistMu, disk, newest, acked, failures, snap,
                       held, now>>
    BY <1>3 DEF FillTmp
  <2>2. \A q \in Procs : pc'[q] = IF q = p THEN "rename" ELSE pc[q]
    BY <1>1, <2>1
  <2>3. snap[p] # None /\ snap[p] \in Snapshot
    BY <1>1, <2>1 DEF HasSnapshot, Writing
  <2>4. \A q \in Procs : q # p => pc[q] # "rename"
    BY <2>1 DEF HoldsLock
  <2>5. TypeOK'
    BY <1>1, <2>1, <2>3 DEF TypeOK, memory, ending, Phase
  <2>6. WellFormedStores' /\ DiskIsWhole'
    BY <2>1, <2>3 DEF WellFormedStores, DiskIsWhole, Writing, memory
  <2>7. RenamesOwnFile' /\ HoldsLock' /\ HasSnapshot'
    BY <2>1, <2>2, <2>4 DEF RenamesOwnFile, HoldsLock, HasSnapshot, Writing
  <2>8. QED
    BY <2>1, <2>5, <2>6, <2>7 DEF HeldOwners
<1>4. CASE Rename(p)
  <2>1. /\ pc[p] = "rename" /\ disk' = tmp /\ tmp' = Partial /\ persistMu' = None
        /\ newest' = (IF snap[p].version > newest THEN snap[p].version ELSE newest)
        /\ acked' = (IF p \in Callers /\ snap[p].version > acked
                     THEN snap[p].version ELSE acked)
        /\ snap' = [snap EXCEPT ![p] = None]
        /\ pc' = [pc EXCEPT ![p] = After(p)]
        /\ UNCHANGED <<memory, ending, failures, held, now>>
    BY <1>4 DEF Rename
  <2>2. \A q \in Procs : /\ pc'[q] = IF q = p THEN After(p) ELSE pc[q]
                         /\ snap'[q] = IF q = p THEN None ELSE snap[q]
    BY <1>1, <2>1
  <2>3. tmp = snap[p] /\ snap[p] # None /\ snap[p] \in Snapshot
        /\ WellFormed(snap[p].store)
    BY <1>1, <2>1 DEF RenamesOwnFile, HasSnapshot, Writing, WellFormedStores
  <2>4. \A q \in Procs : q # p => pc[q] \notin {"tmp", "rename"}
    BY <2>1 DEF HoldsLock
  <2>5. TypeOK'
    <3>1. newest' \in Nat /\ acked' \in Nat
      BY <1>1, <2>1, <2>3 DEF TypeOK, Snapshot
    <3>2. pc' \in [Procs -> Phase] /\ snap' \in [Procs -> Snapshot \cup {None}]
      BY <1>1, <2>1, AfterIsPhase DEF Phase
    <3>3. QED
      BY <1>1, <2>1, <2>3, <3>1, <3>2 DEF TypeOK, memory, ending
  <2>6. WellFormedStores' /\ DiskIsWhole'
    BY <2>1, <2>2, <2>3, SentinelAssumption
    DEF WellFormedStores, DiskIsWhole, Writing, memory
  <2>7. RenamesOwnFile' /\ HoldsLock' /\ HasSnapshot'
    BY <2>1, <2>2, <2>4, AfterIsPhase DEF RenamesOwnFile, HoldsLock, HasSnapshot, Writing
  <2>8. QED
    BY <2>1, <2>5, <2>6, <2>7 DEF HeldOwners
<1>5. CASE WriteError(p)
  <2>1. /\ pc[p] \in {"tmp", "rename"} /\ failures' = failures + 1
        /\ persistMu' = None /\ pc' = [pc EXCEPT ![p] = "failed"]
        /\ UNCHANGED <<memory, ending, tmp, disk, newest, acked, snap, held, now>>
    BY <1>5 DEF WriteError
  <2>2. \A q \in Procs : pc'[q] = IF q = p THEN "failed" ELSE pc[q]
    BY <1>1, <2>1
  <2>3. \A q \in Procs : q # p => pc[q] \notin {"tmp", "rename"}
    BY <2>1 DEF HoldsLock
  <2>4. TypeOK'
    BY <1>1, <2>1 DEF TypeOK, memory, ending, Phase
  <2>5. WellFormedStores' /\ DiskIsWhole'
    BY <2>1 DEF WellFormedStores, DiskIsWhole, Writing, memory
  <2>6. RenamesOwnFile' /\ HoldsLock' /\ HasSnapshot'
    BY <2>1, <2>2, <2>3 DEF RenamesOwnFile, HoldsLock, HasSnapshot, Writing
  <2>7. QED
    BY <2>1, <2>4, <2>5, <2>6 DEF HeldOwners
<1>6. CASE Redirty(p)
  <2>1. /\ pc[p] = "failed" /\ dirty' = TRUE /\ orphan' = TRUE
        /\ snap' = [snap EXCEPT ![p] = None] /\ pc' = [pc EXCEPT ![p] = After(p)]
        /\ held' = [q \in Callers |-> IF q = p THEN None ELSE held[q]]
        /\ closing' = [closing EXCEPT !.err = @ \/ p = Closer]
        /\ UNCHANGED <<mem, loaded, token, version, file, stop, final, crashes, now>>
    BY <1>6 DEF Redirty
  <2>2. \A q \in Procs : /\ pc'[q] = IF q = p THEN After(p) ELSE pc[q]
                         /\ snap'[q] = IF q = p THEN None ELSE snap[q]
    BY <1>1, <2>1
  <2>3. TypeOK'
    <3>1. pc' \in [Procs -> Phase] /\ snap' \in [Procs -> Snapshot \cup {None}]
      BY <1>1, <2>1, AfterIsPhase DEF Phase
    <3>2. held' \in [Callers -> Account \cup {None}]
      BY <1>1, <2>1 DEF TypeOK
    <3>3. closing' \in [version : Nat, err : BOOLEAN]
      BY <1>1, <2>1 DEF TypeOK
    <3>4. QED
      BY <1>1, <2>1, <3>1, <3>2, <3>3 DEF TypeOK, file
  <2>4. WellFormedStores' /\ DiskIsWhole'
    BY <2>1, <2>2 DEF WellFormedStores, DiskIsWhole, Writing, file
  <2>5. RenamesOwnFile' /\ HoldsLock' /\ HasSnapshot'
    BY <2>1, <2>2, AfterIsPhase DEF RenamesOwnFile, HoldsLock, HasSnapshot, Writing, file
  <2>6. HeldOwners'
    BY <2>1 DEF HeldOwners
  <2>7. QED
    BY <2>3, <2>4, <2>5, <2>6
<1>7. QED
  BY <1>2, <1>3, <1>4, <1>5, <1>6 DEF WriteStep

-----------------------------------------------------------------------------
(* Flush, flushLoop, Close, and the end of the process.                    *)

(* A process that is not in writeDisk moves outside of it. *)
LEMMA MoveStep ==
    ASSUME StoresInv, NEW p \in Procs, NEW phase \in Phase,
           phase \notin {"write", "tmp", "rename"},
           pc' = [pc EXCEPT ![p] = phase],
           mem' \in Store, WellFormed(mem'),
           loaded' \in BOOLEAN, dirty' \in BOOLEAN, token' \in BOOLEAN,
           stop' \in BOOLEAN, final' \in BOOLEAN,
           closing' \in [version : Nat, err : BOOLEAN],
           UNCHANGED <<orphan, version, file, crashes, snap, held, now>>
    PROVE  StoresInv'
<1>1. TypeOK
  BY DEF StoresInv
<1>2. \A q \in Procs : pc'[q] = IF q = p THEN phase ELSE pc[q]
  BY <1>1 DEF TypeOK
<1>3. TypeOK'
  BY <1>1 DEF TypeOK, file
<1>4. WellFormedStores' /\ DiskIsWhole'
  BY DEF StoresInv, WellFormedStores, DiskIsWhole, Writing, file
<1>5. RenamesOwnFile' /\ HoldsLock' /\ HasSnapshot'
  BY <1>2 DEF StoresInv, RenamesOwnFile, HoldsLock, HasSnapshot, Writing, file
<1>6. QED
  BY <1>3, <1>4, <1>5 DEF StoresInv, HeldOwners

LEMMA FlushKeepsStores ==
    ASSUME StoresInv, NEW p \in {Loop, Closer}, FlushStep(p)
    PROVE  StoresInv'
<1>1. TypeOK /\ p \in Procs /\ WellFormed(mem)
  BY ProcTypes DEF StoresInv, WellFormedStores
<1>2. CASE FlushClean(p)
  <2>1. /\ mem' = StoreNow /\ loaded' = TRUE /\ dirty' = FALSE
        /\ pc' = [pc EXCEPT ![p] = After(p)]
        /\ UNCHANGED <<token, stop, final, closing>>
        /\ UNCHANGED <<orphan, version, file, crashes, snap, held, now>>
    BY <1>2 DEF FlushClean, ending
  <2>2. StoreNow \in Store /\ WellFormed(StoreNow)
    BY StoreNowWellFormed
  <2>3. After(p) \in Phase /\ After(p) \notin {"write", "tmp", "rename"}
    BY <1>1, AfterIsPhase DEF Phase
  <2>4. QED
    BY <1>1, <2>1, <2>2, <2>3, MoveStep DEF TypeOK
<1>3. CASE FlushDirty(p)
  <2> DEFINE v == [version |-> version, store |-> mem]
  <2>1. /\ pc[p] = "flush" /\ dirty' = FALSE /\ orphan' = FALSE
        /\ snap' = [snap EXCEPT ![p] = v] /\ pc' = [pc EXCEPT ![p] = "write"]
        /\ UNCHANGED <<mem, loaded, token, version, file, ending, held, now>>
    BY <1>3 DEF FlushDirty
  <2>2. v \in Snapshot /\ v.store = mem /\ v # None
    BY <1>1, SentinelAssumption DEF TypeOK, Snapshot
  <2> HIDE DEF v
  <2>3. \A q \in Procs : /\ pc'[q] = IF q = p THEN "write" ELSE pc[q]
                         /\ snap'[q] = IF q = p THEN v ELSE snap[q]
    BY <1>1, <2>1 DEF TypeOK
  <2>4. TypeOK'
    <3>1. pc' \in [Procs -> Phase] /\ snap' \in [Procs -> Snapshot \cup {None}]
      BY <1>1, <2>1, <2>2 DEF TypeOK, Phase
    <3>2. QED
      BY <1>1, <2>1, <3>1 DEF TypeOK, file, ending
  <2>5. WellFormedStores' /\ DiskIsWhole'
    BY <1>1, <2>1, <2>2, <2>3
    DEF StoresInv, WellFormedStores, DiskIsWhole, Writing, file
  <2>6. RenamesOwnFile' /\ HoldsLock' /\ HasSnapshot'
    BY <2>1, <2>2, <2>3
    DEF StoresInv, RenamesOwnFile, HoldsLock, HasSnapshot, Writing, file
  <2>7. QED
    BY <2>1, <2>4, <2>5, <2>6 DEF StoresInv, HeldOwners
<1>4. QED
  BY <1>2, <1>3 DEF FlushStep

LEMMA LoopKeepsStores ==
    ASSUME StoresInv, LoopStep
    PROVE  StoresInv'
<1>1. TypeOK /\ Loop \in Procs /\ WellFormed(mem)
  BY ProcTypes DEF StoresInv, WellFormedStores
<1>2. {"debounce", "flush"} \subseteq Phase
  BY DEF Phase
<1>3. PICK phase \in {"debounce", "flush"} : pc' = [pc EXCEPT ![Loop] = phase]
  BY DEF LoopStep, LoopWake, LoopTimer, LoopStop
<1>4. token' \in BOOLEAN /\ final' \in BOOLEAN
      /\ UNCHANGED <<mem, loaded, dirty, stop, closing>>
      /\ UNCHANGED <<orphan, version, file, crashes, snap, held, now>>
  BY <1>1 DEF LoopStep, LoopWake, LoopTimer, LoopStop, memory, ending, TypeOK
<1>5. QED
  BY <1>1, <1>2, <1>3, <1>4, MoveStep DEF TypeOK

LEMMA CloseKeepsStores ==
    ASSUME StoresInv, BeginClose \/ LoopDone
    PROVE  StoresInv'
<1>1. TypeOK /\ Closer \in Procs /\ WellFormed(mem)
  BY ProcTypes DEF StoresInv, WellFormedStores
<1>2. {"wait", "flush"} \subseteq Phase
  BY DEF Phase
<1>3. PICK phase \in {"wait", "flush"} : pc' = [pc EXCEPT ![Closer] = phase]
  BY DEF BeginClose, LoopDone
<1>4. closing' \in [version : Nat, err : BOOLEAN] /\ stop' \in BOOLEAN
      /\ UNCHANGED <<mem, loaded, dirty, token, final>>
      /\ UNCHANGED <<orphan, version, file, crashes, snap, held, now>>
  <2>1. CASE BeginClose
    BY <1>1, <2>1 DEF BeginClose, memory, TypeOK
  <2>2. CASE LoopDone
    BY <1>1, <2>2 DEF LoopDone, memory, ending, TypeOK
  <2>3. QED
    BY <2>1, <2>2
<1>5. QED
  BY <1>1, <1>2, <1>3, <1>4, MoveStep DEF TypeOK

LEMMA RestartKeepsStores ==
    ASSUME StoresInv, Restart, crashes' \in Nat
    PROVE  StoresInv'
<1>1. TypeOK /\ disk \in Snapshot
  BY DEF StoresInv, TypeOK, DiskIsWhole
<1>2. /\ mem' = EmptyStore /\ persistMu' = None
      /\ loaded' = FALSE /\ dirty' = FALSE /\ token' = FALSE
      /\ stop' = FALSE /\ final' = FALSE /\ orphan' = FALSE
      /\ pc' = [p \in Procs |-> IF p = Loop THEN "select" ELSE "idle"]
      /\ snap' = [p \in Procs |-> None]
      /\ held' = [p \in Callers |-> None]
      /\ version' = disk.version /\ newest' = disk.version /\ acked' = disk.version
      /\ closing' = [version |-> 0, err |-> FALSE]
      /\ UNCHANGED <<tmp, disk, failures, now>>
  BY DEF Restart
<1>3. \A p \in Procs : pc'[p] \in {"select", "idle"} /\ snap'[p] = None
  BY <1>2
<1>4. TypeOK'
  <2>1. pc' \in [Procs -> Phase] /\ snap' \in [Procs -> Snapshot \cup {None}]
        /\ held' \in [Callers -> Account \cup {None}]
    BY <1>2 DEF Phase
  <2>2. version' \in Nat /\ newest' \in Nat /\ acked' \in Nat
        /\ closing' \in [version : Nat, err : BOOLEAN]
    BY <1>1, <1>2 DEF Snapshot
  <2>3. QED
    BY <1>1, <1>2, <2>1, <2>2, EmptyStoreWellFormed DEF TypeOK
<1>5. WellFormedStores' /\ DiskIsWhole'
  BY <1>2, <1>3, EmptyStoreWellFormed
  DEF StoresInv, WellFormedStores, DiskIsWhole, Writing
<1>6. RenamesOwnFile' /\ HoldsLock' /\ HasSnapshot' /\ HeldOwners'
  BY <1>2, <1>3 DEF RenamesOwnFile, HoldsLock, HasSnapshot, HeldOwners
<1>7. QED
  BY <1>4, <1>5, <1>6 DEF StoresInv

LEMMA InitStores ==
    ASSUME Init
    PROVE  StoresInv
<1> USE DEF Init
<1>1. disk \in Snapshot /\ disk.store = EmptyStore /\ disk # Partial
  BY EmptyStoreWellFormed, SentinelAssumption DEF Snapshot
<1>2. \A p \in Procs : pc[p] \in {"select", "idle"} /\ snap[p] = None
  OBVIOUS
<1>3. TypeOK
  <2>1. pc \in [Procs -> Phase] /\ snap \in [Procs -> Snapshot \cup {None}]
        /\ held \in [Callers -> Account \cup {None}]
    BY DEF Phase
  <2>2. QED
    BY <1>1, <2>1, EmptyStoreWellFormed DEF TypeOK
<1>4. WellFormedStores /\ DiskIsWhole
  BY <1>1, <1>2, EmptyStoreWellFormed DEF WellFormedStores, DiskIsWhole, Writing
<1>5. RenamesOwnFile /\ HoldsLock /\ HasSnapshot /\ HeldOwners
  BY <1>2 DEF RenamesOwnFile, HoldsLock, HasSnapshot, HeldOwners
<1>6. QED
  BY <1>3, <1>4, <1>5 DEF StoresInv

LEMMA StoresStep ==
    ASSUME StoresInv, [Next]_vars
    PROVE  StoresInv'
<1>1. TypeOK
  BY DEF StoresInv
<1>2. CASE Exit
  BY <1>1, <1>2, RestartKeepsStores DEF Exit, TypeOK
<1>3. CASE Crash
  <2>1. crashes' \in Nat /\ Restart
    BY <1>1, <1>3 DEF Crash, TypeOK
  <2>2. QED
    BY <2>1, RestartKeepsStores
<1>4. CASE Tick
  <2>1. now' \in Nat /\ UNCHANGED <<memory, file, ending, pc, snap, held>>
    BY <1>1, <1>4 DEF Tick, TypeOK
  <2>2. TypeOK'
    BY <1>1, <2>1 DEF TypeOK, memory, file, ending
  <2>3. QED
    BY <2>1, <2>2 DEF StoresInv, WellFormedStores, DiskIsWhole, RenamesOwnFile,
      HoldsLock, HasSnapshot, HeldOwners, Writing, memory, file
<1>5. CASE UNCHANGED vars
  <2>1. UNCHANGED <<memory, file, ending>> /\ UNCHANGED <<pc, snap, held, now>>
    BY <1>5 DEF vars
  <2>2. TypeOK'
    BY <1>1, <2>1 DEF TypeOK, memory, file, ending
  <2>3. QED
    BY <2>1, <2>2 DEF StoresInv, WellFormedStores, DiskIsWhole, RenamesOwnFile,
      HoldsLock, HasSnapshot, HeldOwners, Writing, memory, file
<1>6. QED
  BY <1>2, <1>3, <1>4, <1>5, OperationKeepsStores, WriteKeepsStores, FlushKeepsStores,
     LoopKeepsStores, CloseKeepsStores DEF Next

LEMMA StoresAlways == Spec => []StoresInv
<1>1. Init => StoresInv
  BY InitStores
<1>2. StoresInv /\ [Next]_vars => StoresInv'
  BY StoresStep
<1>3. QED
  BY <1>1, <1>2, PTL DEF Spec

(* The parameters of memory, of accounts.json, of the temporary file and   *)
(* of every snapshot that is being written keep their types.               *)
THEOREM TypeCorrect == Spec => []TypeOK
<1>1. StoresInv => TypeOK
  BY DEF StoresInv
<1>2. QED
  BY <1>1, StoresAlways, PTL

(***************************************************************************)
(* Whatever logins, deletions, refreshes from stale copies and restarts    *)
(* interleave, all stores have unique ids, one account for one user of one *)
(* region, and a cursor in range (pool.go:583-724).                        *)
(***************************************************************************)
THEOREM StoresWellFormed == Spec => []WellFormedStores
<1>1. StoresInv => WellFormedStores
  BY DEF StoresInv
<1>2. QED
  BY <1>1, StoresAlways, PTL

(* A kill between any two steps of writeDisk leaves a complete             *)
(* accounts.json behind (pool.go:215-219).                                 *)
THEOREM DiskAlwaysWhole == Spec => []DiskIsWhole
<1>1. StoresInv => DiskIsWhole
  BY DEF StoresInv
<1>2. QED
  BY <1>1, StoresAlways, PTL

(* persistMu makes the shared name of the temporary file harmless          *)
(* (pool.go:202, 215).                                                     *)
THEOREM TmpIsOwn == Spec => []RenamesOwnFile
<1>1. StoresInv => RenamesOwnFile
  BY DEF StoresInv
<1>2. QED
  BY <1>1, StoresAlways, PTL

-----------------------------------------------------------------------------
(* The dirty mark.                                                         *)

VersionsInv == VersionsOrdered /\ CleanMeansWritten

(* Steps that leave the snapshots and the newest renamed version alone: at *)
(* most they load the file.                                                *)
LEMMA VersionsKept ==
    ASSUME VersionsInv, UNCHANGED <<newest, snap, version, loaded, dirty>>
    PROVE  VersionsInv'
BY DEF VersionsInv, VersionsOrdered, CleanMeansWritten, Writing

LEMMA VersionsLoaded ==
    ASSUME VersionsInv, UNCHANGED <<newest, snap, version>>, loaded' = TRUE,
           ~loaded \/ ~dirty \/ dirty' = dirty
    PROVE  VersionsInv'
BY DEF VersionsInv, VersionsOrdered, CleanMeansWritten, Writing

LEMMA TouchKeepsVersions ==
    ASSUME StoresInv, VersionsInv, NEW s, Touch(s), UNCHANGED <<newest, snap>>
    PROVE  VersionsInv'
<1>1. TypeOK
  BY DEF StoresInv
<1>2. loaded' = TRUE /\ dirty' = TRUE /\ version' = version + 1
  BY DEF Touch
<1>3. newest \in Nat /\ version \in Nat
      /\ \A p \in Procs : Writing(p) => snap[p].version \in Nat
  BY <1>1 DEF TypeOK, Writing, Snapshot
<1>4. VersionsOrdered'
  BY <1>2, <1>3 DEF VersionsInv, VersionsOrdered, Writing
<1>5. QED
  BY <1>2, <1>4 DEF VersionsInv, CleanMeansWritten

(* A writer that has just taken a snapshot of the version memory has now. *)
LEMMA SnapshotKeepsVersions ==
    ASSUME StoresInv, VersionsInv, NEW p \in Procs, NEW v \in Snapshot,
           snap' = [snap EXCEPT ![p] = v], v.version = version',
           version' \in Nat, version <= version', loaded' = TRUE, newest' = newest
    PROVE  VersionsInv'
<1>1. TypeOK
  BY DEF StoresInv
<1>2. newest \in Nat /\ version \in Nat
      /\ \A q \in Procs : Writing(q) => snap[q].version \in Nat
  BY <1>1 DEF TypeOK, Writing, Snapshot
<1>3. \A q \in Procs : snap'[q] = IF q = p THEN v ELSE snap[q]
  BY <1>1 DEF TypeOK
<1>4. v # None
  BY SentinelAssumption
<1>5. VersionsOrdered'
  BY <1>2, <1>3 DEF VersionsInv, VersionsOrdered, Writing
<1>6. CleanMeansWritten'
  BY <1>3, <1>4 DEF CleanMeansWritten, Writing
<1>7. QED
  BY <1>5, <1>6 DEF VersionsInv

LEMMA CommitKeepsVersions ==
    ASSUME StoresInv, VersionsInv, NEW p \in Callers, NEW s \in Store, Commit(p, s),
           newest' = newest
    PROVE  VersionsInv'
<1> DEFINE v == [version |-> version + 1, store |-> s]
<1>1. version \in Nat
  BY DEF StoresInv, TypeOK
<1>2. loaded' = TRUE /\ version' = version + 1 /\ snap' = [snap EXCEPT ![p] = v]
  BY DEF Commit
<1>3. v \in Snapshot /\ v.version = version'
  BY <1>1, <1>2 DEF Snapshot
<1> HIDE DEF v
<1>4. version' \in Nat /\ version <= version' /\ p \in Procs
  BY <1>1, <1>2, ProcTypes
<1>5. QED
  BY <1>2, <1>3, <1>4, SnapshotKeepsVersions

LEMMA OperationKeepsVersions ==
    ASSUME StoresInv, VersionsInv, NEW p \in Callers, Operation(p)
    PROVE  VersionsInv'
<1>1. StoreNow \in Store /\ WellFormed(StoreNow) /\ TypeOK
  BY StoreNowWellFormed DEF StoresInv
<1>2. CASE Load(p)
  <2>1. loaded' = TRUE /\ dirty' = FALSE /\ ~loaded
        /\ UNCHANGED <<newest, snap, version>>
    BY <1>2 DEF Load, file
  <2>2. QED
    BY <2>1, VersionsLoaded
<1>3. ASSUME NEW c \in Creds, Login(p, c) PROVE VersionsInv'
  <2>1. Commit(p, Upsert(StoreNow, c)) /\ newest' = newest
    BY <1>3 DEF Login, file
  <2>2. Upsert(StoreNow, c) \in Store
    BY <1>1, UpsertWellFormed
  <2>3. QED
    BY <2>1, <2>2, CommitKeepsVersions
<1>4. ASSUME NEW id \in Creds, Remove(p, id) PROVE VersionsInv'
  <2>1. Commit(p, Delete(StoreNow, id)) /\ newest' = newest /\ Has(StoreNow, id)
    BY <1>4 DEF Remove, file
  <2>2. Delete(StoreNow, id) \in Store
    BY <1>1, <2>1, DeleteWellFormed
  <2>3. QED
    BY <2>1, <2>2, CommitKeepsVersions
<1>5. ASSUME NEW id \in Creds, NEW enabled \in BOOLEAN, Toggle(p, id, enabled)
      PROVE  VersionsInv'
  <2>1. /\ Commit(p, SetEnabled(StoreNow, id, enabled))
        /\ newest' = newest /\ Has(StoreNow, id)
    BY <1>5 DEF Toggle, file
  <2>2. SetEnabled(StoreNow, id, enabled) \in Store
    BY <1>1, <2>1, SetEnabledWellFormed
  <2>3. QED
    BY <2>1, <2>2, CommitKeepsVersions
<1>6. ASSUME NEW id \in Creds, Read(p, id) PROVE VersionsInv'
  <2>1. /\ loaded' = TRUE /\ (~loaded \/ ~dirty \/ dirty' = dirty)
        /\ UNCHANGED <<newest, snap, version>>
    BY <1>1, <1>6 DEF Read, file, TypeOK
  <2>2. QED
    BY <2>1, VersionsLoaded
<1>7. ASSUME NEW id \in Creds, NEW site \in Sites, SelectPinned(p, id, site)
      PROVE  VersionsInv'
  BY <1>7, TouchKeepsVersions DEF SelectPinned, file
<1>8. ASSUME NEW site \in Sites, NEW exclude, Select(p, site, exclude)
      PROVE  VersionsInv'
  BY <1>8, TouchKeepsVersions DEF Select, file
<1>9. ASSUME NEW ok \in BOOLEAN, NEW cooldown \in Cooldowns, Result(p, ok, cooldown)
      PROVE  VersionsInv'
  <2>1. UNCHANGED <<newest, snap>>
    BY <1>9 DEF Result, file
  <2>2. CASE Touch(MarkResult(StoreNow, held[p].id, ok, now, cooldown))
    BY <2>1, <2>2, TouchKeepsVersions
  <2>3. CASE UNCHANGED memory
    BY <2>1, <2>3, VersionsKept DEF memory
  <2>4. QED
    BY <1>9, <2>2, <2>3 DEF Result
<1>10. ASSUME NEW c \in Creds, Refresh(p, c) PROVE VersionsInv'
  <2> DEFINE a == Refreshed(held[p], c)
  <2>1. newest' = newest /\ held[p] # None /\ SameOwner(c, held[p].cred)
    BY <1>10 DEF Refresh, file
  <2>2. held[p] \in Account /\ SameOwner(held[p].id, held[p].cred)
    BY <1>1, <2>1 DEF StoresInv, TypeOK, HeldOwners
  <2>3. a \in Account /\ a.id = held[p].id /\ a.cred = c
    BY <2>2, Zenon, 0 \in Nat DEF Account, Refreshed
  <2>4. SameOwner(a.id, a.cred)
    BY <2>1, <2>2, <2>3 DEF SameOwner
  <2>5. CASE Has(StoreNow, held[p].id) /\ Commit(p, ReplaceAccount(StoreNow, a))
    <3> HIDE DEF a
    <3>1. ReplaceAccount(StoreNow, a) \in Store
      BY <1>1, <2>3, <2>4, <2>5, ReplaceWellFormed
    <3>2. QED
      BY <2>1, <2>5, <3>1, CommitKeepsVersions
  <2>6. CASE UNCHANGED <<memory, pc, snap>>
    BY <2>1, <2>6, VersionsKept DEF memory
  <2>7. QED
    BY <1>10, <2>5, <2>6 DEF Refresh
<1>11. CASE Abandon(p)
  BY <1>11, VersionsKept DEF Abandon, memory, file
<1>12. QED
  BY <1>2, <1>3, <1>4, <1>5, <1>6, <1>7, <1>8, <1>9, <1>10, <1>11 DEF Operation

LEMMA WriteKeepsVersions ==
    ASSUME StoresInv, VersionsInv, NEW p \in Procs, WriteStep(p)
    PROVE  VersionsInv'
<1>1. TypeOK /\ newest \in Nat /\ version \in Nat
      /\ \A q \in Procs : Writing(q) => snap[q].version \in Nat
  BY DEF StoresInv, TypeOK, Writing, Snapshot
<1>2. CASE BeginWrite(p) \/ FillTmp(p) \/ WriteError(p)
  <2>1. UNCHANGED <<newest, snap, version, loaded, dirty>>
    BY <1>2 DEF BeginWrite, FillTmp, WriteError, memory
  <2>2. QED
    BY <2>1, VersionsKept
<1>3. CASE Rename(p)
  <2>1. /\ newest' = (IF snap[p].version > newest THEN snap[p].version ELSE newest)
        /\ snap' = [snap EXCEPT ![p] = None] /\ pc[p] = "rename"
        /\ UNCHANGED <<version, loaded, dirty>>
    BY <1>3 DEF Rename, memory
  <2>2. \A q \in Procs : snap'[q] = IF q = p THEN None ELSE snap[q]
    BY <1>1, <2>1 DEF TypeOK
  <2>3. Writing(p)
    BY <2>1 DEF StoresInv, HasSnapshot
  <2>4. snap[p].version <= version /\ snap[p].version \in Nat
    BY <1>1, <2>3 DEF VersionsInv, VersionsOrdered
  <2>5. VersionsOrdered'
    BY <1>1, <2>1, <2>2, <2>4 DEF VersionsInv, VersionsOrdered, Writing
  <2>6. CleanMeansWritten'
    <3>1. SUFFICES ASSUME loaded, ~dirty
                   PROVE  \/ newest' = version
                          \/ \E q \in Procs : Writing(q)' /\ snap'[q].version = version
      BY <2>1 DEF CleanMeansWritten
    <3>2. CASE newest = version
      BY <1>1, <2>1, <2>4, <3>2
    <3>3. CASE \E q \in Procs : Writing(q) /\ snap[q].version = version
      <4>1. PICK q \in Procs : Writing(q) /\ snap[q].version = version
        BY <3>3
      <4>2. CASE q = p
        BY <1>1, <2>1, <2>4, <4>1, <4>2 DEF VersionsInv, VersionsOrdered
      <4>3. CASE q # p
        BY <2>2, <4>1, <4>3 DEF Writing
      <4>4. QED
        BY <4>2, <4>3
    <3>4. QED
      BY <3>1, <3>2, <3>3 DEF VersionsInv, CleanMeansWritten
  <2>7. QED
    BY <2>5, <2>6 DEF VersionsInv
<1>4. CASE Redirty(p)
  <2>1. /\ dirty' = TRUE /\ snap' = [snap EXCEPT ![p] = None]
        /\ UNCHANGED <<version, loaded, newest>>
    BY <1>4 DEF Redirty, file
  <2>2. \A q \in Procs : snap'[q] = IF q = p THEN None ELSE snap[q]
    BY <1>1, <2>1 DEF TypeOK
  <2>3. QED
    BY <2>1, <2>2 DEF VersionsInv, VersionsOrdered, CleanMeansWritten, Writing
<1>5. QED
  BY <1>2, <1>3, <1>4 DEF WriteStep

LEMMA FlushKeepsVersions ==
    ASSUME StoresInv, VersionsInv, NEW p \in Procs, FlushStep(p)
    PROVE  VersionsInv'
<1>1. TypeOK
  BY DEF StoresInv
<1>2. CASE FlushClean(p)
  <2>1. /\ ~(loaded /\ dirty) /\ loaded' = TRUE /\ dirty' = FALSE
        /\ UNCHANGED <<newest, snap, version>>
    BY <1>2 DEF FlushClean, file
  <2>2. QED
    BY <2>1, VersionsLoaded
<1>3. CASE FlushDirty(p)
  <2> DEFINE v == [version |-> version, store |-> mem]
  <2>1. /\ loaded /\ snap' = [snap EXCEPT ![p] = v]
        /\ UNCHANGED <<loaded, version, newest>>
    BY <1>3 DEF FlushDirty, file
  <2>2. v \in Snapshot /\ v.version = version /\ version \in Nat
    BY <1>1 DEF TypeOK, Snapshot
  <2> HIDE DEF v
  <2>3. loaded' = TRUE /\ version <= version'
    BY <1>1, <2>1, <2>2 DEF TypeOK
  <2>4. QED
    BY <2>1, <2>2, <2>3, SnapshotKeepsVersions
<1>4. QED
  BY <1>2, <1>3 DEF FlushStep

LEMMA VersionsStep ==
    ASSUME StoresInv, VersionsInv, [Next]_vars
    PROVE  VersionsInv'
<1>1. CASE LoopStep \/ BeginClose \/ LoopDone \/ Tick
  <2>1. UNCHANGED <<newest, snap, version, loaded, dirty>>
    BY <1>1 DEF LoopStep, LoopWake, LoopTimer, LoopStop, BeginClose, LoopDone, Tick,
                memory, file
  <2>2. QED
    BY <2>1, VersionsKept
<1>2. CASE Exit \/ Crash
  <2>1. /\ loaded' = FALSE /\ newest' = disk.version /\ version' = disk.version
        /\ snap' = [p \in Procs |-> None]
    BY <1>2 DEF Exit, Crash, Restart
  <2>2. disk.version \in Nat
    BY StoreNowWellFormed DEF Snapshot
  <2>3. QED
    BY <2>1, <2>2 DEF VersionsInv, VersionsOrdered, CleanMeansWritten, Writing
<1>3. CASE UNCHANGED vars
  BY <1>3, VersionsKept DEF vars, memory, file
<1>4. ASSUME NEW p \in {Loop, Closer}, FlushStep(p) PROVE VersionsInv'
  BY <1>4, ProcTypes, FlushKeepsVersions
<1>5. QED
  BY <1>1, <1>2, <1>3, <1>4, OperationKeepsVersions, WriteKeepsVersions DEF Next

(***************************************************************************)
(* The dirty mark is never lost, whichever writers overlap and fail: clean *)
(* memory is being written or has been (pool.go:234-254, 615-623).         *)
(***************************************************************************)
THEOREM DirtyMarkKept == Spec => []CleanMeansWritten
<1>1. Init => VersionsInv
  BY DEF Init, VersionsInv, VersionsOrdered, CleanMeansWritten, Writing
<1>2. StoresInv /\ VersionsInv /\ [Next]_vars => VersionsInv'
  BY VersionsStep
<1>3. VersionsInv => CleanMeansWritten
  BY DEF VersionsInv
<1>4. QED
  BY <1>1, <1>2, <1>3, StoresAlways, PTL DEF Spec

-----------------------------------------------------------------------------
(* The wake-up of flushLoop.                                               *)

(* Requests and writers do not move the loop out of its flush. *)
LEMMA WakeKept ==
    ASSUME DirtyWakesLoop, UNCHANGED <<token, orphan, final>>,
           dirty' = dirty \/ dirty' = FALSE,
           pc'[Loop] = pc[Loop] \/ pc[Loop] \notin {"debounce", "flush"}
    PROVE  DirtyWakesLoop'
BY DEF DirtyWakesLoop

LEMMA WakeStep ==
    ASSUME TypeOK, DirtyWakesLoop, [Next]_vars
    PROVE  DirtyWakesLoop'
<1>1. pc \in [Procs -> Phase] /\ Loop \in Procs
  BY ProcTypes DEF TypeOK
<1>2. ASSUME NEW p \in Callers, Operation(p) PROVE DirtyWakesLoop'
  <2>1. p # Loop /\ p \in Procs
    BY ProcTypes
  <2>2. CASE token' = TRUE
    BY <2>2 DEF DirtyWakesLoop
  <2>3. CASE \E s : Commit(p, s)
    BY <2>3 DEF Commit, DirtyWakesLoop
  <2>4. CASE UNCHANGED <<token, orphan, final, pc>> /\ (dirty' = dirty \/ dirty' = FALSE)
    BY <2>4, WakeKept
  <2>5. CASE Load(p)
    BY <2>4, <2>5 DEF Load, ending
  <2>6. ASSUME NEW id, Read(p, id) PROVE DirtyWakesLoop'
    <3>1. UNCHANGED <<token, orphan, final, pc>> /\ (dirty' = dirty \/ dirty' = FALSE)
      BY <2>6 DEF Read, ending, TypeOK
    <3>2. QED
      BY <2>4, <3>1
  <2>7. CASE Abandon(p)
    BY <2>4, <2>7 DEF Abandon, memory, ending
  <2>8. ASSUME NEW ok, NEW cooldown, Result(p, ok, cooldown) PROVE DirtyWakesLoop'
    <3>1. token' = TRUE \/ UNCHANGED memory
      BY <2>8 DEF Result, Touch
    <3>2. UNCHANGED <<final, pc>>
      BY <2>8 DEF Result, ending
    <3>3. QED
      BY <2>2, <2>4, <3>1, <3>2 DEF memory
  <2>9. ASSUME NEW c, Refresh(p, c) PROVE DirtyWakesLoop'
    <3>1. (\E s : Commit(p, s)) \/ UNCHANGED <<memory, pc>>
      BY <2>9 DEF Refresh
    <3>2. UNCHANGED final
      BY <2>9 DEF Refresh, ending
    <3>3. QED
      BY <2>3, <2>4, <3>1, <3>2 DEF memory
  <2>10. QED
    <3>1. ASSUME NEW c, Login(p, c) PROVE DirtyWakesLoop'
      BY <2>3, <3>1 DEF Login
    <3>2. ASSUME NEW id, Remove(p, id) PROVE DirtyWakesLoop'
      BY <2>3, <3>2 DEF Remove
    <3>3. ASSUME NEW id, NEW enabled, Toggle(p, id, enabled) PROVE DirtyWakesLoop'
      BY <2>3, <3>3 DEF Toggle
    <3>4. ASSUME NEW id, NEW site, SelectPinned(p, id, site) PROVE DirtyWakesLoop'
      BY <2>2, <3>4 DEF SelectPinned, Touch
    <3>5. ASSUME NEW site, NEW exclude, Select(p, site, exclude) PROVE DirtyWakesLoop'
      BY <2>2, <3>5 DEF Select, Touch
    <3>6. QED
      BY <1>2, <2>5, <2>6, <2>7, <2>8, <2>9, <3>1, <3>2, <3>3, <3>4, <3>5 DEF Operation
<1>3. ASSUME NEW p \in Procs, WriteStep(p) PROVE DirtyWakesLoop'
  <2>1. CASE Redirty(p)
    BY <2>1 DEF Redirty, DirtyWakesLoop
  <2>2. CASE ~Redirty(p)
    <3>1. BeginWrite(p) \/ FillTmp(p) \/ Rename(p) \/ WriteError(p)
      BY <1>3, <2>2 DEF WriteStep
    <3>2. UNCHANGED <<token, orphan, final, dirty>>
      BY <3>1 DEF BeginWrite, FillTmp, Rename, WriteError, memory, ending
    <3>3. /\ pc[p] \in {"write", "tmp", "rename"}
          /\ \E phase : pc' = [pc EXCEPT ![p] = phase]
      BY <3>1 DEF BeginWrite, FillTmp, Rename, WriteError
    <3>4. pc'[Loop] = pc[Loop] \/ pc[Loop] \notin {"debounce", "flush"}
      BY <1>1, <3>3
    <3>5. QED
      BY <3>2, <3>4, WakeKept
  <2>3. QED
    BY <2>1, <2>2
<1>4. ASSUME NEW p \in {Loop, Closer}, FlushStep(p) PROVE DirtyWakesLoop'
  BY <1>4 DEF FlushStep, FlushClean, FlushDirty, DirtyWakesLoop
<1>5. CASE LoopStep
  <2>1. CASE LoopWake
    BY <1>1, <2>1 DEF LoopWake, DirtyWakesLoop
  <2>2. CASE LoopTimer
    BY <1>1, <2>2 DEF LoopTimer, DirtyWakesLoop
  <2>3. CASE LoopStop
    BY <2>3 DEF LoopStop, DirtyWakesLoop
  <2>4. QED
    BY <1>5, <2>1, <2>2, <2>3 DEF LoopStep
<1>6. CASE BeginClose \/ LoopDone
  <2>1. UNCHANGED <<token, orphan, dirty, final>>
        /\ \E phase : pc' = [pc EXCEPT ![Closer] = phase]
    BY <1>6 DEF BeginClose, LoopDone, memory, ending
  <2>2. pc'[Loop] = pc[Loop]
    BY <1>1, <2>1, ProcTypes
  <2>3. QED
    BY <2>1, <2>2, WakeKept
<1>7. CASE Exit \/ Crash
  BY <1>7 DEF Exit, Crash, Restart, DirtyWakesLoop
<1>8. CASE Tick \/ UNCHANGED vars
  BY <1>8, WakeKept DEF Tick, vars, memory, ending
<1>9. QED
  BY <1>2, <1>3, <1>4, <1>5, <1>6, <1>7, <1>8 DEF Next

(***************************************************************************)
(* No wake-up is lost between the operations and the drain of flushLoop    *)
(* (pool.go:222-232, 274-296).                                             *)
(***************************************************************************)
THEOREM NoLostWakeup == Spec => []DirtyWakesLoop
<1>1. Init => DirtyWakesLoop
  BY DEF Init, DirtyWakesLoop
<1>2. TypeOK /\ DirtyWakesLoop /\ [Next]_vars => DirtyWakesLoop'
  BY WakeStep
<1>3. QED
  BY <1>1, <1>2, TypeCorrect, PTL DEF Spec

-----------------------------------------------------------------------------
(* Close.                                                                  *)

(* What an operation does to the progress of processes and of versions. *)
Framed(p) ==
    /\ UNCHANGED ending
    /\ version' = version \/ version' = version + 1
    /\ \/ UNCHANGED <<pc, snap>>
       \/ /\ \E v : snap' = [snap EXCEPT ![p] = v]
          /\ pc' = [pc EXCEPT ![p] = "write"]

LEMMA OperationFrame ==
    ASSUME NEW p \in Callers, Operation(p)
    PROVE  Framed(p)
<1>1. ASSUME NEW s, Commit(p, s), UNCHANGED ending PROVE Framed(p)
  BY <1>1 DEF Commit, Framed
<1>2. ASSUME NEW s, Touch(s), UNCHANGED <<ending, pc, snap>> PROVE Framed(p)
  BY <1>2 DEF Touch, Framed
<1>3. ASSUME UNCHANGED <<ending, pc, snap, version>> PROVE Framed(p)
  BY <1>3 DEF Framed
<1>4. ASSUME NEW c, Login(p, c) PROVE Framed(p)
  BY <1>1, <1>4 DEF Login
<1>5. ASSUME NEW id, Remove(p, id) PROVE Framed(p)
  BY <1>1, <1>5 DEF Remove
<1>6. ASSUME NEW id, NEW enabled, Toggle(p, id, enabled) PROVE Framed(p)
  BY <1>1, <1>6 DEF Toggle
<1>7. ASSUME NEW id, NEW site, SelectPinned(p, id, site) PROVE Framed(p)
  BY <1>2, <1>7 DEF SelectPinned
<1>8. ASSUME NEW site, NEW exclude, Select(p, site, exclude) PROVE Framed(p)
  BY <1>2, <1>8 DEF Select
<1>9. ASSUME NEW id, Read(p, id) PROVE Framed(p)
  BY <1>3, <1>9 DEF Read
<1>10. CASE Load(p) \/ Abandon(p)
  BY <1>3, <1>10 DEF Load, Abandon, memory
<1>11. ASSUME NEW ok, NEW cooldown, Result(p, ok, cooldown) PROVE Framed(p)
  <2>1. UNCHANGED <<ending, pc, snap>>
    BY <1>11 DEF Result
  <2>2. CASE UNCHANGED memory
    BY <1>3, <2>1, <2>2 DEF memory
  <2>3. QED
    BY <1>2, <1>11, <2>1, <2>2 DEF Result
<1>12. ASSUME NEW c, Refresh(p, c) PROVE Framed(p)
  <2>1. UNCHANGED ending
    BY <1>12 DEF Refresh
  <2>2. CASE UNCHANGED <<memory, pc, snap>>
    BY <1>3, <2>1, <2>2 DEF memory
  <2>3. QED
    BY <1>1, <1>12, <2>1, <2>2 DEF Refresh
<1>13. QED
  <2>1. CASE \E c \in Creds : Login(p, c) \/ Refresh(p, c)
    BY <1>4, <1>12, <2>1
  <2>2. CASE \E id \in Creds : Remove(p, id) \/ Read(p, id)
    BY <1>5, <1>9, <2>2
  <2>3. CASE \E id \in Creds, enabled \in BOOLEAN : Toggle(p, id, enabled)
    BY <1>6, <2>3
  <2>4. CASE \E id \in Creds, site \in Sites : SelectPinned(p, id, site)
    BY <1>7, <2>4
  <2>5. CASE \E site \in Sites, exclude \in SUBSET Creds : Select(p, site, exclude)
    BY <1>8, <2>5
  <2>6. CASE \E ok \in BOOLEAN, cooldown \in Cooldowns : Result(p, ok, cooldown)
    BY <1>11, <2>6
  <2>7. CASE \E id \in Creds :
               \/ Remove(p, id) \/ Read(p, id)
               \/ \E enabled \in BOOLEAN : Toggle(p, id, enabled)
               \/ \E site \in Sites : SelectPinned(p, id, site)
    BY <2>2, <2>3, <2>4, <2>7
  <2>8. QED
    BY <1>10, <2>1, <2>5, <2>6, <2>7, Zenon DEF Operation

LEMMA CloseStep ==
    ASSUME TypeOK, VersionsOrdered, CloseOrdered, [Next]_vars
    PROVE  CloseOrdered'
<1> USE DEF CloseOrdered
<1>1. /\ pc \in [Procs -> Phase] /\ snap \in [Procs -> Snapshot \cup {None}]
      /\ Loop \in Procs /\ Closer \in Procs /\ Loop # Closer
      /\ version \in Nat /\ closing.version \in Nat
  BY ProcTypes DEF TypeOK
<1>2. ASSUME NEW p \in Callers, Operation(p) PROVE CloseOrdered'
  <2>1. /\ p # Loop /\ p # Closer /\ p \in Procs
        /\ UNCHANGED closing /\ version' \in Nat /\ version <= version'
    BY <1>1, <1>2, ProcTypes, OperationFrame DEF Framed, ending
  <2>2. CASE UNCHANGED <<pc, snap>>
    BY <1>1, <2>1, <2>2 DEF Writing
  <2>3. ASSUME NEW v, snap' = [snap EXCEPT ![p] = v], pc' = [pc EXCEPT ![p] = "write"]
        PROVE  CloseOrdered'
    <3>1. \A q \in Procs : /\ pc'[q] = IF q = p THEN "write" ELSE pc[q]
                           /\ snap'[q] = IF q = p THEN v ELSE snap[q]
      BY <1>1, <2>3
    <3>2. QED
      BY <1>1, <2>1, <3>1 DEF Writing
  <2>4. QED
    BY <1>2, <2>2, <2>3, OperationFrame DEF Framed
<1>3. ASSUME NEW p \in Procs, WriteStep(p) PROVE CloseOrdered'
  <2>1. CASE BeginWrite(p) \/ FillTmp(p) \/ WriteError(p)
    <3>1. /\ UNCHANGED <<snap, version, closing>>
          /\ pc[p] \in {"write", "tmp", "rename"}
          /\ \E phase \in {"tmp", "rename", "failed"} : pc' = [pc EXCEPT ![p] = phase]
      BY <2>1 DEF BeginWrite, FillTmp, WriteError, memory, ending
    <3>2. PICK phase \in {"tmp", "rename", "failed"} : pc' = [pc EXCEPT ![p] = phase]
      BY <3>1
    <3>3. \A q \in Procs : pc'[q] = IF q = p THEN phase ELSE pc[q]
      BY <1>1, <3>2
    <3>4. QED
      BY <1>1, <3>1, <3>3 DEF Writing
  <2>2. CASE Rename(p) \/ Redirty(p)
    <3>1. /\ UNCHANGED version /\ closing'.version = closing.version
          /\ pc[p] \in {"rename", "failed"} /\ pc' = [pc EXCEPT ![p] = After(p)]
          /\ snap' = [snap EXCEPT ![p] = None]
      BY <2>2 DEF Rename, Redirty, memory, ending, TypeOK
    <3>2. \A q \in Procs : /\ pc'[q] = IF q = p THEN After(p) ELSE pc[q]
                           /\ snap'[q] = IF q = p THEN None ELSE snap[q]
      BY <1>1, <3>1
    <3>3. QED
      BY <1>1, <3>1, <3>2, AfterIsPhase DEF Writing
  <2>3. QED
    BY <1>3, <2>1, <2>2 DEF WriteStep
<1>4. ASSUME NEW p \in {Loop, Closer}, FlushStep(p) PROVE CloseOrdered'
  <2>1. p \in Procs /\ pc[p] = "flush" /\ UNCHANGED <<version, closing>>
    BY <1>1, <1>4 DEF FlushStep, FlushClean, FlushDirty, ending
  <2>2. CASE FlushClean(p)
    <3>1. UNCHANGED snap /\ pc' = [pc EXCEPT ![p] = After(p)]
      BY <2>2 DEF FlushClean
    <3>2. \A q \in Procs : pc'[q] = IF q = p THEN After(p) ELSE pc[q]
      BY <1>1, <3>1
    <3>3. QED
      BY <1>1, <2>1, <3>1, <3>2, AfterIsPhase DEF Writing
  <2>3. CASE FlushDirty(p)
    <3> DEFINE v == [version |-> version, store |-> mem]
    <3>1. snap' = [snap EXCEPT ![p] = v] /\ pc' = [pc EXCEPT ![p] = "write"]
      BY <2>3 DEF FlushDirty
    <3>2. v.version = version
      OBVIOUS
    <3> HIDE DEF v
    <3>3. \A q \in Procs : /\ pc'[q] = IF q = p THEN "write" ELSE pc[q]
                           /\ snap'[q] = IF q = p THEN v ELSE snap[q]
      BY <1>1, <3>1
    <3>4. QED
      BY <1>1, <2>1, <3>2, <3>3 DEF Writing
  <2>4. QED
    BY <1>4, <2>2, <2>3 DEF FlushStep
<1>5. CASE LoopStep
  <2>1. /\ UNCHANGED <<snap, version, closing>> /\ pc[Loop] \in {"select", "debounce"}
        /\ \E phase \in {"debounce", "flush"} : pc' = [pc EXCEPT ![Loop] = phase]
    <3>1. CASE LoopWake
      BY <3>1 DEF LoopWake, ending
    <3>2. CASE LoopTimer
      BY <3>2 DEF LoopTimer, ending
    <3>3. CASE LoopStop
      BY <3>3 DEF LoopStop, memory
    <3>4. QED
      BY <1>5, <3>1, <3>2, <3>3 DEF LoopStep
  <2>2. PICK phase \in {"debounce", "flush"} : pc' = [pc EXCEPT ![Loop] = phase]
    BY <2>1
  <2>3. \A q \in Procs : pc'[q] = IF q = Loop THEN phase ELSE pc[q]
    BY <1>1, <2>2
  <2>4. QED
    BY <1>1, <2>1, <2>3 DEF Writing
<1>6. CASE BeginClose
  <2>1. /\ UNCHANGED <<snap, version>> /\ closing'.version = version
        /\ pc[Closer] = "idle" /\ pc' = [pc EXCEPT ![Closer] = "wait"]
    BY <1>6 DEF BeginClose, memory
  <2>2. \A q \in Procs : pc'[q] = IF q = Closer THEN "wait" ELSE pc[q]
    BY <1>1, <2>1
  <2>3. QED
    BY <1>1, <2>1, <2>2 DEF Writing
<1>7. CASE LoopDone
  <2>1. /\ UNCHANGED <<snap, version, closing>>
        /\ pc[Closer] = "wait" /\ pc[Loop] = "exited"
        /\ pc' = [pc EXCEPT ![Closer] = "flush"]
    BY <1>7 DEF LoopDone, memory, ending
  <2>2. \A q \in Procs : pc'[q] = IF q = Closer THEN "flush" ELSE pc[q]
    BY <1>1, <2>1
  <2>3. QED
    BY <1>1, <2>1, <2>2 DEF Writing
<1>8. CASE Exit \/ Crash
  <2>1. /\ pc' = [p \in Procs |-> IF p = Loop THEN "select" ELSE "idle"]
        /\ snap' = [p \in Procs |-> None]
    BY <1>8 DEF Exit, Crash, Restart
  <2>2. QED
    BY <1>1, <2>1 DEF Writing
<1>9. CASE Tick \/ UNCHANGED vars
  <2>1. UNCHANGED <<pc, snap, version, closing>>
    BY <1>9 DEF Tick, vars, memory, ending
  <2>2. QED
    BY <2>1 DEF Writing
<1>10. QED
  BY <1>2, <1>3, <1>4, <1>5, <1>6, <1>7, <1>8, <1>9 DEF Next

(* The step with which Close returns. *)
LEMMA CloseReturnsFlushed ==
    ASSUME TypeOK, HasSnapshot, VersionsInv, CloseOrdered, [Next]_vars,
           pc[Closer] # "closed", pc'[Closer] = "closed", ~closing'.err
    PROVE  newest' >= closing.version \/ \E p \in Callers : Writing(p)'
<1>1. /\ pc \in [Procs -> Phase] /\ snap \in [Procs -> Snapshot \cup {None}]
      /\ Loop \in Procs /\ Closer \in Procs /\ Loop # Closer
      /\ version \in Nat /\ newest \in Nat /\ closing.version \in Nat
  BY ProcTypes DEF TypeOK
<1>2. CASE FlushClean(Closer)
  <2>1. /\ pc[Closer] = "flush" /\ ~(loaded /\ dirty) /\ UNCHANGED <<newest, snap>>
    BY <1>2 DEF FlushClean, file
  <2>2. closing.version <= version /\ pc[Loop] = "exited"
    BY <2>1 DEF CloseOrdered
  <2>3. ~Writing(Closer) /\ ~Writing(Loop)
    BY <1>1, <2>1, <2>2 DEF CloseOrdered
  <2>4. newest = version \/ \E p \in Procs : Writing(p) /\ snap[p].version = version
    BY <2>1 DEF VersionsInv, VersionsOrdered, CleanMeansWritten
  <2>5. CASE newest = version
    BY <1>1, <2>1, <2>2, <2>5
  <2>6. CASE \E p \in Procs : Writing(p)
    BY <2>1, <2>3, <2>6 DEF Procs, Writing
  <2>7. QED
    BY <2>4, <2>5, <2>6
<1>3. CASE Rename(Closer)
  <2>1. /\ pc[Closer] = "rename"
        /\ newest' = (IF snap[Closer].version > newest THEN snap[Closer].version ELSE newest)
    BY <1>3 DEF Rename
  <2>2. Writing(Closer)
    BY <1>1, <2>1 DEF HasSnapshot
  <2>3. closing.version <= snap[Closer].version /\ snap[Closer].version \in Nat
    BY <1>1, <2>2 DEF CloseOrdered, Writing, Snapshot
  <2>4. QED
    BY <1>1, <2>1, <2>3
<1>4. CASE Redirty(Closer)
  <2>1. closing' = [closing EXCEPT !.err = @ \/ Closer = Closer]
    BY <1>4 DEF Redirty
  <2>2. closing \in [version : Nat, err : BOOLEAN]
    BY DEF TypeOK
  <2>3. closing'.err = TRUE
    BY <2>1, <2>2, Zenon
  <2>4. QED
    BY <2>3
(* No other step moves Close to its end. *)
<1>5. ASSUME NEW p \in Procs, p # Closer, NEW phase, pc' = [pc EXCEPT ![p] = phase]
      PROVE  FALSE
  BY <1>1, <1>5
<1>6. ASSUME NEW phase, phase # "closed", pc' = [pc EXCEPT ![Closer] = phase]
      PROVE  FALSE
  BY <1>1, <1>6
<1>7. ASSUME UNCHANGED pc PROVE FALSE
  BY <1>7
<1>8. ASSUME NEW p \in Callers, Operation(p) PROVE FALSE
  BY <1>5, <1>7, <1>8, ProcTypes, OperationFrame DEF Framed
<1>9. ASSUME NEW p \in Procs, p # Closer, WriteStep(p) PROVE FALSE
  BY <1>5, <1>9 DEF WriteStep, BeginWrite, FillTmp, Rename, WriteError, Redirty
<1>10. CASE BeginWrite(Closer) \/ FillTmp(Closer) \/ WriteError(Closer)
  BY <1>6, <1>10 DEF BeginWrite, FillTmp, WriteError
<1>11. CASE FlushStep(Loop) \/ LoopStep
  BY <1>1, <1>5, <1>11 DEF FlushStep, FlushClean, FlushDirty, LoopStep, LoopWake,
                          LoopTimer, LoopStop
<1>12. CASE FlushDirty(Closer) \/ BeginClose \/ LoopDone
  BY <1>6, <1>12 DEF FlushDirty, BeginClose, LoopDone
<1>13. CASE Exit \/ Crash
  <2>1. pc' = [p \in Procs |-> IF p = Loop THEN "select" ELSE "idle"]
    BY <1>13 DEF Exit, Crash, Restart
  <2>2. QED
    BY <1>1, <2>1
<1>14. CASE Tick \/ UNCHANGED vars
  BY <1>7, <1>14 DEF Tick, vars
<1>15. QED
  BY <1>2, <1>3, <1>4, <1>8, <1>9, <1>10, <1>11, <1>12, <1>13, <1>14
  DEF Next, WriteStep, FlushStep

(***************************************************************************)
(* When Close returns without an error, what memory held when it was       *)
(* called is in place, or a request that outlived the shutdown is writing  *)
(* (pool.go:256-264, server.go:72-80).                                     *)
(***************************************************************************)
THEOREM CloseSaves == Spec => CloseFlushes
<1>1. Init => CloseOrdered
  BY ProcTypes DEF Init, CloseOrdered, Writing
<1>2. TypeOK /\ VersionsOrdered /\ CloseOrdered /\ [Next]_vars => CloseOrdered'
  BY CloseStep
<1>3. Init => VersionsInv
  BY DEF Init, VersionsInv, VersionsOrdered, CleanMeansWritten, Writing
<1>4. StoresInv /\ VersionsInv /\ [Next]_vars => VersionsInv'
  BY VersionsStep
<1>5. StoresInv => TypeOK /\ HasSnapshot
  BY DEF StoresInv
<1>6. VersionsInv => VersionsOrdered
  BY DEF VersionsInv
<1>7. TypeOK /\ HasSnapshot /\ VersionsInv /\ CloseOrdered /\ [Next]_vars
      => [pc[Closer] # "closed" /\ pc'[Closer] = "closed" /\ ~closing'.err =>
            newest' >= closing.version \/ \E p \in Callers : Writing(p)']_vars
  BY CloseReturnsFlushed
<1>8. QED
  BY <1>1, <1>2, <1>3, <1>4, <1>5, <1>6, <1>7, StoresAlways, PTL DEF Spec, CloseFlushes

-----------------------------------------------------------------------------
(* What the versions stand for.                                            *)

LEMMA FaithfulKept ==
    ASSUME VersionsFaithful, UNCHANGED <<disk, snap, version, loaded, mem>>
    PROVE  VersionsFaithful'
BY DEF VersionsFaithful, Writing

LEMMA FaithfulLoaded ==
    ASSUME VersionsFaithful, UNCHANGED <<disk, snap, version>>,
           mem' = StoreNow, loaded' = TRUE
    PROVE  VersionsFaithful'
BY DEF VersionsFaithful, Writing, StoreNow

(* Nobody carries the version that a change of memory makes.               *)
LEMMA OlderVersions ==
    ASSUME StoresInv, VersionsOrdered, VersionsFaithful
    PROVE  /\ version \in Nat /\ disk.version < version + 1
           /\ \A p \in Procs : Writing(p) => snap[p].version < version + 1
<1>1. version \in Nat /\ disk.version \in Nat
  BY StoreNowWellFormed DEF StoresInv, TypeOK, Snapshot
<1>2. \A p \in Procs : Writing(p) => snap[p].version \in Nat
  BY DEF StoresInv, TypeOK, Writing, Snapshot
<1>3. QED
  BY <1>1, <1>2 DEF VersionsOrdered, VersionsFaithful

LEMMA TouchKeepsFaithful ==
    ASSUME StoresInv, VersionsOrdered, VersionsFaithful, NEW s, Touch(s),
           UNCHANGED <<disk, snap>>
    PROVE  VersionsFaithful'
<1>1. loaded' = TRUE /\ version' = version + 1
  BY DEF Touch
<1>2. disk'.version < version' /\ disk'.version \in Nat /\ version' \in Nat
  BY <1>1, OlderVersions, StoreNowWellFormed DEF Snapshot
<1>3. \A p \in Procs : Writing(p)' => snap'[p].version # version'
  <2>1. TAKE p \in Procs
  <2>2. HAVE Writing(p)'
  <2>3. Writing(p) /\ snap[p].version \in Nat /\ snap'[p] = snap[p]
    BY <2>2 DEF Writing, StoresInv, TypeOK, Snapshot
  <2>4. QED
    BY <1>1, <2>3, OlderVersions
<1>4. QED
  BY <1>1, <1>2, <1>3 DEF VersionsFaithful

LEMMA CommitKeepsFaithful ==
    ASSUME StoresInv, VersionsOrdered, VersionsFaithful, NEW p \in Callers, NEW s,
           Commit(p, s), disk' = disk
    PROVE  VersionsFaithful'
<1>1. /\ mem' = s /\ loaded' = TRUE /\ version' = version + 1
      /\ snap' = [snap EXCEPT ![p] = [version |-> version + 1, store |-> s]]
  BY DEF Commit
<1>2. \A q \in Procs :
          snap'[q] = IF q = p THEN [version |-> version + 1, store |-> s] ELSE snap[q]
  BY <1>1 DEF StoresInv, TypeOK
<1>3. disk'.version < version' /\ disk'.version \in Nat /\ version' \in Nat
  BY <1>1, OlderVersions, StoreNowWellFormed DEF Snapshot
<1>4. ASSUME NEW q \in Procs, Writing(q)', snap'[q].version = version'
      PROVE  snap'[q].store = mem'
  <2>1. CASE q = p
    BY <1>1, <1>2, <2>1
  <2>2. CASE q # p
    <3>1. Writing(q) /\ snap[q].version \in Nat /\ snap'[q] = snap[q]
      BY <1>2, <1>4, <2>2 DEF Writing, StoresInv, TypeOK, Snapshot
    <3>2. QED
      BY <1>1, <1>4, <3>1, OlderVersions
  <2>3. QED
    BY <2>1, <2>2
<1>5. QED
  BY <1>1, <1>3, <1>4 DEF VersionsFaithful

LEMMA OperationKeepsFaithful ==
    ASSUME StoresInv, VersionsOrdered, VersionsFaithful, NEW p \in Callers,
           Operation(p)
    PROVE  VersionsFaithful'
<1>1. CASE Load(p)
  BY <1>1, FaithfulLoaded DEF Load, StoreNow, file
<1>2. ASSUME NEW c, Login(p, c) PROVE VersionsFaithful'
  BY <1>2, CommitKeepsFaithful DEF Login, file
<1>3. ASSUME NEW id, Remove(p, id) PROVE VersionsFaithful'
  BY <1>3, CommitKeepsFaithful DEF Remove, file
<1>4. ASSUME NEW id, NEW enabled, Toggle(p, id, enabled) PROVE VersionsFaithful'
  BY <1>4, CommitKeepsFaithful DEF Toggle, file
<1>5. ASSUME NEW id, Read(p, id) PROVE VersionsFaithful'
  BY <1>5, FaithfulLoaded DEF Read, file
<1>6. ASSUME NEW id, NEW site, SelectPinned(p, id, site) PROVE VersionsFaithful'
  BY <1>6, TouchKeepsFaithful DEF SelectPinned, file
<1>7. ASSUME NEW site, NEW exclude, Select(p, site, exclude) PROVE VersionsFaithful'
  BY <1>7, TouchKeepsFaithful DEF Select, file
<1>8. ASSUME NEW ok, NEW cooldown, Result(p, ok, cooldown) PROVE VersionsFaithful'
  <2>1. UNCHANGED <<disk, snap>>
    BY <1>8 DEF Result, file
  <2>2. CASE Touch(MarkResult(StoreNow, held[p].id, ok, now, cooldown))
    BY <2>1, <2>2, TouchKeepsFaithful
  <2>3. CASE UNCHANGED memory
    BY <2>1, <2>3, FaithfulKept DEF memory
  <2>4. QED
    BY <1>8, <2>2, <2>3 DEF Result
<1>9. ASSUME NEW c, Refresh(p, c) PROVE VersionsFaithful'
  <2>1. disk' = disk
    BY <1>9 DEF Refresh, file
  <2>2. CASE Commit(p, ReplaceAccount(StoreNow, Refreshed(held[p], c)))
    BY <2>1, <2>2, CommitKeepsFaithful
  <2>3. CASE UNCHANGED <<memory, pc, snap>>
    BY <2>1, <2>3, FaithfulKept DEF memory
  <2>4. QED
    BY <1>9, <2>2, <2>3 DEF Refresh
<1>10. CASE Abandon(p)
  BY <1>10, FaithfulKept DEF Abandon, memory, file
<1>11. QED
  BY <1>1, <1>2, <1>3, <1>4, <1>5, <1>6, <1>7, <1>8, <1>9, <1>10 DEF Operation

LEMMA WriteKeepsFaithful ==
    ASSUME StoresInv, VersionsOrdered, VersionsFaithful, NEW p \in Procs, WriteStep(p)
    PROVE  VersionsFaithful'
<1>1. CASE BeginWrite(p) \/ FillTmp(p) \/ WriteError(p)
  BY <1>1, FaithfulKept DEF BeginWrite, FillTmp, WriteError, memory
<1>2. CASE Rename(p)
  <2>1. /\ disk' = tmp /\ pc[p] = "rename"
        /\ snap' = [snap EXCEPT ![p] = None]
        /\ UNCHANGED <<version, loaded, mem>>
    BY <1>2 DEF Rename, memory
  <2>2. Writing(p) /\ disk' = snap[p]
    BY <2>1 DEF StoresInv, HasSnapshot, RenamesOwnFile
  <2>3. loaded /\ snap[p].version <= version
    BY <2>2 DEF VersionsFaithful, VersionsOrdered
  <2>4. \A q \in Procs : snap'[q] = IF q = p THEN None ELSE snap[q]
    BY <2>1 DEF StoresInv, TypeOK
  <2>5. QED
    BY <2>1, <2>2, <2>3, <2>4 DEF VersionsFaithful, Writing
<1>3. CASE Redirty(p)
  <2>1. /\ snap' = [snap EXCEPT ![p] = None]
        /\ UNCHANGED <<disk, version, loaded, mem>>
    BY <1>3 DEF Redirty, file
  <2>2. \A q \in Procs : snap'[q] = IF q = p THEN None ELSE snap[q]
    BY <2>1 DEF StoresInv, TypeOK
  <2>3. QED
    BY <2>1, <2>2 DEF VersionsFaithful, Writing
<1>4. QED
  BY <1>1, <1>2, <1>3 DEF WriteStep

LEMMA FlushKeepsFaithful ==
    ASSUME StoresInv, VersionsFaithful, NEW p \in Procs, FlushStep(p)
    PROVE  VersionsFaithful'
<1>1. CASE FlushClean(p)
  BY <1>1, FaithfulLoaded DEF FlushClean, file
<1>2. CASE FlushDirty(p)
  <2>1. /\ snap' = [snap EXCEPT ![p] = [version |-> version, store |-> mem]]
        /\ loaded /\ UNCHANGED <<disk, version, loaded, mem>>
    BY <1>2 DEF FlushDirty, file
  <2>2. \A q \in Procs :
            snap'[q] = IF q = p THEN [version |-> version, store |-> mem] ELSE snap[q]
    BY <2>1 DEF StoresInv, TypeOK
  <2>3. QED
    BY <2>1, <2>2 DEF VersionsFaithful, Writing
<1>3. QED
  BY <1>1, <1>2 DEF FlushStep

LEMMA FaithfulStep ==
    ASSUME StoresInv, VersionsOrdered, VersionsFaithful, [Next]_vars
    PROVE  VersionsFaithful'
<1>1. CASE LoopStep \/ BeginClose \/ LoopDone \/ Tick
  BY <1>1, FaithfulKept DEF LoopStep, LoopWake, LoopTimer, LoopStop, BeginClose,
                            LoopDone, Tick, memory, file
<1>2. CASE Exit \/ Crash
  <2>1. /\ loaded' = FALSE /\ version' = disk.version /\ disk' = disk
        /\ snap' = [q \in Procs |-> None]
    BY <1>2 DEF Exit, Crash, Restart
  <2>2. disk.version \in Nat
    BY StoreNowWellFormed DEF Snapshot
  <2>3. QED
    BY <2>1, <2>2 DEF VersionsFaithful, Writing
<1>3. CASE UNCHANGED vars
  BY <1>3, FaithfulKept DEF vars, memory, file
<1>4. ASSUME NEW p \in {Loop, Closer}, FlushStep(p) PROVE VersionsFaithful'
  BY <1>4, ProcTypes, FlushKeepsFaithful
<1>5. QED
  BY <1>1, <1>2, <1>3, <1>4, OperationKeepsFaithful, WriteKeepsFaithful DEF Next

(***************************************************************************)
(* The invariant of the pool, which the run pool_persist checks, holds for *)
(* any number of callers, failures, kills and changes of memory.           *)
(***************************************************************************)
THEOREM PoolInvariant == Spec => []ProofInv
<1>1. Init => StoresInv /\ VersionsInv /\ DirtyWakesLoop /\ CloseOrdered
  <2>1. Init => VersionsInv /\ DirtyWakesLoop
    BY DEF Init, VersionsInv, VersionsOrdered, CleanMeansWritten, DirtyWakesLoop, Writing
  <2>2. Init => CloseOrdered
    BY ProcTypes DEF Init, CloseOrdered, Writing
  <2>3. QED
    BY <2>1, <2>2, InitStores
<1>2. Init => VersionsFaithful
  BY DEF Init, VersionsFaithful, Writing
<1>3. StoresInv /\ VersionsInv /\ [Next]_vars => VersionsInv'
  BY VersionsStep
<1>4. StoresInv => TypeOK
  BY DEF StoresInv
<1>5. TypeOK /\ DirtyWakesLoop /\ [Next]_vars => DirtyWakesLoop'
  BY WakeStep
<1>6. VersionsInv => VersionsOrdered
  BY DEF VersionsInv
<1>7. TypeOK /\ VersionsOrdered /\ CloseOrdered /\ [Next]_vars => CloseOrdered'
  BY CloseStep
<1>8. StoresInv /\ VersionsOrdered /\ VersionsFaithful /\ [Next]_vars
          => VersionsFaithful'
  BY FaithfulStep
<1>9. StoresInv /\ VersionsInv /\ VersionsFaithful /\ DirtyWakesLoop /\ CloseOrdered
          => ProofInv
  BY DEF ProofInv, VersionsInv
<1>10. QED
  BY <1>1, <1>2, <1>3, <1>4, <1>5, <1>6, <1>7, <1>8, <1>9, StoresAlways, PTL DEF Spec

(***************************************************************************)
(* Clean memory is the file, when nobody is writing and no older snapshot  *)
(* was renamed over a newer one (pool.go:196-221): the file has the        *)
(* contents of its version, not only its number.                           *)
(***************************************************************************)
THEOREM FileIsMemory == Spec => []DiskMatchesMemory
<1>1. ProofInv => DiskMatchesMemory
  BY DEF ProofInv, CleanMeansWritten, VersionsFaithful, DiskMatchesMemory
<1>2. QED
  BY <1>1, PoolInvariant, PTL

-----------------------------------------------------------------------------
(* Ids of users.                                                           *)

IdsKept == loaded /\ loaded' => KeepsIds(mem, mem')

LEMMA SameMemoryKeepsIds ==
    ASSUME StoresInv, mem' = StoreNow \/ mem' = mem
    PROVE  IdsKept
<1>1. mem \in Store /\ WellFormed(mem)
  BY DEF StoresInv, TypeOK, WellFormedStores
<1>2. loaded => mem' = mem
  BY DEF StoreNow
<1>3. QED
  BY <1>1, <1>2, SameAccountsKeepIds DEF IdsKept

LEMMA ChangeKeepsIds ==
    ASSUME NEW s, KeepsIds(StoreNow, s), mem' = s
    PROVE  IdsKept
BY DEF IdsKept, StoreNow

LEMMA OperationKeepsIds ==
    ASSUME StoresInv, NEW p \in Callers, Operation(p)
    PROVE  IdsKept
<1>1. StoreNow \in Store /\ WellFormed(StoreNow) /\ TypeOK /\ HeldOwners
  BY StoreNowWellFormed DEF StoresInv
<1>2. CASE Load(p)
  BY <1>2 DEF Load, IdsKept
<1>3. ASSUME NEW c \in Creds, Login(p, c) PROVE IdsKept
  BY <1>1, <1>3, UpsertKeepsIds, ChangeKeepsIds DEF Login, Commit
<1>4. ASSUME NEW id, Remove(p, id) PROVE IdsKept
  BY <1>1, <1>4, DeleteKeepsIds, ChangeKeepsIds DEF Remove, Commit
<1>5. ASSUME NEW id, NEW enabled, Toggle(p, id, enabled) PROVE IdsKept
  BY <1>1, <1>5, SetEnabledKeepsIds, ChangeKeepsIds DEF Toggle, Commit
<1>6. ASSUME NEW id, Read(p, id) PROVE IdsKept
  BY <1>6, SameMemoryKeepsIds DEF Read
<1>7. ASSUME NEW id, NEW site, SelectPinned(p, id, site) PROVE IdsKept
  BY <1>7, SameMemoryKeepsIds DEF SelectPinned, Touch
<1>8. ASSUME NEW site, NEW exclude, Select(p, site, exclude) PROVE IdsKept
  <2> DEFINE s == AfterSelect(StoreNow, Chosen(StoreNow, site, exclude, now))
  <2>1. mem' = s
    BY <1>8 DEF Select, Touch
  <2>2. s.accounts = StoreNow.accounts
    BY DEF AfterSelect
  <2> HIDE DEF s
  <2>3. QED
    BY <1>1, <2>1, <2>2, SameAccountsKeepIds, ChangeKeepsIds
<1>9. ASSUME NEW ok, NEW cooldown, Result(p, ok, cooldown) PROVE IdsKept
  <2>1. CASE /\ Has(StoreNow, held[p].id)
             /\ Touch(MarkResult(StoreNow, held[p].id, ok, now, cooldown))
    BY <1>1, <2>1, MarkResultKeepsIds, ChangeKeepsIds DEF Touch
  <2>2. CASE UNCHANGED memory
    BY <2>2, SameMemoryKeepsIds DEF memory
  <2>3. QED
    BY <1>9, <2>1, <2>2 DEF Result
<1>10. ASSUME NEW c \in Creds, Refresh(p, c) PROVE IdsKept
  <2> DEFINE a == Refreshed(held[p], c)
  <2>1. held[p] # None /\ SameOwner(c, held[p].cred)
    BY <1>10 DEF Refresh
  <2>2. held[p] \in Account /\ SameOwner(held[p].id, held[p].cred)
    BY <1>1, <2>1 DEF TypeOK, HeldOwners
  <2>3. a.id = held[p].id /\ a.cred = c
    BY <2>2, RefreshedAccount
  <2>4. SameOwner(a.id, a.cred)
    BY <2>1, <2>2, <2>3 DEF SameOwner
  <2>5. CASE Has(StoreNow, held[p].id) /\ Commit(p, ReplaceAccount(StoreNow, a))
    <3> HIDE DEF a
    <3>1. KeepsIds(StoreNow, ReplaceAccount(StoreNow, a))
      BY <1>1, <2>3, <2>4, <2>5, ReplaceKeepsIds
    <3>2. QED
      BY <2>5, <3>1, ChangeKeepsIds DEF Commit
  <2>6. CASE UNCHANGED <<memory, pc, snap>>
    BY <2>6, SameMemoryKeepsIds DEF memory
  <2>7. QED
    BY <1>10, <2>5, <2>6 DEF Refresh
<1>11. CASE Abandon(p)
  BY <1>11, SameMemoryKeepsIds DEF Abandon, memory
<1>12. QED
  BY <1>2, <1>3, <1>4, <1>5, <1>6, <1>7, <1>8, <1>9, <1>10, <1>11 DEF Operation

LEMMA StepKeepsIds ==
    ASSUME StoresInv, [Next]_vars
    PROVE  IdsKept
<1>1. ASSUME NEW p \in Procs, WriteStep(p) PROVE IdsKept
  <2>1. mem' = mem
    BY <1>1 DEF WriteStep, BeginWrite, FillTmp, Rename, WriteError, Redirty, memory
  <2>2. QED
    BY <2>1, SameMemoryKeepsIds
<1>2. ASSUME NEW p \in {Loop, Closer}, FlushStep(p) PROVE IdsKept
  <2>1. mem' = StoreNow \/ mem' = mem
    BY <1>2 DEF FlushStep, FlushClean, FlushDirty
  <2>2. QED
    BY <2>1, SameMemoryKeepsIds
<1>3. CASE LoopStep \/ BeginClose \/ LoopDone \/ Tick \/ UNCHANGED vars
  <2>1. mem' = mem
    BY <1>3 DEF LoopStep, LoopWake, LoopTimer, LoopStop, BeginClose, LoopDone, Tick,
                vars, memory
  <2>2. QED
    BY <2>1, SameMemoryKeepsIds
<1>4. CASE Exit \/ Crash
  BY <1>4 DEF Exit, Crash, Restart, IdsKept
<1>5. QED
  BY <1>1, <1>2, <1>3, <1>4, OperationKeepsIds DEF Next

(***************************************************************************)
(* A user's account keeps its id through logins with new tokens, refreshes *)
(* from stale copies, selections and deletions of others                   *)
(* (pool.go:583-724), in pools of any size.                                *)
(***************************************************************************)
THEOREM UsersKeepTheirIds == Spec => IdsAreStable
<1>1. StoresInv /\ [Next]_vars => IdsKept
  BY StepKeepsIds
<1>2. IdsKept =>
          (loaded /\ loaded' =>
             \A i \in 1..Len(mem.accounts), j \in 1..Len(mem'.accounts) :
                 LET a == mem.accounts[i]
                     b == mem'.accounts[j]
                 IN  UserOf[a.cred] # NoUser /\ SameOwner(a.cred, b.cred)
                         => a.id = b.id)
  BY DEF IdsKept, KeepsIds
<1>3. QED
  BY <1>1, <1>2, StoresAlways, PTL DEF Spec, IdsAreStable
=============================================================================
