---------------------------- MODULE AccountPool ----------------------------
(***************************************************************************)
(* accounts.Pool: the store lives in memory under the mutex mu and is      *)
(* written behind to accounts.json.  Request goroutines change memory and  *)
(* mark it dirty; administrative operations take a snapshot under mu,      *)
(* leave mu, and write the snapshot themselves; the goroutine flushLoop    *)
(* writes dirty memory 250ms after it was woken; Close stops the loop and  *)
(* flushes once more.  writeDisk is serialised by the mutex persistMu and  *)
(* writes a temporary file that it renames over accounts.json.             *)
(*                                                                         *)
(* A step under mu is one action.  Versions number the states of memory:   *)
(* they are not in the code and let a snapshot be compared with memory.    *)
(***************************************************************************)
EXTENDS PoolStore

CONSTANTS
    Callers,        \* goroutines that serve HTTP requests
    Loop,           \* the goroutine of flushLoop
    Closer,         \* the goroutine that shuts the server down
    None,           \* no process, no snapshot, no account
    Partial,        \* a temporary file that is missing or half written
    Cooldowns,      \* the durations failureCooldown returns, 0 among them
    MaxVersion,     \* bound: changes of memory
    MaxTime,        \* bound: the clock
    MaxFailures,    \* bound: failing writes
    MaxCrashes      \* bound: kills of the process

Procs == Callers \cup {Loop, Closer}
Snapshot == [version : Nat, store : Store]

ASSUME ProcsAssumption ==
    /\ Loop \notin Callers /\ Closer \notin Callers /\ Loop # Closer
    /\ None \notin Procs
ASSUME SentinelAssumption ==
    None \notin Account /\ None \notin Snapshot /\ Partial \notin Snapshot
ASSUME BoundsAssumption ==
    /\ Cooldowns \subseteq Nat
    /\ MaxVersion \in Nat /\ MaxTime \in Nat
    /\ MaxFailures \in Nat /\ MaxCrashes \in Nat

VARIABLES
    mem,        \* Pool.mem
    loaded,     \* Pool.loaded
    dirty,      \* Pool.dirty
    token,      \* is there a token in wakeCh (capacity 1)?
    stop,       \* is stopCh closed?
    final,      \* has flushLoop seen stopCh, so that its next flush is the last?
    persistMu,  \* the holder of persistMu, or None
    tmp,        \* accounts.json.tmp: a snapshot, or Partial
    disk,       \* accounts.json
    pc,         \* where each process is
    snap,       \* the snapshot that a process is writing, or None
    held,       \* the account a caller selected or read, or None
    now,        \* time.Now()
    version,    \* the version of memory (of the file, until it is loaded)
    newest,     \* the newest version renamed into place since the start
    acked,      \* the newest version whose synchronous writer returned success
    orphan,     \* was memory marked dirty by a failed write, and not since?
    closing,    \* [version: memory when Close began, err: did Close fail?]
    failures,   \* how many writes failed
    crashes     \* how many times the process was killed

memory == <<mem, loaded, dirty, token, version, orphan>>
file   == <<persistMu, tmp, disk, newest, acked, failures>>
ending == <<stop, final, closing, crashes>>
vars   == <<memory, file, ending, pc, snap, held, now>>

Phase == {"idle", "select", "debounce", "flush", "wait",
          "write", "tmp", "rename", "failed", "exited", "closed"}

TypeOK ==
    /\ mem \in Store
    /\ loaded \in BOOLEAN /\ dirty \in BOOLEAN /\ token \in BOOLEAN
    /\ stop \in BOOLEAN /\ final \in BOOLEAN /\ orphan \in BOOLEAN
    /\ persistMu \in Procs \cup {None}
    /\ tmp \in Snapshot \cup {Partial}
    /\ disk \in Snapshot \cup {Partial}
    /\ pc \in [Procs -> Phase]
    /\ snap \in [Procs -> Snapshot \cup {None}]
    /\ held \in [Callers -> Account \cup {None}]
    /\ now \in Nat /\ version \in Nat /\ newest \in Nat /\ acked \in Nat
    /\ failures \in Nat /\ crashes \in Nat
    /\ closing \in [version : Nat, err : BOOLEAN]

Init ==
    /\ mem = EmptyStore /\ loaded = FALSE /\ dirty = FALSE /\ token = FALSE
    /\ stop = FALSE /\ final = FALSE /\ orphan = FALSE
    /\ persistMu = None
    /\ tmp = Partial
    /\ disk = [version |-> 0, store |-> EmptyStore]
    /\ pc = [p \in Procs |-> IF p = Loop THEN "select" ELSE "idle"]
    /\ snap = [p \in Procs |-> None]
    /\ held = [p \in Callers |-> None]
    /\ now = 0 /\ version = 0 /\ newest = 0 /\ acked = 0
    /\ failures = 0 /\ crashes = 0
    /\ closing = [version |-> 0, err |-> FALSE]

-----------------------------------------------------------------------------
(* Memory.  StoreNow is the store after ensureLoadedLocked.                *)

StoreNow == IF loaded THEN mem ELSE disk.store

(* Select and MarkResult: memory changes and is marked dirty, flushLoop is *)
(* woken.  The faulty variant loses the wake-up.                           *)
TouchSilently(s) ==
    /\ version < MaxVersion
    /\ mem' = s /\ loaded' = TRUE /\ version' = version + 1
    /\ dirty' = TRUE /\ orphan' = FALSE
    /\ UNCHANGED token

Touch(s) ==
    /\ version < MaxVersion
    /\ mem' = s /\ loaded' = TRUE /\ version' = version + 1
    /\ dirty' = TRUE /\ orphan' = FALSE
    /\ token' = TRUE

(* Upsert, Delete, SetEnabled, ReplaceAccount: memory changes, is thought  *)
(* clean, and the caller leaves mu with a snapshot to write.               *)
Commit(p, s) ==
    /\ version < MaxVersion
    /\ mem' = s /\ loaded' = TRUE /\ version' = version + 1
    /\ dirty' = FALSE /\ orphan' = FALSE
    /\ snap' = [snap EXCEPT ![p] = [version |-> version + 1, store |-> s]]
    /\ pc' = [pc EXCEPT ![p] = "write"]
    /\ UNCHANGED token

(* Every operation, also one that then returns an error, loads the file. *)
Load(p) ==
    /\ pc[p] = "idle" /\ ~loaded
    /\ mem' = disk.store /\ loaded' = TRUE /\ dirty' = FALSE
    /\ UNCHANGED <<token, version, orphan, file, ending, pc, snap, held, now>>

-----------------------------------------------------------------------------
(* The operations of a request goroutine.                                  *)

Login(p, c) ==
    /\ pc[p] = "idle" /\ held[p] = None
    /\ Commit(p, Upsert(StoreNow, c))
    /\ UNCHANGED <<file, ending, held, now>>

Remove(p, id) ==
    /\ pc[p] = "idle" /\ held[p] = None
    /\ Has(StoreNow, id)
    /\ Commit(p, Delete(StoreNow, id))
    /\ UNCHANGED <<file, ending, held, now>>

Toggle(p, id, enabled) ==
    /\ pc[p] = "idle" /\ held[p] = None
    /\ Has(StoreNow, id)
    /\ Commit(p, SetEnabled(StoreNow, id, enabled))
    /\ UNCHANGED <<file, ending, held, now>>

(* Read, then the handler keeps a copy of one account. *)
Read(p, id) ==
    /\ pc[p] = "idle" /\ held[p] = None
    /\ Has(StoreNow, id)
    /\ held' = [held EXCEPT ![p] = AccountAt(StoreNow, id)]
    /\ mem' = StoreNow /\ loaded' = TRUE /\ dirty' = (loaded /\ dirty)
    /\ UNCHANGED <<token, version, orphan, file, ending, pc, snap, now>>

Select(p, site, exclude) ==
    LET i == Chosen(StoreNow, site, exclude, now)
    IN  /\ pc[p] = "idle" /\ held[p] = None
        /\ Eligible(StoreNow, site, exclude) # {}
        /\ Touch(AfterSelect(StoreNow, i))
        /\ held' = [held EXCEPT ![p] = StoreNow.accounts[i]]
        /\ UNCHANGED <<file, ending, pc, snap, now>>

(* Select with SelectOptions.AccountID: the cursor stays. *)
SelectPinned(p, id, site) ==
    /\ pc[p] = "idle" /\ held[p] = None
    /\ Has(StoreNow, id)
    /\ AccountAt(StoreNow, id).enabled
    /\ SiteOf[AccountAt(StoreNow, id).cred] = site
    /\ Touch(StoreNow)
    /\ held' = [held EXCEPT ![p] = AccountAt(StoreNow, id)]
    /\ UNCHANGED <<file, ending, pc, snap, now>>

(* The result of a request; nothing happens if the account is gone. *)
Result(p, ok, cooldown) ==
    /\ pc[p] = "idle" /\ held[p] # None
    /\ \/ /\ Has(StoreNow, held[p].id)
          /\ Touch(MarkResult(StoreNow, held[p].id, ok, now, cooldown))
       \/ /\ ~Has(StoreNow, held[p].id)
          /\ UNCHANGED memory
    /\ held' = [held EXCEPT ![p] = None]
    /\ UNCHANGED <<file, ending, pc, snap, now>>

(* The new credential of a refresh is saved; ErrAccountNotFound if the     *)
(* account is gone.                                                        *)
Refresh(p, c) ==
    /\ pc[p] = "idle" /\ held[p] # None
    /\ SameOwner(c, held[p].cred)
    /\ \/ /\ Has(StoreNow, held[p].id)
          /\ Commit(p, ReplaceAccount(StoreNow, Refreshed(held[p], c)))
          /\ held' = [held EXCEPT ![p] = Refreshed(held[p], c)]
       \/ /\ ~Has(StoreNow, held[p].id)
          /\ held' = [held EXCEPT ![p] = None]
          /\ UNCHANGED <<memory, pc, snap>>
    /\ UNCHANGED <<file, ending, now>>

(* The client goes away, or the handler only wanted to look. *)
Abandon(p) ==
    /\ pc[p] = "idle" /\ held[p] # None
    /\ held' = [held EXCEPT ![p] = None]
    /\ UNCHANGED <<memory, file, ending, pc, snap, now>>

-----------------------------------------------------------------------------
(* writeDisk, entered with a snapshot, and what its caller does after it.  *)

After(p) ==
    CASE p = Loop   -> IF final THEN "exited" ELSE "select"
      [] p = Closer -> "closed"
      [] OTHER      -> "idle"

(* Without persistMu. *)
BeginWriteUnserialised(p) ==
    /\ pc[p] = "write"
    /\ persistMu' = p
    /\ tmp' = Partial
    /\ pc' = [pc EXCEPT ![p] = "tmp"]
    /\ UNCHANGED <<memory, ending, disk, newest, acked, failures, snap, held, now>>

(* persistMu is taken and os.WriteFile truncates the temporary file. *)
BeginWrite(p) ==
    /\ pc[p] = "write"
    /\ persistMu = None
    /\ persistMu' = p
    /\ tmp' = Partial
    /\ pc' = [pc EXCEPT ![p] = "tmp"]
    /\ UNCHANGED <<memory, ending, disk, newest, acked, failures, snap, held, now>>

(* The temporary file is complete. *)
FillTmp(p) ==
    /\ pc[p] = "tmp"
    /\ tmp' = snap[p]
    /\ pc' = [pc EXCEPT ![p] = "rename"]
    /\ UNCHANGED <<memory, ending, persistMu, disk, newest, acked, failures, snap,
                   held, now>>

(* os.Rename, and success is returned: for a synchronous operation, to the *)
(* client that asked for it.                                               *)
Rename(p) ==
    /\ pc[p] = "rename"
    /\ disk' = tmp
    /\ tmp' = Partial
    /\ persistMu' = None
    /\ newest' = IF snap[p].version > newest THEN snap[p].version ELSE newest
    /\ acked' = IF p \in Callers /\ snap[p].version > acked
                THEN snap[p].version ELSE acked
    /\ snap' = [snap EXCEPT ![p] = None]
    /\ pc' = [pc EXCEPT ![p] = After(p)]
    /\ UNCHANGED <<memory, ending, failures, held, now>>

(* An error return that leaves persistMu locked. *)
WriteErrorKeepingLock(p) ==
    /\ pc[p] \in {"tmp", "rename"}
    /\ failures < MaxFailures
    /\ failures' = failures + 1
    /\ pc' = [pc EXCEPT ![p] = "failed"]
    /\ UNCHANGED <<memory, ending, persistMu, tmp, disk, newest, acked, snap, held,
                   now>>

(* os.MkdirAll, os.WriteFile or os.Rename fails. *)
WriteError(p) ==
    /\ pc[p] \in {"tmp", "rename"}
    /\ failures < MaxFailures
    /\ failures' = failures + 1
    /\ persistMu' = None
    /\ pc' = [pc EXCEPT ![p] = "failed"]
    /\ UNCHANGED <<memory, ending, tmp, disk, newest, acked, snap, held, now>>

(* A failed write that is reported and forgotten. *)
ForgetFailure(p) ==
    /\ pc[p] = "failed"
    /\ snap' = [snap EXCEPT ![p] = None]
    /\ pc' = [pc EXCEPT ![p] = After(p)]
    /\ held' = [q \in Callers |-> IF q = p THEN None ELSE held[q]]
    /\ closing' = [closing EXCEPT !.err = @ \/ p = Closer]
    /\ UNCHANGED <<memory, file, stop, final, crashes, now>>

(* The error path of every writer: memory is dirty again, flushLoop is not *)
(* woken, the error is returned.                                           *)
Redirty(p) ==
    /\ pc[p] = "failed"
    /\ dirty' = TRUE /\ orphan' = TRUE
    /\ snap' = [snap EXCEPT ![p] = None]
    /\ pc' = [pc EXCEPT ![p] = After(p)]
    /\ held' = [q \in Callers |-> IF q = p THEN None ELSE held[q]]
    /\ closing' = [closing EXCEPT !.err = @ \/ p = Closer]
    /\ UNCHANGED <<mem, loaded, token, version, file, stop, final, crashes, now>>

-----------------------------------------------------------------------------
(* Flush, called by flushLoop and by Close.                                *)

(* Nothing to write. *)
FlushClean(p) ==
    /\ pc[p] = "flush"
    /\ ~(loaded /\ dirty)
    /\ mem' = StoreNow /\ loaded' = TRUE /\ dirty' = FALSE
    /\ pc' = [pc EXCEPT ![p] = After(p)]
    /\ UNCHANGED <<token, version, orphan, file, ending, snap, held, now>>

FlushDirty(p) ==
    /\ pc[p] = "flush"
    /\ loaded /\ dirty
    /\ dirty' = FALSE /\ orphan' = FALSE
    /\ snap' = [snap EXCEPT ![p] = [version |-> version, store |-> mem]]
    /\ pc' = [pc EXCEPT ![p] = "write"]
    /\ UNCHANGED <<mem, loaded, token, version, file, ending, held, now>>

-----------------------------------------------------------------------------
(* flushLoop.                                                              *)

LoopWake ==
    /\ pc[Loop] = "select" /\ token
    /\ token' = FALSE
    /\ pc' = [pc EXCEPT ![Loop] = "debounce"]
    /\ UNCHANGED <<mem, loaded, dirty, version, orphan, file, ending, snap, held, now>>

(* The drain without the flush. *)
LoopTimerWithoutFlush ==
    /\ pc[Loop] = "debounce"
    /\ token' = FALSE
    /\ pc' = [pc EXCEPT ![Loop] = "select"]
    /\ UNCHANGED <<mem, loaded, dirty, version, orphan, file, ending, snap, held, now>>

(* The 250ms timer fires; wake-ups that arrived meanwhile are drained. *)
LoopTimer ==
    /\ pc[Loop] = "debounce"
    /\ token' = FALSE
    /\ pc' = [pc EXCEPT ![Loop] = "flush"]
    /\ UNCHANGED <<mem, loaded, dirty, version, orphan, file, ending, snap, held, now>>

LoopStop ==
    /\ pc[Loop] \in {"select", "debounce"} /\ stop
    /\ final' = TRUE
    /\ pc' = [pc EXCEPT ![Loop] = "flush"]
    /\ UNCHANGED <<memory, file, stop, closing, crashes, snap, held, now>>

-----------------------------------------------------------------------------
(* Close, and the end of the process.                                      *)

BeginClose ==
    /\ pc[Closer] = "idle"
    /\ stop' = TRUE
    /\ closing' = [version |-> version, err |-> FALSE]
    /\ pc' = [pc EXCEPT ![Closer] = "wait"]
    /\ UNCHANGED <<memory, file, final, crashes, snap, held, now>>

(* A Close that neither waits for doneCh nor flushes. *)
LoopDoneUnawaited ==
    /\ pc[Closer] = "wait"
    /\ pc' = [pc EXCEPT ![Closer] = "closed"]
    /\ UNCHANGED <<memory, file, ending, snap, held, now>>

LoopDone ==
    /\ pc[Closer] = "wait" /\ pc[Loop] = "exited"
    /\ pc' = [pc EXCEPT ![Closer] = "flush"]
    /\ UNCHANGED <<memory, file, ending, snap, held, now>>

(* The process is gone with everything but its files; the next one starts. *)
Restart ==
    /\ mem' = EmptyStore /\ loaded' = FALSE /\ dirty' = FALSE /\ token' = FALSE
    /\ stop' = FALSE /\ final' = FALSE /\ orphan' = FALSE
    /\ persistMu' = None
    /\ pc' = [p \in Procs |-> IF p = Loop THEN "select" ELSE "idle"]
    /\ snap' = [p \in Procs |-> None]
    /\ held' = [p \in Callers |-> None]
    /\ version' = disk.version /\ newest' = disk.version /\ acked' = disk.version
    /\ closing' = [version |-> 0, err |-> FALSE]
    /\ UNCHANGED <<tmp, disk, failures, now>>

(* main returns once Close has: whatever goroutine still runs is cut off. *)
Exit ==
    /\ pc[Closer] = "closed"
    /\ Restart
    /\ UNCHANGED crashes

Crash ==
    /\ crashes < MaxCrashes
    /\ crashes' = crashes + 1
    /\ Restart

Tick ==
    /\ now < MaxTime
    /\ now' = now + 1
    /\ UNCHANGED <<memory, file, ending, pc, snap, held>>

-----------------------------------------------------------------------------
Operation(p) ==
    \/ Load(p)
    \/ \E c \in Creds : Login(p, c) \/ Refresh(p, c)
    \/ \E id \in Creds :
        \/ Remove(p, id) \/ Read(p, id)
        \/ \E enabled \in BOOLEAN : Toggle(p, id, enabled)
        \/ \E site \in Sites : SelectPinned(p, id, site)
    \/ \E site \in Sites, exclude \in SUBSET Creds : Select(p, site, exclude)
    \/ \E ok \in BOOLEAN, cooldown \in Cooldowns : Result(p, ok, cooldown)
    \/ Abandon(p)

WriteStep(p) ==
    BeginWrite(p) \/ FillTmp(p) \/ Rename(p) \/ WriteError(p) \/ Redirty(p)

FlushStep(p) == FlushClean(p) \/ FlushDirty(p)

LoopStep == LoopWake \/ LoopTimer \/ LoopStop

Next ==
    \/ \E p \in Callers : Operation(p)
    \/ \E p \in Procs : WriteStep(p)
    \/ \E p \in {Loop, Closer} : FlushStep(p)
    \/ LoopStep
    \/ BeginClose \/ LoopDone \/ Exit \/ Crash \/ Tick

Spec == Init /\ [][Next]_vars

(***************************************************************************)
(* Goroutines that can run do run; a Go mutex hands over to a goroutine    *)
(* that has waited long (starvation mode), so taking persistMu is strongly *)
(* fair; the select of flushLoop chooses at random among the ready cases,  *)
(* so a closed stopCh is not ignored for ever.  Requests, shutdowns,       *)
(* failures and kills need never happen.                                   *)
(***************************************************************************)
Fairness ==
    /\ \A p \in Procs :
        /\ SF_vars(BeginWrite(p))
        /\ WF_vars(FillTmp(p) \/ Rename(p) \/ WriteError(p))
        /\ WF_vars(Redirty(p))
    /\ \A p \in {Loop, Closer} : WF_vars(FlushStep(p))
    /\ WF_vars(LoopStep) /\ SF_vars(LoopStop)
    /\ WF_vars(LoopDone)

FairSpec == Spec /\ Fairness

-----------------------------------------------------------------------------
(* Correctness.                                                            *)

Writing(p) == snap[p] # None

(***************************************************************************)
(* Whatever logins, deletions and refreshes interleave, and whichever      *)
(* snapshot reaches the file, every store has unique ids, one account for  *)
(* one user of one region, and a cursor that Select can start from.        *)
(***************************************************************************)
WellFormedStores ==
    /\ WellFormed(mem)
    /\ disk # Partial => WellFormed(disk.store)
    /\ tmp # Partial => WellFormed(tmp.store)
    /\ \A p \in Procs : Writing(p) => WellFormed(snap[p].store)

(* A kill at any moment leaves a complete accounts.json (pool.go:216-219). *)
DiskIsWhole == disk # Partial

(* A process renames the file that it wrote itself: all writers share one  *)
(* name for the temporary file (pool.go:215).                              *)
RenamesOwnFile == \A p \in Procs : pc[p] = "rename" => tmp = snap[p]

(***************************************************************************)
(* The dirty mark is never lost: when memory is thought clean, its current *)
(* version is being written, or has been renamed into place at some time.  *)
(* (An older snapshot may have been renamed over it since: SyncIsDurable.) *)
(***************************************************************************)
CleanMeansWritten ==
    loaded /\ ~dirty =>
        \/ newest = version
        \/ \E p \in Procs : Writing(p) /\ snap[p].version = version

(* With no write in progress and none overtaken, clean memory is the file. *)
DiskMatchesMemory ==
    /\ loaded /\ ~dirty /\ disk # Partial
    /\ \A p \in Procs : ~Writing(p)
    /\ disk.version = newest
    => disk.store = mem

(***************************************************************************)
(* No lost wake-up: memory that an operation marked dirty has a token in   *)
(* wakeCh, or flushLoop is between its wake-up and its snapshot.           *)
(***************************************************************************)
DirtyWakesLoop ==
    dirty /\ ~orphan /\ ~final => token \/ pc[Loop] \in {"debounce", "flush"}

(***************************************************************************)
(* When Close returns nil, everything that memory held when it was called  *)
(* has been renamed into place, unless a request that outlived the         *)
(* shutdown timeout is just writing it (pool.go:256-264).                  *)
(***************************************************************************)
CloseFlushes ==
    [][pc[Closer] # "closed" /\ pc'[Closer] = "closed" /\ ~closing'.err =>
        newest' >= closing.version \/ \E p \in Callers : Writing(p)']_vars

(* The account of a user keeps its id, hence its place in the statistics   *)
(* and in pinned requests, through new logins and refreshes.               *)
IdsAreStable ==
    [][loaded /\ loaded' =>
        \A i \in 1..Len(mem.accounts), j \in 1..Len(mem'.accounts) :
            LET a == mem.accounts[i]
                b == mem'.accounts[j]
            IN  UserOf[a.cred] # NoUser /\ SameOwner(a.cred, b.cred)
                    => a.id = b.id]_vars

(***************************************************************************)
(* Every version of memory reaches the file, itself or within a newer one, *)
(* unless a write failed, the pool was closed or the process was killed    *)
(* (overview.md: the background goroutine merges the writes).              *)
(***************************************************************************)
FlushedEventually ==
    \A v \in 1..MaxVersion :
        (version = v) ~> (newest >= v \/ orphan \/ stop \/ version < v)

(* Close does not wait for ever for flushLoop or for persistMu. *)
CloseReturns == stop ~> (pc[Closer] = "closed" \/ ~stop)

-----------------------------------------------------------------------------
(***************************************************************************)
(* The inductive invariants behind the theorems of AccountPoolProofs: who  *)
(* is at the temporary file holds persistMu, who is in writeDisk has a     *)
(* snapshot, a copy of an account still belongs to the owner its id was    *)
(* made for; versions only grow, and an unloaded file is the newest.       *)
(***************************************************************************)
HoldsLock == \A p \in Procs : pc[p] \in {"tmp", "rename"} => persistMu = p

HasSnapshot ==
    \A p \in Procs : pc[p] \in {"write", "tmp", "rename"} => Writing(p)

HeldOwners ==
    \A p \in Callers : held[p] # None => SameOwner(held[p].id, held[p].cred)

StoresInv ==
    /\ TypeOK /\ WellFormedStores /\ DiskIsWhole /\ RenamesOwnFile
    /\ HoldsLock /\ HasSnapshot /\ HeldOwners

VersionsOrdered ==
    /\ newest <= version
    /\ \A p \in Procs : Writing(p) => snap[p].version <= version
    /\ ~loaded => newest = version

(* Close flushes after the loop has exited, and then what memory held when *)
(* Close began is in memory, or in the snapshot that Close writes.         *)
CloseOrdered ==
    /\ \A p \in Procs : Writing(p) => pc[p] \in {"write", "tmp", "rename", "failed"}
    /\ pc[Closer] \in {"flush", "write", "tmp", "rename", "failed"}
           => pc[Loop] = "exited"
    /\ pc[Closer] # "idle" => closing.version <= version
    /\ Writing(Closer) => closing.version <= snap[Closer].version

(* A version is one state of memory: who carries the current version, in   *)
(* the file or in a snapshot, carries what memory holds.                   *)
VersionsFaithful ==
    /\ disk.version <= version
    /\ loaded /\ disk.version = version => disk.store = mem
    /\ ~loaded => disk.version = version /\ \A p \in Procs : ~Writing(p)
    /\ \A p \in Procs : Writing(p) /\ snap[p].version = version => snap[p].store = mem

(* What the proofs rest on is itself an invariant of the pool. *)
ProofInv ==
    /\ StoresInv /\ VersionsOrdered /\ VersionsFaithful /\ CleanMeansWritten
    /\ DirtyWakesLoop /\ CloseOrdered

-----------------------------------------------------------------------------
(* What the documentation says and the code does not do.                   *)

(***************************************************************************)
(* docs/operations/runbook.md:70 and docs/architecture/overview.md:79:     *)
(* Upsert, Delete, Replace and SetEnabled write synchronously, credentials *)
(* are never lost.  The file holds what was acknowledged, or something     *)
(* newer.                                                                  *)
(***************************************************************************)
SyncIsDurable == disk.version >= acked

(* docs/architecture/overview.md:78: memory that is marked dirty is merged *)
(* into the file by the background goroutine, here also after a write that *)
(* failed.                                                                 *)
DirtyIsFlushed ==
    \A v \in 1..MaxVersion :
        (version = v) ~> (newest >= v \/ stop \/ version < v)
=============================================================================
