------------------------------- MODULE PimLock -------------------------------
(***************************************************************************)
(* The cross-process lock of src/main/pim/atomic-json-store.ts.            *)
(*                                                                         *)
(* The lock is a directory.  A call prepares a private directory with an   *)
(* owner file (token and pid) and renames it to the lock's path, which     *)
(* fails while a non-empty directory is there.  A contender that finds a   *)
(* lock whose owner process is dead, and that is older than the grace      *)
(* period, renames it to a tombstone named after that owner's token.       *)
(* Between the look and the rename the lock may have been recovered by     *)
(* another contender and taken again; the tombstone that is still there    *)
(* then makes the late rename fail.                                        *)
(*                                                                         *)
(* Reads and mutations of one process compete like those of different      *)
(* ones: the store's promise queue orders only its mutations.              *)
(***************************************************************************)
EXTENDS Naturals, FiniteSets

CONSTANTS
    Calls,        \* the read, generation and mutate calls of all processes
    Processes,    \* operating system processes
    ProcOf,       \* the process of a call
    MaxTokens,    \* bound: locks prepared
    MaxErrors     \* bound: failing file system calls

ASSUME LockAssumption ==
    /\ ProcOf \in [Calls -> Processes]
    /\ MaxTokens \in Nat /\ MaxErrors \in Nat

NoLock == [token |-> 0]
Locks == [token : Nat \ {0}, proc : Processes]
MaybeLock == Locks \cup {NoLock}

(* #readLockSnapshot: the directory's identity (inode and birth time, here *)
(* the token of the lock it was made for) and the owner file.              *)
Snapshots == [id : Nat, owner : MaybeLock]
NoSnapshot == [id |-> 0, owner |-> NoLock]

VARIABLES
    lock,      \* the directory at the lock's path
    age,       \* "stale" once it is past lockStaleAfterMs
    tombs,     \* the tokens that have a tombstone
    alive,     \* the processes that have not died
    pc,        \* the next step of each call
    mine,      \* the lock a call prepared
    observed,  \* #recoverStaleLock: the first snapshot
    nextToken, errors

lockVars ==
    <<lock, age, tombs, alive, pc, mine, observed, nextToken, errors>>

Recovery == {"stat", "read", "guard", "stat2", "read2", "bury"}
PCs == {"idle", "try", "held", "release"} \cup Recovery

LockTypeOK ==
    /\ lock \in MaybeLock
    /\ age \in {"fresh", "stale"}
    /\ tombs \subseteq Nat
    /\ alive \subseteq Processes
    /\ pc \in [Calls -> PCs]
    /\ mine \in [Calls -> MaybeLock]
    /\ observed \in [Calls -> Snapshots]
    /\ nextToken \in Nat \ {0}
    /\ errors \in Nat

LockInit ==
    /\ lock = NoLock
    /\ age = "fresh"
    /\ tombs = {}
    /\ alive = Processes
    /\ pc = [c \in Calls |-> "idle"]
    /\ mine = [c \in Calls |-> NoLock]
    /\ observed = [c \in Calls |-> NoSnapshot]
    /\ nextToken = 1
    /\ errors = 0

Goto(c, l) == pc' = [pc EXCEPT ![c] = l]
Fails == errors < MaxErrors /\ errors' = errors + 1
Settled(c) == Goto(c, "idle") /\ mine' = [mine EXCEPT ![c] = NoLock]
Forget(c) == observed' = [observed EXCEPT ![c] = NoSnapshot]

-----------------------------------------------------------------------------
(***************************************************************************)
(* #acquireLock.                                                           *)
(***************************************************************************)
(* Mutant: the owner file is written before its token is drawn.            *)
OwnerUndrawn(c) == [token |-> 0, proc |-> ProcOf[c]]

(* The owner file: a fresh token and the process.                          *)
Owner(c) == [token |-> nextToken, proc |-> ProcOf[c]]

(* The pending directory with its owner file, synced.                      *)
Prepare(c) ==
    /\ ProcOf[c] \in alive /\ pc[c] = "idle" /\ nextToken <= MaxTokens
    /\ mine' = [mine EXCEPT ![c] = Owner(c)]
    /\ nextToken' = nextToken + 1
    /\ Goto(c, "try")
    /\ UNCHANGED <<lock, age, tombs, alive, observed, errors>>

(* rename(pending, lock) goes through.  When the directory sync behind it  *)
(* throws, the call is rejected and the published lock stays.              *)
PublishLock(c) ==
    /\ pc[c] = "try" /\ lock = NoLock
    /\ lock' = mine[c] /\ age' = "fresh"
    /\ \/ Goto(c, "held") /\ UNCHANGED <<mine, errors>>
       \/ Fails /\ Settled(c)
    /\ UNCHANGED <<tombs, alive, observed, nextToken>>

(* The rename fails because a lock is there.                               *)
Contend(c) ==
    /\ pc[c] = "try" /\ lock # NoLock
    /\ Goto(c, "stat")
    /\ UNCHANGED <<lock, age, tombs, alive, mine, observed, nextToken,
                   errors>>

(* Back from #recoverStaleLock: the loop goes on, or lockAcquireTimeoutMs  *)
(* has passed and the pending directory is removed.                        *)
Retry(c) ==
    /\ \/ Goto(c, "try") /\ UNCHANGED mine
       \/ Settled(c)
    /\ Forget(c)

-----------------------------------------------------------------------------
(***************************************************************************)
(* #recoverStaleLock.  A snapshot is two calls: stat of the directory,     *)
(* then the owner file, which may by then be missing or another lock's.    *)
(***************************************************************************)
recoverFrame == <<lock, age, tombs, alive, nextToken, errors>>

Stat(c) ==
    /\ pc[c] = "stat"
    /\ IF lock = NoLock THEN Retry(c)
       ELSE /\ Goto(c, "read")
            /\ observed' = [observed EXCEPT ![c] =
                               [id |-> lock.token, owner |-> NoLock]]
            /\ UNCHANGED mine
    /\ UNCHANGED recoverFrame

(* #isRecoverableStaleLock: past the grace period, and the owner is dead.  *)
Recoverable(owner) == age = "stale" /\ owner.proc \notin alive

(* An owner file that has gone leaves the age of the directory to decide;  *)
(* that directory may or may not be past the grace period.                 *)
ReadOwner(c) ==
    /\ pc[c] = "read"
    /\ \/ /\ IF lock = NoLock THEN TRUE ELSE Recoverable(lock)
          /\ observed' = [observed EXCEPT ![c] =
                             [id |-> observed[c].id, owner |-> lock]]
          /\ Goto(c, "guard") /\ UNCHANGED mine
       \/ /\ IF lock = NoLock THEN TRUE ELSE ~Recoverable(lock)
          /\ Retry(c)
    /\ UNCHANGED recoverFrame

(* open(recovery.guard, "wx") creates the file or finds it; a missing lock *)
(* ends the recovery, and so does any other failure.                       *)
Guard(c) ==
    /\ pc[c] = "guard"
    /\ IF lock = NoLock THEN Retry(c) /\ UNCHANGED errors
       ELSE \/ Goto(c, "stat2") /\ UNCHANGED <<mine, observed, errors>>
            \/ Fails /\ Retry(c)
    /\ UNCHANGED <<lock, age, tombs, alive, nextToken>>

(* The confirming snapshot: the same directory ...                         *)
Confirm(c) ==
    /\ pc[c] = "stat2"
    /\ IF lock.token = observed[c].id
       THEN Goto(c, "read2") /\ UNCHANGED <<mine, observed>>
       ELSE Retry(c)
    /\ UNCHANGED recoverFrame

(* ... with the same owner file, or again none, and still recoverable.     *)
ConfirmOwner(c) ==
    /\ pc[c] = "read2"
    /\ IF /\ lock = observed[c].owner
          /\ IF lock = NoLock THEN TRUE ELSE Recoverable(lock)
       THEN Goto(c, "bury") /\ UNCHANGED <<mine, observed>>
       ELSE Retry(c)
    /\ UNCHANGED recoverFrame

(* #lockFingerprint: the owner's token, or the directory's identity.       *)
Fingerprint(s) == IF s.owner # NoLock THEN s.owner.token ELSE s.id

(* Mutant: the tombstone is removed after the rename.                      *)
BuryNoTomb(c) ==
    /\ pc[c] = "bury"
    /\ Retry(c)
    /\ lock' = NoLock /\ age' = "fresh"
    /\ UNCHANGED <<tombs, alive, nextToken, errors>>

(* Mutant: the owner is given up for dead but the lock is left in place.   *)
BuryNothing(c) ==
    /\ pc[c] = "bury"
    /\ Goto(c, "try") /\ Forget(c)
    /\ UNCHANGED <<lock, age, tombs, alive, mine, nextToken, errors>>

(* rename(lock, stale-fingerprint): whatever is at the lock's path moves,  *)
(* unless the tombstone is already there.                                  *)
Bury(c) ==
    /\ pc[c] = "bury"
    /\ Retry(c)
    /\ IF lock = NoLock \/ Fingerprint(observed[c]) \in tombs
       THEN UNCHANGED <<lock, age, tombs>>
       ELSE /\ lock' = NoLock /\ age' = "fresh"
            /\ tombs' = tombs \cup {Fingerprint(observed[c])}
    /\ UNCHANGED <<alive, nextToken, errors>>

(* An error that is no sign of contention rejects the call.                *)
RecoveryThrows(c) ==
    /\ pc[c] \in {"stat", "stat2", "bury"}
    /\ Fails
    /\ Settled(c) /\ Forget(c)
    /\ UNCHANGED <<lock, age, tombs, alive, nextToken>>

-----------------------------------------------------------------------------
(* The operation under the lock is over: #releaseLock asserts ownership,   *)
(* which a failing stat cannot confirm ...                                 *)
StartRelease(c) ==
    /\ pc[c] = "held"
    /\ \/ /\ lock = mine[c]
          /\ Goto(c, "release") /\ UNCHANGED <<mine, errors>>
       \/ lock # mine[c] /\ Settled(c) /\ UNCHANGED errors
       \/ Fails /\ Settled(c)
    /\ UNCHANGED <<lock, age, tombs, alive, observed, nextToken>>

(* ... and renames the lock away.  A persistent failure leaves it behind.  *)
Release(c) ==
    /\ pc[c] = "release"
    /\ Settled(c)
    /\ \/ lock' = NoLock /\ age' = "fresh" /\ UNCHANGED errors
       \/ Fails /\ UNCHANGED <<lock, age>>
    /\ UNCHANGED <<tombs, alive, observed, nextToken>>

(* A process dies, and its calls with it.                                  *)
DieHolding(p) ==
    /\ p \in alive
    /\ alive' = alive \ {p}
    /\ pc' = [c \in Calls |-> IF ProcOf[c] = p THEN "idle" ELSE pc[c]]
    /\ mine' = [c \in Calls |-> IF ProcOf[c] = p THEN NoLock ELSE mine[c]]
    /\ observed' =
          [c \in Calls |-> IF ProcOf[c] = p THEN NoSnapshot ELSE observed[c]]
    /\ UNCHANGED <<lock, age, tombs, nextToken, errors>>

(* The lock outlives the grace period.                                     *)
GrowStale ==
    /\ lock # NoLock /\ age = "fresh"
    /\ age' = "stale"
    /\ UNCHANGED <<lock, tombs, alive, pc, mine, observed, nextToken, errors>>

Step(c) ==
    \/ PublishLock(c) \/ Contend(c)
    \/ Stat(c) \/ ReadOwner(c) \/ Guard(c) \/ Confirm(c) \/ ConfirmOwner(c)
    \/ Bury(c) \/ StartRelease(c) \/ Release(c)

LockNext ==
    \/ \E c \in Calls : Prepare(c) \/ Step(c) \/ RecoveryThrows(c)
    \/ \E p \in Processes : DieHolding(p)
    \/ GrowStale

LockSpec == LockInit /\ [][LockNext]_lockVars

(* Every running call keeps being scheduled and time passes; new calls,    *)
(* errors and deaths need not happen.                                      *)
FairLockSpec ==
    /\ LockSpec
    /\ \A c \in Calls : WF_lockVars(Step(c))
    /\ WF_lockVars(GrowStale)

-----------------------------------------------------------------------------
Holds(c) == pc[c] \in {"held", "release"}

(* #assertLockOwnership never fails for a live holder: no contender moves  *)
(* a lock whose owner is alive and working under it.                       *)
HolderOwns == \A c \in Calls : Holds(c) => lock = mine[c]

(* No two live calls are inside the store at once, and the one inside has  *)
(* its own lock in place, however contenders that saw a dead owner are     *)
(* delayed.                                                                *)
MutualExclusion ==
    /\ HolderOwns
    /\ \A c, d \in Calls : Holds(c) /\ Holds(d) => c = d

(* A call that waits for a dead owner's lock does not wait for ever.       *)
DeadLockCleared ==
    \A c \in Calls :
        pc[c] = "try" /\ lock # NoLock ~>
            \/ pc[c] \in {"idle", "held"}
            \/ lock = NoLock \/ lock.proc \in alive

(* tests/pim/atomic-json-store.test.ts:341: after a rejected operation the *)
(* lock is gone; a live process holds it only while it works under it.     *)
RejectedReleases ==
    lock # NoLock /\ lock.proc \in alive =>
        \E c \in Calls : Holds(c) /\ mine[c] = lock

=============================================================================
