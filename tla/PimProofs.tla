------------------------------ MODULE PimProofs ------------------------------
(***************************************************************************)
(* Proofs about the PIM files: about PimLock, mutual exclusion for every   *)
(* set of processes and calls, and about PimStore, which relies on it, for *)
(* every set of processes and mutations.                                   *)
(***************************************************************************)
EXTENDS PimLock, PimStore, TLAPS

-----------------------------------------------------------------------------
(***************************************************************************)
(* The lock.                                                               *)
(*                                                                         *)
(* MutualExclusion is not inductive.  What excludes a second holder is the *)
(* tombstone: a contender about to rename the lock saw an owner that is    *)
(* dead, and that very owner's lock either is still in place or already    *)
(* lies under the name the rename goes to.                                 *)
(***************************************************************************)
(* A call has prepared a lock that is not published yet.                   *)
Pending(c) == pc[c] \in Recovery \cup {"try"}

(* A token some lock was published with.                                   *)
PublishedToken(t) ==
    /\ t \in 1 .. (nextToken - 1)
    /\ \A d \in Calls : Pending(d) => mine[d].token # t

(* Prepared locks belong to their live calls, and to one call each.        *)
MineInv ==
    /\ \A c \in Calls : pc[c] # "idle" =>
          /\ mine[c] \in Locks
          /\ mine[c].proc = ProcOf[c]
          /\ ProcOf[c] \in alive
          /\ mine[c].token < nextToken
    /\ \A c, d \in Calls :
          pc[c] # "idle" /\ pc[d] # "idle" /\ c # d =>
              mine[c].token # mine[d].token

(* The lock in place was published.                                        *)
LockInv == lock # NoLock => PublishedToken(lock.token)

(* What a contender knows of the lock it means to remove.                  *)
ObservedOf(c) ==
    /\ pc[c] \in {"read", "guard", "stat2"} => PublishedToken(observed[c].id)
    /\ pc[c] \in {"guard", "stat2"} /\ observed[c].owner = NoLock =>
          lock.token # observed[c].id
    /\ pc[c] \in {"read2", "bury"} => observed[c].owner # NoLock
    /\ pc[c] = "bury" =>
          /\ observed[c].owner.proc \notin alive
          /\ \/ lock = observed[c].owner
             \/ observed[c].owner.token \in tombs

ObservedInv == \A c \in Calls : ObservedOf(c)

LockedInv == LockTypeOK /\ MineInv /\ LockInv /\ ObservedInv /\ HolderOwns

-----------------------------------------------------------------------------
(* The initial states satisfy the inductive invariant.                     *)
LEMMA LockStart == LockInit => LockedInv
<1> SUFFICES ASSUME LockInit PROVE LockedInv
    OBVIOUS
<1> USE DEF LockInit
<1>1. LockTypeOK
    BY DEF LockTypeOK, MaybeLock, NoLock, Locks, Snapshots, NoSnapshot,
       PCs
<1>2. MineInv /\ LockInv /\ ObservedInv /\ HolderOwns
    BY DEF MineInv, LockInv, ObservedInv, ObservedOf, HolderOwns, Holds
<1> QED
    BY <1>1, <1>2 DEF LockedInv

(* Every step of the lock protocol keeps the variables in their types.     *)
LEMMA LockTypeStep == LockTypeOK /\ [LockNext]_lockVars => LockTypeOK'
<1> SUFFICES ASSUME LockTypeOK, [LockNext]_lockVars PROVE LockTypeOK'
    OBVIOUS
<1> USE LockAssumption DEF LockTypeOK, PCs, Recovery
<1>1. NoLock \in MaybeLock /\ NoSnapshot \in Snapshots
    BY DEF NoLock, NoSnapshot, MaybeLock, Snapshots
<1> USE <1>1
<1>2. ASSUME NEW c \in Calls, Prepare(c) PROVE LockTypeOK'
    BY <1>2 DEF Prepare, Owner, Locks, MaybeLock, Goto
<1>3. ASSUME NEW c \in Calls, PublishLock(c) PROVE LockTypeOK'
    BY <1>3 DEF PublishLock, Goto, Settled, Fails
<1>4. ASSUME NEW c \in Calls, Contend(c) PROVE LockTypeOK'
    BY <1>4 DEF Contend, Goto
<1>5. ASSUME NEW c \in Calls, Retry(c), UNCHANGED recoverFrame PROVE LockTypeOK'
    BY <1>5 DEF Retry, Forget, Goto, Settled, recoverFrame
<1>6. ASSUME NEW c \in Calls, Stat(c) PROVE LockTypeOK'
  <2>1. CASE lock = NoLock
    BY <1>5, <1>6, <2>1 DEF Stat
  <2>2. CASE lock # NoLock
    <3>1. lock.token \in Nat
      BY <2>2 DEF Locks, MaybeLock
    <3>2. [id |-> lock.token, owner |-> NoLock] \in Snapshots
      BY <1>1, <3>1 DEF Snapshots
    <3> QED
      BY <1>6, <2>2, <3>2 DEF Stat, Goto, recoverFrame
  <2> QED
    BY <2>1, <2>2
<1>7. ASSUME NEW c \in Calls, ReadOwner(c) PROVE LockTypeOK'
  <2>1. CASE Retry(c)
    BY <1>5, <1>7, <2>1 DEF ReadOwner
  <2>2. CASE ~Retry(c)
    <3>1. [id |-> observed[c].id, owner |-> lock] \in Snapshots
      BY DEF Snapshots
    <3> QED
      BY <1>7, <2>2, <3>1 DEF ReadOwner, Goto, recoverFrame
  <2> QED
    BY <2>1, <2>2
<1>8. ASSUME NEW c \in Calls, Guard(c) PROVE LockTypeOK'
    BY <1>8 DEF Guard, Retry, Forget, Goto, Settled, Fails
<1>9. ASSUME NEW c \in Calls, Confirm(c) PROVE LockTypeOK'
    BY <1>5, <1>9 DEF Confirm, Goto, recoverFrame
<1>10. ASSUME NEW c \in Calls, ConfirmOwner(c) PROVE LockTypeOK'
    BY <1>5, <1>10 DEF ConfirmOwner, Goto, recoverFrame
<1>11. ASSUME NEW c \in Calls, Bury(c) PROVE LockTypeOK'
  <2>1. Fingerprint(observed[c]) \in Nat
    <3>1. observed[c] \in Snapshots
      OBVIOUS
    <3> QED
      BY <3>1 DEF Fingerprint, Locks, MaybeLock, Snapshots
  <2>2. lock' \in MaybeLock /\ age' \in {"fresh", "stale"} /\ tombs' \subseteq Nat
    BY <1>11, <2>1 DEF Bury
  <2>3. /\ pc' \in [Calls -> PCs] /\ mine' \in [Calls -> MaybeLock]
        /\ observed' \in [Calls -> Snapshots]
    BY <1>11 DEF Bury, Retry, Forget, Goto, Settled
  <2> QED
    BY <1>11, <2>2, <2>3 DEF Bury
<1>12. ASSUME NEW c \in Calls, RecoveryThrows(c) PROVE LockTypeOK'
    BY <1>12 DEF RecoveryThrows, Forget, Goto, Settled, Fails
<1>13. ASSUME NEW c \in Calls, StartRelease(c) PROVE LockTypeOK'
    BY <1>13 DEF StartRelease, Goto, Settled, Fails
<1>14. ASSUME NEW c \in Calls, Release(c) PROVE LockTypeOK'
    BY <1>14 DEF Release, Goto, Settled, Fails
<1>15. ASSUME NEW p \in Processes, DieHolding(p) PROVE LockTypeOK'
    BY <1>15 DEF DieHolding
<1>16. CASE GrowStale
    BY <1>16 DEF GrowStale
<1>17. CASE UNCHANGED lockVars
    BY <1>17 DEF lockVars
<1> QED
    BY <1>2, <1>3, <1>4, <1>6, <1>7, <1>8, <1>9, <1>10, <1>11, <1>12, <1>13,
       <1>14, <1>15, <1>16, <1>17 DEF LockNext, Step

(* What a step of one call leaves alone: the other calls and their locks.  *)
OthersKept(c) ==
    /\ \A d \in Calls : d # c =>
          mine'[d] = mine[d] /\ pc'[d] = pc[d] /\ observed'[d] = observed[d]
    /\ alive' = alive /\ nextToken' = nextToken
    /\ pc'[c] # "idle" => pc[c] # "idle" /\ mine'[c] = mine[c]
    /\ Pending(c)' => Pending(c)

(* Facts about the values, for steps that need no definition of them.      *)
LEMMA LockValues ==
    /\ NoLock.token = 0 /\ NoLock \notin Locks
    /\ \A l \in MaybeLock : l # NoLock => l \in Locks
    /\ \A l \in Locks : l.token \in Nat \ {0} /\ l.proc \in Processes
BY DEF NoLock, Locks, MaybeLock

(* A step of one call that draws no token keeps MineInv, and what was      *)
(* published stays published.                                              *)
LEMMA OneCallStep ==
    ASSUME NEW c \in Calls, LockTypeOK, MineInv, OthersKept(c)
    PROVE  MineInv' /\ \A t : PublishedToken(t) => PublishedToken(t)'
<1>1. \A d \in Calls : Pending(d)' => Pending(d) /\ mine'[d] = mine[d]
    BY DEF OthersKept, Pending, Recovery
<1>2. \A t : PublishedToken(t) => PublishedToken(t)'
    BY <1>1 DEF OthersKept, PublishedToken
<1>3. MineInv'
    BY DEF OthersKept, MineInv
<1> QED
    BY <1>2, <1>3

(* A step that also leaves the lock and the tombstones alone has only to   *)
(* establish what the call itself knows, and that it holds nothing new.    *)
LEMMA QuietStep ==
    ASSUME NEW c \in Calls, LockedInv, OthersKept(c), lock' = lock, tombs' = tombs,
           ObservedOf(c)', Holds(c)' => Holds(c)
    PROVE  MineInv' /\ LockInv' /\ ObservedInv' /\ HolderOwns'
<1>1. MineInv' /\ \A t : PublishedToken(t) => PublishedToken(t)'
    BY OneCallStep DEF LockedInv
<1>2. LockInv'
    BY <1>1 DEF LockedInv, LockInv
<1>3. ObservedInv'
    BY <1>1 DEF LockedInv, ObservedInv, ObservedOf, OthersKept
<1>4. HolderOwns'
    BY DEF LockedInv, HolderOwns, Holds, OthersKept
<1> QED
    BY <1>1, <1>2, <1>3, <1>4

(* A call that leaves recovery, to try again or for good.                  *)
LEMMA RetryStep ==
    ASSUME NEW c \in Calls, LockedInv, LockTypeOK', pc[c] \in Recovery, lock' = lock,
           tombs' = tombs, alive' = alive, nextToken' = nextToken,
           Retry(c) \/ (Settled(c) /\ Forget(c))
    PROVE  MineInv' /\ LockInv' /\ ObservedInv' /\ HolderOwns'
<1>1. /\ pc'[c] \in {"idle", "try"}
      /\ pc'[c] # "idle" => mine'[c] = mine[c]
      /\ \A d \in Calls : d # c =>
          mine'[d] = mine[d] /\ pc'[d] = pc[d] /\ observed'[d] = observed[d]
    BY DEF Retry, Settled, Forget, Goto, LockedInv, LockTypeOK
<1>2. OthersKept(c)
    BY <1>1 DEF OthersKept, Pending, Recovery
<1>3. ObservedOf(c)' /\ ~Holds(c)'
    BY <1>1 DEF ObservedOf, Holds
<1> QED
    BY <1>2, <1>3, QuietStep

(* The inductive step, one case per action.                                *)
LEMMA InvStep == LockedInv /\ [LockNext]_lockVars => LockedInv'
<1> SUFFICES ASSUME LockedInv, [LockNext]_lockVars PROVE LockedInv'
    OBVIOUS
<1> USE LockAssumption
<1>0. LockTypeOK /\ LockTypeOK' /\ MineInv /\ LockInv /\ ObservedInv /\ HolderOwns
    BY LockTypeStep DEF LockedInv
<1>c. /\ lock \in MaybeLock /\ nextToken \in Nat \ {0}
      /\ mine \in [Calls -> MaybeLock]
      /\ observed \in [Calls -> Snapshots]
      /\ pc \in [Calls -> PCs]
    BY <1>0 DEF LockTypeOK
<1> DEFINE Rest == MineInv' /\ LockInv' /\ ObservedInv' /\ HolderOwns'
<1>1. ASSUME NEW c \in Calls, Prepare(c) PROVE Rest
  <2>1. /\ mine'[c].token = nextToken /\ mine'[c].proc = ProcOf[c]
        /\ mine'[c] \in Locks /\ pc'[c] = "try"
        /\ \A d \in Calls : d # c => mine'[d] = mine[d] /\ pc'[d] = pc[d]
        /\ lock' = lock /\ observed' = observed /\ tombs' = tombs
        /\ alive' = alive /\ nextToken' = nextToken + 1
        /\ ProcOf[c] \in alive /\ pc[c] = "idle"
    BY <1>1, <1>c DEF Prepare, Owner, Goto, Locks
  <2>2. \A t : PublishedToken(t) => PublishedToken(t)'
    BY <1>c, <2>1 DEF PublishedToken, Pending, Recovery
  <2>3. MineInv'
    BY <1>0, <1>c, <2>1, LockValues DEF MineInv
  <2>4. LockInv'
    BY <1>0, <2>1, <2>2 DEF LockInv
  <2>5. ObservedInv'
    BY <1>0, <2>1, <2>2 DEF ObservedInv, ObservedOf
  <2>6. HolderOwns'
    BY <1>0, <2>1 DEF HolderOwns, Holds
  <2> QED
    BY <2>3, <2>4, <2>5, <2>6
<1>2. ASSUME NEW c \in Calls, PublishLock(c) PROVE Rest
  <2>1. /\ lock = NoLock /\ lock' = mine[c] /\ pc[c] = "try"
        /\ pc'[c] \in {"held", "idle"}
        /\ pc'[c] = "held" => mine'[c] = mine[c]
        /\ \A d \in Calls : d # c => mine'[d] = mine[d] /\ pc'[d] = pc[d]
        /\ observed' = observed /\ tombs' = tombs /\ alive' = alive
        /\ nextToken' = nextToken
    BY <1>2, <1>c DEF PublishLock, Goto, Settled
  <2>2. OthersKept(c)
    BY <2>1 DEF OthersKept, Pending, Recovery
  <2>3. MineInv' /\ \A t : PublishedToken(t) => PublishedToken(t)'
    BY <1>0, <2>2, OneCallStep
  <2>4. mine[c] \in Locks /\ mine[c].token \in 1 .. (nextToken - 1)
    BY <1>0, <1>c, <2>1, LockValues DEF MineInv
  <2>5. LockInv'
    BY <1>0, <2>1, <2>4 DEF LockInv, PublishedToken, Pending, Recovery, MineInv
  <2>6. \A t : PublishedToken(t) => t # mine[c].token
    BY <2>1 DEF PublishedToken, Pending
  <2>7. ObservedInv'
    <3> SUFFICES ASSUME NEW d \in Calls PROVE ObservedOf(d)'
      BY DEF ObservedInv
    <3>1. CASE d = c
      BY <2>1, <3>1 DEF ObservedOf
    <3>2. CASE d # c
      BY <1>0, <2>1, <2>3, <2>6, <3>2 DEF ObservedInv, ObservedOf
    <3> QED
      BY <3>1, <3>2
  <2>8. HolderOwns'
    BY <1>0, <2>1, LockValues DEF HolderOwns, Holds, MineInv
  <2> QED
    BY <2>3, <2>5, <2>7, <2>8
<1>3. ASSUME NEW c \in Calls, Contend(c) PROVE Rest
  <2>1. OthersKept(c) /\ lock' = lock /\ tombs' = tombs /\ pc'[c] = "stat"
    BY <1>3, <1>c DEF Contend, Goto, OthersKept, Pending, Recovery
  <2>2. ObservedOf(c)' /\ ~Holds(c)'
    BY <2>1 DEF ObservedOf, Holds
  <2> QED
    BY <2>1, <2>2, QuietStep
<1>4. ASSUME NEW c \in Calls, Stat(c) PROVE Rest
  <2>1. CASE lock = NoLock
    BY <1>0, <1>4, <2>1, RetryStep DEF Stat, recoverFrame, Recovery
  <2>2. CASE lock # NoLock
    <3>1. /\ OthersKept(c) /\ lock' = lock /\ tombs' = tombs
          /\ pc'[c] = "read" /\ observed'[c].id = lock.token
      BY <1>4, <1>c, <2>2
      DEF Stat, recoverFrame, Goto, OthersKept, Pending, Recovery
    <3>2. PublishedToken(lock.token)'
      BY <1>0, <2>2, <3>1, OneCallStep DEF LockInv
    <3>3. ObservedOf(c)' /\ ~Holds(c)'
      BY <3>1, <3>2 DEF ObservedOf, Holds
    <3> QED
      BY <3>1, <3>3, QuietStep
  <2> QED
    BY <2>1, <2>2
<1>5. ASSUME NEW c \in Calls, ReadOwner(c) PROVE Rest
  <2>1. CASE Retry(c)
    BY <1>0, <1>5, <2>1, RetryStep DEF ReadOwner, recoverFrame, Recovery
  <2>2. CASE ~Retry(c)
    <3>1. /\ OthersKept(c) /\ lock' = lock /\ tombs' = tombs
          /\ pc[c] = "read" /\ pc'[c] = "guard"
          /\ observed'[c].id = observed[c].id /\ observed'[c].owner = lock
      BY <1>5, <1>c, <2>2
      DEF ReadOwner, recoverFrame, Goto, OthersKept, Pending, Recovery
    <3>2. PublishedToken(observed[c].id)
      BY <1>0, <3>1 DEF ObservedInv, ObservedOf
    <3>3. PublishedToken(observed[c].id)'
      BY <1>0, <3>1, <3>2, OneCallStep DEF PublishedToken, Pending
    <3>4. observed[c].id # 0
      BY <3>2 DEF PublishedToken
    <3>5. ObservedOf(c)' /\ ~Holds(c)'
      BY <3>1, <3>3, <3>4, LockValues DEF ObservedOf, Holds
    <3> QED
      BY <3>1, <3>5, QuietStep
  <2> QED
    BY <2>1, <2>2
<1>6. ASSUME NEW c \in Calls, Guard(c) PROVE Rest
  <2>1. CASE Retry(c)
    BY <1>0, <1>6, <2>1, RetryStep DEF Guard, Recovery
  <2>2. CASE ~Retry(c)
    <3>1. /\ OthersKept(c) /\ lock' = lock /\ tombs' = tombs
          /\ pc[c] = "guard" /\ pc'[c] = "stat2" /\ observed' = observed
      BY <1>6, <1>c, <2>2
      DEF Guard, Goto, OthersKept, Pending, Recovery
    <3>2. PublishedToken(observed[c].id)'
      BY <1>0, <3>1, OneCallStep DEF ObservedInv, ObservedOf
    <3>3. ObservedOf(c)' /\ ~Holds(c)'
      BY <1>0, <3>1, <3>2 DEF ObservedInv, ObservedOf, Holds
    <3> QED
      BY <3>1, <3>3, QuietStep
  <2> QED
    BY <2>1, <2>2
<1>7. ASSUME NEW c \in Calls, Confirm(c) PROVE Rest
  <2>1. CASE Retry(c)
    BY <1>0, <1>7, <2>1, RetryStep DEF Confirm, recoverFrame, Recovery
  <2>2. CASE ~Retry(c)
    <3>1. /\ OthersKept(c) /\ lock' = lock /\ tombs' = tombs
          /\ pc[c] = "stat2" /\ pc'[c] = "read2" /\ observed' = observed
          /\ lock.token = observed[c].id
      BY <1>7, <1>c, <2>2
      DEF Confirm, recoverFrame, Goto, OthersKept, Pending, Recovery
    <3>2. ObservedOf(c)' /\ ~Holds(c)'
      BY <1>0, <3>1 DEF ObservedInv, ObservedOf, Holds
    <3> QED
      BY <3>1, <3>2, QuietStep
  <2> QED
    BY <2>1, <2>2
<1>8. ASSUME NEW c \in Calls, ConfirmOwner(c) PROVE Rest
  <2>1. CASE Retry(c)
    BY <1>0, <1>8, <2>1, RetryStep DEF ConfirmOwner, recoverFrame, Recovery
  <2>2. CASE ~Retry(c)
    <3>1. /\ OthersKept(c) /\ lock' = lock /\ tombs' = tombs
          /\ pc[c] = "read2" /\ pc'[c] = "bury" /\ observed' = observed
          /\ lock = observed[c].owner /\ (lock # NoLock => Recoverable(lock))
      BY <1>8, <1>c, <2>2
      DEF ConfirmOwner, recoverFrame, Goto, OthersKept, Pending, Recovery
    <3>2. ObservedOf(c)' /\ ~Holds(c)'
      BY <1>0, <3>1
      DEF ObservedInv, ObservedOf, Holds, Recoverable, OthersKept
    <3> QED
      BY <3>1, <3>2, QuietStep
  <2> QED
    BY <2>1, <2>2
<1>9. ASSUME NEW c \in Calls, Bury(c) PROVE Rest
  <2>1. /\ pc[c] = "bury" /\ Retry(c) /\ alive' = alive
        /\ nextToken' = nextToken
    BY <1>9 DEF Bury
  <2>2. CASE lock = NoLock \/ Fingerprint(observed[c]) \in tombs
    BY <1>0, <1>9, <2>1, <2>2, RetryStep DEF Bury, Recovery
  <2>3. CASE lock # NoLock /\ Fingerprint(observed[c]) \notin tombs
    <3>1. /\ lock' = NoLock
          /\ tombs' = tombs \cup {Fingerprint(observed[c])}
      BY <1>9, <2>3 DEF Bury
    <3>2. lock = observed[c].owner /\ Fingerprint(observed[c]) = lock.token
      BY <1>0, <2>1, <2>3 DEF ObservedInv, ObservedOf, Fingerprint
    <3>3. /\ pc'[c] \in {"idle", "try"}
          /\ pc'[c] # "idle" => mine'[c] = mine[c]
          /\ \A d \in Calls : d # c =>
               /\ mine'[d] = mine[d] /\ pc'[d] = pc[d]
               /\ observed'[d] = observed[d]
      BY <2>1, <1>c DEF Retry, Settled, Forget, Goto
    <3>4. OthersKept(c)
      BY <2>1, <3>3 DEF OthersKept, Pending, Recovery
    <3>5. MineInv' /\ \A t : PublishedToken(t) => PublishedToken(t)'
      BY <1>0, <3>4, OneCallStep
    <3>6. LockInv'
      BY <3>1 DEF LockInv
    <3>7. ObservedInv'
      <4> SUFFICES ASSUME NEW d \in Calls PROVE ObservedOf(d)'
        BY DEF ObservedInv
      <4>1. CASE d = c
        BY <3>3, <4>1 DEF ObservedOf
      <4>2. CASE d # c
        BY <1>0, <2>1, <3>1, <3>2, <3>3, <3>5, <4>2, LockValues
        DEF ObservedInv, ObservedOf, PublishedToken
      <4> QED
        BY <4>1, <4>2
    <3>8. HolderOwns'
      <4>1. lock.proc \notin alive
        BY <1>0, <2>1, <3>2 DEF ObservedInv, ObservedOf
      <4>2. \A d \in Calls : ~Holds(d)
        BY <1>0, <4>1 DEF HolderOwns, Holds, MineInv
      <4> QED
        BY <3>3, <4>2 DEF HolderOwns, Holds
    <3> QED
      BY <3>5, <3>6, <3>7, <3>8
  <2> QED
    BY <2>2, <2>3
<1>10. ASSUME NEW c \in Calls, RecoveryThrows(c) PROVE Rest
    BY <1>0, <1>10, RetryStep DEF RecoveryThrows, Recovery
<1>11. ASSUME NEW c \in Calls, StartRelease(c) PROVE Rest
  <2>1. /\ OthersKept(c) /\ lock' = lock /\ tombs' = tombs
        /\ pc[c] = "held" /\ pc'[c] \in {"release", "idle"}
    BY <1>11, <1>c DEF StartRelease, Settled, Goto, OthersKept, Pending,
       Recovery
  <2>2. ObservedOf(c)' /\ (Holds(c)' => Holds(c))
    BY <2>1 DEF ObservedOf, Holds
  <2> QED
    BY <2>1, <2>2, QuietStep
<1>12. ASSUME NEW c \in Calls, Release(c) PROVE Rest
  <2>1. /\ OthersKept(c) /\ tombs' = tombs /\ observed' = observed
        /\ pc[c] = "release" /\ pc'[c] = "idle" /\ lock' \in {lock, NoLock}
    BY <1>12, <1>c DEF Release, Settled, Goto, OthersKept, Pending, Recovery
  <2>2. MineInv' /\ \A t : PublishedToken(t) => PublishedToken(t)'
    BY <1>0, <2>1, OneCallStep
  <2>3. LockInv'
    BY <1>0, <2>1, <2>2 DEF LockInv
  <2>4. lock = mine[c] /\ lock.proc \in alive /\ lock \in Locks
    BY <1>0, <2>1 DEF HolderOwns, Holds, MineInv
  <2>5. ObservedInv'
    BY <1>0, <2>1, <2>2, <2>4, LockValues
    DEF ObservedInv, ObservedOf, OthersKept, PublishedToken
  <2>6. HolderOwns'
    BY <1>0, <2>1, <2>4 DEF HolderOwns, Holds, MineInv, OthersKept
  <2> QED
    BY <2>2, <2>3, <2>5, <2>6
<1>13. ASSUME NEW p \in Processes, DieHolding(p) PROVE Rest
  <2>1. /\ \A d \in Calls : ProcOf[d] = p => pc'[d] = "idle"
        /\ \A d \in Calls : ProcOf[d] # p =>
             mine'[d] = mine[d] /\ pc'[d] = pc[d] /\ observed'[d] = observed[d]
        /\ alive' = alive \ {p} /\ lock' = lock /\ tombs' = tombs
        /\ nextToken' = nextToken
    BY <1>13, <1>c DEF DieHolding
  <2>2. \A t : PublishedToken(t) => PublishedToken(t)'
    BY <2>1 DEF PublishedToken, Pending, Recovery
  <2>3. MineInv'
    BY <1>0, <2>1 DEF MineInv
  <2>4. LockInv'
    BY <1>0, <2>1, <2>2 DEF LockInv
  <2>5. ObservedInv'
    BY <1>0, <2>1, <2>2 DEF ObservedInv, ObservedOf
  <2>6. HolderOwns'
    BY <1>0, <2>1 DEF HolderOwns, Holds
  <2> QED
    BY <2>3, <2>4, <2>5, <2>6
<1>14. ASSUME GrowStale \/ UNCHANGED lockVars PROVE Rest
  <2>1. /\ lock' = lock /\ tombs' = tombs /\ alive' = alive /\ pc' = pc
        /\ mine' = mine /\ observed' = observed /\ nextToken' = nextToken
    BY <1>14 DEF GrowStale, lockVars
  <2>2. \A t : PublishedToken(t) <=> PublishedToken(t)'
    BY <2>1 DEF PublishedToken, Pending
  <2>3. MineInv' /\ LockInv' /\ HolderOwns'
    BY <1>0, <2>1, <2>2 DEF MineInv, LockInv, HolderOwns, Holds
  <2>4. ObservedInv'
    BY <1>0, <2>1, <2>2 DEF ObservedInv, ObservedOf
  <2> QED
    BY <2>3, <2>4
<1> HIDE DEF Rest
<1>15. Rest
    BY <1>1, <1>2, <1>3, <1>4, <1>5, <1>6, <1>7, <1>8, <1>9, <1>10, <1>11,
       <1>12, <1>13, <1>14 DEF LockNext, Step
<1> QED
    BY <1>0, <1>15 DEF LockedInv, Rest

(* The inductive invariant holds in every reachable state.                 *)
LEMMA Inductive == LockSpec => []LockedInv
BY LockStart, InvStep, PTL DEF LockSpec

-----------------------------------------------------------------------------
(* At most one live call is inside the PIM store at a time and always      *)
(* finds its own lock in place, so that #assertLockOwnership does not fail *)
(* and #releaseLock renames no one else's lock, whatever the number of     *)
(* processes, deaths, failures and delayed contenders.                     *)
THEOREM LockExcludes == LockSpec => []MutualExclusion
<1>1. LockedInv => MutualExclusion
    BY DEF LockedInv, MutualExclusion, HolderOwns, Holds, MineInv
<1> QED
    BY <1>1, Inductive, PTL

-----------------------------------------------------------------------------
(***************************************************************************)
(* The files: no promise is broken, no store goes backwards, and they      *)
(* implement DurableStore, as long as at most one recovery commit is       *)
(* interrupted.  Files that cannot be read for a moment are covered as far *)
(* as a single fault goes; any number of failing calls and deaths is       *)
(* covered besides.                                                        *)
(*                                                                         *)
(* The argument: the envelopes in the slots form a chain, each with all    *)
(* mutations of those of lower generations, and the one being committed is *)
(* above them all.  So any slot that covers the promises and the caches    *)
(* makes the best slot cover them too, and it remains to name, for every   *)
(* step, a slot that does and that the next calls leave alone.             *)
(***************************************************************************)
(* The extent of the theorems: both instances that the run checks.  *)
Scope == ReadsFail => MaxFaults <= 1

IsEnvelope(e) == e.kind = "envelope"
Committing == step \in {"open", "write", "rmBackup", "aside", "publish", "tidy"}

(* The order of the chain. *)
AtMost(e, f) == e = f \/ (e.gen < f.gen /\ e.body \subseteq f.body)

(* An envelope that every promise and every cache agrees with. *)
Covers(e) == promised \subseteq e.body /\ \A p \in Procs : Compatible(e, cache[p])

(* Nothing was promised yet, and no store has loaded anything. *)
Void == promised = {} /\ \A p \in Procs : cache[p] = NoCache

(* One of these slots suffices to go on from. *)
Safe(slots) == Void \/ \E s \in slots \cap Valid({}) : Covers(disk[s])

(* Control state, and the mutations that payloads are made of. *)
Control ==
    /\ holder = NoProc <=> step = "idle"
    /\ Committing => env # Missing
    /\ step \in {"mutate", "end"} => Mine # NoCache
    /\ step = "mutate" => op \in Updates
    /\ step = "tidy" => disk["next"] = Missing
    /\ Committing /\ why = "mutate" => op \in Updates
    /\ op \in Updates => op \in made
    /\ \A s \in Slots : IsEnvelope(disk[s]) => disk[s].body \subseteq made
    /\ \A p \in Procs : cache[p] # NoCache => cache[p].body \subseteq made
    /\ env # Missing => env.body \subseteq made
    /\ faults <= MaxFaults /\ interrupted <= MaxInterrupted

(* Only the next slot is ever torn, and envelopes form a chain. *)
Chain ==
    /\ disk["current"] # Torn /\ disk["backup"] # Torn
    /\ \A s, t \in Valid({}) : AtMost(disk[s], disk[t]) \/ AtMost(disk[t], disk[s])
    /\ Committing => \A s \in Valid({}) : AtMost(disk[s], env)

(* Without a fault the current file is the only one between commits. *)
Tidied ==
    faults = 0 /\ step \in {"idle", "load", "mutate", "end"} =>
        disk["next"] = Missing /\ disk["backup"] = Missing

(* Between operations. *)
Resting == IF interrupted = 0 THEN Safe({"current", "backup"}) ELSE Safe(Slots)

(* What a mutation starts from. *)
BaseIs(s) == s \in Valid({}) /\ env = NextEnvelope(disk[s], op)

(* Where the promises are at each step. *)
Place ==
    /\ step \in {"idle", "load"} => Resting
    /\ step \in {"mutate", "end"} =>
          "current" \in Valid({}) /\ disk["current"] = Mine /\ Covers(Mine)
    /\ Committing => Covers(env)
    /\ Committing /\ why = "defaults" => Void /\ env.body = {}
    /\ Committing /\ why = "recover" /\ interrupted = 0 /\ step \in {"open", "write"} =>
          Safe({"current", "backup"})
    /\ why = "mutate" /\ step \in {"open", "write", "rmBackup", "aside"} =>
          BaseIs("current") /\ Covers(disk["current"])
    /\ why = "mutate" /\ step \in {"open", "write"} =>
          \A s \in Valid({}) : AtMost(disk[s], disk["current"])
    /\ why = "mutate" /\ step = "publish" => BaseIs("backup") /\ Covers(disk["backup"])
    /\ step \in {"rmBackup", "aside", "publish"} => disk["next"] = env
    /\ step = "tidy" => disk["current"] = env

IInv == TypeOK /\ Control /\ Tidied /\ (interrupted <= 1 => Chain /\ Place)

-----------------------------------------------------------------------------
(* The best of some valid candidates is one of them, and no other is       *)
(* better: Best is defined.                                                *)
LEMMA BestIsBest ==
    ASSUME TypeOK, NEW V \in SUBSET Valid({}), V # {}
    PROVE  Best(V) \in V /\ \A t \in V : Better(Best(V), t)
<1>1. \A s \in V : s \in Slots /\ disk[s].gen \in Nat
    BY DEF TypeOK, Valid, Envelopes, Missing, Torn
<1>2. \E s \in V : \A t \in V : Better(s, t)
    BY <1>1 DEF Slots, Better, Priority
<1> QED
    BY <1>2 DEF Best

(* The initial states satisfy the invariant. *)
LEMMA InitInv == Init => IInv
<1> SUFFICES ASSUME Init PROVE IInv
    OBVIOUS
<1> USE PimAssumption, NamesAssumption DEF Init
<1>1. TypeOK
    BY DEF TypeOK, Steps, NoCache
<1>2. Valid({}) = {}
    BY DEF Valid, Missing
<1>3. Control /\ Tidied
    BY DEF Control, Tidied, Committing, Missing, IsEnvelope, NoCache, Slots
<1>4. Chain /\ Place
    BY <1>2 DEF Chain, Place, Committing, Resting, Safe, Void, Missing, Torn, Slots
<1> QED
    BY <1>1, <1>3, <1>4 DEF IInv

(* Every step keeps the types, and the mutations that payloads are of. *)
LEMMA TypeStep == TypeOK /\ Control /\ [Next]_vars => TypeOK' /\ Control'
<1> SUFFICES ASSUME TypeOK, Control, [Next]_vars PROVE TypeOK' /\ Control'
    OBVIOUS
<1> USE PimAssumption, NamesAssumption DEF TypeOK, Control, Slots, Steps, Envelopes, NoCache,
        Missing, Torn, Committing, IsEnvelope, Active, Continue, Unlock, Fault, Slip, NoFault,
        Recovering, Mine
<1>1. ASSUME NEW p \in Procs, NEW o \in Updates \cup {Read}, Begin(p, o)
      PROVE  TypeOK' /\ Control'
    BY <1>1 DEF Begin
<1>2. CASE LoadNothing
    BY <1>2 DEF LoadNothing, Unreadable, Commit, Envelope
<1>3. CASE LoadCurrent
  <2>1. disk["current"] \in Envelopes /\ IsEnvelope(disk["current"])
    BY <1>3, BestIsBest DEF LoadCurrent, Valid
  <2> QED
    BY <1>3, <2>1 DEF LoadCurrent, Unreadable, Loaded, SetCache
<1>4. CASE LoadRecovered
    BY <1>4, BestIsBest DEF LoadRecovered, Unreadable, Commit, Valid
<1>5. CASE MutatorThrows
    BY <1>5 DEF MutatorThrows
<1>6. CASE MutatorKeeps
    BY <1>6 DEF MutatorKeeps
<1>7. CASE Mutate
    BY <1>7 DEF Mutate, Unreadable, Commit, NextEnvelope, Envelope, Mine
<1>8. CASE OpenNext
    BY <1>8 DEF OpenNext
<1>9. CASE WriteNext
    BY <1>9 DEF WriteNext
<1>10. CASE RemoveBackup
    BY <1>10 DEF RemoveBackup
<1>11. CASE SetAside
    BY <1>11 DEF SetAside
<1>12. CASE CommitFails
    BY <1>12 DEF CommitFails
<1>13. CASE Publish
    BY <1>13 DEF Publish, Published
<1>14. CASE PublishFails
    BY <1>14 DEF PublishFails, Published
<1>15. CASE Tidy
    BY <1>15 DEF Tidy, SetCache, Loaded
<1>16. CASE End
    BY <1>16 DEF End, Mine
<1>17. ASSUME NEW p \in Procs, Die(p) PROVE TypeOK' /\ Control'
    BY <1>17 DEF Die
<1>18. CASE UNCHANGED vars
    BY <1>18 DEF vars
<1> QED
    BY <1>1, <1>2, <1>3, <1>4, <1>5, <1>6, <1>7, <1>8, <1>9, <1>10, <1>11, <1>12, <1>13, <1>14, <1>15, <1>16, <1>17, <1>18 DEF Next

(* No fault, and no commit under way: no file but the current one.         *)
LEMMA TidiedStep == TypeOK /\ Control /\ Tidied /\ [Next]_vars => Tidied'
<1> SUFFICES ASSUME TypeOK, Control, Tidied, [Next]_vars PROVE Tidied'
    OBVIOUS
<1> USE PimAssumption DEF TypeOK, Control, Tidied, Slots, Active, Continue, Unlock,
        Fault, Slip, NoFault
<1>1. ASSUME NEW p \in Procs, NEW o \in Updates \cup {Read}, Begin(p, o)
      PROVE  Tidied'
    BY <1>1 DEF Begin
<1>2. CASE LoadNothing
    BY <1>2 DEF LoadNothing, Commit, Unreadable
<1>3. CASE LoadCurrent
    BY <1>3 DEF LoadCurrent, Loaded, Unreadable
<1>4. CASE LoadRecovered
    BY <1>4 DEF LoadRecovered, Commit, Unreadable
<1>5. CASE MutatorThrows
    BY <1>5 DEF MutatorThrows
<1>6. CASE MutatorKeeps
    BY <1>6 DEF MutatorKeeps
<1>7. CASE Mutate
    BY <1>7 DEF Mutate, Commit, Unreadable
<1>8. CASE OpenNext
    BY <1>8 DEF OpenNext
<1>9. CASE WriteNext
    BY <1>9 DEF WriteNext
<1>10. CASE RemoveBackup
    BY <1>10 DEF RemoveBackup
<1>11. CASE SetAside
    BY <1>11 DEF SetAside
<1>12. CASE CommitFails
    BY <1>12 DEF CommitFails
<1>13. CASE Publish
    BY <1>13 DEF Publish, Published
<1>14. CASE PublishFails
    BY <1>14 DEF PublishFails, Published
<1>15. CASE Tidy
    BY <1>15 DEF Tidy, Loaded
<1>16. CASE End
    BY <1>16 DEF End
<1>17. ASSUME NEW p \in Procs, Die(p) PROVE Tidied'
    BY <1>17 DEF Die
<1>18. CASE UNCHANGED vars
    BY <1>18 DEF vars
<1> QED
    BY <1>1, <1>2, <1>3, <1>4, <1>5, <1>6, <1>7, <1>8, <1>9, <1>10, <1>11, <1>12, <1>13, <1>14, <1>15, <1>16, <1>17, <1>18 DEF Next

-----------------------------------------------------------------------------
(* A file that cannot be read is the only one there: the load or the       *)
(* mutation is refused.                                                    *)
LEMMA UnreadRefuses ==
    ASSUME Scope, TypeOK, Control, Tidied, step \in {"load", "mutate"},
           NEW unread \in SUBSET Slots, Unreadable(unread), unread # {}
    PROVE  Valid(unread) = {} /\ \E s \in Slots : disk[s] # Missing
<1>1. faults = 0
    BY PimAssumption DEF Scope, TypeOK, Unreadable, Fault, Slip
<1>2. unread = {"current"}
    BY <1>1 DEF Tidied, Unreadable, Slots
<1> QED
    BY <1>1, <1>2 DEF Tidied, Valid, Missing, Unreadable, Slots

(* The slots with an envelope.                                             *)
LEMMA ValidSlots ==
    ASSUME TypeOK
    PROVE  /\ Valid({}) = {s \in Slots : disk[s].kind = "envelope"}
           /\ \A s \in Valid({}) : disk[s] \in Envelopes
BY DEF TypeOK, Valid, Envelopes, Missing, Torn

(* The chain is an order.                                                  *)
LEMMA AtMostTransitive ==
    ASSUME NEW e \in Envelopes, NEW f \in Envelopes, NEW g \in Envelopes,
           AtMost(e, f), AtMost(f, g)
    PROVE  AtMost(e, g)
BY DEF AtMost, Envelopes

(* The best candidate is the top of the chain.                             *)
LEMMA BestTops ==
    ASSUME TypeOK, Chain, Valid({}) # {}
    PROVE  /\ Best(Valid({})) \in Valid({})
           /\ \A s \in Valid({}) : AtMost(disk[s], disk[Best(Valid({}))])
<1>1. /\ Best(Valid({})) \in Valid({})
      /\ \A t \in Valid({}) : Better(Best(Valid({})), t)
    BY BestIsBest
<1> DEFINE b == Best(Valid({}))
<1>2. ASSUME NEW s \in Valid({}) PROVE AtMost(disk[s], disk[b])
  <2>1. disk[s] \in Envelopes /\ disk[b] \in Envelopes
    BY <1>1, ValidSlots
  <2>2. disk[b].gen >= disk[s].gen
    BY <1>1, <2>1 DEF Better, Envelopes
  <2>3. AtMost(disk[s], disk[b]) \/ AtMost(disk[b], disk[s])
    BY <1>1 DEF Chain
  <2> QED
    BY <2>1, <2>2, <2>3 DEF AtMost, Envelopes
<1> QED
    BY <1>1, <1>2

(* What one envelope covers, a later one in the chain covers too.          *)
LEMMA CoversUp ==
    ASSUME TypeOK, NEW e \in Envelopes, NEW f \in Envelopes, AtMost(e, f), Covers(e)
    PROVE  Covers(f)
BY DEF TypeOK, AtMost, Covers, Compatible, Envelopes, NoCache, Missing

(* While nothing was promised anything covers.                             *)
LEMMA VoidCovers ==
    ASSUME Void, NEW e PROVE Covers(e)
BY DEF Void, Covers, Compatible

(* A safe slot makes the best slot safe.                                   *)
LEMMA SafeBest ==
    ASSUME TypeOK, Chain, NEW slots, Safe(slots), Valid({}) # {}
    PROVE  Covers(disk[Best(Valid({}))])
<1>1. CASE Void
    BY <1>1, VoidCovers
<1>2. ASSUME NEW s \in slots \cap Valid({}), Covers(disk[s])
      PROVE  Covers(disk[Best(Valid({}))])
    BY <1>2, BestTops, ValidSlots, CoversUp
<1> QED
    BY <1>1, <1>2 DEF Safe

(* Every step keeps the chain.                                             *)
LEMMA ChainStep ==
    ASSUME Scope, TypeOK, Control, Tidied, Chain, Place, TypeOK', Control', [Next]_vars
    PROVE  Chain'
<1> USE DEF Active, Continue, Unlock, Committing
<1> DEFINE Tops(e) == \A s \in Valid({}) : AtMost(disk[s], e)
           Kept(s) == \E t \in Valid({}) : disk'[s] = disk[t]
           Untorn == disk'["current"] # Torn /\ disk'["backup"] # Torn
<1>1. /\ Valid({})' = {s \in Slots : disk'[s].kind = "envelope"}
      /\ Valid({}) = {s \in Slots : disk[s].kind = "envelope"}
    BY ValidSlots DEF Valid
<1>2. ASSUME disk' = disk, Committing' => Tops(env') PROVE Chain'
    BY <1>2 DEF Chain, Valid, AtMost
<1>3. ASSUME ~Committing', Untorn, \A s \in Valid({})' : Kept(s) PROVE Chain'
    BY <1>3 DEF Chain, AtMost
<1>4. ASSUME Committing, env' = env, Untorn,
             \A s \in Valid({})' : Kept(s) \/ disk'[s] = env
      PROVE  Chain'
    BY <1>4 DEF Chain, AtMost
<1>5. ASSUME NEW p \in Procs, NEW o \in Updates \cup {Read}, Begin(p, o) PROVE Chain'
    BY <1>2, <1>5 DEF Begin
<1>6. CASE LoadNothing
  <2>1. CASE Unlock
    BY <1>2, <1>6, <2>1 DEF LoadNothing
  <2>2. CASE \A s \in Slots : disk[s] = Missing
    BY <1>1, <1>2, <1>6, <2>2 DEF LoadNothing, Missing
  <2> QED
    BY <1>6, <2>1, <2>2 DEF LoadNothing
<1>7. CASE LoadCurrent
  <2>1. ~Committing'
    BY <1>7 DEF LoadCurrent, Loaded
  <2>2. Untorn /\ \A s \in Valid({})' : Kept(s)
    BY <1>1, <1>7 DEF LoadCurrent, TypeOK, Slots, Chain, Missing, Torn
  <2> QED
    BY <1>3, <2>1, <2>2
<1>8. CASE LoadRecovered
  <2>1. CASE Unlock
    BY <1>2, <1>8, <2>1 DEF LoadRecovered
  <2>2. ASSUME NEW unread \in SUBSET Slots, Unreadable(unread), Valid(unread) # {}
        PROVE  unread = {}
    BY <1>8, <2>2, UnreadRefuses DEF LoadRecovered
  <2>3. CASE Commit(disk[Best(Valid({}))], "recover") /\ Valid({}) # {}
    BY <1>2, <1>8, <2>3, BestTops DEF LoadRecovered, Commit
  <2> QED
    BY <1>8, <2>1, <2>2, <2>3 DEF LoadRecovered
<1>9. CASE MutatorThrows \/ MutatorKeeps \/ CommitFails \/ End
    BY <1>2, <1>9 DEF MutatorThrows, MutatorKeeps, CommitFails, End
<1>10. CASE Mutate
  <2>1. CASE Unlock
    BY <1>2, <1>10, <2>1 DEF Mutate
  <2>2. ASSUME NEW unread \in SUBSET Slots, Unreadable(unread), Valid(unread) # {}
        PROVE  unread = {}
    BY <1>10, <2>2, UnreadRefuses DEF Mutate
  <2>3. ASSUME Valid({}) # {}, disk[Best(Valid({}))] = Mine,
               Commit(NextEnvelope(Mine, op), "mutate")
        PROVE  Chain'
    <3>1. Mine \in Envelopes
      BY <2>3, BestTops, ValidSlots
    <3>2. AtMost(Mine, NextEnvelope(Mine, op)) /\ NextEnvelope(Mine, op) \in Envelopes
      BY <3>1, <1>10 DEF AtMost, NextEnvelope, Envelope, Envelopes, Mutate, Control
    <3>3. Tops(NextEnvelope(Mine, op))
      BY <2>3, <3>1, <3>2, BestTops, ValidSlots, AtMostTransitive
    <3> QED
      BY <1>2, <1>10, <2>3, <3>3 DEF Mutate, Commit
  <2> QED
    BY <1>10, <2>1, <2>2, <2>3 DEF Mutate
<1>11. CASE OpenNext \/ WriteNext \/ RemoveBackup \/ SetAside
    BY <1>1, <1>4, <1>11 DEF OpenNext, WriteNext, RemoveBackup, SetAside, TypeOK, Slots,
       Chain, Missing, Torn
<1>12. CASE Publish
    BY <1>1, <1>4, <1>12 DEF Publish, Published, TypeOK, Slots, Chain, Place, Missing, Torn, Control, Envelopes
<1>13. CASE PublishFails
    BY <1>1, <1>3, <1>13 DEF PublishFails, Published, TypeOK, Slots, Chain, Place, Missing, Torn, Control, Envelopes
<1>14. CASE Tidy
  <2>1. ~Committing'
    BY <1>14 DEF Tidy, Loaded
  <2>2. Untorn /\ \A s \in Valid({})' : Kept(s)
    BY <1>1, <1>14 DEF Tidy, TypeOK, Slots, Chain, Missing, Torn
  <2> QED
    BY <1>3, <2>1, <2>2
<1>15. ASSUME NEW p \in Procs, Die(p) PROVE Chain'
    BY <1>2, <1>15 DEF Die, Chain
<1>16. CASE UNCHANGED vars
    BY <1>2, <1>16 DEF vars, Chain
<1> QED
    BY <1>5, <1>6, <1>7, <1>8, <1>9, <1>10, <1>11, <1>12, <1>13, <1>14, <1>15, <1>16 DEF Next

(* Every step leaves the promises in their place, or moves them to the     *)
(* next one.                                                               *)
LEMMA PlaceStep ==
    ASSUME Scope, TypeOK, Control, Tidied, Chain, Place, TypeOK', Control', Chain',
           interrupted <= 1, interrupted' <= 1, [Next]_vars
    PROVE  Place'
<1> USE DEF Active, Continue, Unlock, Committing, Fault, Slip, NoFault, Recovering
<1>0. /\ Valid({})' = {s \in Slots : disk'[s].kind = "envelope"}
      /\ Valid({}) = {s \in Slots : disk[s].kind = "envelope"}
      /\ interrupted \in Nat /\ interrupted' \in Nat
    BY ValidSlots DEF Valid, TypeOK
<1>1. ASSUME Unlock, Resting' PROVE Place'
    BY <1>1 DEF Place
<1>2. ASSUME UNCHANGED <<disk, cache, promised>>, interrupted' >= interrupted, Resting
      PROVE  Resting'
    BY <1>0, <1>2 DEF Resting, Safe, Void, Covers, Slots, TypeOK
<1>3. ASSUME NEW e \in Envelopes, Covers(e), SetCache(e), UNCHANGED <<holder, promised>>, Active
      PROVE  Mine' = e /\ Covers(e)'
    BY <1>3 DEF Covers, SetCache, Mine, Compatible, TypeOK
<1>4. ASSUME NEW p \in Procs, NEW o \in Updates \cup {Read}, Begin(p, o) PROVE Place'
  <2>1. Resting'
    BY <1>0, <1>2, <1>4 DEF Begin, Place, Control
  <2> QED
    BY <1>4, <2>1 DEF Begin, Place
<1>5. ASSUME NEW unread \in SUBSET Slots, Unreadable(unread), unread # {},
             step \in {"load", "mutate"}
      PROVE  Valid(unread) = {} /\ \E s \in Slots : disk[s] # Missing
    BY <1>5, UnreadRefuses
<1>6. CASE LoadNothing
  <2>1. Resting'
    BY <1>0, <1>2, <1>6 DEF LoadNothing, Unreadable, Place
  <2>2. CASE Unlock
    BY <1>1, <2>1, <2>2
  <2>3. CASE (\A s \in Slots : disk[s] = Missing) /\ Commit(Envelope(0, {}), "defaults")
    <3>1. Void
      BY <1>0, <1>6, <2>3 DEF LoadNothing, Place, Resting, Safe, Slots, Missing
    <3> QED
      BY <1>0, <1>6, <2>3, <3>1 DEF LoadNothing, Commit, Place, Void, Covers, Compatible, Envelope
  <2> QED
    BY <1>6, <2>2, <2>3 DEF LoadNothing
<1>7. CASE LoadCurrent
  <2>1. "current" \in Valid({}) /\ Best(Valid({})) = "current" /\ disk["current"] \in Envelopes
    BY <1>5, <1>7, BestTops, ValidSlots DEF LoadCurrent
  <2>2. Covers(disk["current"])
    BY <1>7, <2>1, SafeBest DEF LoadCurrent, Place, Resting
  <2>3. disk'["current"] = disk["current"]
    BY <1>7 DEF LoadCurrent, TypeOK, Slots
  <2>4. CASE Loaded(disk["current"])
    BY <1>0, <1>3, <1>7, <2>1, <2>2, <2>3, <2>4 DEF LoadCurrent, Loaded, Place
  <2>5. CASE Unlock /\ UNCHANGED cache
    <3>1. Covers(disk["current"])'
      BY <1>7, <2>2, <2>3, <2>5 DEF LoadCurrent, Covers
    <3>2. Resting'
      BY <1>0, <2>1, <2>3, <3>1 DEF Resting, Safe, Slots
    <3> QED
      BY <1>1, <2>5, <3>2
  <2> QED
    BY <1>7, <2>4, <2>5 DEF LoadCurrent
<1>8. CASE LoadRecovered
  <2>1. Resting'
    BY <1>0, <1>2, <1>8 DEF LoadRecovered, Unreadable, Place
  <2>2. CASE Unlock
    BY <1>1, <2>1, <2>2
  <2>3. CASE Valid({}) # {} /\ Commit(disk[Best(Valid({}))], "recover")
    <3>1. Covers(disk[Best(Valid({}))])
      BY <1>8, <2>3, SafeBest DEF LoadRecovered, Place, Resting
    <3>2. Covers(env)'
      BY <1>8, <2>3, <3>1 DEF LoadRecovered, Commit, Covers
    <3> QED
      BY <1>0, <1>8, <2>1, <2>3, <3>2 DEF LoadRecovered, Commit, Place, Resting
  <2> QED
    BY <1>5, <1>8, <2>2, <2>3 DEF LoadRecovered
<1>9. CASE MutatorThrows
    BY <1>0, <1>1, <1>9 DEF MutatorThrows, Place, Resting, Safe, Covers, Slots
<1>10. CASE MutatorKeeps
    BY <1>0, <1>10 DEF MutatorKeeps, Place, Covers, Mine
<1>11. CASE Mutate
  <2>1. CASE Unlock
    BY <1>0, <1>1, <1>11, <2>1 DEF Mutate, Place, Resting, Safe, Covers, Slots
  <2>2. ASSUME Valid({}) # {}, disk[Best(Valid({}))] = Mine,
               Commit(NextEnvelope(Mine, op), "mutate")
        PROVE  Place'
    <3>1. Mine \in Envelopes /\ NextEnvelope(Mine, op) \in Envelopes /\ AtMost(Mine, NextEnvelope(Mine, op))
      BY <1>11, <2>2, BestTops, ValidSlots
         DEF Mutate, AtMost, NextEnvelope, Envelope, Envelopes, Control
    <3>2. Covers(Mine) /\ Covers(NextEnvelope(Mine, op)) /\ disk["current"] = Mine /\ "current" \in Valid({})
      BY <1>11, <3>1, CoversUp DEF Mutate, Place
    <3>3. \A s \in Valid({}) : AtMost(disk[s], disk["current"])
      BY <2>2, <3>2, BestTops
    <3>4. Covers(env)' /\ Covers(disk["current"])'
      BY <1>11, <2>2, <3>2 DEF Mutate, Commit, Covers
    <3> QED
      BY <1>0, <1>11, <2>2, <3>2, <3>3, <3>4 DEF Mutate, Commit, Place, BaseIs, AtMost, Slots
  <2> QED
    BY <1>5, <1>11, <2>1, <2>2 DEF Mutate
<1>12. CASE OpenNext
    BY <1>0, <1>12 DEF OpenNext, Place, BaseIs, Safe, Void, Covers, TypeOK, Slots, AtMost, Torn
<1>13. CASE WriteNext
    BY <1>0, <1>13 DEF WriteNext, Place, BaseIs, Void, Covers, TypeOK, Slots
<1>14. CASE RemoveBackup
    BY <1>0, <1>14 DEF RemoveBackup, Place, BaseIs, Void, Covers, TypeOK, Slots
<1>15. CASE SetAside
    BY <1>0, <1>15 DEF SetAside, Place, BaseIs, Void, Covers, TypeOK, Slots, Missing
<1>16. CASE CommitFails
    BY <1>0, <1>1, <1>16 DEF CommitFails, Place, Resting, Safe, BaseIs, Void, Covers, TypeOK, Control, Envelopes, Slots, Missing
<1>17. CASE Publish
    BY <1>0, <1>17 DEF Publish, Published, Place, Void, Covers, TypeOK, Slots
<1>18. CASE PublishFails
    BY <1>0, <1>1, <1>18 DEF PublishFails, Published, Place, Resting, Safe, BaseIs, Void, Covers, TypeOK, Control, Envelopes, Slots, Missing
<1>19. CASE Tidy
    BY <1>0, <1>3, <1>19 DEF Tidy, Loaded, Place, TypeOK, Control, Envelopes, Slots, Missing
<1>20. CASE End
  <2>1. Covers(disk["current"])' /\ "current" \in Valid({})'
    BY <1>0, <1>20 DEF End, Place, Covers, Mine
  <2> QED
    BY <1>0, <1>1, <1>20, <2>1 DEF End, Resting, Safe, Slots
<1>21. ASSUME NEW p \in Procs, Die(p) PROVE Place'
  <2>1. \A e : Covers(e) => promised' \subseteq e.body /\ \A q \in Procs : Compatible(e, cache'[q])
    BY <1>21 DEF Die, Covers, Compatible, TypeOK
  <2>2. Void => Void'
    BY <1>21 DEF Die, Void, TypeOK
  <2>3. CASE p = holder
    <3>1. Unlock /\ disk' = disk /\ Active
      BY <1>21, <2>3, NamesAssumption DEF Die
    <3>2. \A s \in Valid({}) : Covers(disk[s]) => Covers(disk[s])'
      BY <2>1, <3>1 DEF Covers
    <3>3. ASSUME NEW slots \in SUBSET Slots, Safe(slots) PROVE Safe(slots)'
      BY <1>0, <2>2, <3>1, <3>2, <3>3 DEF Safe
    <3>4. Safe({"current"}) => Safe({"current", "backup"}) /\ Safe(Slots)
      BY DEF Safe, Slots
    <3>5. Safe({"backup"}) => Safe({"current", "backup"}) /\ Safe(Slots)
      BY DEF Safe, Slots
    <3>6. Safe({"next"}) => Safe(Slots)
      BY DEF Safe, Slots
    <3>7. Safe({"current", "backup"}) => Safe(Slots)
      BY DEF Safe, Slots
    <3>8. IF interrupted' = 0 THEN Safe({"current", "backup"}) ELSE Safe(Slots)
      <4>1. CASE ~Committing
        BY <1>0, <1>21, <2>3, <3>1, <3>4, <3>7, <4>1
           DEF Die, Place, Resting, Safe, TypeOK, Control, Steps
      <4>2. CASE Committing /\ why # "recover"
        BY <1>0, <1>21, <2>3, <3>1, <3>4, <3>5, <4>2
           DEF Die, Place, Safe, BaseIs, TypeOK, Control, Envelopes, Missing, Slots
      <4>3. CASE Committing /\ why = "recover"
        <5>1. interrupted = 0 /\ interrupted' = 1
          BY <1>0, <1>21, <2>3, <4>3 DEF Die
        <5>2. CASE step \in {"open", "write"}
          BY <3>7, <4>3, <5>1, <5>2 DEF Place
        <5>3. CASE step \in {"rmBackup", "aside", "publish", "tidy"}
          BY <1>0, <3>4, <3>6, <4>3, <5>1, <5>3
             DEF Place, Safe, TypeOK, Control, Envelopes, Missing, Slots
        <5> QED
          BY <4>3, <5>1, <5>2, <5>3
      <4> QED
        BY <4>1, <4>2, <4>3
    <3>9. Resting'
      BY <3>3, <3>8 DEF Resting, Slots
    <3> QED
      BY <1>1, <3>1, <3>9
  <2>4. CASE p # holder
    BY <1>0, <1>21, <2>1, <2>2, <2>4 DEF Die, Place, Resting, Safe, BaseIs, Covers, TypeOK, Slots, Mine, AtMost
  <2> QED
    BY <2>3, <2>4
<1>22. CASE UNCHANGED vars
    BY <1>0, <1>22 DEF vars, Place, Resting, Safe, BaseIs, Void, Covers, Mine, AtMost
<1> QED
    BY <1>4, <1>6, <1>7, <1>8, <1>9, <1>10, <1>11, <1>12, <1>13, <1>14, <1>15, <1>16, <1>17,
       <1>18, <1>19, <1>20, <1>21, <1>22 DEF Next

-----------------------------------------------------------------------------
(* The invariant is inductive within the scope. *)
LEMMA NextInv == ASSUME Scope PROVE IInv /\ [Next]_vars => IInv'
<1> SUFFICES ASSUME IInv, [Next]_vars PROVE IInv'
    OBVIOUS
<1>1. TypeOK' /\ Control' /\ Tidied'
    BY TypeStep, TidiedStep DEF IInv
<1>2. ASSUME interrupted' <= 1 PROVE interrupted <= 1
  <2>1. interrupted \in Nat /\ (interrupted' = interrupted \/ interrupted' = interrupted + 1)
    BY DEF IInv, TypeOK, Next, vars, Begin, LoadNothing, LoadCurrent, LoadRecovered,
       MutatorThrows, MutatorKeeps, Mutate, OpenNext, WriteNext, RemoveBackup, SetAside,
       CommitFails, Publish, PublishFails, Tidy, End, Die, Unreadable, Fault, NoFault
  <2> QED
    BY <1>2, <2>1
<1>3. ASSUME interrupted' <= 1 PROVE Chain' /\ Place'
    BY <1>1, <1>2, <1>3, ChainStep, PlaceStep DEF IInv
<1> QED
    BY <1>1, <1>3 DEF IInv

(* The invariant holds in every state. *)
LEMMA Invariance == ASSUME Scope PROVE Spec => []IInv
<1>1. Init => IInv
    BY InitInv
<1>2. IInv /\ [Next]_vars => IInv'
    BY NextInv
<1> QED
    BY <1>1, <1>2, PTL DEF Spec

(* What is stored, in terms of the slots.                                  *)
StoredInv ==
    /\ promised \subseteq Stored
    /\ step \in {"rmBackup", "aside", "publish", "tidy"} => Stored = env.body
    /\ \A s \in Valid({}) : disk[s].body \subseteq Stored
    /\ ~Recovering =>
          /\ Stored # {} => \E s \in Valid({}) : Stored = disk[s].body
          /\ \A s \in Valid({}) : (\A t \in Valid({}) : AtMost(disk[t], disk[s])) =>
                Stored = disk[s].body

LEMMA StoredSlots == ASSUME TypeOK, Control, Chain, Place PROVE StoredInv
<1>0. \A s \in Valid({}) : disk[s] \in Envelopes
    BY ValidSlots
<1>1. CASE Recovering
  <2>1. Stored = env.body /\ Committing
    BY <1>1 DEF Stored, Recovering, Committing
  <2>2. \A s \in Valid({}) : disk[s].body \subseteq env.body
    BY <2>1 DEF Chain, AtMost
  <2> QED
    BY <1>1, <2>1, <2>2 DEF StoredInv, Place, Covers
<1>2. CASE ~Recovering /\ Valid({}) = {}
  <2>1. promised = {} /\ step \notin {"rmBackup", "aside", "publish", "tidy"}
    BY <1>0, <1>2, ValidSlots
       DEF Place, Resting, Safe, Void, BaseIs, Recovering, Committing, TypeOK, Control,
           Steps, Slots, Envelopes, Missing
  <2> QED
    BY <1>2, <2>1 DEF StoredInv, Stored
<1>3. CASE ~Recovering /\ Valid({}) # {}
  <2> DEFINE b == Best(Valid({}))
  <2>1. Stored = disk[b].body
    BY <1>3 DEF Stored
  <2>2. b \in Valid({}) /\ \A s \in Valid({}) : AtMost(disk[s], disk[b])
    BY <1>3, BestTops
  <2>3. \A s \in Valid({}) : (\A t \in Valid({}) : AtMost(disk[t], disk[s])) =>
            disk[s] = disk[b]
    BY <1>0, <2>2 DEF AtMost, Envelopes
  <2>4. step \in {"rmBackup", "aside", "publish", "tidy"} => disk[b] = env
    <3>1. ASSUME step \in {"rmBackup", "aside", "publish", "tidy"}
          PROVE  \E s \in Valid({}) : disk[s] = env
      BY <3>1, ValidSlots DEF Place, TypeOK, Control, Committing, Slots, Envelopes, Missing
    <3>2. ASSUME step \in {"rmBackup", "aside", "publish", "tidy"}
          PROVE  AtMost(disk[b], env)
      BY <2>2, <3>2 DEF Chain, Committing
    <3> QED
      BY <1>0, <2>2, <3>1, <3>2 DEF AtMost, Envelopes
  <2>5. Covers(disk[b])
    <3>1. CASE step \in {"idle", "load"}
      BY <1>3, <3>1, SafeBest DEF Place, Resting
    <3>2. CASE step \in {"mutate", "end"}
      <4>1. Safe({"current"})
        BY <3>2 DEF Place, Safe
      <4> QED
        BY <1>3, <4>1, SafeBest
    <3>3. CASE step \in {"rmBackup", "aside", "publish", "tidy"}
      BY <2>4, <3>3 DEF Place, Committing
    <3>4. CASE step \in {"open", "write"}
      <4>1. CASE why = "mutate"
        <5>1. Safe({"current"})
          BY <3>4, <4>1 DEF Place, Safe, BaseIs
        <5> QED
          BY <1>3, <5>1, SafeBest
      <4>2. CASE why = "defaults"
        BY <3>4, <4>2, VoidCovers DEF Place, Committing
      <4> QED
        BY <1>3, <3>4, <4>1, <4>2 DEF Recovering, TypeOK
    <3> QED
      BY <3>1, <3>2, <3>3, <3>4 DEF TypeOK, Steps
  <2>6. \A s \in Valid({}) : disk[s].body \subseteq disk[b].body
    BY <2>2 DEF AtMost
  <2>7. promised \subseteq disk[b].body
    BY <2>5 DEF Covers
  <2> HIDE DEF b
  <2> QED
    BY <2>1, <2>2, <2>3, <2>4, <2>6, <2>7 DEF StoredInv
<1> QED
    BY <1>1, <1>2, <1>3

(* No mutation that was acknowledged, or shown by a read, goes missing,    *)
(* at whatever moment of a commit a call fails or a process dies, until a  *)
(* second recovery is interrupted (#loadLatest and #commit in atomic-json- *)
(* store.ts).                                                              *)
THEOREM PromisesHold ==
    ASSUME Scope PROVE Spec => [](interrupted <= 1 => PromisesKept)
<1>1. IInv => (interrupted <= 1 => PromisesKept)
    BY StoredSlots DEF IInv, PromisesKept, StoredInv
<1> QED
    BY <1>1, Invariance, PTL

(* No store is ever refused its own state: the next load finds a candidate *)
(* that its cache agrees with, whatever other processes and failing calls  *)
(* did, until a second recovery is interrupted (#assertCompatibleWithCache *)
(* in atomic-json-store.ts).                                               *)
THEOREM GenerationsNeverGoBack ==
    ASSUME Scope PROVE Spec => [](interrupted <= 1 => GenerationsAdvance)
<1>1. ASSUME IInv, interrupted <= 1 PROVE GenerationsAdvance
  <2>1. ASSUME NEW p \in Procs, ~Active, cache[p] # NoCache
        PROVE  Valid({}) # {} /\ Compatible(disk[Best(Valid({}))], cache[p])
    <3>1. \E slots : Safe(slots)
      BY <1>1, <2>1 DEF IInv, Place, Control, Active, Resting
    <3>2. Valid({}) # {}
      BY <2>1, <3>1 DEF Safe, Void
    <3> QED
      BY <1>1, <3>1, <3>2, SafeBest DEF IInv, Covers
  <2> QED
    BY <1>1, <2>1 DEF GenerationsAdvance, NeverBackwards, IInv
<1>2. IInv => (interrupted <= 1 => GenerationsAdvance)
    BY <1>1
<1> QED
    BY <1>2, Invariance, PTL

-----------------------------------------------------------------------------
(* What a step may do to what is stored: nothing, add the mutation of the  *)
(* operation, let a caller know of it, lose what nobody was promised.      *)
Unnoticed == Stored' = Stored /\ promised' = promised
Applied == op \in Updates /\ Stored' = Stored \cup {op} /\ promised' = promised
Told == Stored' = Stored /\ promised' \in SUBSET Stored /\ promised \subseteq promised'
Lost == Stored' \in SUBSET Stored /\ promised \subseteq Stored' /\ promised' = promised

Allowed == Unnoticed \/ Applied \/ Told \/ Lost

(* Each of them is a step of DurableStore, or none. *)
LEMMA AllowedStep == Allowed => [Durable!Next]_Durable!dvars
<1> SUFFICES ASSUME Allowed PROVE [Durable!Next]_Durable!dvars
    OBVIOUS
<1> USE DEF Durable!Next, Durable!dvars, Durable!Apply, Durable!Promise, Durable!Lose
<1>1. CASE Unnoticed
    BY <1>1 DEF Unnoticed
<1>2. CASE Applied
  <2>1. CASE op \in Stored
    BY <1>2, <2>1 DEF Applied
  <2>2. CASE op \notin Stored
    BY <1>2, <2>2 DEF Applied
  <2> QED
    BY <2>1, <2>2
<1>3. CASE Told
    BY <1>3 DEF Told
<1>4. CASE Lost
    BY <1>4 DEF Lost
<1> QED
    BY <1>1, <1>2, <1>3, <1>4 DEF Allowed

(* Every step does one of them. *)
LEMMA StepAllowed ==
    ASSUME Scope, TypeOK, Control, Tidied, Chain, Place, StoredInv,
           TypeOK', Control', Chain', Place', StoredInv', [Next]_vars
    PROVE  Allowed
<1> USE DEF Active, Continue, Unlock, Committing
<1>1. /\ Valid({})' = {s \in Slots : disk'[s].kind = "envelope"}
      /\ Valid({}) = {s \in Slots : disk[s].kind = "envelope"}
    BY ValidSlots DEF Valid
<1>2. ASSUME UNCHANGED <<disk, promised>>, ~Recovering, ~Recovering' PROVE Unnoticed
    BY <1>2 DEF Unnoticed, Stored, Valid, Best, Better
<1>3. ASSUME UNCHANGED promised, ~Recovering',
             \A s \in Valid({})' : disk'[s].body \subseteq Stored
      PROVE  Lost
  <2>1. Stored' \subseteq Stored
    BY <1>3 DEF StoredInv
  <2> QED
    BY <1>3, <2>1 DEF Lost, StoredInv
<1>4. ASSUME UNCHANGED <<disk, promised>>, ~Recovering' PROVE Lost
    BY <1>1, <1>3, <1>4 DEF StoredInv
<1>5. ASSUME UNCHANGED <<env, promised>>, Stored = env.body, Stored' = env.body PROVE Unnoticed
    BY <1>5 DEF Unnoticed
<1>6. ASSUME NEW p \in Procs, NEW o \in Updates \cup {Read}, Begin(p, o) PROVE Allowed
    BY <1>2, <1>6 DEF Begin, Recovering, Control, Allowed
<1>7. CASE LoadNothing
    BY <1>2, <1>7 DEF LoadNothing, Commit, Recovering, Allowed
<1>8. CASE LoadCurrent
  <2>1. ~Recovering /\ ~Recovering'
    BY <1>8 DEF LoadCurrent, Loaded, Recovering
  <2>2. \A s \in Valid({})' : s \in Valid({}) /\ disk'[s] = disk[s]
    BY <1>1, <1>8 DEF LoadCurrent, TypeOK, Slots, Missing
  <2> QED
    BY <1>3, <1>8, <2>1, <2>2 DEF LoadCurrent, StoredInv, Allowed
<1>9. CASE LoadRecovered
  <2>1. ~Recovering
    BY <1>9 DEF LoadRecovered, Recovering
  <2>2. CASE Unlock
    BY <1>2, <1>9, <2>1, <2>2 DEF LoadRecovered, Recovering, Allowed
  <2>3. ASSUME NEW unread \in SUBSET Slots, Unreadable(unread), Valid(unread) # {}
        PROVE  unread = {}
    BY <1>9, <2>3, UnreadRefuses DEF LoadRecovered
  <2>4. CASE Valid({}) # {} /\ Commit(disk[Best(Valid({}))], "recover")
    BY <1>9, <2>1, <2>4 DEF LoadRecovered, Commit, Recovering, Stored, Unnoticed, Allowed
  <2> QED
    BY <1>9, <2>2, <2>3, <2>4 DEF LoadRecovered
<1>10. CASE MutatorThrows \/ MutatorKeeps \/ Mutate
    BY <1>2, <1>10 DEF MutatorThrows, MutatorKeeps, Mutate, Commit, Recovering, Allowed
<1>11. CASE OpenNext \/ WriteNext
  <2>1. CASE Recovering
    BY <1>5, <1>11, <2>1 DEF OpenNext, WriteNext, Recovering, Stored, Allowed
  <2>2. CASE OpenNext /\ ~Recovering
    <3>1. \A s \in Valid({})' : s \in Valid({}) /\ disk'[s] = disk[s]
      BY <1>1, <2>2 DEF OpenNext, TypeOK, Slots, Torn
    <3> QED
      BY <1>3, <2>2, <3>1 DEF OpenNext, Recovering, StoredInv, Allowed
  <2>3. CASE WriteNext /\ ~Recovering
    <3>1. Stored' = env.body
      BY <2>3 DEF WriteNext, StoredInv
    <3>2. CASE why = "defaults"
      <4>1. env.body = {}
        BY <2>3, <3>2 DEF WriteNext, Place
      <4>2. \A s \in Valid({}) : disk[s].body \subseteq {}
        BY <2>3, <4>1 DEF WriteNext, Chain, AtMost
      <4>3. Stored = {}
        BY <2>3, <4>2 DEF StoredInv
      <4> QED
        BY <2>3, <3>1, <4>1, <4>3 DEF WriteNext, Unnoticed, Allowed
    <3>3. CASE why = "mutate"
      <4>1. Stored = disk["current"].body
        BY <2>3, <3>3 DEF WriteNext, Place, BaseIs, StoredInv
      <4>2. env.body = disk["current"].body \cup {op} /\ op \in Updates
        BY <2>3, <3>3 DEF WriteNext, Place, BaseIs, NextEnvelope, Envelope, Control
      <4> QED
        BY <2>3, <3>1, <4>1, <4>2 DEF WriteNext, Applied, Allowed
    <3> QED
      BY <2>3, <3>2, <3>3 DEF WriteNext, Recovering, TypeOK
  <2> QED
    BY <1>11, <2>1, <2>2, <2>3
<1>12. CASE RemoveBackup \/ SetAside \/ Publish
    BY <1>5, <1>12 DEF RemoveBackup, SetAside, Publish, StoredInv, Allowed
<1>13. CASE CommitFails
    BY <1>4, <1>13 DEF CommitFails, Recovering, Allowed
<1>14. CASE PublishFails
  <2>1. Stored = env.body
    BY <1>14 DEF PublishFails, StoredInv
  <2>2. \A s \in Valid({})' : disk'[s] = env \/ \E t \in Valid({}) : disk'[s] = disk[t]
    BY <1>1, <1>14 DEF PublishFails, Published, Place, TypeOK, Slots, Missing
  <2> QED
    BY <1>3, <1>14, <2>1, <2>2 DEF PublishFails, Recovering, StoredInv, Allowed
<1>15. CASE Tidy
  <2>1. Stored = env.body /\ ~Recovering' /\ env \in Envelopes
    BY <1>15 DEF Tidy, Loaded, Recovering, StoredInv, TypeOK, Control
  <2>2. "current" \in Valid({})' /\ disk'["current"] = env
    BY <1>1, <1>15, <2>1 DEF Tidy, Place, TypeOK, Slots, Envelopes
  <2>3. \A s \in Valid({})' : s \in Valid({}) /\ disk'[s] = disk[s]
    BY <1>1, <1>15 DEF Tidy, TypeOK, Slots, Missing
  <2>4. \A s \in Valid({})' : AtMost(disk'[s], disk'["current"])
    BY <1>15, <2>2, <2>3 DEF Tidy, Chain, AtMost
  <2>5. Stored' = env.body
    BY <2>1, <2>2, <2>4 DEF StoredInv, AtMost
  <2> QED
    BY <1>15, <2>1, <2>5 DEF Tidy, Unnoticed, Allowed
<1>16. CASE End
  <2>1. ~Recovering /\ ~Recovering'
    BY <1>16 DEF End, Recovering
  <2>2. Stored' = Stored
    BY <1>16, <2>1 DEF End, Stored, Valid, Best, Better
  <2>3. Mine.body \subseteq Stored
    BY <1>16 DEF End, Place, StoredInv
  <2> QED
    BY <1>16, <2>2, <2>3 DEF End, Told, StoredInv, Allowed
<1>17. ASSUME NEW p \in Procs, Die(p) PROVE Allowed
  <2>1. CASE p = holder
    BY <1>4, <1>17, <2>1 DEF Die, Recovering, Allowed
  <2>2. CASE p # holder
    BY <1>17, <2>2 DEF Die, Recovering, Stored, Valid, Best, Better, Unnoticed, Allowed
  <2> QED
    BY <2>1, <2>2
<1>18. CASE UNCHANGED vars
    BY <1>18 DEF vars, Recovering, Stored, Valid, Best, Better, Unnoticed, Allowed
<1> QED
    BY <1>6, <1>7, <1>8, <1>9, <1>10, <1>11, <1>12, <1>13, <1>14, <1>15, <1>16, <1>17, <1>18
       DEF Next

(* The files implement DurableStore as long as at most one recovery is     *)
(* interrupted: a mutation takes effect as a whole, and once promised it   *)
(* stays, through failing calls, deaths and the commits of other processes *)
(* (atomic-json-store.ts).                                                 *)
THEOREM FilesImplementStore ==
    ASSUME Scope, MaxInterrupted <= 1 PROVE Spec => Implements
<1>1. Init => Durable!Init
    BY DEF Init, Durable!Init, Stored, Recovering, Valid, Missing
<1>2. IInv => interrupted <= 1 /\ StoredInv
    BY StoredSlots, PimAssumption DEF IInv, Control, TypeOK
<1>3. /\ IInv /\ interrupted <= 1 /\ StoredInv
      /\ IInv' /\ (interrupted <= 1 /\ StoredInv)'
      /\ [Next]_vars
      => [Durable!Next]_Durable!dvars
    BY StepAllowed, AllowedStep DEF IInv
<1> QED
    BY <1>1, <1>2, <1>3, Invariance, PTL DEF Spec, Implements, Durable!Spec

=============================================================================
