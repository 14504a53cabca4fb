------------------------------ MODULE PimStore ------------------------------
(***************************************************************************)
(* The files of src/main/pim/atomic-json-store.ts: one state in a current  *)
(* file, with a next and a backup slot beside it, shared by the stores of  *)
(* several processes.                                                      *)
(*                                                                         *)
(* PimLock shows that at most one call works on the files at a time; here  *)
(* the lock is the variable holder, and a holder that dies loses it.  A    *)
(* payload is the set of mutations made to it.  Files change in the order  *)
(* of the calls made; a process may die before or after each of them and   *)
(* each may fail.                                                          *)
(***************************************************************************)
EXTENDS Naturals, FiniteSets

CONSTANTS
    Procs,            \* processes, each with a store instance
    Updates,          \* mutations, each made once
    ReadsFail,        \* a file that is there may be unreadable for a moment
    MaxFaults,        \* bound: failing calls and deaths
    MaxInterrupted    \* bound: recovery commits that do not come to their end

ASSUME PimAssumption ==
    /\ ReadsFail \in BOOLEAN
    /\ MaxFaults \in Nat /\ MaxInterrupted \in Nat

NoProc == "none"
Read == "read"
ASSUME NamesAssumption == NoProc \notin Procs /\ Read \notin Updates

(* A slot holds nothing, a file that is no envelope, or an envelope.       *)
Slots == {"current", "next", "backup"}
Missing == [kind |-> "missing"]
Torn == [kind |-> "torn"]
Envelope(g, b) == [kind |-> "envelope", gen |-> g, body |-> b]
Envelopes == [kind : {"envelope"}, gen : Nat, body : SUBSET Updates]
NoCache == Missing

VARIABLES
    disk,         \* the slots
    cache,        \* #data and #generation of each store
    holder,       \* the process inside #withExclusiveLock
    op,           \* its operation: Read, or the mutation it makes
    step,         \* its next step
    env,          \* what #commit is writing
    why,          \* for which caller: "defaults", "recover" or "mutate"
    made,         \* mutations that were begun
    promised,     \* mutations a resolved call acknowledged or showed
    faults, interrupted

vars == <<disk, cache, holder, op, step, env, why, made, promised,
          faults, interrupted>>

Steps == {"idle", "load", "mutate", "open", "write", "rmBackup", "aside",
          "publish", "tidy", "end"}

TypeOK ==
    /\ disk \in [Slots -> Envelopes \cup {Missing, Torn}]
    /\ cache \in [Procs -> Envelopes \cup {NoCache}]
    /\ holder \in Procs \cup {NoProc}
    /\ op \in Updates \cup {Read}
    /\ step \in Steps
    /\ env \in Envelopes \cup {Missing}
    /\ why \in {"defaults", "recover", "mutate"}
    /\ made \subseteq Updates
    /\ promised \subseteq made
    /\ faults \in Nat /\ interrupted \in Nat

Init ==
    /\ disk = [s \in Slots |-> Missing]
    /\ cache = [p \in Procs |-> NoCache]
    /\ holder = NoProc /\ op = Read /\ step = "idle"
    /\ env = Missing /\ why = "defaults"
    /\ made = {} /\ promised = {}
    /\ faults = 0 /\ interrupted = 0

-----------------------------------------------------------------------------
(***************************************************************************)
(* Choosing a candidate.                                                   *)
(***************************************************************************)
(* #readCandidates: the slots whose envelope was read and is valid.        *)
Valid(unread) == {s \in Slots \ unread : disk[s].kind = "envelope"}

Priority(s) == IF s = "current" THEN 3 ELSE IF s = "next" THEN 2 ELSE 1

(* Mutant: the sort is ascending.                                          *)
BetterOldest(s, t) ==
    \/ disk[s].gen < disk[t].gen
    \/ disk[s].gen = disk[t].gen /\ Priority(s) >= Priority(t)

(* #selectCandidate: the sort order of valid candidates.                   *)
Better(s, t) ==
    \/ disk[s].gen > disk[t].gen
    \/ disk[s].gen = disk[t].gen /\ Priority(s) >= Priority(t)

Best(valid) == CHOOSE s \in valid : \A t \in valid : Better(s, t)

(* #assertCompatibleWithCache.                                             *)
Compatible(e, c) ==
    c = NoCache \/ e.gen > c.gen \/ (e.gen = c.gen /\ e.body = c.body)

-----------------------------------------------------------------------------
Active == holder # NoProc
Mine == cache[holder]

(* A recovery commit is under way.                                         *)
Recovering == why = "recover" /\ step \in {"open", "write", "rmBackup", "aside",
                                           "publish", "tidy"}

Slip == faults < MaxFaults /\ faults' = faults + 1
Fault ==
    /\ Slip
    /\ Recovering => interrupted < MaxInterrupted
    /\ interrupted' = interrupted + (IF Recovering THEN 1 ELSE 0)
NoFault == UNCHANGED <<faults, interrupted>>

(* The operation is over, resolved or rejected, and the lock is released.  *)
Unlock == holder' = NoProc /\ op' = Read /\ step' = "idle"
          /\ env' = Missing /\ why' = "defaults"
Continue(s) == step' = s /\ UNCHANGED <<holder, op, env, why>>
Commit(e, w) == /\ env' = e /\ why' = w /\ step' = "open"
                /\ UNCHANGED <<holder, op>>
SetCache(e) == cache' = [cache EXCEPT ![holder] = e]

(* #loadLatest has its result: a read ends, a mutation goes on.            *)
Loaded(e) ==
    /\ SetCache(e)
    /\ Continue(IF op = Read THEN "end" ELSE "mutate")

(* read, generation or mutate takes the lock.                              *)
Begin(p, o) ==
    /\ ~Active /\ o \notin made
    /\ holder' = p /\ op' = o /\ step' = "load"
    /\ made' = made \cup ({o} \ {Read})
    /\ UNCHANGED <<disk, cache, env, why, promised, faults, interrupted>>

(* Which files cannot be read this time.                                   *)
Unreadable(unread) ==
    \/ unread = {} /\ NoFault
    \/ /\ ReadsFail /\ unread # {} /\ Fault
       /\ \A s \in unread : disk[s] # Missing

-----------------------------------------------------------------------------
(***************************************************************************)
(* #loadLatest.                                                            *)
(***************************************************************************)
(* No candidate: the first start writes the defaults; a file that cannot   *)
(* be used, or a state that had been loaded before, refuses.               *)
LoadNothing ==
    /\ Active /\ step = "load"
    /\ \E unread \in SUBSET Slots :
          /\ Unreadable(unread) /\ Valid(unread) = {}
          /\ IF (\A s \in Slots : disk[s] = Missing) /\ Mine = NoCache
             THEN Commit(Envelope(0, {}), "defaults")
             ELSE Unlock
    /\ UNCHANGED <<disk, cache, made, promised>>

(* The current file is the best: the other slots are removed, and a        *)
(* failing removal rejects the call.                                       *)
LoadCurrent ==
    /\ Active /\ step = "load"
    /\ \E unread \in SUBSET Slots :
          /\ Valid(unread) # {} /\ Best(Valid(unread)) = "current"
          /\ IF Compatible(disk["current"], Mine)
             THEN \/ /\ Unreadable(unread)
                     /\ disk' = [disk EXCEPT !["next"] = Missing,
                                             !["backup"] = Missing]
                     /\ Loaded(disk["current"])
                  \/ /\ unread = {} /\ Fault
                     /\ disk' \in {disk} \cup {[disk EXCEPT ![s] = Missing] :
                                                   s \in {"next", "backup"}}
                     /\ Unlock /\ UNCHANGED cache
             ELSE Unreadable(unread) /\ Unlock /\ UNCHANGED <<disk, cache>>
    /\ UNCHANGED <<made, promised>>

(* Another slot is the best: it is committed again as the current file.    *)
LoadRecovered ==
    /\ Active /\ step = "load"
    /\ \E unread \in SUBSET Slots :
          /\ Unreadable(unread)
          /\ Valid(unread) # {} /\ Best(Valid(unread)) # "current"
          /\ LET e == disk[Best(Valid(unread))]
             IN IF Compatible(e, Mine) THEN Commit(e, "recover") ELSE Unlock
    /\ UNCHANGED <<disk, cache, made, promised>>

-----------------------------------------------------------------------------
(***************************************************************************)
(* mutate.                                                                 *)
(***************************************************************************)
(* The mutator throws, or its draft is invalid.                            *)
MutatorThrows ==
    /\ Active /\ step = "mutate"
    /\ Unlock /\ NoFault
    /\ UNCHANGED <<disk, cache, made, promised>>

(* The mutator decides that nothing changes.                               *)
MutatorKeeps ==
    /\ Active /\ step = "mutate"
    /\ op' = Read /\ step' = "end"
    /\ NoFault
    /\ UNCHANGED <<disk, cache, holder, env, why, made, promised>>

(* Mutant: the new envelope keeps the generation it was made from.         *)
NextEnvelopeSame(base, u) == Envelope(base.gen, base.body \cup {u})

(* Mutant: the generation counts down.                                     *)
NextEnvelopeDown(base, u) == Envelope(base.gen - 1, base.body \cup {u})

(* The draft with the mutation made, under the next generation.            *)
NextEnvelope(base, u) == Envelope(base.gen + 1, base.body \cup {u})

(* #assertDiskMatches, and the new envelope.                               *)
Mutate ==
    /\ Active /\ step = "mutate"
    /\ \E unread \in SUBSET Slots :
          /\ Unreadable(unread)
          /\ IF Valid(unread) # {} /\ disk[Best(Valid(unread))] = Mine
             THEN Commit(NextEnvelope(Mine, op), "mutate")
             ELSE Unlock
    /\ UNCHANGED <<disk, cache, made, promised>>

-----------------------------------------------------------------------------
(***************************************************************************)
(* #commit.                                                                *)
(***************************************************************************)
(* open(next, "w") empties the slot.                                       *)
OpenNext ==
    /\ Active /\ step = "open"
    /\ disk' = [disk EXCEPT !["next"] = Torn]
    /\ Continue("write") /\ NoFault
    /\ UNCHANGED <<cache, made, promised>>

(* writeFile, sync, close.                                                 *)
WriteNext ==
    /\ Active /\ step = "write"
    /\ disk' = [disk EXCEPT !["next"] = env]
    /\ Continue("rmBackup") /\ NoFault
    /\ UNCHANGED <<cache, made, promised>>

(* Mutant: the current file is removed along with the old backup.          *)
RemoveBoth ==
    /\ Active /\ step = "rmBackup"
    /\ disk' = [disk EXCEPT !["backup"] = Missing, !["current"] = Missing]
    /\ Continue("publish") /\ NoFault
    /\ UNCHANGED <<cache, made, promised>>

RemoveBackup ==
    /\ Active /\ step = "rmBackup"
    /\ disk' = [disk EXCEPT !["backup"] = Missing]
    /\ Continue("aside") /\ NoFault
    /\ UNCHANGED <<cache, made, promised>>

(* rename(current, backup), when there is a current file.                  *)
SetAside ==
    /\ Active /\ step = "aside"
    /\ disk' = IF disk["current"] = Missing THEN disk
               ELSE [disk EXCEPT !["backup"] = disk["current"],
                                 !["current"] = Missing]
    /\ Continue("publish") /\ NoFault
    /\ UNCHANGED <<cache, made, promised>>

(* One of the calls above throws.                                          *)
CommitFails ==
    /\ Active /\ step \in {"open", "write", "rmBackup", "aside"}
    /\ Fault /\ Unlock
    /\ UNCHANGED <<disk, cache, made, promised>>

Published == [disk EXCEPT !["current"] = disk["next"], !["next"] = Missing]

(* rename(next, current).                                                  *)
Publish ==
    /\ Active /\ step = "publish"
    /\ disk' = Published
    /\ Continue("tidy") /\ NoFault
    /\ UNCHANGED <<cache, made, promised>>

(* The rename fails and the backup is put back, if that works; or only the *)
(* directory sync behind the rename fails.                                 *)
PublishFails ==
    /\ Active /\ step = "publish"
    /\ Fault /\ Unlock
    /\ disk' \in {disk, Published,
                  IF disk["backup"] = Missing THEN disk
                  ELSE [disk EXCEPT !["current"] = disk["backup"],
                                    !["backup"] = Missing]}
    /\ UNCHANGED <<cache, made, promised>>

(* The backup is removed, or silently stays; then the caller of #commit    *)
(* takes the envelope into its cache.                                      *)
Tidy ==
    /\ Active /\ step = "tidy"
    /\ \/ disk' = [disk EXCEPT !["backup"] = Missing] /\ NoFault
       \/ /\ disk["backup"] # Missing /\ UNCHANGED disk
          /\ Slip /\ UNCHANGED interrupted
    /\ IF why = "mutate" THEN SetCache(env) /\ Continue("end") ELSE Loaded(env)
    /\ UNCHANGED <<made, promised>>

(* The call resolves with what it saw or did; or the release of the lock   *)
(* throws and it is rejected.                                              *)
End ==
    /\ Active /\ step = "end"
    /\ \/ Unlock /\ NoFault /\ promised' = promised \cup Mine.body
       \/ Unlock /\ Fault /\ UNCHANGED promised
    /\ UNCHANGED <<disk, cache, made>>

(* A process dies and is started again; its lock is recovered.             *)
Die(p) ==
    /\ p = holder \/ cache[p] # NoCache
    /\ cache' = [cache EXCEPT ![p] = NoCache]
    /\ IF p = holder THEN Fault /\ Unlock
       ELSE /\ Slip
            /\ UNCHANGED <<interrupted, holder, op, step, env, why>>
    /\ UNCHANGED <<disk, made, promised>>

Next ==
    \/ \E p \in Procs, o \in Updates \cup {Read} : Begin(p, o)
    \/ LoadNothing \/ LoadCurrent \/ LoadRecovered
    \/ MutatorThrows \/ MutatorKeeps \/ Mutate
    \/ OpenNext \/ WriteNext \/ RemoveBackup \/ SetAside \/ CommitFails
    \/ Publish \/ PublishFails \/ Tidy \/ End
    \/ \E p \in Procs : Die(p)

Spec == Init /\ [][Next]_vars

-----------------------------------------------------------------------------
(* What is stored: the best candidate, or, while a recovery rewrites the   *)
(* slot it read, the envelope in its memory.                               *)
Stored ==
    IF Recovering THEN env.body
    ELSE IF Valid({}) = {} THEN {} ELSE disk[Best(Valid({}))].body

(* No mutation that was acknowledged, or shown by a read, goes missing, at *)
(* whatever moment of a commit or of a recovery a call fails or a process  *)
(* dies.                                                                   *)
PromisesKept == promised \subseteq Stored

(* A store is never refused its own state: whatever the other processes    *)
(* did, the next load finds a candidate that is not older than the cache,  *)
(* and not another payload under the same generation.                      *)
NeverBackwards ==
    \A p \in Procs : ~Active /\ cache[p] # NoCache =>
        Valid({}) # {} /\ Compatible(disk[Best(Valid({}))], cache[p])

(* Whatever is read, committed and recovered, no store or file goes back   *)
(* behind a generation it has shown (#adoptEnvelope, #commit in atomic-    *)
(* json-store.ts).                                                         *)
GenerationsAdvance == TypeOK /\ NeverBackwards

(* ROADMAP.md:46, "Generation-based PIM persistence with validated         *)
(* recovery copies": between operations no promised mutation is missing,   *)
(* however many recoveries were interrupted on the way.                    *)
RecoveryCopiesKeep == ~Active => promised \subseteq Stored

(* The comment in #commit (atomic-json-store.ts:258) calls a stale backup  *)
(* harmless: with no recovery interrupted, it never replaces the newer     *)
(* state.                                                                  *)
BackupHarmless == ~Active /\ interrupted = 0 => promised \subseteq Stored

(* The store implements DurableStore.                                      *)
Durable == INSTANCE DurableStore WITH val <- Stored
Implements == Durable!Spec
=============================================================================
