------------------------------ MODULE JsonStore ------------------------------
(***************************************************************************)
(* The crash-safe state file of src/main/storage.ts.                       *)
(*                                                                         *)
(* One process owns the store.  Updates are serialised by a promise queue, *)
(* and each one is a sequence of file-system calls: write a synced         *)
(* temporary file, refresh the backup from the current primary, rename the *)
(* temporary over the primary (with a displace-and-promote fallback when   *)
(* the platform refuses to rename over an existing file), decode the       *)
(* result, remove the temporary.  Any call may fail, and the process may   *)
(* die between any two.  A later load uses the primary, or promotes the    *)
(* newest valid recovery file.                                             *)
(*                                                                         *)
(* A state is abstracted to the set of updates that were applied to reach  *)
(* it; the defaults are the empty set.                                     *)
(***************************************************************************)
EXTENDS Naturals, FiniteSets

CONSTANTS
    Updates,          \* identifiers of the update() calls
    NoUpdate,         \* no update is in flight
    CopyKeepsMtime,   \* copyFile preserves mtime (Windows) or stamps it (POSIX)
    MaxFaults,        \* bound: failing calls plus process deaths
    MaxRots           \* bound: media faults that corrupt the primary

ASSUME ConstantsAssumption ==
    /\ NoUpdate \notin Updates
    /\ CopyKeepsMtime \in BOOLEAN
    /\ MaxFaults \in Nat
    /\ MaxRots \in Nat

(***************************************************************************)
(* Files.  A valid file holds a body and the time of its last write.  The  *)
(* names a process holds live are slots; a file that outlives the call     *)
(* that named it (its name carries a random UUID) is debris.               *)
(***************************************************************************)
Slots == {"primary", "backup", "temp", "candidate", "livePrev", "backupPrev",
          "quarantine"}
NoFile == [kind |-> "none", body |-> {}, at |-> 0]
Torn(t) == [kind |-> "torn", body |-> {}, at |-> t]
Good(b, t) == [kind |-> "good", body |-> b, at |-> t]
Files == [kind : {"none", "torn", "good"}, body : SUBSET Updates, at : Nat]

VARIABLES
    file,      \* [Slots -> Files]: the files under the names in use
    debris,    \* recovery files that no running call owns any more
    data,      \* #data: [loaded, body]
    pc,        \* the next file-system call of the running operation
    job,       \* the update being written, or NoUpdate for a load
    draft,     \* the body being written
    hasCurrent,\* #write's flag: a decodable primary was there
    tried,     \* update() calls made so far
    acked,     \* update() calls whose promise resolved
    shown,     \* the last state readers could see: [loaded, body]
    now,       \* the file-system clock
    faults,    \* failing calls and deaths so far
    rots       \* media faults so far

vars == <<file, debris, data, pc, job, draft, hasCurrent, tried, acked,
          shown, now, faults, rots>>

PCs == {"idle", "open", "sync", "check", "copy", "copied", "rotate",
        "displaceBackup", "promoteBackup", "replace", "displaceLive",
        "promoteLive", "undoLive", "verify", "committed", "failed",
        "quarantine", "restore", "restored", "promote", "reread"}

TypeOK ==
    /\ file \in [Slots -> Files]
    /\ debris \subseteq Files
    /\ data \in [loaded : BOOLEAN, body : SUBSET Updates]
    /\ pc \in PCs
    /\ job \in Updates \cup {NoUpdate}
    /\ draft \in SUBSET Updates
    /\ hasCurrent \in BOOLEAN
    /\ tried \in SUBSET Updates
    /\ acked \in SUBSET Updates
    /\ shown \in [loaded : BOOLEAN, body : SUBSET Updates]
    /\ now \in Nat
    /\ faults \in Nat
    /\ rots \in Nat

-----------------------------------------------------------------------------
(***************************************************************************)
(* Recovery: what #findRecoveryCandidate sees and chooses.                 *)
(***************************************************************************)
Primary == file["primary"]
RecoverySlots == Slots \ {"primary", "quarantine"}
RecoveryFiles == {file[s] : s \in RecoverySlots} \cup debris
FoundFiles == \E f \in RecoveryFiles : f.kind # "none"
ValidCandidates == {f \in RecoveryFiles : f.kind = "good"}
(* Mutant: the recovery sort runs in the wrong direction.                  *)
NewestAscending ==
    {f \in ValidCandidates : \A g \in ValidCandidates : f.at <= g.at}

Newest == {f \in ValidCandidates : \A g \in ValidCandidates : g.at <= f.at}

Unloaded == [loaded |-> FALSE, body |-> {}]
(* Mutant: the loaded state is wrapped once too often.                     *)
LoadedWrapped(b) == [loaded |-> TRUE, body |-> {b}]

Loaded(b) == [loaded |-> TRUE, body |-> b]

(* Every call that throws, and every death of the process, uses the budget. *)
Fault == faults < MaxFaults /\ faults' = faults + 1
Stamp(source) == IF CopyKeepsMtime THEN source.at ELSE now + 1

(* The slot's file stays on disk under its random name.                    *)
Leave(S) == debris \cup {f \in {file[s] : s \in S} : f.kind # "none"}

(* One successful rename: the source name disappears, the target is        *)
(* replaced.                                                               *)
Rename(from, to) == [file EXCEPT ![to] = file[from], ![from] = NoFile]

Init ==
    /\ file = [s \in Slots |-> NoFile]
    /\ debris = {}
    /\ data = Unloaded
    /\ pc = "idle"
    /\ job = NoUpdate
    /\ draft = {}
    /\ hasCurrent = FALSE
    /\ tried = {}
    /\ acked = {}
    /\ shown = Unloaded
    /\ now = 0
    /\ faults = 0
    /\ rots = 0

quiet == <<data, job, draft, tried, acked, shown, rots>>

-----------------------------------------------------------------------------
(***************************************************************************)
(* update(): clone, mutate, #serializeAndValidate, #write.                 *)
(***************************************************************************)
BeginUpdate(u) ==
    /\ pc = "idle" /\ data.loaded /\ u \notin tried
    /\ tried' = tried \cup {u}
    /\ \/ pc' = "open" /\ job' = u /\ draft' = data.body \cup {u}
       \/ UNCHANGED <<pc, job, draft>>      \* the candidate fails validation
    /\ UNCHANGED <<file, debris, data, hasCurrent, acked, shown, now, faults,
                   rots>>

(* open(temporary, "wx").  It runs before #write's try block, so a failure *)
(* here or in the next step skips the clean-up.                            *)
OpenTemp ==
    /\ pc = "open"
    /\ \/ /\ file' = [file EXCEPT !["temp"] = Torn(now)]
          /\ pc' = "sync" /\ job' = job /\ faults' = faults
       \/ Fault /\ pc' = "idle" /\ job' = NoUpdate /\ file' = file
    /\ UNCHANGED <<debris, data, draft, hasCurrent, tried, acked, shown, now,
                   rots>>

(* writeFile, sync and close of the temporary, then the directory sync.    *)
WriteTemp ==
    /\ pc = "sync"
    /\ now' = now + 1
    /\ \/ /\ file' = [file EXCEPT !["temp"] = Good(draft, now + 1)]
          /\ pc' = "check" /\ job' = job
          /\ UNCHANGED <<debris, faults>>
       \/ /\ Fault /\ pc' = "idle" /\ job' = NoUpdate
          /\ file' = [file EXCEPT !["temp"] = NoFile]
          /\ \E f \in {file["temp"], Good(draft, now + 1)} :
                debris' = debris \cup {f}
    /\ UNCHANGED <<data, draft, hasCurrent, tried, acked, shown, rots>>

(* Mutant: the backup is never refreshed.                                  *)
CheckCurrentNoBackup ==
    /\ pc = "check"
    /\ hasCurrent' = (Primary.kind = "good")
    /\ pc' = IF Primary.kind = "torn" THEN "failed" ELSE "replace"
    /\ UNCHANGED <<quiet, file, debris, now, faults>>

(* Mutant: a corrupt primary is neither backed up nor reported.            *)
CheckCurrentSilent ==
    /\ pc = "check"
    /\ Primary.kind # "torn"
    /\ hasCurrent' = (Primary.kind = "good")
    /\ pc' = IF Primary.kind = "good" THEN "copy" ELSE "replace"
    /\ UNCHANGED <<quiet, file, debris, now, faults>>

(* #write decodes the primary to learn whether there is one to back up.    *)
CheckCurrent ==
    /\ pc = "check"
    /\ \/ Primary.kind = "good" /\ hasCurrent' = TRUE /\ pc' = "copy"
          /\ faults' = faults
       \/ Primary.kind = "none" /\ hasCurrent' = FALSE /\ pc' = "replace"
          /\ faults' = faults
       \/ Primary.kind = "torn" /\ pc' = "failed"
          /\ UNCHANGED <<hasCurrent, faults>>
       \/ Fault /\ pc' = "failed" /\ hasCurrent' = hasCurrent
    /\ UNCHANGED <<quiet, file, debris, now>>

-----------------------------------------------------------------------------
(***************************************************************************)
(* #refreshBackup.                                                         *)
(***************************************************************************)
CopyCurrent ==
    /\ pc = "copy"
    /\ \/ pc' = "copied" /\ faults' = faults
          /\ file' = [file EXCEPT !["candidate"] = Torn(now)]
       \/ Fault /\ pc' = "failed" /\ file' = file
    /\ UNCHANGED <<quiet, debris, hasCurrent, now>>

CopyDone ==
    /\ pc = "copied"
    /\ now' = now + 1
    /\ \/ /\ pc' = "rotate" /\ Primary.kind = "good"
          /\ file' = [file EXCEPT !["candidate"] =
                        Good(Primary.body, Stamp(Primary))]
          /\ UNCHANGED <<debris, faults>>
       \/ /\ pc' = "failed"
          /\ debris' = Leave({"candidate"})
          /\ file' = [file EXCEPT !["candidate"] = NoFile]
          /\ IF Primary.kind = "good" THEN Fault ELSE faults' = faults
    /\ UNCHANGED <<quiet, hasCurrent>>

(* rename(candidate, backup): done, done but the directory sync threw,     *)
(* refused with EEXIST or EPERM, or failed otherwise.                      *)
RotateBackup ==
    /\ pc = "rotate"
    /\ \/ pc' = "replace" /\ file' = Rename("candidate", "backup")
          /\ UNCHANGED <<debris, faults>>
       \/ Fault /\ pc' = "failed" /\ file' = Rename("candidate", "backup")
          /\ debris' = debris
       \/ Fault /\ pc' = "displaceBackup" /\ UNCHANGED <<file, debris>>
       \/ /\ Fault /\ pc' = "failed" /\ debris' = Leave({"candidate"})
          /\ file' = [file EXCEPT !["candidate"] = NoFile]
    /\ UNCHANGED <<quiet, hasCurrent, now>>

DisplaceBackup ==
    /\ pc = "displaceBackup"
    /\ \/ pc' = "promoteBackup" /\ file' = Rename("backup", "backupPrev")
          /\ UNCHANGED <<debris, faults>>
       \/ /\ Fault /\ pc' = "failed" /\ debris' = Leave({"candidate"})
          /\ file' = [file EXCEPT !["candidate"] = NoFile]
    /\ UNCHANGED <<quiet, hasCurrent, now>>

(* The displaced backup is removed best-effort on success and renamed back *)
(* best-effort on failure; the abandoned candidate stays.                  *)
PromoteBackup ==
    /\ pc = "promoteBackup"
    /\ \/ /\ pc' = "replace"
          /\ file' = [file EXCEPT !["backup"] = file["candidate"],
                                  !["candidate"] = NoFile,
                                  !["backupPrev"] = NoFile]
          /\ \/ UNCHANGED <<debris, faults>>
             \/ Fault /\ debris' = Leave({"backupPrev"})
       \/ /\ Fault /\ pc' = "failed"
          /\ \/ /\ file["backupPrev"].kind # "none"
                /\ debris' = Leave({"candidate"})
                /\ file' = [file EXCEPT !["backup"] = file["backupPrev"],
                                        !["candidate"] = NoFile,
                                        !["backupPrev"] = NoFile]
             \/ /\ debris' = Leave({"candidate", "backupPrev"})
                /\ file' = [file EXCEPT !["candidate"] = NoFile,
                                        !["backupPrev"] = NoFile]
    /\ UNCHANGED <<quiet, hasCurrent, now>>

-----------------------------------------------------------------------------
(***************************************************************************)
(* #replaceLiveFile.                                                       *)
(***************************************************************************)
ReplaceLive ==
    /\ pc = "replace"
    /\ \/ pc' = "verify" /\ faults' = faults
          /\ file' = Rename("temp", "primary")
       \/ Fault /\ pc' = "failed" /\ file' = Rename("temp", "primary")
       \/ Fault /\ hasCurrent /\ pc' = "displaceLive" /\ file' = file
       \/ Fault /\ pc' = "failed" /\ file' = file
    /\ UNCHANGED <<quiet, debris, hasCurrent, now>>

DisplaceLive ==
    /\ pc = "displaceLive"
    /\ \/ pc' = "promoteLive" /\ file' = Rename("primary", "livePrev")
          /\ faults' = faults
       \/ Fault /\ pc' = "failed" /\ file' = file
    /\ UNCHANGED <<quiet, debris, hasCurrent, now>>

PromoteLive ==
    /\ pc = "promoteLive"
    /\ \/ /\ pc' = "verify"
          /\ file' = [file EXCEPT !["primary"] = file["temp"],
                                  !["temp"] = NoFile, !["livePrev"] = NoFile]
          /\ \/ UNCHANGED <<debris, faults>>
             \/ Fault /\ debris' = Leave({"livePrev"})
       \/ Fault /\ pc' = "undoLive" /\ UNCHANGED <<file, debris>>
    /\ UNCHANGED <<quiet, hasCurrent, now>>

UndoLive ==
    /\ pc = "undoLive"
    /\ pc' = "failed"
    /\ \/ file' = Rename("livePrev", "primary") /\ UNCHANGED <<debris, faults>>
       \/ /\ Fault /\ debris' = Leave({"livePrev"})
          /\ file' = [file EXCEPT !["livePrev"] = NoFile]
    /\ UNCHANGED <<quiet, hasCurrent, now>>

(* #write decodes what it put in place; the snapshot hook never throws.    *)
Verify ==
    /\ pc = "verify"
    /\ \/ pc' = "committed" /\ Primary.kind = "good" /\ faults' = faults
       \/ pc' = "failed" /\ IF Primary.kind = "good" THEN Fault
                            ELSE faults' = faults
    /\ UNCHANGED <<quiet, file, debris, hasCurrent, now>>

(* Mutant: update() resolves without installing the committed value.       *)
FinishStale ==
    /\ pc \in {"committed", "failed"}
    /\ pc' = "idle" /\ job' = NoUpdate
    /\ file' = [file EXCEPT !["temp"] = NoFile]
    /\ IF pc = "committed" THEN acked' = acked \cup ({job} \ {NoUpdate})
       ELSE acked' = acked
    /\ IF data.loaded THEN UNCHANGED <<data, shown>>
       ELSE data' = Loaded(draft) /\ shown' = Loaded(draft)
    /\ UNCHANGED <<debris, draft, hasCurrent, tried, now, faults, rots>>

(* #write's finally block, and what its caller then does with the outcome: *)
(* a resolved update() installs the committed value, a rejected one leaves *)
(* #data as it was.  The same steps write the defaults of a first load.    *)
Finish ==
    /\ pc \in {"committed", "failed"}
    /\ pc' = "idle" /\ job' = NoUpdate
    /\ file' = [file EXCEPT !["temp"] = NoFile]
    /\ \/ UNCHANGED <<debris, faults>>
       \/ Fault /\ debris' = Leave({"temp"})
    /\ IF pc = "committed"
       THEN /\ data' = Loaded(draft) /\ shown' = Loaded(draft)
            /\ acked' = acked \cup ({job} \ {NoUpdate})
       ELSE UNCHANGED <<data, shown, acked>>
    /\ UNCHANGED <<draft, hasCurrent, tried, now, rots>>

-----------------------------------------------------------------------------
(***************************************************************************)
(* #loadFromDisk and #restoreCandidate.                                    *)
(***************************************************************************)
LoadPrimary ==
    /\ pc = "idle" /\ ~data.loaded
    /\ Primary.kind = "good"
    /\ data' = Loaded(Primary.body) /\ shown' = Loaded(Primary.body)
    /\ UNCHANGED <<file, debris, pc, job, draft, hasCurrent, tried, acked,
                   now, faults, rots>>

(* Defaults are written only where there is no recovery evidence at all.   *)
LoadDefaults ==
    /\ pc = "idle" /\ ~data.loaded
    /\ Primary.kind = "none" /\ ~FoundFiles
    /\ pc' = "open" /\ draft' = {}
    /\ UNCHANGED <<file, debris, data, job, hasCurrent, tried, acked, shown,
                   now, faults, rots>>

LoadCandidate ==
    /\ pc = "idle" /\ ~data.loaded
    /\ Primary.kind # "good"
    /\ \E f \in Newest : draft' = f.body
    /\ pc' = "quarantine"
    /\ UNCHANGED <<file, debris, data, job, hasCurrent, tried, acked, shown,
                   now, faults, rots>>

(* rename(primary, quarantine): a missing primary is not an error.         *)
QuarantinePrimary ==
    /\ pc = "quarantine"
    /\ \/ pc' = "restore" /\ file' = Rename("primary", "quarantine")
          /\ faults' = faults
       \/ Fault /\ pc' = "idle" /\ file' = file
    /\ UNCHANGED <<quiet, debris, hasCurrent, now>>

RestoreCopy ==
    /\ \/ /\ pc = "restore" /\ pc' = "restored" /\ now' = now
          /\ file' = [file EXCEPT !["temp"] = Torn(now)]
       \/ /\ pc = "restored" /\ pc' = "promote" /\ now' = now + 1
          /\ \E f \in Newest : f.body = draft /\
                file' = [file EXCEPT !["temp"] = Good(draft, Stamp(f))]
    /\ UNCHANGED <<quiet, debris, hasCurrent, faults>>

RestorePromote ==
    /\ pc = "promote" /\ pc' = "reread"
    /\ file' = Rename("temp", "primary")
    /\ UNCHANGED <<quiet, debris, hasCurrent, now, faults>>

RestoreDone ==
    /\ pc = "reread" /\ Primary.kind = "good"
    /\ pc' = "idle"
    /\ file' = [file EXCEPT !["quarantine"] = NoFile]
    /\ data' = Loaded(Primary.body) /\ shown' = Loaded(Primary.body)
    /\ UNCHANGED <<debris, job, draft, hasCurrent, tried, acked, now, faults,
                   rots>>

(* The catch block: remove the temporary, put the quarantined original     *)
(* back.  Either may itself fail, and the load is rejected in every case.  *)
RestoreFail ==
    /\ pc \in {"restore", "restored", "promote", "reread"}
    /\ pc' = "idle"
    /\ IF pc = "reread" /\ Primary.kind # "good" THEN faults' = faults
       ELSE Fault
    /\ debris' \in {debris, Leave({"temp"})}
    /\ file' \in {[file EXCEPT !["temp"] = NoFile, !["quarantine"] = NoFile],
                  [file EXCEPT !["temp"] = NoFile, !["quarantine"] = NoFile,
                      !["primary"] = IF file["quarantine"].kind = "none" THEN @
                                     ELSE file["quarantine"]]}
    /\ UNCHANGED <<quiet, hasCurrent, now>>

-----------------------------------------------------------------------------
(* The process dies: files under random names become debris.               *)
Crash ==
    /\ Fault
    /\ data.loaded \/ pc # "idle"
    /\ file' = [s \in Slots |-> IF s \in {"primary", "backup"} THEN file[s]
                                ELSE NoFile]
    /\ debris' = Leave(RecoverySlots \ {"backup"})
    /\ data' = Unloaded
    /\ pc' = "idle" /\ job' = NoUpdate
    /\ UNCHANGED <<draft, hasCurrent, tried, acked, shown, now, rots>>

(* A media fault makes the primary undecodable.                            *)
Rot ==
    /\ rots < MaxRots /\ rots' = rots + 1
    /\ Primary.kind = "good"
    /\ file' = [file EXCEPT !["primary"] = Torn(now)]
    /\ UNCHANGED <<debris, data, pc, job, draft, hasCurrent, tried, acked,
                   shown, now, faults>>

Step ==
    \/ OpenTemp \/ WriteTemp \/ CheckCurrent \/ CopyCurrent \/ CopyDone
    \/ RotateBackup \/ DisplaceBackup \/ PromoteBackup
    \/ ReplaceLive \/ DisplaceLive \/ PromoteLive \/ UndoLive
    \/ Verify \/ Finish
    \/ QuarantinePrimary \/ RestoreCopy \/ RestorePromote \/ RestoreDone
    \/ RestoreFail

Load == LoadPrimary \/ LoadDefaults \/ LoadCandidate

Next ==
    \/ \E u \in Updates : BeginUpdate(u)
    \/ Step \/ Load \/ Crash \/ Rot

Spec == Init /\ [][Next]_vars

(* The promise chain of a running operation keeps being scheduled.         *)
FairSpec == Spec /\ WF_vars(Step)

-----------------------------------------------------------------------------
(* The bodies a load started now could return; none when it would refuse.  *)
LoadOutcomes ==
    IF Primary.kind = "good" THEN {Primary.body}
    ELSE IF ValidCandidates # {} THEN {f.body : f \in Newest}
    ELSE IF Primary.kind = "none" /\ ~FoundFiles THEN {{}}
    ELSE {}

(* Whatever call fails and wherever the process dies inside #write or      *)
(* #restoreCandidate, the next load succeeds and returns a state with      *)
(* every update whose promise resolved: the primary, or the newest of the  *)
(* recovery files that failed calls and dead processes left behind.        *)
AckedSurvive ==
    rots = 0 /\ acked # {} =>
        /\ LoadOutcomes # {}
        /\ \A b \in LoadOutcomes : acked \subseteq b

(* A resolved update() is visible to every later read of the running       *)
(* process: no rejected update, failed load or recovery replaces #data by  *)
(* a state without it.                                                     *)
AckedStayVisible == rots = 0 /\ data.loaded => acked \subseteq data.body

(* Where a copy is stamped with the current time, what readers were shown  *)
(* outlives the process too, also an update that was reported as failed    *)
(* after its rename and came back with the next load.                      *)
ShownSurvives ==
    rots = 0 /\ shown.loaded /\ ~CopyKeepsMtime =>
        /\ LoadOutcomes # {}
        /\ \A b \in LoadOutcomes : shown.body \subseteq b

(* One undecodable primary costs at most the last resolved update, also    *)
(* when the recovery has to choose between the backup and older debris.    *)
RotLosesAtMostOne ==
    rots <= 1 /\ acked # {} =>
        /\ LoadOutcomes # {}
        /\ \A b \in LoadOutcomes : Cardinality(acked \ b) <= 1

(* Every operation ends: no failing call leaves the update queue waiting.  *)
OperationsSettle == pc # "idle" ~> pc = "idle"

=============================================================================
