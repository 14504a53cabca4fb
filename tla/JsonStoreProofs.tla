--------------------------- MODULE JsonStoreProofs ---------------------------
(***************************************************************************)
(* Proofs about JsonStore, for every set of updates and every number of    *)
(* failing calls and deaths of the process.                                *)
(***************************************************************************)
EXTENDS JsonStore, FiniteSetTheorems, TLAPS

-----------------------------------------------------------------------------
(***************************************************************************)
(* The inductive invariant.                                                *)
(***************************************************************************)
(* What a load has to return: all that readers were shown where a copy is  *)
(* stamped with the current time, and every resolved update elsewhere.  A  *)
(* media fault may have cost one of them.                                  *)
Owed(lost) ==
    IF rots = 0 /\ ~CopyKeepsMtime THEN shown.body ELSE acked \ {lost}
Owing == acked # {} \/ (rots = 0 /\ shown.loaded)

Covered(S, f) == f.kind = "good" /\ S \subseteq f.body

(* Recovery cannot go wrong by preferring a file written at t or later.    *)
SafeFrom(S, t) == \A g \in ValidCandidates : g.at >= t => S \subseteq g.body
Fresh(S, f) == Covered(S, f) /\ SafeFrom(S, f.at)

(* The recovery files that no later step of the operation removes.         *)
Lasting == {file["backup"]} \cup debris
Recoverable(S) == \E f \in Lasting : Fresh(S, f)

(* Every recovery file as new as t is the body being written.              *)
OnlyDraftFrom(t) == \A g \in ValidCandidates : g.at >= t => g.body = draft

OnDisk == {file[s] : s \in Slots} \cup debris
Clock == \A f \in OnDisk : f.at <= now

JobInv ==
    /\ pc \in {"idle", "quarantine", "restore", "restored", "promote", "reread"}
          => job = NoUpdate
    /\ job # NoUpdate => job \in draft /\ data.loaded

(* The copy of the primary that the running rotation will leave on disk.   *)
RotatePCs == {"rotate", "displaceBackup", "promoteBackup"}

PrimaryInv(lost) ==
    /\ rots = 0 => Primary.kind # "torn" /\ file["quarantine"].kind = "none"
    /\ file["quarantine"].kind # "good"
    /\ Primary.kind = "good" =>
          /\ Covered(Owed(lost), Primary)
          /\ CopyKeepsMtime => SafeFrom(Owed(lost), Primary.at)
    /\ (Primary.kind # "good" \/ pc = "reread") /\ Owing /\ pc \notin RotatePCs
          => Recoverable(Owed(lost))

DataInv(lost) ==
    /\ data.loaded => Owed(lost) \subseteq data.body
    /\ pc \notin {"idle", "failed"} => Owed(lost) \subseteq draft

(* The last state readers saw is #data as long as the process lives.       *)
ShownInv ==
    /\ data.loaded => data = shown
    /\ rots = 0 => acked \subseteq shown.body
    /\ ~shown.loaded => shown.body = {} /\ acked = {}

TempPCs == {"check", "copy", "copied", "displaceLive", "promoteLive",
            "undoLive", "replace"} \cup RotatePCs

TempInv(lost) ==
    /\ pc \in TempPCs =>
          /\ file["temp"].kind = "good" /\ file["temp"].body = draft
          /\ CopyKeepsMtime =>
                /\ OnlyDraftFrom(file["temp"].at)
                /\ Primary.kind = "good" => Primary.at < file["temp"].at
    /\ pc = "promote" =>
          /\ file["temp"].kind = "good" /\ file["temp"].body = draft
          /\ CopyKeepsMtime => SafeFrom(Owed(lost), file["temp"].at)

PhaseInv(lost) ==
    /\ pc \in RotatePCs => Fresh(Owed(lost), file["candidate"])
    /\ pc = "displaceLive" \/ (pc = "replace" /\ hasCurrent) =>
          Fresh(Owed(lost), file["backup"])
    /\ pc \in {"promoteLive", "undoLive"} =>
          /\ Primary.kind = "none"
          /\ rots = 0 => file["livePrev"].kind # "torn"
          /\ file["livePrev"].kind = "good" =>
                /\ Covered(Owed(lost), file["livePrev"])
                /\ CopyKeepsMtime => SafeFrom(Owed(lost), file["livePrev"].at)
    /\ pc \in {"verify", "committed"} =>
          /\ Primary.kind # "none"
          /\ Primary.kind = "good" =>
                /\ Primary.body = draft
                /\ CopyKeepsMtime => OnlyDraftFrom(Primary.at)
          /\ Primary.kind = "torn" /\ job # NoUpdate =>
                lost = job /\ Recoverable(Owed(lost))
    /\ pc \in {"quarantine", "restore", "restored", "promote"} =>
          Primary.kind # "good"

Safe(lost) ==
    PrimaryInv(lost) /\ DataInv(lost) /\ ShownInv /\ TempInv(lost) /\ PhaseInv(lost)

(* What makes a later media fault bearable: without the primary, recovery  *)
(* would miss one resolved update at most, and none while the write of     *)
(* the next one is not acknowledged.                                       *)
Spare(lost) ==
    /\ acked # {} /\ pc \notin RotatePCs => Recoverable(acked \ {lost})
    /\ pc \in {"verify", "committed"} /\ job # NoUpdate => Recoverable(acked)
    /\ pc \in RotatePCs \cup {"copy", "copied", "displaceLive"} => hasCurrent
    /\ pc = "replace" /\ ~hasCurrent => Primary.kind = "none"

Losses == Updates \cup {NoUpdate}

IInv ==
    /\ TypeOK /\ Clock /\ JobInv
    /\ rots = 0 => Safe(NoUpdate) /\ \E lost \in Losses : Spare(lost)
    /\ rots = 1 => \E lost \in Losses : Safe(lost)

-----------------------------------------------------------------------------
(***************************************************************************)
(* Types.                                                                  *)
(***************************************************************************)
(* The file constructors and the derived sets produce well-typed files.     *)
LEMMA FileTypes ==
    ASSUME TypeOK
    PROVE  /\ NoFile \in Files
           /\ \A t \in Nat : Torn(t) \in Files
           /\ \A b \in SUBSET Updates, t \in Nat : Good(b, t) \in Files
           /\ \A s \in Slots : file[s] \in Files
           /\ \A from, to \in Slots : Rename(from, to) \in [Slots -> Files]
           /\ \A S \in SUBSET Slots : Leave(S) \subseteq Files
           /\ \A f \in Files : Stamp(f) \in Nat
<1>1. NoFile \in Files /\ \A t \in Nat : Torn(t) \in Files
  BY DEF NoFile, Torn, Files
<1>2. \A b \in SUBSET Updates, t \in Nat : Good(b, t) \in Files
  BY DEF Good, Files
<1>3. \A s \in Slots : file[s] \in Files
  BY DEF TypeOK
<1>4. \A from, to \in Slots : Rename(from, to) \in [Slots -> Files]
  BY <1>1, <1>3 DEF TypeOK, Rename
<1>5. \A S \in SUBSET Slots : Leave(S) \subseteq Files
  BY <1>3 DEF TypeOK, Leave
<1>6. \A f \in Files : Stamp(f) \in Nat
  BY DEF Stamp, Files, TypeOK
<1> QED BY <1>1, <1>2, <1>3, <1>4, <1>5, <1>6

(* The recovery candidates are files of the store.                          *)
LEMMA CandidateTypes ==
    ASSUME TypeOK
    PROVE  ValidCandidates \subseteq Files /\ Newest \subseteq Files
BY FileTypes DEF ValidCandidates, Newest, RecoveryFiles, RecoverySlots, TypeOK

(* Every action keeps every variable in its type.                          *)
LEMMA TypeStep ==
    ASSUME TypeOK, [Next]_vars
    PROVE  TypeOK'
<1> USE FileTypes, CandidateTypes DEF PCs, Slots
<1>1. ASSUME NEW u \in Updates, BeginUpdate(u) PROVE TypeOK'
  BY <1>1 DEF TypeOK, BeginUpdate
<1>2. CASE OpenTemp
  BY <1>2 DEF TypeOK, OpenTemp, Fault
<1>3. CASE WriteTemp
  BY <1>3 DEF TypeOK, WriteTemp, Fault
<1>4. CASE CheckCurrent
  <2>1. pc' \in PCs /\ faults' \in Nat
    BY <1>4 DEF TypeOK, CheckCurrent, Fault
  <2>2. hasCurrent' \in BOOLEAN
    BY <1>4 DEF TypeOK, CheckCurrent
  <2> QED BY <1>4, <2>1, <2>2 DEF TypeOK, CheckCurrent, quiet
<1>5. CASE CopyCurrent
  BY <1>5 DEF TypeOK, CopyCurrent, Fault, quiet
<1>6. CASE CopyDone
  <2>1. Primary \in Files /\ Primary.body \in SUBSET Updates
    BY DEF Primary, Files
  <2>2. Good(Primary.body, Stamp(Primary)) \in Files
    BY <2>1
  <2> HIDE DEF Slots
  <2>3. file' \in [Slots -> Files] /\ debris' \subseteq Files
    <3>1. file \in [Slots -> Files] /\ debris \subseteq Files
      BY DEF TypeOK
    <3>2. NoFile \in Files /\ Leave({"candidate"}) \subseteq Files
      BY DEF Slots
    <3>3. \/ /\ file' = [file EXCEPT !["candidate"] = Good(Primary.body, Stamp(Primary))]
             /\ debris' = debris
          \/ /\ file' = [file EXCEPT !["candidate"] = NoFile]
             /\ debris' = Leave({"candidate"})
      BY <1>6 DEF CopyDone
    <3> QED BY <2>2, <3>1, <3>2, <3>3
  <2>4. pc' \in PCs /\ faults' \in Nat /\ now' \in Nat
    BY <1>6 DEF TypeOK, CopyDone, Fault
  <2> QED BY <1>6, <2>3, <2>4 DEF TypeOK, CopyDone, quiet
<1>7. CASE RotateBackup
  BY <1>7 DEF TypeOK, RotateBackup, Fault, quiet
<1>8. CASE DisplaceBackup
  BY <1>8 DEF TypeOK, DisplaceBackup, Fault, quiet
<1>9. CASE PromoteBackup
  <2>0. /\ file["candidate"] \in Files /\ file["backup"] \in Files
        /\ file["backupPrev"] \in Files /\ file \in [Slots -> Files]
        /\ NoFile \in Files
    BY DEF TypeOK
  <2>1. file' \in [Slots -> Files]
    BY <1>9, <2>0 DEF PromoteBackup
  <2>3. debris' \subseteq Files
    <3>1. /\ Leave({"backupPrev"}) \subseteq Files /\ Leave({"candidate"}) \subseteq Files
          /\ Leave({"candidate", "backupPrev"}) \subseteq Files /\ debris \subseteq Files
      BY DEF TypeOK
    <3> QED BY <1>9, <3>1 DEF PromoteBackup
  <2>2. pc' \in PCs /\ faults' \in Nat
    BY <1>9 DEF TypeOK, PromoteBackup, Fault
  <2> QED BY <1>9, <2>1, <2>2, <2>3 DEF TypeOK, PromoteBackup, quiet
<1>10. CASE ReplaceLive
  BY <1>10 DEF TypeOK, ReplaceLive, Fault, quiet
<1>11. CASE DisplaceLive
  BY <1>11 DEF TypeOK, DisplaceLive, Fault, quiet
<1>12. CASE PromoteLive
  BY <1>12 DEF TypeOK, PromoteLive, Fault, quiet
<1>13. CASE UndoLive
  BY <1>13 DEF TypeOK, UndoLive, Fault, quiet
<1>14. CASE Verify
  BY <1>14 DEF TypeOK, Verify, Fault, quiet
<1>15. CASE Finish
  <2>1. file' \in [Slots -> Files] /\ debris' \subseteq Files /\ faults' \in Nat
    BY <1>15 DEF TypeOK, Finish, Fault
  <2>2. Loaded(draft) \in [loaded : BOOLEAN, body : SUBSET Updates]
    BY DEF TypeOK, Loaded
  <2>3. /\ data' \in [loaded : BOOLEAN, body : SUBSET Updates]
        /\ shown' \in [loaded : BOOLEAN, body : SUBSET Updates]
        /\ acked' \in SUBSET Updates
    BY <1>15, <2>2 DEF TypeOK, Finish
  <2> QED BY <1>15, <2>1, <2>3 DEF TypeOK, Finish
<1>16. CASE QuarantinePrimary
  BY <1>16 DEF TypeOK, QuarantinePrimary, Fault, quiet
<1>17. CASE RestoreCopy
  <2>1. file' \in [Slots -> Files]
    <3>1. \E f \in Files : file' = [file EXCEPT !["temp"] = f]
      <4>1. now \in Nat /\ draft \in SUBSET Updates
        BY DEF TypeOK
      <4>2. \A f \in Newest : Good(draft, Stamp(f)) \in Files
        BY <4>1
      <4> QED BY <1>17, <4>1, <4>2 DEF RestoreCopy
    <3> QED BY <3>1 DEF TypeOK
  <2>2. pc' \in PCs /\ now' \in Nat
    BY <1>17 DEF TypeOK, RestoreCopy
  <2> QED BY <1>17, <2>1, <2>2 DEF TypeOK, RestoreCopy, quiet
<1>18. CASE RestorePromote
  BY <1>18 DEF TypeOK, RestorePromote, quiet
<1>19. CASE RestoreDone
  BY <1>19 DEF TypeOK, RestoreDone, Loaded, Primary, Files
<1>20. CASE RestoreFail
  BY <1>20 DEF TypeOK, RestoreFail, Fault, quiet
<1>21. CASE LoadPrimary
  BY <1>21 DEF TypeOK, LoadPrimary, Loaded, Primary, Files
<1>22. CASE LoadDefaults
  BY <1>22 DEF TypeOK, LoadDefaults
<1>23. CASE LoadCandidate
  BY <1>23 DEF TypeOK, LoadCandidate, Files
<1>24. CASE Crash
  <2>1. file' \in [Slots -> Files] /\ debris' \subseteq Files
    BY <1>24 DEF TypeOK, Crash, RecoverySlots
  <2>2. data' \in [loaded : BOOLEAN, body : SUBSET Updates] /\ pc' \in PCs /\ faults' \in Nat
    BY <1>24 DEF TypeOK, Crash, Fault, Unloaded
  <2> QED BY <1>24, <2>1, <2>2 DEF TypeOK, Crash
<1>25. CASE Rot
  BY <1>25 DEF TypeOK, Rot
<1>26. CASE UNCHANGED vars
  BY <1>26 DEF TypeOK, vars
<1> QED
  BY <1>1, <1>2, <1>3, <1>4, <1>5, <1>6, <1>7, <1>8, <1>9, <1>10, <1>11,
     <1>12, <1>13, <1>14, <1>15, <1>16, <1>17, <1>18, <1>19, <1>20, <1>21,
     <1>22, <1>23, <1>24, <1>25, <1>26 DEF Next, Step, Load

(* The state before the first load is well typed.                           *)
LEMMA TypeInit == Init => TypeOK
<1>1. NoFile \in Files
  BY DEF NoFile, Files
<1>2. Unloaded \in [loaded : BOOLEAN, body : SUBSET Updates]
  BY DEF Unloaded
<1>3. Init => hasCurrent \in BOOLEAN
  BY DEF Init
<1>4. Init => pc \in PCs /\ job \in Updates \cup {NoUpdate}
  BY DEF Init, PCs
<1> QED BY <1>1, <1>2, <1>3, <1>4 DEF Init, TypeOK

(* The store's variables keep their types, through every failing call and  *)
(* every death of the process.                                             *)
THEOREM TypeCorrect == Spec => []TypeOK
BY TypeInit, TypeStep, PTL DEF Spec

-----------------------------------------------------------------------------
(***************************************************************************)
(* What each action adds to the valid recovery files.                      *)
(***************************************************************************)
LEMMA CandidateIff ==
    ASSUME NEW g
    PROVE  g \in ValidCandidates <=>
              g.kind = "good" /\ (g \in debris \/ \E s \in RecoverySlots : g =
                   file[s])
BY DEF ValidCandidates, RecoveryFiles

(* The steps that write no new file only remove candidates.                *)
LEMMA CandidatesShrink ==
    ASSUME TypeOK,
           \/ OpenTemp \/ CheckCurrent \/ CopyCurrent \/ RotateBackup
              \/ DisplaceBackup \/ PromoteBackup \/ ReplaceLive
              \/ PromoteLive \/ UndoLive \/ Verify \/ Finish
              \/ LoadPrimary \/ LoadDefaults \/ LoadCandidate
              \/ QuarantinePrimary \/ RestorePromote \/ RestoreDone \/
                   RestoreFail \/ Crash
    PROVE  ValidCandidates' \subseteq ValidCandidates
<1> SUFFICES ASSUME NEW g \in ValidCandidates'
             PROVE  g \in ValidCandidates
  OBVIOUS
<1>0. /\ g.kind = "good"
      /\ g \in debris' \/ \E s \in RecoverySlots : g = file'[s]
  BY DEF ValidCandidates, RecoveryFiles
<1> USE <1>0, CandidateIff DEF TypeOK, Slots, RecoverySlots, Leave, Rename,
                              NoFile, Torn, quiet
<1>1. CASE OpenTemp
  BY <1>1 DEF OpenTemp
<1>2. CASE CheckCurrent
  BY <1>2 DEF CheckCurrent
<1>3. CASE CopyCurrent
  BY <1>3 DEF CopyCurrent
<1>4. CASE RotateBackup
  BY <1>4 DEF RotateBackup
<1>5. CASE DisplaceBackup
  BY <1>5 DEF DisplaceBackup
<1>6. CASE PromoteBackup
  BY <1>6 DEF PromoteBackup
<1>7. CASE ReplaceLive
  BY <1>7 DEF ReplaceLive
<1>8. CASE PromoteLive
  BY <1>8 DEF PromoteLive
<1>9. CASE UndoLive
  BY <1>9 DEF UndoLive
<1>10. CASE Verify
  BY <1>10 DEF Verify
<1>11. CASE Finish
  BY <1>11 DEF Finish
<1>12. CASE LoadPrimary
  BY <1>12 DEF LoadPrimary
<1>13. CASE LoadDefaults
  BY <1>13 DEF LoadDefaults
<1>14. CASE LoadCandidate
  BY <1>14 DEF LoadCandidate
<1>15. CASE RestorePromote
  BY <1>15 DEF RestorePromote
<1>16. CASE RestoreDone
  BY <1>16 DEF RestoreDone
<1>17. CASE RestoreFail
  BY <1>17 DEF RestoreFail
<1>18. CASE Crash
  BY <1>18 DEF Crash
<1>19. CASE QuarantinePrimary
  BY <1>19 DEF QuarantinePrimary
<1> QED BY <1>1, <1>2, <1>3, <1>4, <1>5, <1>6, <1>7, <1>8, <1>9, 
           <1>10, <1>11, <1>12, <1>13, <1>14, <1>15, <1>16, <1>17, <1>18, <1>19

(* The steps that do write one.                                            *)
LEMMA CandidatesGrow ==
    ASSUME TypeOK
    PROVE  /\ WriteTemp => ValidCandidates' \subseteq
                              ValidCandidates \cup {Good(draft, now + 1)}
           /\ CopyDone => \A g \in ValidCandidates' :
                   \/ g \in ValidCandidates
                   \/ Primary.kind = "good" /\ g = Good(Primary.body, Stamp(Primary))
           /\ DisplaceLive => ValidCandidates' \subseteq
                                 ValidCandidates \cup {Primary}
           /\ RestoreCopy => \A g \in ValidCandidates' :
                   \/ g \in ValidCandidates
                   \/ \E f \in Newest : f.body = draft /\ g = Good(draft,
                        Stamp(f))
<1> USE CandidateIff DEF TypeOK, Slots, RecoverySlots, Leave, NoFile, Torn,
     quiet
<1>0. ASSUME NEW g \in ValidCandidates'
      PROVE  /\ g.kind = "good"
             /\ g \in debris' \/ \E s \in RecoverySlots : g = file'[s]
  BY DEF ValidCandidates, RecoveryFiles
<1>1. WriteTemp => \A g \in ValidCandidates' :
         g \in ValidCandidates \/ g = Good(draft, now + 1)
  BY <1>0 DEF WriteTemp
<1>2. CopyDone => \A g \in ValidCandidates' :
         \/ g \in ValidCandidates
         \/ Primary.kind = "good" /\ g = Good(Primary.body, Stamp(Primary))
  BY <1>0 DEF CopyDone
<1>3. DisplaceLive => \A g \in ValidCandidates' :
         g \in ValidCandidates \/ g = Primary
  BY <1>0 DEF DisplaceLive, Rename, Primary
<1>4. ASSUME RestoreCopy, NEW g \in ValidCandidates'
      PROVE  \/ g \in ValidCandidates
             \/ \E f \in Newest : f.body = draft /\ g = Good(draft, Stamp(f))
  BY <1>0, <1>4 DEF RestoreCopy
<1> QED BY <1>1, <1>2, <1>3, <1>4

(* Where the files of the next state come from.                            *)
LEMMA DiskStep ==
    ASSUME TypeOK, [Next]_vars, NEW f \in OnDisk'
    PROVE  \/ f \in OnDisk \/ f = NoFile \/ f = Torn(now)
           \/ WriteTemp /\ f = Good(draft, now + 1)
           \/ CopyDone /\ f = Good(Primary.body, Stamp(Primary))
           \/ RestoreCopy /\ \E g \in Newest : f = Good(draft, Stamp(g))
<1>0. f \in debris' \/ \E s \in Slots : f = file'[s]
  BY DEF OnDisk
<1>a. \A g : g \in OnDisk <=> (g \in debris \/ \E s \in Slots : g = file[s])
  BY DEF OnDisk
<1> USE <1>0, <1>a DEF TypeOK, Slots, Leave, Rename, quiet, RecoverySlots
<1>1. CASE WriteTemp
  BY <1>1 DEF WriteTemp
<1>2. CASE CopyDone
  BY <1>2 DEF CopyDone
<1>3. CASE RestoreCopy
  BY <1>3 DEF RestoreCopy
<1>4. CASE OpenTemp
  BY <1>4 DEF OpenTemp
<1>5. CASE CheckCurrent
  BY <1>5 DEF CheckCurrent
<1>6. CASE CopyCurrent
  BY <1>6 DEF CopyCurrent
<1>7. CASE RotateBackup
  BY <1>7 DEF RotateBackup
<1>8. CASE DisplaceBackup
  BY <1>8 DEF DisplaceBackup
<1>9. CASE PromoteBackup
  BY <1>9 DEF PromoteBackup
<1>10. CASE ReplaceLive
  BY <1>10 DEF ReplaceLive
<1>11. CASE DisplaceLive
  BY <1>11 DEF DisplaceLive
<1>12. CASE PromoteLive
  BY <1>12 DEF PromoteLive
<1>13. CASE UndoLive
  BY <1>13 DEF UndoLive
<1>14. CASE Verify
  BY <1>14 DEF Verify
<1>15. CASE Finish
  BY <1>15 DEF Finish
<1>16. CASE QuarantinePrimary
  BY <1>16 DEF QuarantinePrimary
<1>17. CASE RestorePromote
  BY <1>17 DEF RestorePromote
<1>18. CASE RestoreDone
  BY <1>18 DEF RestoreDone
<1>19. CASE RestoreFail
  BY <1>19 DEF RestoreFail
<1>20. CASE LoadPrimary
  BY <1>20 DEF LoadPrimary
<1>21. CASE LoadDefaults
  BY <1>21 DEF LoadDefaults
<1>22. CASE LoadCandidate
  BY <1>22 DEF LoadCandidate
<1>23. CASE Crash
  BY <1>23 DEF Crash
<1>24. CASE Rot
  BY <1>24 DEF Rot
<1>25. CASE \E u \in Updates : BeginUpdate(u)
  BY <1>25 DEF BeginUpdate
<1>26. CASE UNCHANGED vars
  BY <1>26 DEF vars
<1> QED
  BY <1>1, <1>2, <1>3, <1>4, <1>5, <1>6, <1>7, <1>8, <1>9, <1>10,
     <1>11, <1>12, <1>13, <1>14, <1>15, <1>16, <1>17, <1>18, <1>19, <1>20,
     <1>21, <1>22, <1>23, <1>24, <1>25, <1>26 DEF Next, Step, Load

(* No file is newer than the clock.                                        *)
LEMMA ClockStep ==
    ASSUME TypeOK, Clock, [Next]_vars
    PROVE  Clock'
<1>1. now' \in Nat /\ now <= now' /\ ((WriteTemp \/ CopyDone) => now' = now + 1)
  BY DEF Next, Step, Load, OpenTemp, WriteTemp, CheckCurrent,
       CopyCurrent, CopyDone, RotateBackup, DisplaceBackup, PromoteBackup,
       ReplaceLive, DisplaceLive, PromoteLive, UndoLive, Verify, Finish,
       QuarantinePrimary, RestoreCopy, RestorePromote, RestoreDone,
       RestoreFail, LoadPrimary, LoadDefaults, LoadCandidate, Crash, Rot,
       BeginUpdate, vars, TypeOK
<1>2. OnDisk \subseteq Files /\ Primary \in OnDisk /\ Newest \subseteq OnDisk
  BY FileTypes DEF OnDisk, Primary, Slots, TypeOK, Newest, ValidCandidates,
       RecoveryFiles, RecoverySlots
<1>3. \A g \in OnDisk : g.at \in Nat /\ g.at <= now /\ Stamp(g) <= now + 1
  BY <1>2 DEF Clock, Files, TypeOK, Stamp
<1>4. ASSUME NEW f \in OnDisk' PROVE f.at <= now'
  <2>1. CASE f \in OnDisk
    BY <2>1, <1>1, <1>3 DEF TypeOK
  <2>2. CASE f = NoFile \/ f = Torn(now)
    BY <2>2, <1>1 DEF TypeOK, NoFile, Torn
  <2>3. CASE WriteTemp /\ f = Good(draft, now + 1)
    BY <2>3, <1>1 DEF TypeOK, Good
  <2>4. CASE CopyDone /\ f = Good(Primary.body, Stamp(Primary))
    BY <2>4, <1>1, <1>2, <1>3 DEF TypeOK, Good
  <2>5. CASE RestoreCopy /\ \E g \in Newest : f = Good(draft, Stamp(g))
    <3>1. now' = now + 1 \/ f \in OnDisk \/ f = Torn(now)
      BY <2>5 DEF RestoreCopy, OnDisk, Slots, TypeOK, quiet
    <3> QED BY <2>1, <2>2, <2>5, <3>1, <1>2, <1>3 DEF Good, TypeOK
  <2> QED BY <2>1, <2>2, <2>3, <2>4, <2>5, DiskStep
<1> QED BY <1>4 DEF Clock

(* Every stored modification time is a natural number the clock has passed. *)
LEMMA DiskClock ==
    ASSUME TypeOK, Clock
    PROVE  \A g \in OnDisk : g.at \in Nat /\ g.at <= now
<1>1. OnDisk \subseteq Files
  BY FileTypes DEF OnDisk, TypeOK
<1> QED BY <1>1 DEF Clock, Files

(* No step disturbs what the queue knows of its jobs.                       *)
LEMMA JobStep ==
    ASSUME TypeOK, JobInv, [Next]_vars
    PROVE  JobInv'
<1>1. ASSUME NEW u \in Updates, BeginUpdate(u) PROVE JobInv'
  BY <1>1, ConstantsAssumption DEF JobInv, BeginUpdate
<1>2. CASE ~\E u \in Updates : BeginUpdate(u)
  BY <1>2 DEF JobInv, Next, Step, Load, OpenTemp, WriteTemp, CheckCurrent,
       CopyCurrent, CopyDone, RotateBackup, DisplaceBackup, PromoteBackup,
       ReplaceLive, DisplaceLive, PromoteLive, UndoLive, Verify, Finish,
       QuarantinePrimary, RestoreCopy, RestorePromote, RestoreDone,
       RestoreFail, LoadPrimary, LoadDefaults, LoadCandidate, Crash, Rot,
       quiet, vars
<1> QED BY <1>1, <1>2

-----------------------------------------------------------------------------
(***************************************************************************)
(* The invariant is preserved by every step.                               *)
(***************************************************************************)
(* The file recovery prefers holds every update that is owed.              *)
LEMMA NewestCovers ==
    ASSUME TypeOK, NEW S, Recoverable(S)
    PROVE  \A f \in Newest : S \subseteq f.body /\ SafeFrom(S, f.at)
<1>1. PICK g \in Lasting : Fresh(S, g)
  BY DEF Recoverable
<1>2. g \in ValidCandidates
  BY <1>1, CandidateIff DEF Lasting, Fresh, Covered, RecoverySlots, Slots
<1>3. ValidCandidates \subseteq Files
  BY CandidateTypes
<1>4. \A f \in Newest : f \in ValidCandidates /\ g.at <= f.at
  BY <1>2 DEF Newest
<1>5. \A f \in ValidCandidates : f.at \in Nat
  BY <1>3 DEF Files
<1> QED BY <1>1, <1>2, <1>4, <1>5 DEF Fresh, SafeFrom

(* A recovery file stays good enough while it stays on disk and every new  *)
(* recovery file is good enough too.                                       *)
LEMMA RecoverableKept ==
    ASSUME NEW S, Recoverable(S),
           Lasting \subseteq Lasting',
           \A g \in ValidCandidates' : g \in ValidCandidates \/ S \subseteq g.body
    PROVE  Recoverable(S)'
BY DEF Recoverable, Fresh, Covered, SafeFrom

(* Only the rotation of the backup takes a lasting recovery file away.     *)
LEMMA LastingGrows ==
    ASSUME TypeOK, [Next]_vars, pc \notin RotatePCs \/ Crash
    PROVE  Lasting \subseteq Lasting'
BY DEF RotatePCs, Next, Step, Load, OpenTemp, WriteTemp, CheckCurrent,
     CopyCurrent, CopyDone, RotateBackup, DisplaceBackup, PromoteBackup,
     ReplaceLive, DisplaceLive, PromoteLive, UndoLive, Verify, Finish,
     QuarantinePrimary, RestoreCopy, RestorePromote, RestoreDone,
     RestoreFail, LoadPrimary, LoadDefaults, LoadCandidate, Crash, Rot,
     BeginUpdate, vars, quiet, TypeOK, Lasting, Leave, Rename, Slots

(* It leaves the copy of the primary in its place, however it ends.        *)
LEMMA RotationLeaves ==
    ASSUME TypeOK, NEW S, Fresh(S, file["candidate"]),
           RotateBackup \/ DisplaceBackup \/ PromoteBackup \/ Crash,
           \A g \in ValidCandidates' : g \in ValidCandidates \/ S \subseteq g.body,
           pc' \notin RotatePCs
    PROVE  Recoverable(S)'
<1>1. PICK f : f = file["candidate"]
  OBVIOUS
<1>2. Fresh(S, f)' /\ f.kind = "good"
  BY <1>1 DEF Fresh, Covered, SafeFrom
<1>3. f \in Lasting'
  <2> USE <1>1, <1>2 DEF TypeOK, Slots, Lasting, Leave, Rename, RotatePCs,
                         RecoverySlots
  <2>1. CASE RotateBackup
    BY <2>1 DEF RotateBackup
  <2>2. CASE DisplaceBackup
    BY <2>2 DEF DisplaceBackup
  <2>3. CASE PromoteBackup
    BY <2>3 DEF PromoteBackup
  <2>4. CASE Crash
    BY <2>4 DEF Crash
  <2> QED BY <2>1, <2>2, <2>3, <2>4
<1> QED BY <1>2, <1>3 DEF Recoverable

(* One step per action, and under it one per part of the invariant.        *)
LEMMA SafeStep ==
    ASSUME NEW lost, TypeOK, Clock, JobInv, Safe(lost),
           rots = 0 => lost = NoUpdate,
           TypeOK', [Next]_vars, rots' = rots
    PROVE  Safe(lost)'
<1>a. PICK S : S = Owed(lost)
  OBVIOUS
<1>b. ASSUME shown' = shown, acked' = acked
      PROVE  Owed(lost)' = S /\ (Owing' <=> Owing)
  BY <1>a, <1>b DEF Owed, Owing
<1> USE <1>a DEF Safe, Slots, TempPCs, RotatePCs, Primary, quiet, NoFile, Rename
<1>1. CASE OpenTemp
  <2> USE <1>1 DEF OpenTemp, TypeOK
  <2>k. Owed(lost)' = S /\ (Owing' <=> Owing)
    BY <1>b
  <2> USE <2>k
  <2>1. ValidCandidates' \subseteq ValidCandidates
    BY CandidatesShrink
  <2>2. PrimaryInv(lost)'
    BY <2>1 DEF PrimaryInv, Covered, SafeFrom, Fresh, Lasting, Recoverable
  <2>3. DataInv(lost)'
    BY DEF DataInv
  <2>s. ShownInv'
    BY DEF ShownInv
  <2>4. TempInv(lost)'
    BY DEF TempInv
  <2>5. PhaseInv(lost)'
    BY DEF PhaseInv
  <2> QED BY <2>2, <2>3, <2>s, <2>4, <2>5
<1>2. CASE CheckCurrent
  <2> USE <1>2 DEF CheckCurrent, TypeOK
  <2>k. Owed(lost)' = S /\ (Owing' <=> Owing)
    BY <1>b
  <2> USE <2>k
  <2>1. ValidCandidates' \subseteq ValidCandidates
    BY CandidatesShrink
  <2>2. PrimaryInv(lost)'
    BY <2>1 DEF PrimaryInv, Covered, SafeFrom, Fresh, Lasting, Recoverable
  <2>3. DataInv(lost)'
    BY DEF DataInv
  <2>s. ShownInv'
    BY DEF ShownInv
  <2>4. TempInv(lost)'
    BY <2>1 DEF TempInv, OnlyDraftFrom
  <2>5. PhaseInv(lost)'
    BY DEF PhaseInv
  <2> QED BY <2>2, <2>3, <2>s, <2>4, <2>5
<1>3. CASE CopyCurrent
  <2> USE <1>3 DEF CopyCurrent, TypeOK
  <2>k. Owed(lost)' = S /\ (Owing' <=> Owing)
    BY <1>b
  <2> USE <2>k
  <2>1. ValidCandidates' \subseteq ValidCandidates
    BY CandidatesShrink
  <2>2. PrimaryInv(lost)'
    BY <2>1 DEF PrimaryInv, Covered, SafeFrom, Fresh, Lasting, Recoverable
  <2>3. DataInv(lost)'
    BY DEF DataInv
  <2>s. ShownInv'
    BY DEF ShownInv
  <2>4. TempInv(lost)'
    BY <2>1 DEF TempInv, OnlyDraftFrom
  <2>5. PhaseInv(lost)'
    BY DEF PhaseInv
  <2> QED BY <2>2, <2>3, <2>s, <2>4, <2>5
<1>4. CASE RotateBackup
  <2> USE <1>4 DEF RotateBackup, TypeOK
  <2>k. Owed(lost)' = S /\ (Owing' <=> Owing)
    BY <1>b
  <2> USE <2>k
  <2>1. ValidCandidates' \subseteq ValidCandidates
    BY CandidatesShrink
  <2>r. pc' \notin RotatePCs => Recoverable(S)'
    BY <2>1, RotationLeaves DEF PhaseInv
  <2>2. PrimaryInv(lost)'
    BY <2>1, <2>r DEF PrimaryInv, Covered, SafeFrom
  <2>3. DataInv(lost)'
    BY DEF DataInv
  <2>s. ShownInv'
    BY DEF ShownInv
  <2>4. TempInv(lost)'
    BY <2>1 DEF TempInv, OnlyDraftFrom
  <2>5. PhaseInv(lost)'
    BY <2>1 DEF PhaseInv, Covered, SafeFrom, Fresh
  <2> QED BY <2>2, <2>3, <2>s, <2>4, <2>5
<1>5. CASE DisplaceBackup
  <2> USE <1>5 DEF DisplaceBackup, TypeOK
  <2>k. Owed(lost)' = S /\ (Owing' <=> Owing)
    BY <1>b
  <2> USE <2>k
  <2>1. ValidCandidates' \subseteq ValidCandidates
    BY CandidatesShrink
  <2>r. pc' \notin RotatePCs => Recoverable(S)'
    BY <2>1, RotationLeaves DEF PhaseInv
  <2>2. PrimaryInv(lost)'
    BY <2>1, <2>r DEF PrimaryInv, Covered, SafeFrom
  <2>3. DataInv(lost)'
    BY DEF DataInv
  <2>s. ShownInv'
    BY DEF ShownInv
  <2>4. TempInv(lost)'
    BY <2>1 DEF TempInv, OnlyDraftFrom
  <2>5. PhaseInv(lost)'
    BY <2>1 DEF PhaseInv, Covered, SafeFrom, Fresh
  <2> QED BY <2>2, <2>3, <2>s, <2>4, <2>5
<1>6. CASE PromoteBackup
  <2> USE <1>6 DEF PromoteBackup, TypeOK
  <2>k. Owed(lost)' = S /\ (Owing' <=> Owing)
    BY <1>b
  <2> USE <2>k
  <2>1. ValidCandidates' \subseteq ValidCandidates
    BY CandidatesShrink
  <2>r. pc' \notin RotatePCs => Recoverable(S)'
    BY <2>1, RotationLeaves DEF PhaseInv
  <2>2. PrimaryInv(lost)'
    BY <2>1, <2>r DEF PrimaryInv, Covered, SafeFrom
  <2>3. DataInv(lost)'
    BY DEF DataInv
  <2>s. ShownInv'
    BY DEF ShownInv
  <2>4. TempInv(lost)'
    BY <2>1 DEF TempInv, OnlyDraftFrom
  <2>5. PhaseInv(lost)'
    BY <2>1 DEF PhaseInv, Covered, SafeFrom, Fresh
  <2> QED BY <2>2, <2>3, <2>s, <2>4, <2>5
<1>7. CASE ReplaceLive
  <2> USE <1>7 DEF ReplaceLive, TypeOK
  <2>k. Owed(lost)' = S /\ (Owing' <=> Owing)
    BY <1>b
  <2> USE <2>k
  <2>1. ValidCandidates' \subseteq ValidCandidates
    BY CandidatesShrink
  <2>2. PrimaryInv(lost)'
    BY <2>1 DEF PrimaryInv, TempInv, DataInv, Covered, SafeFrom, Fresh, Lasting, Recoverable,
         OnlyDraftFrom
  <2>3. DataInv(lost)'
    BY DEF DataInv
  <2>s. ShownInv'
    BY DEF ShownInv
  <2>4. TempInv(lost)'
    BY <2>1 DEF TempInv, OnlyDraftFrom
  <2>5. PhaseInv(lost)'
    BY <2>1 DEF PhaseInv, TempInv, Covered, SafeFrom, Fresh, OnlyDraftFrom
  <2> QED BY <2>2, <2>3, <2>s, <2>4, <2>5
<1>8. CASE PromoteLive
  <2> USE <1>8 DEF PromoteLive, TypeOK
  <2>k. Owed(lost)' = S /\ (Owing' <=> Owing)
    BY <1>b
  <2> USE <2>k
  <2>1. ValidCandidates' \subseteq ValidCandidates
    BY CandidatesShrink
  <2>2. PrimaryInv(lost)'
    BY <2>1 DEF PrimaryInv, TempInv, DataInv, Covered, SafeFrom, Fresh, Lasting, Recoverable,
         OnlyDraftFrom
  <2>3. DataInv(lost)'
    BY DEF DataInv
  <2>s. ShownInv'
    BY DEF ShownInv
  <2>4. TempInv(lost)'
    BY <2>1 DEF TempInv, OnlyDraftFrom
  <2>5. PhaseInv(lost)'
    BY <2>1 DEF PhaseInv, TempInv, Covered, SafeFrom, OnlyDraftFrom
  <2> QED BY <2>2, <2>3, <2>s, <2>4, <2>5
<1>9. CASE UndoLive
  <2> USE <1>9 DEF UndoLive, TypeOK
  <2>k. Owed(lost)' = S /\ (Owing' <=> Owing)
    BY <1>b
  <2> USE <2>k
  <2>1. ValidCandidates' \subseteq ValidCandidates
    BY CandidatesShrink
  <2>r. Recoverable(S) => Recoverable(S)'
    BY <2>1, LastingGrows, RecoverableKept
  <2>2. PrimaryInv(lost)'
    BY <2>1, <2>r DEF PrimaryInv, PhaseInv, Covered, SafeFrom
  <2>3. DataInv(lost)'
    BY DEF DataInv
  <2>s. ShownInv'
    BY DEF ShownInv
  <2>4. TempInv(lost)'
    BY DEF TempInv
  <2>5. PhaseInv(lost)'
    BY DEF PhaseInv
  <2> QED BY <2>2, <2>3, <2>s, <2>4, <2>5
<1>10. CASE Verify
  <2> USE <1>10 DEF Verify, TypeOK
  <2>k. Owed(lost)' = S /\ (Owing' <=> Owing)
    BY <1>b
  <2> USE <2>k
  <2>1. ValidCandidates' \subseteq ValidCandidates
    BY CandidatesShrink
  <2>2. PrimaryInv(lost)'
    BY <2>1 DEF PrimaryInv, Covered, SafeFrom, Fresh, Lasting, Recoverable
  <2>3. DataInv(lost)'
    BY DEF DataInv
  <2>s. ShownInv'
    BY DEF ShownInv
  <2>4. TempInv(lost)'
    BY DEF TempInv
  <2>5. PhaseInv(lost)'
    BY <2>1 DEF PhaseInv, OnlyDraftFrom
  <2> QED BY <2>2, <2>3, <2>s, <2>4, <2>5
<1>11. CASE Finish
  <2> USE <1>11 DEF Finish, TypeOK
  <2>1. ValidCandidates' \subseteq ValidCandidates
    BY CandidatesShrink
  <2>2. CASE pc = "committed"
    <3>1. Owed(lost)' \subseteq draft
      BY <2>2, <1>a DEF DataInv, JobInv, Owed, Loaded
    <3>2. Primary.kind # "good" =>
             rots # 0 /\ Primary.kind = "torn" /\ (job # NoUpdate => lost = job)
      BY <2>2 DEF PrimaryInv, PhaseInv, Files
    <3>3. Primary.kind # "good" => Owed(lost)' = S /\ (Owing' => job # NoUpdate \/ Owing)
      BY <2>2, <3>2, <1>a DEF Owed, Owing
    <3>4. PrimaryInv(lost)'
      <4>1. CASE Primary.kind = "good"
        BY <2>1, <2>2, <3>1, <4>1 DEF PrimaryInv, PhaseInv, Covered, SafeFrom, OnlyDraftFrom
      <4>2. CASE Primary.kind # "good"
        <5>1. Owing' => Recoverable(S)
          BY <2>2, <3>2, <3>3, <4>2 DEF PrimaryInv, PhaseInv
        <5>2. Lasting \subseteq Lasting'
          BY DEF Lasting, Leave
        <5>3. Owing' => Recoverable(S)'
          BY <2>1, <5>1, <5>2, RecoverableKept
        <5>4. Primary' = Primary /\ file'["quarantine"] = file["quarantine"]
          BY DEF Primary
        <5> HIDE DEF Primary
        <5> QED BY <3>3, <4>2, <5>3, <5>4 DEF PrimaryInv
      <4> QED BY <4>1, <4>2
    <3>5. DataInv(lost)'
      BY <2>2, <3>1 DEF DataInv, Loaded
    <3>6. ShownInv'
      BY <2>2, <3>1, ConstantsAssumption DEF ShownInv, DataInv, JobInv, Loaded, Owed
    <3>7. TempInv(lost)' /\ PhaseInv(lost)'
      BY <2>2 DEF TempInv, PhaseInv
    <3> QED BY <3>4, <3>5, <3>6, <3>7
  <2>3. CASE pc = "failed"
    <3> USE <2>3
    <3>0. Owed(lost)' = S /\ (Owing' <=> Owing)
      BY <1>b
    <3> USE <3>0
    <3>1. Recoverable(S) => Recoverable(S)'
      <4>1. Lasting \subseteq Lasting'
        BY DEF Lasting, Leave
      <4> QED BY <2>1, <4>1, RecoverableKept
    <3>2. PrimaryInv(lost)'
      BY <2>1, <3>1 DEF PrimaryInv, Covered, SafeFrom
    <3>3. DataInv(lost)' /\ ShownInv' /\ TempInv(lost)' /\ PhaseInv(lost)'
      BY DEF DataInv, ShownInv, TempInv, PhaseInv
    <3> QED BY <3>2, <3>3
  <2> QED BY <2>2, <2>3
<1>12. CASE LoadPrimary
  <2> USE <1>12 DEF LoadPrimary, TypeOK
  <2>1. ValidCandidates' \subseteq ValidCandidates
    BY CandidatesShrink
  <2>2. /\ Owed(lost)' \subseteq Primary.body
        /\ CopyKeepsMtime => Owed(lost)' = S
    BY <1>a DEF Owed, PrimaryInv, Covered, Loaded
  <2>3. PrimaryInv(lost)'
    BY <2>1, <2>2 DEF PrimaryInv, Covered, SafeFrom
  <2>4. DataInv(lost)'
    BY <2>2 DEF DataInv, Loaded
  <2>5. ShownInv'
    BY <1>a, ConstantsAssumption DEF ShownInv, PrimaryInv, Covered, Loaded, Owed
  <2>6. TempInv(lost)' /\ PhaseInv(lost)'
    BY DEF TempInv, PhaseInv
  <2> QED BY <2>3, <2>4, <2>5, <2>6
<1>13. CASE LoadDefaults
  <2> USE <1>13 DEF LoadDefaults, TypeOK
  <2>1. ValidCandidates' \subseteq ValidCandidates
    BY CandidatesShrink
  <2>k. Owed(lost)' = S /\ (Owing' <=> Owing)
    BY <1>b
  <2>2. ~Recoverable(S)
    BY DEF FoundFiles, RecoveryFiles, RecoverySlots, Lasting, Recoverable, Fresh, Covered
  <2>3. S = {} /\ ~Owing
    BY <1>a, <2>2 DEF PrimaryInv, ShownInv, Owed, Owing
  <2>4. PrimaryInv(lost)'
    BY <2>1, <2>k, <2>3 DEF PrimaryInv
  <2>5. DataInv(lost)' /\ ShownInv'
    BY <2>k, <2>3 DEF DataInv, ShownInv
  <2>6. TempInv(lost)' /\ PhaseInv(lost)'
    BY DEF TempInv, PhaseInv
  <2> QED BY <2>4, <2>5, <2>6
<1>14. CASE LoadCandidate
  <2> USE <1>14 DEF LoadCandidate, TypeOK
  <2>1. ValidCandidates' \subseteq ValidCandidates
    BY CandidatesShrink
  <2>k. Owed(lost)' = S /\ (Owing' <=> Owing)
    BY <1>b
  <2>2. Recoverable(S) => Recoverable(S)'
    BY <2>1, RecoverableKept DEF Lasting
  <2>3. PrimaryInv(lost)'
    BY <2>1, <2>2, <2>k DEF PrimaryInv
  <2>4. DataInv(lost)'
    <3>1. Owing => \A f \in Newest : S \subseteq f.body
      BY <1>a, NewestCovers DEF PrimaryInv
    <3>2. ~Owing => S = {}
      BY <1>a DEF Owed, Owing, ShownInv
    <3> QED BY <2>k, <3>1, <3>2 DEF DataInv
  <2>5. ShownInv' /\ TempInv(lost)' /\ PhaseInv(lost)'
    BY DEF ShownInv, TempInv, PhaseInv
  <2> QED BY <2>3, <2>4, <2>5
<1>15. CASE QuarantinePrimary
  <2> USE <1>15 DEF QuarantinePrimary, TypeOK
  <2>k. Owed(lost)' = S /\ (Owing' <=> Owing)
    BY <1>b
  <2> USE <2>k
  <2>1. ValidCandidates' \subseteq ValidCandidates
    BY CandidatesShrink
  <2>r. Recoverable(S) => Recoverable(S)'
    BY <2>1, LastingGrows, RecoverableKept
  <2>2. PrimaryInv(lost)'
    BY <2>1, <2>r DEF PrimaryInv, PhaseInv, Covered, SafeFrom, Files
  <2>3. DataInv(lost)'
    BY DEF DataInv
  <2>s. ShownInv'
    BY DEF ShownInv
  <2>4. TempInv(lost)'
    BY DEF TempInv
  <2>5. PhaseInv(lost)'
    BY DEF PhaseInv
  <2> QED BY <2>2, <2>3, <2>s, <2>4, <2>5
<1>16. CASE RestorePromote
  <2> USE <1>16 DEF RestorePromote, TypeOK
  <2>k. Owed(lost)' = S /\ (Owing' <=> Owing)
    BY <1>b
  <2> USE <2>k
  <2>1. ValidCandidates' \subseteq ValidCandidates
    BY CandidatesShrink
  <2>r. Recoverable(S) => Recoverable(S)'
    BY <2>1, LastingGrows, RecoverableKept
  <2>2. PrimaryInv(lost)'
    BY <2>1, <2>r DEF PrimaryInv, PhaseInv, TempInv, DataInv, Covered, SafeFrom
  <2>3. DataInv(lost)'
    BY DEF DataInv
  <2>s. ShownInv'
    BY DEF ShownInv
  <2>4. TempInv(lost)'
    BY DEF TempInv
  <2>5. PhaseInv(lost)'
    BY DEF PhaseInv
  <2> QED BY <2>2, <2>3, <2>s, <2>4, <2>5
<1>17. CASE RestoreDone
  <2> USE <1>17 DEF RestoreDone, TypeOK
  <2>1. ValidCandidates' \subseteq ValidCandidates
    BY CandidatesShrink
  <2>2. /\ Owed(lost)' \subseteq Primary.body
        /\ CopyKeepsMtime => Owed(lost)' = S
    BY <1>a DEF Owed, PrimaryInv, Covered, Loaded
  <2>3. PrimaryInv(lost)'
    BY <2>1, <2>2 DEF PrimaryInv, Covered, SafeFrom
  <2>4. DataInv(lost)'
    BY <2>2 DEF DataInv, Loaded
  <2>5. ShownInv'
    BY <1>a, ConstantsAssumption DEF ShownInv, PrimaryInv, Covered, Loaded, Owed
  <2>6. TempInv(lost)' /\ PhaseInv(lost)'
    BY DEF TempInv, PhaseInv
  <2> QED BY <2>3, <2>4, <2>5, <2>6
<1>18. CASE RestoreFail
  <2> USE <1>18 DEF RestoreFail, TypeOK
  <2>k. Owed(lost)' = S /\ (Owing' <=> Owing)
    BY <1>b
  <2> USE <2>k
  <2>1. ValidCandidates' \subseteq ValidCandidates
    BY CandidatesShrink
  <2>r. Recoverable(S) => Recoverable(S)'
    BY <2>1, LastingGrows, RecoverableKept
  <2>2. PrimaryInv(lost)'
    BY <2>1, <2>r DEF PrimaryInv, PhaseInv, Covered, SafeFrom
  <2>3. DataInv(lost)'
    BY DEF DataInv
  <2>s. ShownInv'
    BY DEF ShownInv
  <2>4. TempInv(lost)'
    BY DEF TempInv
  <2>5. PhaseInv(lost)'
    BY DEF PhaseInv
  <2> QED BY <2>2, <2>3, <2>s, <2>4, <2>5
<1>19. CASE Crash
  <2> USE <1>19 DEF Crash, TypeOK
  <2>k. Owed(lost)' = S /\ (Owing' <=> Owing)
    BY <1>b
  <2> USE <2>k
  <2>1. ValidCandidates' \subseteq ValidCandidates
    BY CandidatesShrink
  <2>r. Recoverable(S) => Recoverable(S)'
    BY <2>1, LastingGrows, RecoverableKept
  <2>t. pc \in RotatePCs => Recoverable(S)'
    BY <2>1, RotationLeaves DEF PhaseInv
  <2>2. PrimaryInv(lost)'
    BY <2>1, <2>r, <2>t DEF PrimaryInv, Covered, SafeFrom
  <2>3. DataInv(lost)'
    BY DEF DataInv, Unloaded
  <2>s. ShownInv'
    BY DEF ShownInv, Unloaded
  <2>4. TempInv(lost)'
    BY DEF TempInv
  <2>5. PhaseInv(lost)'
    BY DEF PhaseInv
  <2> QED BY <2>2, <2>3, <2>s, <2>4, <2>5
<1>20. CASE WriteTemp
  <2> USE <1>20 DEF WriteTemp, TypeOK
  <2>k. Owed(lost)' = S /\ (Owing' <=> Owing)
    BY <1>b
  <2> USE <2>k
  <2>0. S \subseteq draft
    BY DEF DataInv
  <2>1. ValidCandidates' \subseteq ValidCandidates \cup {Good(draft, now + 1)}
    BY CandidatesGrow
  <2>2. PrimaryInv(lost)'
    BY <2>0, <2>1 DEF PrimaryInv, Covered, SafeFrom, Fresh, Lasting, Recoverable, Good
  <2>3. DataInv(lost)'
    BY DEF DataInv
  <2>a. \A g \in OnDisk : g.at \in Nat /\ g.at <= now
    BY DiskClock
  <2>b. Primary \in OnDisk /\ ValidCandidates \subseteq OnDisk
    BY DEF OnDisk, ValidCandidates, RecoveryFiles, RecoverySlots
  <2>s. ShownInv'
    BY DEF ShownInv
  <2>4. TempInv(lost)'
    BY <2>1, <2>a, <2>b DEF TempInv, OnlyDraftFrom, Good
  <2>5. PhaseInv(lost)'
    BY DEF PhaseInv
  <2> QED BY <2>2, <2>3, <2>s, <2>4, <2>5
<1>21. CASE CopyDone
  <2> USE <1>21 DEF CopyDone, TypeOK
  <2>k. Owed(lost)' = S /\ (Owing' <=> Owing)
    BY <1>b
  <2> USE <2>k
  <2>1. \A g \in ValidCandidates' :
           \/ g \in ValidCandidates
           \/ Primary.kind = "good" /\ g = Good(Primary.body, Stamp(Primary))
    BY CandidatesGrow
  <2>c. Primary.kind = "good" => S \subseteq Primary.body
    BY DEF PrimaryInv, Covered
  <2>r. Recoverable(S) => Recoverable(S)'
    <3>1. \A g \in ValidCandidates' : g \in ValidCandidates \/ S \subseteq g.body
      BY <2>1, <2>c DEF Good
    <3>2. pc \notin RotatePCs
      OBVIOUS
    <3> QED BY <3>1, <3>2, LastingGrows, RecoverableKept
  <2>2. PrimaryInv(lost)'
    BY <2>1, <2>c, <2>r DEF PrimaryInv, Covered, SafeFrom, Good
  <2>3. DataInv(lost)' /\ ShownInv'
    BY DEF DataInv, ShownInv
  <2>a. \A g \in OnDisk : g.at \in Nat /\ g.at <= now
    BY DiskClock
  <2>b. Primary \in OnDisk /\ ValidCandidates \subseteq OnDisk /\ file["temp"] \in OnDisk
    BY DEF OnDisk, ValidCandidates, RecoveryFiles, RecoverySlots
  <2>4. TempInv(lost)'
    BY <2>1, <2>a, <2>b DEF TempInv, OnlyDraftFrom, Good, Stamp
  <2>5. PhaseInv(lost)'
    BY <2>1, <2>a, <2>b DEF PhaseInv, PrimaryInv, Covered, SafeFrom, Fresh,
         Good, Stamp
  <2> QED BY <2>2, <2>3, <2>4, <2>5
<1>22. CASE DisplaceLive
  <2> USE <1>22 DEF DisplaceLive, TypeOK
  <2>k. Owed(lost)' = S /\ (Owing' <=> Owing)
    BY <1>b
  <2> USE <2>k
  <2>1. \A g \in ValidCandidates' :
           g \in ValidCandidates \/ (g.kind = "good" /\ g = Primary)
    <3>1. ValidCandidates' \subseteq ValidCandidates \cup {Primary}
      BY CandidatesGrow
    <3>2. \A g \in ValidCandidates' : g.kind = "good"
      BY DEF ValidCandidates
    <3> QED BY <3>1, <3>2
  <2>c. Primary.kind = "good" => S \subseteq Primary.body
    BY DEF PrimaryInv, Covered
  <2>f. Fresh(S, file["backup"]) /\ file'["backup"] = file["backup"]
    BY DEF PhaseInv
  <2>r. Recoverable(S)'
    <3>1. Fresh(S, file["backup"])'
      BY <2>1, <2>c, <2>f DEF Fresh, Covered, SafeFrom
    <3> QED BY <3>1 DEF Recoverable, Lasting
  <2>2. PrimaryInv(lost)'
    BY <2>1, <2>c, <2>r DEF PrimaryInv, Covered, SafeFrom
  <2>3. DataInv(lost)' /\ ShownInv'
    BY DEF DataInv, ShownInv
  <2>a. Primary.at \in Nat /\ file["temp"].at \in Nat
    BY DEF Files
  <2>4. TempInv(lost)'
    BY <2>1, <2>a DEF TempInv, OnlyDraftFrom
  <2>5. PhaseInv(lost)'
    BY <2>1, <2>c DEF PhaseInv, PrimaryInv, Covered, SafeFrom
  <2> QED BY <2>2, <2>3, <2>4, <2>5
<1>23. CASE RestoreCopy
  <2> USE <1>23 DEF RestoreCopy, TypeOK
  <2>k. Owed(lost)' = S /\ (Owing' <=> Owing)
    BY <1>b
  <2> USE <2>k
  <2>0. S \subseteq draft /\ Primary.kind # "good"
    BY DEF DataInv, PhaseInv
  <2>1. \A g \in ValidCandidates' : g \in ValidCandidates \/ S \subseteq g.body
    BY <2>0, CandidatesGrow DEF Good
  <2>r. Recoverable(S) => Recoverable(S)'
    <3>1. pc \notin RotatePCs
      OBVIOUS
    <3> QED BY <2>1, <3>1, LastingGrows, RecoverableKept
  <2>2. PrimaryInv(lost)'
    BY <2>0, <2>r DEF PrimaryInv
  <2>3. DataInv(lost)' /\ ShownInv'
    BY DEF DataInv, ShownInv
  <2>4. TempInv(lost)'
    <3>1. Owing => \A f \in Newest : SafeFrom(S, f.at)
      BY <2>0, NewestCovers DEF PrimaryInv
    <3>2. ~Owing => S = {}
      BY <1>a DEF Owed, Owing, ShownInv
    <3> QED BY <2>1, <3>1, <3>2 DEF TempInv, SafeFrom, Good, Stamp
  <2>5. PhaseInv(lost)'
    BY <2>0 DEF PhaseInv
  <2> QED BY <2>2, <2>3, <2>4, <2>5
<1>24. CASE \E u \in Updates : BeginUpdate(u)
  <2> USE <1>24 DEF BeginUpdate, TypeOK
  <2>1. ValidCandidates' = ValidCandidates /\ Lasting' = Lasting
    BY DEF ValidCandidates, RecoveryFiles, Lasting
  <2>k. Owed(lost)' = S /\ (Owing' <=> Owing)
    BY <1>b
  <2>2. PrimaryInv(lost)'
    BY <2>1, <2>k DEF PrimaryInv, Covered, SafeFrom, Fresh, Recoverable
  <2>3. DataInv(lost)' /\ ShownInv' /\ TempInv(lost)' /\ PhaseInv(lost)'
    BY <2>k DEF DataInv, ShownInv, TempInv, PhaseInv
  <2> QED BY <2>2, <2>3
<1>25. CASE UNCHANGED vars
  <2>1. Owed(lost)' = S /\ (Owing' <=> Owing)
    BY <1>25, <1>b DEF vars
  <2>2. ValidCandidates' = ValidCandidates /\ Lasting' = Lasting
    BY <1>25 DEF vars, ValidCandidates, RecoveryFiles, Lasting
  <2> QED
    BY <1>25, <2>1, <2>2 DEF vars, PrimaryInv, DataInv, ShownInv, TempInv,
         PhaseInv, Covered, SafeFrom, Fresh, Recoverable, OnlyDraftFrom
<1>26. ~Rot
  BY DEF Rot, TypeOK
<1> QED
  BY <1>1, <1>2, <1>3, <1>4, <1>5, <1>6, <1>7, <1>8, <1>9, <1>10,
     <1>11, <1>12, <1>13, <1>14, <1>15, <1>16, <1>17, <1>18, <1>19, <1>20,
     <1>21, <1>22, <1>23, <1>24, <1>25, <1>26 DEF Next, Step, Load

(* A file that is good enough for a set is good enough for a part of it.   *)
LEMMA Weaker ==
    ASSUME NEW S, NEW T, T \subseteq S
    PROVE  /\ \A f : Fresh(S, f) => Fresh(T, f)
           /\ Recoverable(S) => Recoverable(T)
<1>1. \A f : Fresh(S, f) => Fresh(T, f)
  BY DEF Fresh, Covered, SafeFrom
<1> QED BY <1>1 DEF Recoverable

(* What is owed includes every resolved update until a media fault.        *)
LEMMA OwedAll ==
    ASSUME TypeOK, ShownInv, rots = 0
    PROVE  acked \subseteq Owed(NoUpdate)
BY ConstantsAssumption DEF Owed, ShownInv, TypeOK

(* A media fault costs the update whose write it overtakes, or the one     *)
(* that the spare copy is missing.                                         *)
LEMMA RotStep ==
    ASSUME TypeOK, JobInv, rots = 0, Safe(NoUpdate), Rot,
           NEW lost \in Losses, Spare(lost)
    PROVE  \E last \in Losses : Safe(last)'
<1>1. PICK last \in Losses :
         last = IF pc \in {"verify", "committed"} /\ job # NoUpdate THEN job
                ELSE lost
  BY DEF TypeOK, Losses
<1>2. PICK S : S = Owed(NoUpdate)
  OBVIOUS
<1>3. PICK T : T = acked \ {last}
  OBVIOUS
<1>4. T \subseteq S /\ Owed(last)' = T /\ (Owing' <=> acked # {})
  BY <1>2, <1>3, OwedAll DEF Safe, Rot, Owed, Owing, TypeOK
<1>5. ValidCandidates' = ValidCandidates /\ Lasting' = Lasting
  BY DEF Rot, TypeOK, ValidCandidates, RecoveryFiles, RecoverySlots, Slots, Lasting
<1>6. \A s \in Slots \ {"primary"} : file'[s] = file[s]
  BY DEF Rot, TypeOK
<1>7. Primary.kind = "good" /\ Primary' = Torn(now)
  BY DEF Rot, TypeOK, Primary, Slots
<1>8. acked # {} /\ pc \notin RotatePCs => Recoverable(T)
  <2>1. Recoverable(acked) => Recoverable(T)
    BY <1>3, Weaker
  <2> QED BY <1>1, <1>3, <2>1 DEF Spare
<1>9. PrimaryInv(last)'
  BY <1>4, <1>5, <1>6, <1>7, <1>8 DEF Rot, Safe, PrimaryInv, Torn, Slots,
       Recoverable, Fresh, Covered, SafeFrom
<1>10. DataInv(last)' /\ ShownInv'
  BY <1>2, <1>4 DEF Rot, Safe, DataInv, ShownInv
<1>11. TempInv(last)'
  BY <1>2, <1>4, <1>5, <1>6, <1>7 DEF Rot, Safe, TempInv, OnlyDraftFrom,
       SafeFrom, Torn, Slots
<1>12. PhaseInv(last)'
  <2>1. \A f : Fresh(S, f) => Fresh(T, f)'
    BY <1>4, <1>5 DEF Fresh, Covered, SafeFrom
  <2>2. /\ pc \in RotatePCs => Fresh(S, file["candidate"])
        /\ pc = "displaceLive" \/ (pc = "replace" /\ hasCurrent) =>
              Fresh(S, file["backup"])
        /\ pc \notin {"promoteLive", "undoLive", "quarantine", "restore",
                      "restored", "promote"}
    BY <1>2, <1>7 DEF Safe, PhaseInv
  <2>3. ASSUME pc \in {"verify", "committed"}, job # NoUpdate
        PROVE  last = job /\ Recoverable(T)'
    <3>1. Recoverable(acked)
      BY <2>3 DEF Spare
    <3>2. Recoverable(T)
      BY <1>3, <3>1, Weaker
    <3> QED BY <1>1, <1>5, <2>3, <3>2 DEF Recoverable, Fresh, Covered, SafeFrom
  <2> QED
    BY <1>4, <1>6, <1>7, <2>1, <2>2, <2>3 DEF Rot, PhaseInv, Torn, Slots
<1> QED BY <1>9, <1>10, <1>11, <1>12 DEF Safe

(* Until a media fault, every new recovery file has every resolved update.  *)
LEMMA CandidatesCover ==
    ASSUME TypeOK, rots = 0, Safe(NoUpdate), [Next]_vars,
           NEW g \in ValidCandidates'
    PROVE  g \in ValidCandidates \/ acked \subseteq g.body
<1> DEFINE S == Owed(NoUpdate)
<1>0. acked \subseteq S
  BY OwedAll DEF Safe
<1>1. CASE WriteTemp
  <2>1. S \subseteq draft
    BY <1>1 DEF Safe, DataInv, WriteTemp
  <2> QED BY <1>0, <1>1, <2>1, CandidatesGrow DEF Good
<1>2. CASE CopyDone
  <2>1. \/ g \in ValidCandidates
        \/ Primary.kind = "good" /\ g = Good(Primary.body, Stamp(Primary))
    BY <1>2, CandidatesGrow
  <2> QED BY <1>0, <2>1 DEF Safe, PrimaryInv, Covered, Good
<1>3. CASE DisplaceLive
  <2>1. g \in ValidCandidates \/ g = Primary
    BY <1>3, CandidatesGrow
  <2>2. g.kind = "good"
    BY DEF ValidCandidates
  <2> QED BY <1>0, <2>1, <2>2 DEF Safe, PrimaryInv, Covered
<1>4. CASE RestoreCopy
  <2>1. S \subseteq draft
    BY <1>4 DEF Safe, DataInv, RestoreCopy
  <2> QED BY <1>0, <1>4, <2>1, CandidatesGrow DEF Good
<1>5. CASE \/ Rot \/ UNCHANGED vars \/ \E u \in Updates : BeginUpdate(u)
  <2>1. ValidCandidates' = ValidCandidates
    BY <1>5 DEF Rot, BeginUpdate, vars, TypeOK, ValidCandidates, RecoveryFiles,
         RecoverySlots, Slots
  <2> QED BY <2>1
<1> QED BY <1>1, <1>2, <1>3, <1>4, <1>5, CandidatesShrink DEF Next, Step, Load

(* Every step leaves a spare copy, which misses one resolved update at most. *)
LEMMA SpareStep ==
    ASSUME TypeOK, TypeOK', JobInv, rots = 0, rots' = 0, Safe(NoUpdate),
           NEW lost \in Losses, Spare(lost), [Next]_vars
    PROVE  \E last \in Losses : Spare(last)'
<1> DEFINE Rotating == RotateBackup \/ DisplaceBackup \/ PromoteBackup
           Placing == ReplaceLive \/ PromoteLive \/ Verify
<1>0. PICK A, B : A = acked /\ B = acked \ {lost}
  OBVIOUS
<1>1. \A g \in ValidCandidates' : g \in ValidCandidates \/ A \subseteq g.body
  BY <1>0, CandidatesCover
<1>2. A \subseteq Owed(NoUpdate) /\ B \subseteq A
  BY <1>0, OwedAll DEF Safe
<1>3. Recoverable(Owed(NoUpdate)) => Recoverable(A)
  BY <1>2, Weaker
<1>4. pc \notin RotatePCs \/ Crash => Lasting \subseteq Lasting'
  BY LastingGrows
<1>5. pc \notin RotatePCs \/ Crash =>
         (Recoverable(A) => Recoverable(A)') /\ (Recoverable(B) => Recoverable(B)')
  BY <1>1, <1>2, <1>4, RecoverableKept
<1>6. CASE Rotating \/ (Crash /\ pc \in RotatePCs)
  <2>1. Fresh(A, file["candidate"])
    <3>1. pc \in RotatePCs
      BY <1>6 DEF RotateBackup, DisplaceBackup, PromoteBackup, RotatePCs
    <3>2. PICK S : S = Owed(NoUpdate)
      OBVIOUS
    <3>3. Fresh(S, file["candidate"])
      BY <3>1, <3>2 DEF Safe, PhaseInv
    <3> QED BY <1>2, <3>2, <3>3, Weaker
  <2>6. pc' \notin RotatePCs => Recoverable(A)'
    BY <1>1, <1>6, <2>1, RotationLeaves
  <2>7. pc' \notin RotatePCs => Recoverable(B)'
    BY <1>2, <2>6 DEF Recoverable, Fresh, Covered, SafeFrom
  <2>8. /\ acked' = acked /\ pc' \notin {"verify", "committed", "copy", "copied", "displaceLive"}
        /\ pc' \in RotatePCs \cup {"replace"} => hasCurrent'
    BY <1>6 DEF RotateBackup, DisplaceBackup, PromoteBackup, Crash, Spare, quiet, RotatePCs
  <2> QED BY <1>0, <2>7, <2>8 DEF Spare
<1>7. CASE Placing
  <2>1. pc \notin RotatePCs /\ acked' = acked /\ job' = job
        /\ pc' \notin RotatePCs \cup {"copy", "copied", "replace"}
        /\ (pc' = "displaceLive" => hasCurrent')
    BY <1>7 DEF ReplaceLive, PromoteLive, Verify, RotatePCs, quiet
  <2>2. acked # {} => Recoverable(B)'
    BY <1>0, <1>5, <1>7, <2>1 DEF Spare, ReplaceLive, PromoteLive, Verify
  <2>3. ASSUME pc' \in {"verify", "committed"}, job # NoUpdate
        PROVE  Recoverable(A)
    <3>1. shown.loaded
      BY <2>3 DEF JobInv, Safe, ShownInv
    <3>2. CASE pc = "verify"
      BY <1>0, <2>3, <3>2 DEF Spare
    <3>3. CASE pc = "replace" /\ hasCurrent
      <4>1. Recoverable(Owed(NoUpdate))
        BY <3>3 DEF Safe, PhaseInv, Recoverable, Lasting
      <4> QED BY <1>3, <4>1
    <3>4. CASE pc = "promoteLive" \/ (pc = "replace" /\ ~hasCurrent)
      <4>1. Primary.kind = "none"
        BY <3>4 DEF Safe, PhaseInv, Spare
      <4>2. Recoverable(Owed(NoUpdate))
        BY <2>1, <3>1, <4>1 DEF Safe, PrimaryInv, Owing
      <4> QED BY <1>3, <4>2
    <3> QED BY <1>7, <3>2, <3>3, <3>4 DEF ReplaceLive, PromoteLive, Verify
  <2>4. pc' \in {"verify", "committed"} /\ job # NoUpdate => Recoverable(A)'
    BY <1>5, <1>7, <2>1, <2>3 DEF ReplaceLive, PromoteLive, Verify
  <2> QED BY <1>0, <2>1, <2>2, <2>4 DEF Spare
<1>8. CASE Finish
  <2>1. pc \notin RotatePCs /\ pc' = "idle"
    BY <1>8 DEF Finish, RotatePCs
  <2>2. CASE pc = "committed" /\ job # NoUpdate
    <3>1. PICK last \in Losses : last = job
      BY DEF TypeOK, Losses
    <3>2. Recoverable(A)'
      BY <1>0, <1>5, <1>8, <2>1, <2>2 DEF Spare, Finish
    <3>3. acked' \ {last} \subseteq A
      BY <1>0, <1>8, <3>1 DEF Finish
    <3>4. Recoverable(acked \ {last})'
      BY <3>2, <3>3 DEF Recoverable, Fresh, Covered, SafeFrom
    <3> QED BY <2>1, <3>4 DEF Spare, RotatePCs
  <2>3. CASE ~(pc = "committed" /\ job # NoUpdate)
    <3>1. acked' = acked
      BY <1>8, <2>3 DEF Finish, TypeOK
    <3>2. acked # {} => Recoverable(B)'
      BY <1>0, <1>5, <1>8, <2>1 DEF Spare, Finish
    <3> QED BY <1>0, <2>1, <3>1, <3>2 DEF Spare, RotatePCs
  <2> QED BY <2>2, <2>3
<1>9. CASE ~Rotating /\ ~Placing /\ ~Finish /\ ~(Crash /\ pc \in RotatePCs)
  <2>1. /\ acked' = acked
        /\ pc' \notin RotatePCs => pc \notin RotatePCs
        /\ pc' \in {"verify", "committed"} => pc' = pc /\ job' = job
        /\ pc' \in RotatePCs \cup {"copy", "copied", "displaceLive"} => hasCurrent'
        /\ pc' = "replace" /\ ~hasCurrent' => Primary'.kind = "none"
    BY <1>9 DEF Next, Step, Load, OpenTemp, WriteTemp, CheckCurrent,
       CopyCurrent, CopyDone, DisplaceLive, UndoLive,
       QuarantinePrimary, RestoreCopy, RestorePromote,
       RestoreDone, RestoreFail, LoadPrimary, LoadDefaults, LoadCandidate,
       Crash, Rot, BeginUpdate, vars, quiet, RotatePCs, Spare, Primary, TypeOK
  <2> QED BY <1>0, <1>5, <1>9, <2>1 DEF Spare, RotatePCs
<1> QED BY <1>6, <1>7, <1>8, <1>9

(* The invariant holds of an empty data directory.                          *)
LEMMA InvInit == Init => IInv
<1> SUFFICES ASSUME Init PROVE IInv
  OBVIOUS
<1>1. \A s \in Slots : file[s] = NoFile
  BY DEF Init
<1>2. ValidCandidates = {}
  BY <1>1 DEF Init, ValidCandidates, RecoveryFiles, RecoverySlots, NoFile
<1>3. Clock
  BY <1>1 DEF Clock, OnDisk, Init, NoFile
<1>4. JobInv
  BY DEF JobInv, Init
<1>5. Owed(NoUpdate) = {} /\ ~Owing
  BY DEF Init, Owed, Owing, Unloaded
<1>6. PrimaryInv(NoUpdate)
  BY <1>1, <1>5 DEF Init, PrimaryInv, Primary, NoFile, Slots
<1>7. DataInv(NoUpdate) /\ ShownInv /\ TempInv(NoUpdate) /\ PhaseInv(NoUpdate)
  BY DEF Init, DataInv, ShownInv, TempInv, PhaseInv, TempPCs, RotatePCs, Unloaded
<1>8. Spare(NoUpdate)
  BY DEF Init, Spare, RotatePCs
<1> QED BY TypeInit, <1>3, <1>4, <1>6, <1>7, <1>8 DEF IInv, Safe, Losses, Init

(* Every step preserves the invariant.                                      *)
LEMMA InvStep == IInv /\ [Next]_vars => IInv'
<1> SUFFICES ASSUME IInv, [Next]_vars PROVE IInv'
  OBVIOUS
<1>1. TypeOK /\ Clock /\ JobInv
  BY DEF IInv
<1>2. TypeOK' /\ Clock' /\ JobInv'
  BY <1>1, TypeStep, ClockStep, JobStep
<1>3. rots \in Nat /\ rots' \in Nat /\ (Rot \/ rots' = rots)
  BY <1>1, <1>2 DEF TypeOK, Next, Step, Load, OpenTemp, WriteTemp,
       CheckCurrent, CopyCurrent, CopyDone, RotateBackup, DisplaceBackup,
       PromoteBackup, ReplaceLive, DisplaceLive, PromoteLive, UndoLive,
       Verify, Finish, QuarantinePrimary, RestoreCopy, RestorePromote,
       RestoreDone, RestoreFail, LoadPrimary, LoadDefaults, LoadCandidate,
       Crash, Rot, BeginUpdate, vars, quiet
<1>4. CASE Rot
  BY <1>1, <1>2, <1>3, <1>4, RotStep DEF IInv, Rot
<1>5. CASE rots' = rots
  BY <1>1, <1>2, <1>3, <1>5, SafeStep, SpareStep DEF IInv, Losses
<1> QED BY <1>3, <1>4, <1>5

(* The invariant holds throughout every run of the store.                   *)
LEMMA InvHolds == Spec => []IInv
BY InvInit, InvStep, PTL DEF Spec

-----------------------------------------------------------------------------
(***************************************************************************)
(* What the invariant gives.                                               *)
(***************************************************************************)
(* A non-empty set of naturals has a least element.                         *)
LEMMA LeastNatural ==
    ASSUME NEW T, T \subseteq Nat, T # {}
    PROVE  \E x \in T : \A y \in T : x <= y
<1> DEFINE R == OpToRel(<, Nat)
<1>1. IsWellFoundedOn(R, Nat)
  BY NatLessThanWellFounded
<1> HIDE DEF R
<1>2. PICK x \in T : \A y \in T : ~(<<y, x>> \in R)
  BY <1>1, WFMin
<1>3. \A y \in T : ~(y < x)
  BY <1>2 DEF R, OpToRel
<1> QED BY <1>3

(* Timestamps bounded by the clock have a greatest one.                    *)
LEMMA NewestExists ==
    ASSUME TypeOK, Clock, ValidCandidates # {}
    PROVE  Newest # {}
<1>1. ValidCandidates \subseteq OnDisk
  BY DEF ValidCandidates, OnDisk, RecoveryFiles, RecoverySlots
<1>2. \A f \in ValidCandidates : f.at \in Nat /\ f.at <= now
  BY <1>1, DiskClock
<1> DEFINE T == {now - f.at : f \in ValidCandidates}
<1>3. T \subseteq Nat /\ T # {}
  BY <1>2 DEF TypeOK
<1>4. PICK x \in T : \A y \in T : x <= y
  <2> HIDE DEF T
  <2> QED BY <1>3, LeastNatural
<1>5. PICK f \in ValidCandidates : x = now - f.at
  BY <1>4
<1>6. \A g \in ValidCandidates : g.at <= f.at
  <2> TAKE g \in ValidCandidates
  <2>1. x <= now - g.at
    BY <1>4
  <2> QED BY <2>1, <1>5, <1>2 DEF TypeOK
<1> QED BY <1>6 DEF Newest

(* Either the primary or a recovery file that lasts holds what is owed, so  *)
(* a load finds a state, and whichever it chooses has what is owed.         *)
LEMMA SafeLoads ==
    ASSUME TypeOK, Clock, NEW lost, Safe(lost), Owing
    PROVE  /\ LoadOutcomes # {}
           /\ \A b \in LoadOutcomes : Owed(lost) \subseteq b
<1>1. CASE Primary.kind = "good"
  BY <1>1 DEF LoadOutcomes, Safe, PrimaryInv, Covered
<1>2. CASE Primary.kind # "good"
  <2>1. PICK S : S = Owed(lost)
    OBVIOUS
  <2>2. PICK g \in ValidCandidates : Fresh(S, g)
    <3>1. CASE pc \in RotatePCs
      BY <2>1, <3>1, CandidateIff DEF Safe, PhaseInv, Fresh, Covered, RecoverySlots, Slots
    <3>2. CASE pc \notin RotatePCs
      BY <1>2, <2>1, <3>2, CandidateIff DEF Safe, PrimaryInv, Recoverable,
         Lasting, Fresh, Covered, RecoverySlots, Slots
    <3> QED BY <3>1, <3>2
  <2>3. Newest # {}
    BY <2>2, NewestExists
  <2>4. \A f \in Newest : S \subseteq f.body
    BY <2>2, CandidateTypes DEF Newest, Fresh, SafeFrom, Files
  <2> QED BY <1>2, <2>1, <2>2, <2>3, <2>4 DEF LoadOutcomes
<1> QED BY <1>1, <1>2

(* While no file has decayed, the invariant keeps every acknowledged update.*)
LEMMA InvSurvive == IInv => AckedSurvive /\ ShownSurvives
<1> SUFFICES ASSUME IInv, rots = 0 PROVE AckedSurvive /\ ShownSurvives
  BY DEF AckedSurvive, ShownSurvives
<1>1. TypeOK /\ Clock /\ Safe(NoUpdate)
  BY DEF IInv
<1>2. acked \subseteq Owed(NoUpdate)
  BY <1>1, OwedAll DEF Safe
<1>3. AckedSurvive
  BY <1>1, <1>2, SafeLoads DEF AckedSurvive, Owing
<1>4. ~CopyKeepsMtime => Owed(NoUpdate) = shown.body
  BY DEF Owed
<1>5. ShownSurvives
  BY <1>1, <1>4, SafeLoads DEF ShownSurvives, Owing
<1> QED BY <1>3, <1>5

(* A set without one element of another misses at most one.                 *)
LEMMA MissingOne ==
    ASSUME NEW A, NEW b, NEW u, A \ {u} \subseteq b
    PROVE  Cardinality(A \ b) <= 1
<1>1. A \ b = {} \/ A \ b = {u}
  OBVIOUS
<1>2. Cardinality({}) = 0 /\ Cardinality({u}) = 1
  BY FS_EmptySet, FS_Singleton
<1>3. Cardinality(A \ b) = 0 \/ Cardinality(A \ b) = 1
  BY <1>1, <1>2
<1> QED BY <1>3

(* Without the primary a load still finds all but one resolved update.      *)
LEMMA InvRot == IInv => RotLosesAtMostOne
<1> SUFFICES ASSUME IInv, rots <= 1, acked # {}
             PROVE  /\ LoadOutcomes # {}
                    /\ \A b \in LoadOutcomes : Cardinality(acked \ b) <= 1
  BY DEF RotLosesAtMostOne
<1>1. TypeOK /\ Clock
  BY DEF IInv
<1>2. rots = 0 \/ rots = 1
  BY <1>1 DEF TypeOK
<1>3. PICK lost \in Losses : Safe(lost) /\ acked \ {lost} \subseteq Owed(lost)
  <2>1. CASE rots = 0
    BY <1>1, <2>1, OwedAll DEF IInv, Safe, Losses
  <2>2. CASE rots = 1
    BY <2>2 DEF IInv, Owed
  <2> QED BY <1>2, <2>1, <2>2
<1>4. /\ LoadOutcomes # {}
      /\ \A b \in LoadOutcomes : acked \ {lost} \subseteq b
  BY <1>1, <1>3, SafeLoads DEF Owing
<1> QED BY <1>4, MissingOne

(* An update whose promise resolved is in every state a later load can     *)
(* return, and a load does succeed: after any failing file-system calls,   *)
(* any deaths of the process inside #write or #restoreCandidate, and       *)
(* whether or not copyFile keeps timestamps.                               *)
THEOREM AckedUpdatesSurvive == Spec => []AckedSurvive
BY InvHolds, InvSurvive, PTL

(* And every read of the running process sees it.                          *)
THEOREM AckedUpdatesVisible == Spec => []AckedStayVisible
<1>1. IInv => AckedStayVisible
  BY DEF IInv, Safe, ShownInv, AckedStayVisible
<1> QED BY <1>1, InvHolds, PTL

(* Where a copy is stamped with the current time, a load never takes back  *)
(* what a reader was shown: also an update that update() reported as       *)
(* failed after its rename, once a load has returned it.                   *)
THEOREM ShownStatesSurvive == Spec => []ShownSurvives
BY InvHolds, InvSurvive, PTL

(* One media fault, wherever it strikes between the calls of #write,       *)
(* #refreshBackup and #restoreCandidate, costs one resolved update at most *)
(* and never the load itself.                                              *)
THEOREM RotCostsOneUpdate == Spec => []RotLosesAtMostOne
BY InvHolds, InvRot, PTL

=============================================================================
