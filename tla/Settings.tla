------------------------------ MODULE Settings ------------------------------
(* How a setting travels: the renderer's optimistic patch and its single   *)
(* flush (savePreferencesPatch, flushPreferencePatch of                    *)
(* src/src/renderer/main.ts), the main process that merges, records and    *)
(* restores it (savePreferences, restoreHistory of                         *)
(* src/src/main/app-service.ts), and the metadata refreshes that other     *)
(* operations make in between.                                             *)
EXTENDS Naturals, Sequences, Functions

CONSTANTS SettingKeys,  \* the settings
          MaxEdits,     \* bound: values the user chooses
          MaxRevisions, \* bound: revisions kept; the code's is 2000
          MaxReads      \* bound: metadata refreshes

VARIABLES pStored,      \* preferences in the application state
          pHistory,     \* state.history, newest first
          pShown,       \* state.bootstrap.preferences in the renderer
          pPatch,       \* pendingPreferencePatch
          pFlight,      \* the savePreferences call in flight
          pRead,        \* the bootstrap call in flight: a refresh or a restore
          pEdits, pReads,\* counters
          pWanted,      \* history: the last value chosen for each setting
          pRefused      \* history: settings whose last choice was refused

settingsVars == <<pStored, pHistory, pShown, pPatch, pFlight, pRead, pEdits,
                  pReads, pWanted, pRefused>>

Nothing == [stage |-> "none"]
NoPatch == [k \in {} |-> 0]
Merge(old, patch) == [k \in DOMAIN old \cup DOMAIN patch |->
                         IF k \in DOMAIN patch THEN patch[k] ELSE old[k]]
Defaults == [k \in SettingKeys |-> 0]

SettingsInit ==
    /\ pStored = Defaults /\ pShown = Defaults /\ pWanted = Defaults
    /\ pHistory = <<>> /\ pPatch = NoPatch
    /\ pFlight = Nothing /\ pRead = Nothing
    /\ pEdits = 0 /\ pReads = 0 /\ pRefused = {}
-----------------------------------------------------------------------------
(* flushPreferencePatch takes the whole pending patch and leaves an empty  *)
(* one before it awaits the answer.                                        *)
FlushOnce(patch, first) ==
    /\ pFlight' = IF first THEN [stage |-> "sent", patch |-> patch] ELSE Nothing
    /\ pPatch' = IF first THEN NoPatch ELSE patch
FlushPreferencePatch(patch, first) ==
    /\ pFlight' = IF patch = NoPatch THEN Nothing
                  ELSE [stage |-> "sent", patch |-> patch]
    /\ pPatch' = NoPatch

(* A settings control changes: shown at once; a flush in flight will send  *)
(* it later.                                                               *)
SavePreferencesPatch(k) ==
    LET v == pEdits + 1
        patch == Merge(pPatch, [x \in {k} |-> v])
    IN /\ pEdits < MaxEdits /\ pEdits' = v
       /\ pShown' = [pShown EXCEPT ![k] = v]
       /\ pWanted' = [pWanted EXCEPT ![k] = v]
       /\ pRefused' = pRefused \ {k}
       /\ IF pFlight = Nothing THEN FlushPreferencePatch(patch, TRUE)
          ELSE pPatch' = patch /\ UNCHANGED pFlight
       /\ UNCHANGED <<pStored, pHistory, pRead, pReads>>

(* The main process: merge and record what was there before, unless        *)
(* nothing changed. An update answers with the state it made.              *)
RecordNone(snapshot) == pHistory
Record(snapshot) == SubSeq(<<snapshot>> \o pHistory, 1,
                           IF Len(pHistory) < MaxRevisions THEN Len(pHistory) + 1
                           ELSE MaxRevisions)
SavePreferences ==
    LET merged == Merge(pStored, pFlight.patch)
    IN /\ pFlight.stage = "sent"
       /\ pFlight' = [stage |-> "saved", patch |-> pFlight.patch, answer |-> merged]
       /\ IF merged = pStored THEN UNCHANGED <<pStored, pHistory>>
          ELSE pStored' = merged
               /\ pHistory' = Record([restorable |-> TRUE, before |-> pStored])
       /\ UNCHANGED <<pShown, pPatch, pRead, pEdits, pReads, pWanted, pRefused>>

(* The patch is refused as a whole: an editor path that is not approved,   *)
(* or a write that failed.                                                 *)
RefusePatch ==
    /\ pFlight.stage = "sent"
    /\ pFlight' = [pFlight EXCEPT !.stage = "refused"]
    /\ UNCHANGED <<pStored, pHistory, pShown, pPatch, pRead, pEdits, pReads, pWanted, pRefused>>

(* The answer: the saved preferences replace the shown ones, a refusal     *)
(* only makes a toast; the loop sends what has gathered since.             *)
PatchAnswered ==
    /\ pFlight.stage \in {"saved", "refused"}
    /\ IF pFlight.stage = "saved"
       THEN pShown' = pFlight.answer /\ UNCHANGED pRefused
       ELSE /\ UNCHANGED pShown
            /\ pRefused' = pRefused \cup (DOMAIN pFlight.patch \ DOMAIN pPatch)
    /\ FlushPreferencePatch(pPatch, FALSE)
    /\ UNCHANGED <<pStored, pHistory, pRead, pEdits, pReads, pWanted>>
-----------------------------------------------------------------------------
(* refreshMetadata, at the end of most operations.                         *)
RefreshMetadata ==
    /\ pRead = Nothing /\ pReads < MaxReads /\ pReads' = pReads + 1
    /\ pRead' = [stage |-> "read"]
    /\ UNCHANGED <<pStored, pHistory, pShown, pPatch, pFlight, pEdits, pWanted, pRefused>>

(* bootstrap reads the state, then reads the release identity, then        *)
(* answers: a save may come in between.                                    *)
BootstrapReads ==
    /\ pRead.stage = "read"
    /\ pRead' = [stage |-> "answer", value |-> pStored]
    /\ UNCHANGED <<pStored, pHistory, pShown, pPatch, pFlight, pEdits, pReads, pWanted, pRefused>>

BootstrapAnswered ==
    /\ pRead.stage = "answer" /\ pRead' = Nothing
    /\ pShown' = pRead.value
    /\ UNCHANGED <<pStored, pHistory, pPatch, pFlight, pEdits, pReads, pWanted, pRefused>>

(* Another settings revision: a tag, a filter, an identity, a recovery.    *)
RecordOther ==
    /\ pReads < MaxReads /\ pReads' = pReads + 1
    /\ pHistory' = Record([restorable |-> FALSE])
    /\ UNCHANGED <<pStored, pShown, pPatch, pFlight, pRead, pEdits, pWanted, pRefused>>

(* Restore a settings revision, or undo a restore from its notification:   *)
(* a snapshot that is not preferences is refused. The restore is itself    *)
(* recorded, and the metadata is read again.                               *)
RestoreHistory(i) ==
    /\ pRead = Nothing /\ pReads < MaxReads /\ pReads' = pReads + 1
    /\ IF pHistory[i].restorable
       THEN /\ pStored' = pHistory[i].before
            /\ pHistory' = Record([restorable |-> TRUE, before |-> pStored])
            /\ pWanted' = [k \in SettingKeys |->
                  IF k \in DOMAIN pPatch \cup (IF pFlight.stage = "sent"
                                               THEN DOMAIN pFlight.patch ELSE {})
                  THEN pWanted[k] ELSE pHistory[i].before[k]]
            /\ pRead' = [stage |-> "read"]
       ELSE UNCHANGED <<pStored, pHistory, pWanted, pRead>>
    /\ UNCHANGED <<pShown, pPatch, pFlight, pEdits, pRefused>>

SettingsNext ==
    \/ \E k \in SettingKeys : SavePreferencesPatch(k)
    \/ SavePreferences \/ RefusePatch \/ PatchAnswered
    \/ RefreshMetadata \/ BootstrapReads \/ BootstrapAnswered \/ RecordOther
    \/ \E i \in 1..Len(pHistory) : RestoreHistory(i)
-----------------------------------------------------------------------------
(* Every setting the user chose is stored once the flush has drained, in   *)
(* the order it was chosen, however the choices fell between the calls,    *)
(* unless a refusal was shown for it or a revision was restored over it.   *)
ChoicesStored ==
    pFlight = Nothing =>
        \A k \in SettingKeys : k \in pRefused \/ pStored[k] = pWanted[k]

(* A preference change never destroys the preferences it replaces: unless  *)
(* the last change is the default, a kept revision restores what was       *)
(* stored before it ("The restore was recorded as a new revision, so it    *)
(* can be undone", app-service.ts).                                        *)
PreviousRestorable ==
    [][pStored' # pStored =>
          \E i \in 1..Len(pHistory') :
             pHistory'[i].restorable /\ pHistory'[i].before = pStored]_settingsVars
=============================================================================
