------------------------------ MODULE MCEditors ------------------------------
(***************************************************************************)
(* The window's editors for TLC: the mail composer and its signatures, the *)
(* record editor, the tabs, their appearance and the settings.  They share *)
(* no state, so their product shows nothing that one of them does not: a   *)
(* behaviour moves one of them, its focus, and the others rest.            *)
(***************************************************************************)
EXTENDS Naturals, Sequences, FiniteSets

CONSTANTS Accounts, MaxTexts, MaxPending, Uids, MaxFields, MaxCalls,
          Pages, NoPattern, NoTab, StyledTabs, StyleKeys, PresetLimit, MaxPresetIds,
          SettingKeys, MaxEdits, MaxRevisions, MaxReads,
          IdAccounts, Signatures, MaxIdentities, MaxBody

ASSUME EditorsAssumption ==
    /\ MaxFields \in Nat \ {0} /\ MaxRevisions \in Nat \ {0}
    /\ IsFiniteSet(Uids) /\ Uids = 1..Cardinality(Uids)
(* There is a first tab, and a style has properties to override. *)
ASSUME TabsAssumption ==
    /\ Len(Pages) \in Nat \ {0} /\ DOMAIN Pages = 1..Len(Pages)
    /\ StyleKeys # {} /\ PresetLimit \in Nat

(* The attribution and the text of a quote are no signatures. *)
ASSUME IdentitiesAssumption == Signatures \cap {"marker", "quote"} = {}

VARIABLES focus,
          cCompose, cSlot, cCalls, cDrafts, cAccounts, cFresh, cSafe, cLost, cTold, cTwice, cOpen,
          rEditor, rSlot, rCalls, rStore, rList, rFresh, rSafe, rLost, rMade, rBehind,
          tPrefs, tActive, tMenu, tInclude, tConfirm, tStored, tWaived,
          aStyles, aPresets, aEditor, aConfirm, aImporting, aStored, aNextId,
          pStored, pHistory, pShown, pPatch, pFlight, pRead, pEdits, pReads, pWanted, pRefused,
          iAccounts, iList, iNext, iCompose, iKept

composerVars == <<cCompose, cSlot, cCalls, cDrafts, cAccounts, cFresh, cSafe, cLost, cTold, cTwice,
                  cOpen>>
recordVars == <<rEditor, rSlot, rCalls, rStore, rList, rFresh, rSafe, rLost, rMade, rBehind>>
tabVars == <<tPrefs, tActive, tMenu, tInclude, tConfirm, tStored, tWaived>>
appearanceVars == <<aStyles, aPresets, aEditor, aConfirm, aImporting, aStored, aNextId>>
settingsVars == <<pStored, pHistory, pShown, pPatch, pFlight, pRead, pEdits, pReads, pWanted,
                  pRefused>>
identityVars == <<iAccounts, iList, iNext, iCompose, iKept>>

Composer == INSTANCE Composer
Record == INSTANCE RecordEditor
Tabs == INSTANCE Tabs
Appearance == INSTANCE TabAppearance
Settings == INSTANCE Settings
Identity == INSTANCE Identities

ThreePages == <<"mail", "calendar", "tasks">>

EditorsInit ==
    /\ focus \in {"composer", "record", "tabs", "appearance", "settings", "identities"}
    /\ Composer!ComposerInit /\ Record!RecordInit /\ Tabs!TabsInit
    /\ Appearance!AppearanceInit /\ Settings!SettingsInit /\ Identity!IdentityInit

EditorsNext ==
    /\ UNCHANGED focus
    /\ IF focus = "composer" THEN Composer!ComposerNext ELSE UNCHANGED composerVars
    /\ IF focus = "record" THEN Record!RecordNext ELSE UNCHANGED recordVars
    /\ IF focus = "tabs" THEN Tabs!TabsNext ELSE UNCHANGED tabVars
    /\ IF focus = "appearance" THEN Appearance!AppearanceNext ELSE UNCHANGED appearanceVars
    /\ IF focus = "settings" THEN Settings!SettingsNext ELSE UNCHANGED settingsVars
    /\ IF focus = "identities" THEN Identity!IdentityNext ELSE UNCHANGED identityVars

editorVars == <<composerVars, recordVars, tabVars, appearanceVars,
                settingsVars, identityVars, focus>>
EditorsSpec == EditorsInit /\ [][EditorsNext]_editorVars

-----------------------------------------------------------------------------
(* Typed text leaves the composer only after the dialog that says so or    *)
(* when another draft is opened over it, and unsaved fields of a record    *)
(* leave their editor only when the discard was confirmed: a late answer   *)
(* closes only its own editor (main.ts).                                   *)
TypedKept == Composer!LossDecided /\ Record!EditsDecided

(* Nothing is done twice from one editor: a message reported as delivered  *)
(* is not delivered again, and an editor for a new record creates one      *)
(* record, also when it is saved again after the refresh behind its save   *)
(* failed (sendComposer, claimPimSave in main.ts).                         *)
NothingTwice == Composer!DeliveredOnce /\ Record!CreatesOnce

(* The tabs and their appearance stay whole: a pinned tab is closed only   *)
(* by decision, the page on screen has its tab, a restart shows the strip  *)
(* as it was but for closed tabs that are also pinned, the exported        *)
(* appearance is valid, the selected preset exists, and the next start     *)
(* shows the same appearance (renderTabStrip, normalizeTabPreferences,     *)
(* tab-appearance.ts).                                                     *)
TabsKept ==
    /\ Tabs!PinnedProtected
    /\ Tabs!ActiveShown
    /\ Tabs!RestartKeepsStripButPinned
    /\ Appearance!ExportValid
    /\ Appearance!SelectionExists
    /\ Appearance!AppearanceSurvives

(* Every setting the user chose is stored once the patches are flushed,    *)
(* unless refused or restored over, and a change of preferences leaves a   *)
(* revision that restores those it replaced (flushPreferencePatch,         *)
(* updatePreferences in app-service.ts).                                   *)
SettingsKept == Settings!PreviousRestorable /\ []Settings!ChoicesStored

(* Every account has exactly one default identity, and switching           *)
(* identities never loses, moves or doubles a paragraph, unless a          *)
(* forwarded message holds the signature's text itself (identity-store.ts, *)
(* identities.ts).                                                         *)
IdentitiesSound == Identity!OneDefault /\ Identity!TextKeptButCopies
=============================================================================
