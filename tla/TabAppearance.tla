--------------------------- MODULE TabAppearance ---------------------------
(* The appearance editor of the workspace tabs (src/src/renderer/main.ts,  *)
(* lib/tab-appearance.ts, shared/tab-appearance-theme.ts): per-tab style   *)
(* overrides, the library of saved presets, the transfer of both as a      *)
(* theme file, and the copies in local storage.                            *)
(*                                                                         *)
(* A style is the set of the properties it overrides. A tab without an     *)
(* override has no entry; the validator of a theme refuses an entry that   *)
(* overrides nothing.                                                      *)
EXTENDS Naturals, FiniteSets, FiniteSetsExt, Functions

CONSTANTS StyledTabs,   \* tabs whose appearance is edited
          StyleKeys,    \* TAB_STYLE_KEYS
          PresetLimit,  \* TAB_APPEARANCE_PRESET_LIMIT
          MaxPresetIds  \* bound: presets ever created

VARIABLES aStyles,      \* tabPreferences.styles: a partial function
          aPresets,     \* appearancePresets.presets: id -> style
          aEditor,      \* the open editor: its tab and selected preset
          aConfirm,     \* the open dialog
          aImporting,   \* an import waits for the file dialog and the file
          aStored,      \* local storage: styles and presets
          aNextId       \* randomUUID

appearanceVars == <<aStyles, aPresets, aEditor, aConfirm, aImporting, aStored, aNextId>>

None == [kind |-> "none"]
BuiltIn == 0            \* a preset of BUILT_IN_TAB_APPEARANCE_PRESETS
EmptyMap == [x \in {} |-> {}]
Put(f, x, v) == [y \in DOMAIN f \cup {x} |-> IF y = x THEN v ELSE f[y]]
Without(f, x) == Restrict(f, DOMAIN f \ {x})

(* What a start reads: styles without overrides are dropped, and of the    *)
(* presets at most the limit is kept, the oldest first.                    *)
NormalizeStyles(styles) == Restrict(styles, {t \in DOMAIN styles : styles[t] # {}})
NormalizeLibrary(presets) ==
    Restrict(presets, {p \in DOMAIN presets :
        Cardinality({q \in DOMAIN presets : q < p}) < PresetLimit})

(* validateTabAppearanceThemeDocument: every style overrides something, at *)
(* most the limit of presets, and something to transfer.                   *)
ValidTheme(styles, presets) ==
    /\ \A t \in DOMAIN styles : styles[t] # {}
    /\ \A p \in DOMAIN presets : presets[p] # {}
    /\ Cardinality(DOMAIN presets) <= PresetLimit
    /\ DOMAIN styles # {} \/ DOMAIN presets # {}

AppearanceInit ==
    /\ aStyles = EmptyMap /\ aPresets = EmptyMap
    /\ aEditor = None /\ aConfirm = None /\ aImporting = FALSE
    /\ aStored = [styles |-> EmptyMap, presets |-> EmptyMap]
    /\ aNextId = 1
-----------------------------------------------------------------------------
UserActs == aConfirm = None
Editing == UserActs /\ aEditor # None
TabEdited == aEditor.tab

PersistTabs(styles) ==
    /\ aStyles' = styles /\ aStored' = [aStored EXCEPT !.styles = styles]
PersistAppearancePresets(presets) ==
    /\ aPresets' = presets /\ aStored' = [aStored EXCEPT !.presets = presets]

OpenTabAppearanceEditor(t) ==
    /\ UserActs /\ aEditor' = [kind |-> "editor", tab |-> t, preset |-> BuiltIn]
    /\ UNCHANGED <<aStyles, aPresets, aConfirm, aImporting, aStored, aNextId>>

CloseTabAppearanceEditor ==
    /\ Editing /\ aEditor' = None
    /\ UNCHANGED <<aStyles, aPresets, aConfirm, aImporting, aStored, aNextId>>

SelectPreset(p) ==
    /\ Editing /\ p \in {BuiltIn} \cup DOMAIN aPresets
    /\ aEditor' = [aEditor EXCEPT !.preset = p]
    /\ UNCHANGED <<aStyles, aPresets, aConfirm, aImporting, aStored, aNextId>>

(* updateTabColorControl, updateTabStyleControl: an invalid colour changes *)
(* nothing; a number is clamped, so it always overrides its property.      *)
SetTabStyleProperty(k) ==
    /\ Editing
    /\ PersistTabs(Put(aStyles, TabEdited,
           {k} \cup (IF TabEdited \in DOMAIN aStyles THEN aStyles[TabEdited] ELSE {})))
    /\ UNCHANGED <<aPresets, aEditor, aConfirm, aImporting, aNextId>>

(* The last override goes with its entry.                                  *)
LeavesEmpty(t, k) == Put(aStyles, t, aStyles[t] \ {k})
ResetTabStyleProperty(t, k) ==
    IF aStyles[t] \ {k} = {} THEN Without(aStyles, t) ELSE Put(aStyles, t, aStyles[t] \ {k})

ResetProperty(k) ==
    /\ Editing /\ TabEdited \in DOMAIN aStyles /\ k \in aStyles[TabEdited]
    /\ PersistTabs(ResetTabStyleProperty(TabEdited, k))
    /\ UNCHANGED <<aPresets, aEditor, aConfirm, aImporting, aNextId>>

ResetTabAppearance ==
    /\ Editing /\ TabEdited \in DOMAIN aStyles
    /\ PersistTabs(Without(aStyles, TabEdited))
    /\ UNCHANGED <<aPresets, aEditor, aConfirm, aImporting, aNextId>>

(* selectedAppearancePreset: a user preset that is gone applies nothing.   *)
ApplyPreset ==
    /\ Editing /\ aEditor.preset \in {BuiltIn} \cup DOMAIN aPresets
    /\ PersistTabs(Put(aStyles, TabEdited,
           IF aEditor.preset = BuiltIn THEN StyleKeys ELSE aPresets[aEditor.preset]))
    /\ UNCHANGED <<aPresets, aEditor, aConfirm, aImporting, aNextId>>

(* The library is full when it holds the limit.                            *)
FullTooLate == Cardinality(DOMAIN aPresets) > PresetLimit
LibraryFull == Cardinality(DOMAIN aPresets) >= PresetLimit

(* Save the tab's resolved style, which has every property.                *)
SavePreset ==
    /\ Editing /\ ~LibraryFull /\ aNextId <= MaxPresetIds
    /\ PersistAppearancePresets(Put(aPresets, aNextId, StyleKeys))
    /\ aEditor' = [aEditor EXCEPT !.preset = aNextId]
    /\ aNextId' = aNextId + 1
    /\ UNCHANGED <<aStyles, aConfirm, aImporting>>
-----------------------------------------------------------------------------
RequestDeletePreset ==
    /\ Editing /\ aEditor.preset \in DOMAIN aPresets
    /\ aConfirm' = [kind |-> "delete", preset |-> aEditor.preset]
    /\ UNCHANGED <<aStyles, aPresets, aEditor, aImporting, aStored, aNextId>>

RequestClearPresets ==
    /\ Editing /\ DOMAIN aPresets # {}
    /\ aConfirm' = [kind |-> "clear"]
    /\ UNCHANGED <<aStyles, aPresets, aEditor, aImporting, aStored, aNextId>>

(* withBusy: one import at a time; the file dialog is not modal.           *)
ImportTheme ==
    /\ Editing /\ ~aImporting /\ aImporting' = TRUE
    /\ UNCHANGED <<aStyles, aPresets, aEditor, aConfirm, aStored, aNextId>>

(* Cancelled, refused, or a validated theme, whose review replaces         *)
(* whatever dialog is open by then.                                        *)
ThemeRead ==
    /\ aImporting /\ aImporting' = FALSE
    /\ \/ UNCHANGED <<aConfirm, aNextId>>
       \/ \E tabs \in SUBSET StyledTabs, n \in 0..PresetLimit :
             LET styles == [t \in tabs |-> StyleKeys]
                 presets == [p \in aNextId..(aNextId + n - 1) |-> StyleKeys]
             IN /\ aNextId + n <= MaxPresetIds + 1
                /\ ValidTheme(styles, presets)
                /\ aConfirm' = [kind |-> "import", styles |-> styles, presets |-> presets]
                /\ aNextId' = aNextId + n
    /\ UNCHANGED <<aStyles, aPresets, aEditor, aStored>>

CancelConfirmation ==
    /\ aConfirm # None /\ aConfirm' = None
    /\ UNCHANGED <<aStyles, aPresets, aEditor, aImporting, aStored, aNextId>>

(* The editor's selection falls back to a built-in preset when the one it  *)
(* names goes.                                                             *)
SelectionKept(presets) == aEditor
SelectionAfter(presets) ==
    IF aEditor # None /\ aEditor.preset \notin {BuiltIn} \cup DOMAIN presets
    THEN [aEditor EXCEPT !.preset = BuiltIn] ELSE aEditor

ConfirmDelete ==
    /\ aConfirm.kind = "delete" /\ aConfirm' = None
    /\ PersistAppearancePresets(Without(aPresets, aConfirm.preset))
    /\ aEditor' = SelectionAfter(Without(aPresets, aConfirm.preset))
    /\ UNCHANGED <<aStyles, aImporting, aNextId>>

ConfirmClear ==
    /\ aConfirm.kind = "clear" /\ aConfirm' = None
    /\ PersistAppearancePresets(EmptyMap)
    /\ aEditor' = SelectionAfter(EmptyMap)
    /\ UNCHANGED <<aStyles, aImporting, aNextId>>

ConfirmImport ==
    /\ aConfirm.kind = "import" /\ aConfirm' = None
    /\ ValidTheme(aConfirm.styles, aConfirm.presets)
    /\ aStyles' = aConfirm.styles /\ aPresets' = aConfirm.presets
    /\ aStored' = [styles |-> aConfirm.styles, presets |-> aConfirm.presets]
    /\ aEditor' = IF aEditor = None THEN None ELSE [aEditor EXCEPT !.preset = BuiltIn]
    /\ UNCHANGED <<aImporting, aNextId>>

RestartAppearance ==
    /\ aStyles' = NormalizeStyles(aStored.styles)
    /\ aPresets' = NormalizeLibrary(aStored.presets)
    /\ aEditor' = None /\ aConfirm' = None /\ aImporting' = FALSE
    /\ UNCHANGED <<aStored, aNextId>>

AppearanceNext ==
    \/ \E t \in StyledTabs : OpenTabAppearanceEditor(t)
    \/ CloseTabAppearanceEditor
    \/ \E p \in 0..MaxPresetIds : SelectPreset(p)
    \/ \E k \in StyleKeys : SetTabStyleProperty(k) \/ ResetProperty(k)
    \/ ResetTabAppearance \/ ApplyPreset \/ SavePreset
    \/ RequestDeletePreset \/ RequestClearPresets \/ ImportTheme \/ ThemeRead
    \/ CancelConfirmation \/ ConfirmDelete \/ ConfirmClear \/ ConfirmImport
    \/ RestartAppearance
-----------------------------------------------------------------------------
(* What the export button offers is a theme the export accepts: whatever   *)
(* was set, reset, applied, saved, deleted or imported, the current styles *)
(* and presets make a document that validates, so the export never fails   *)
(* on the user's own appearance (exportTabAppearanceTheme).                *)
ExportValid ==
    DOMAIN aStyles # {} \/ DOMAIN aPresets # {} => ValidTheme(aStyles, aPresets)

(* The preset the editor has selected exists, also after it was deleted,   *)
(* the library cleared or a theme imported while the editor stayed open.   *)
SelectionExists == aEditor # None => aEditor.preset \in {BuiltIn} \cup DOMAIN aPresets

(* The next start shows the appearance of this one: nothing that was saved *)
(* is dropped by the bounds the stored copy is read with.                  *)
AppearanceSurvives ==
    /\ NormalizeStyles(aStored.styles) = aStyles
    /\ NormalizeLibrary(aStored.presets) = aPresets
=============================================================================
