---------------------------- MODULE RecordEditor ----------------------------
(* The renderer's editor of contacts, mailing lists, events and tasks        *)
(* (main.ts): one editor sheet over the list pages, its dirty baseline, the  *)
(* ownership of a save in flight, and the refreshes of the lists that saves, *)
(* deletions, restores and imports start.                                    *)
(*                                                                           *)
(* The fields of a form are one number, drawn fresh for every edit; 0 is an  *)
(* empty form.  A record is a uid with such fields in the main process       *)
(* (rStore) and in the lists on screen (rList).                              *)
EXTENDS Naturals, FiniteSets

CONSTANTS Uids,        \* uids of records, 1 to some number
          MaxFields,   \* bound on the numbers drawn
          MaxCalls     \* bound on the calls in flight

VARIABLES rEditor,     \* state.pimEditor, its form and its baseline
          rSlot,       \* state.confirmation
          rCalls,      \* calls in flight
          rStore,      \* records in the main process
          rList,       \* records in the renderer
          rFresh,      \* last number drawn
          rSafe,       \* fields that are not unsaved work
          rLost,       \* how unsaved work left the editor
          rMade,       \* uids created by each editor
          rBehind      \* an older list was applied over a newer record

recordVars == <<rEditor, rSlot, rCalls, rStore, rList, rFresh, rSafe, rLost, rMade, rBehind>>

NoEditor == [obj |-> 0]
NoUid == 0
(* Not created yet, and deleted: a uid is never given out again. *)
Absent == 0
Deleted == MaxFields + 1
Present(list) == {u \in Uids : list[u] \notin {Absent, Deleted}}
Fields(list, uid) == IF uid \in Present(list) THEN list[uid] ELSE 0

RecordInit ==
    /\ rEditor = NoEditor /\ rSlot = [kind |-> "none"] /\ rCalls = {}
    /\ rFresh = 1 /\ rStore = [u \in Uids |-> IF u = 1 THEN 1 ELSE Absent]
    /\ rList = rStore /\ rSafe = {0, 1} /\ rLost = {} /\ rMade = {} /\ rBehind = FALSE

Draw == rFresh < MaxFields /\ rFresh' = rFresh + 1
NoDialog == rSlot.kind = "none"
Busy(kinds) == \E c \in rCalls : c.kind \in kinds
MayCall == Cardinality(rCalls) < MaxCalls
IsOpen == rEditor.obj # 0
(* updatePimEditorDirty. *)
Dirty == IsOpen /\ rEditor.fields # rEditor.base
Leave(how) ==
    rLost' = IF ~IsOpen \/ rEditor.fields \in rSafe THEN rLost ELSE rLost \cup {how}

-----------------------------------------------------------------------------
(* render keeps what is typed across a repaint: it copies the fields of the  *)
(* form on the page into the form it paints, of whichever record that is.    *)
CarriedFields(uid) == IF IsOpen THEN rEditor.fields ELSE Fields(rList, uid)
(* beginPimEditor: the baseline is taken from the form after it was painted. *)
BeginEditor(uid, how) ==
    /\ Draw /\ Leave(how)
    /\ LET f == CarriedFields(uid)
       IN rEditor' = [obj |-> rFresh + 1, uid |-> uid, fields |-> f, base |-> f, record |-> Fields(rList, uid)]
    /\ rSafe' = IF IsOpen THEN rSafe \cup {rEditor.fields} ELSE rSafe

(* requestPimEditorOpen: "open-pim-editor" and "edit-pim". *)
RequestOpen(uid) ==
    /\ NoDialog /\ uid \in {NoUid} \cup Present(rList)
    /\ ~(IsOpen /\ rEditor.uid = uid)
    /\ IF Dirty
       THEN rSlot' = [kind |-> "replace-pim-editor", uid |-> uid] /\ UNCHANGED <<rEditor, rFresh, rSafe, rLost>>
       ELSE BeginEditor(uid, "silent") /\ UNCHANGED rSlot
    /\ UNCHANGED <<rCalls, rStore, rList, rMade, rBehind>>

(* requestPimEditorClose. *)
RequestClose ==
    /\ NoDialog /\ IsOpen
    /\ IF Dirty
       THEN rSlot' = [kind |-> "discard-pim-editor"] /\ UNCHANGED <<rEditor, rLost>>
       ELSE rEditor' = NoEditor /\ Leave("silent") /\ UNCHANGED rSlot
    /\ UNCHANGED <<rCalls, rStore, rList, rFresh, rSafe, rMade, rBehind>>

Cancel ==
    /\ ~NoDialog /\ rSlot' = [kind |-> "none"]
    /\ UNCHANGED <<rEditor, rCalls, rStore, rList, rFresh, rSafe, rLost, rMade, rBehind>>
ConfirmDiscard ==
    /\ rSlot.kind = "discard-pim-editor" /\ rSlot' = [kind |-> "none"]
    /\ rEditor' = NoEditor /\ Leave("discard-pim-editor")
    /\ UNCHANGED <<rCalls, rStore, rList, rFresh, rSafe, rMade, rBehind>>
ConfirmReplace ==
    /\ rSlot.kind = "replace-pim-editor" /\ rSlot' = [kind |-> "none"]
    /\ BeginEditor(rSlot.uid, "replace-pim-editor")
    /\ UNCHANGED <<rCalls, rStore, rList, rMade, rBehind>>

(* The sheet is inert while a save is in flight. *)
Edit ==
    /\ NoDialog /\ IsOpen /\ ~Busy({"save"}) /\ Draw
    /\ rEditor' = [rEditor EXCEPT !.fields = rFresh + 1]
    /\ UNCHANGED <<rSlot, rCalls, rStore, rList, rSafe, rLost, rMade, rBehind>>

-----------------------------------------------------------------------------
(* saveContactForm, saveMailingListForm, saveCalendarEventForm, saveTaskForm *)
(* up to their call: an update if the record is in the list, a creation      *)
(* otherwise.  claimPimSave keeps the editor that owns the save.             *)
AlwaysNew == FALSE
Existing == rEditor.uid \in Present(rList)
Save ==
    /\ NoDialog /\ IsOpen /\ MayCall /\ ~Busy({"save"}) /\ rEditor.fields # 0
    /\ rCalls' = rCalls \cup {[kind |-> "save", at |-> "main", owner |-> rEditor.obj, fields |-> rEditor.fields,
                               uid |-> IF Existing THEN rEditor.uid ELSE NoUid, list |-> rList]}
    /\ UNCHANGED <<rEditor, rSlot, rStore, rList, rFresh, rSafe, rLost, rMade, rBehind>>

(* The uid of a new record, one never used before. *)
NextUid == Cardinality({u \in Uids : rStore[u] # Absent}) + 1
(* The main process's part; it refuses to update a record that is gone.  The *)
(* lists it answers to the refresh that follows are read later.              *)
MainSaves(call) ==
    /\ call \in rCalls /\ call.kind = "save" /\ call.at = "main"
    /\ \/ rCalls' = rCalls \ {call} /\ UNCHANGED <<rStore, rSafe, rMade>>
       \/ \E u \in Uids :
            /\ IF call.uid = NoUid THEN u = NextUid
                                   ELSE u = call.uid /\ u \in Present(rStore)
            /\ rStore' = [rStore EXCEPT ![u] = call.fields]
            /\ rSafe' = rSafe \cup {call.fields}
            /\ rMade' = IF call.uid = NoUid THEN rMade \cup {<<call.owner, u>>} ELSE rMade
            /\ rCalls' = (rCalls \ {call}) \cup {[call EXCEPT !.at = "saved", !.uid = u]}
    /\ UNCHANGED <<rEditor, rSlot, rList, rFresh, rLost, rBehind>>

(* refreshPimData asks for five lists and applies them when all have come:   *)
(* what is applied was read some time earlier.                               *)
ReadsLists(call) ==
    /\ call \in rCalls
    /\ \/ call.kind = "save" /\ call.at = "saved"
       \/ call.kind = "refresh" /\ call.at = "main"
    /\ rCalls' = (rCalls \ {call}) \cup {[call EXCEPT !.at = "lists", !.list = rStore]}
    /\ UNCHANGED <<rEditor, rSlot, rStore, rList, rFresh, rSafe, rLost, rMade, rBehind>>
Applied(call) ==
    /\ rList' = call.list
    /\ rBehind' = (rBehind \/ \E u \in Uids : rList[u] # call.list[u] /\ rList[u] = rStore[u])

ClosedBy(call) == IF rEditor.obj = call.owner THEN Leave("silent") ELSE rLost' = rLost \cup {"another's save"}
AnyEditor(call) == IsOpen
OwnsPimSaveEditor(call) == rEditor.obj = call.owner
(* finishPimSave: close the editor that was saved; if the lists could not be *)
(* read keep it open, now as the editor of the saved record.                 *)
SaveFinished(call) ==
    /\ call \in rCalls /\ call.kind = "save" /\ call.at = "lists"
    /\ rCalls' = rCalls \ {call}
    /\ \/ /\ Applied(call)
          /\ IF OwnsPimSaveEditor(call) THEN rEditor' = NoEditor /\ ClosedBy(call) ELSE UNCHANGED <<rEditor, rLost>>
       \/ /\ rList' = [rList EXCEPT ![call.uid] = call.fields]
          /\ rEditor' = IF OwnsPimSaveEditor(call)
                        THEN [rEditor EXCEPT !.uid = call.uid, !.base = rEditor.fields, !.record = rEditor.fields]
                        ELSE rEditor
          /\ UNCHANGED <<rLost, rBehind>>
    /\ UNCHANGED <<rSlot, rStore, rFresh, rSafe, rMade>>

(* deletePimEntity, restorePimEntity, imports, "complete-task" and the retry *)
(* of ensurePimData: a change in the main process, then a refresh.           *)
ChangeRecords ==
    /\ MayCall /\ ~Busy({"refresh"})
    /\ NoDialog
    /\ \/ UNCHANGED rStore
       \/ \E u \in Present(rStore) : rStore' = [rStore EXCEPT ![u] = Deleted]
    /\ rCalls' = rCalls \cup {[kind |-> "refresh", at |-> "main", list |-> rList]}
    /\ UNCHANGED <<rEditor, rSlot, rList, rFresh, rSafe, rLost, rMade, rBehind>>
Refreshed(call) ==
    /\ call \in rCalls /\ call.kind = "refresh" /\ call.at = "lists"
    /\ rCalls' = rCalls \ {call}
    /\ Applied(call) \/ UNCHANGED <<rList, rBehind>>
    /\ UNCHANGED <<rEditor, rSlot, rStore, rFresh, rSafe, rLost, rMade>>

RecordNext ==
    \/ \E u \in Uids \cup {NoUid} : RequestOpen(u)
    \/ RequestClose \/ Cancel \/ ConfirmDiscard \/ ConfirmReplace \/ Edit \/ Save \/ ChangeRecords
    \/ \E c \in rCalls : MainSaves(c) \/ ReadsLists(c) \/ SaveFinished(c) \/ Refreshed(c)

-----------------------------------------------------------------------------
(* Fields the user typed and the main process has not stored leave the       *)
(* editor only when the discard dialog was confirmed: the answer of a save   *)
(* closes the editor that was saved and no other, and never takes newer      *)
(* edits with it.                                                            *)
EditsDecided == rLost \subseteq {"discard-pim-editor", "replace-pim-editor"}

(* An editor opened for a new record creates one record, also when the       *)
(* refresh after its save fails and it is saved again - unless an older list *)
(* was applied over the newer record in between, or the record was deleted.  *)
CreatesOnce ==
    \A m, n \in rMade : m[1] = n[1] /\ {m[2], n[2]} \subseteq Present(rStore) /\ ~rBehind => m = n

(* A form that was not edited shows the record it will be saved to. *)
FormShowsRecord == IsOpen /\ ~Dirty => rEditor.fields = rEditor.record
=============================================================================
