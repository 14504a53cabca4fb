----------------------------- MODULE HistoryPane -----------------------------
(***************************************************************************)
(* The History page of renderer/main.ts and the calls it makes: the list   *)
(* of revisions, the changes of the one that is open, its label, and the   *)
(* preview and confirmation of a prune or a restore.  The main process     *)
(* answers reads from what it saw when it ran them, in any order.          *)
(***************************************************************************)
EXTENDS Naturals, Sequences, FiniteSets

CONSTANTS FirstRevisions, \* the ages of the revisions there are at first, oldest first
          MaxPaneCalls,   \* calls the user causes
          MaxUnderWay     \* calls under way at a time

VARIABLES vRepo,    \* the revisions: [hash, label, age], a later one with a higher hash
          vHashes,  \* the highest hash ever given
          vView,    \* what the page shows
          vCalls,   \* calls under way: done once the main process has the answer
          vSerial,  \* calls ever made
          vLate,    \* history: relabelled while a read that had seen the old label was under way
          vPruned   \* history: what each prune removed, and what its dialog had shown

paneVars == <<vRepo, vHashes, vView, vCalls, vSerial, vLate, vPruned>>

None == [kind |-> "none"]
NoData == [hash |-> 0, seq |-> 0, label |-> 0, days |-> 0, preview |-> None, shown |-> {}]
NoAnswer == [list |-> {}, revision |-> [hash |-> 0, label |-> 0, age |-> 0], preview |-> None]
Hashes(revisions) == {r.hash : r \in revisions}
Head_ == CHOOSE h \in Hashes(vRepo) : \A r \in vRepo : r.hash <= h

HistoryPaneInit ==
    /\ vRepo = {[hash |-> k, label |-> 0, age |-> FirstRevisions[k]] : k \in DOMAIN FirstRevisions}
    /\ vHashes = Len(FirstRevisions) /\ vCalls = {} /\ vSerial = 0 /\ vLate = {} /\ vPruned = {}
    /\ vView = [loaded |-> FALSE, list |-> {}, selected |-> 0, diff |-> 0, failed |-> FALSE, seq |-> 0,
                days |-> 1, preview |-> None, dialog |-> None]

-----------------------------------------------------------------------------
(* A call of the page.  "for" is the withBusy that holds on until it ends. *)
Call(op, for, data) == [id |-> vSerial + 1, op |-> op, for |-> for, data |-> data, done |-> FALSE, ok |-> FALSE, answer |-> NoAnswer]
Busy(key) == \E c \in vCalls : c.for = key
Labelling(hash) == \E c \in vCalls : c.op = "label" /\ c.data.hash = hash
Sends(op, for, data) == vCalls' = vCalls \cup {Call(op, for, data)} /\ vSerial' = vSerial + 1
UserMay == vView.dialog = None /\ vSerial < MaxPaneCalls /\ Cardinality(vCalls) < MaxUnderWay
Main == <<vRepo, vHashes, vLate, vPruned>>

(* activateTab and loadLocalRevisions *)
OpenHistory ==
    /\ UserMay /\ ~vView.loaded /\ Sends("list", "none", NoData)
    /\ UNCHANGED <<vView, Main>>

(* toggleLocalRevisionDiff *)
HideDiff(hash) ==
    /\ vView.dialog = None /\ vView.selected = hash /\ hash # 0
    /\ vView' = [vView EXCEPT !.seq = @ + 1, !.selected = 0, !.diff = 0, !.failed = FALSE]
    /\ UNCHANGED <<vCalls, vSerial, Main>>
ShowDiff(hash) ==
    /\ UserMay /\ vView.selected # hash
    /\ vView' = [vView EXCEPT !.seq = @ + 1, !.selected = hash, !.diff = 0, !.failed = FALSE]
    /\ Sends("diff", "none", [NoData EXCEPT !.hash = hash, !.seq = vView.seq + 1])
    /\ UNCHANGED Main

(* saveLocalRevisionLabel: another label than the one shown *)
SaveLabel(shown) ==
    /\ UserMay /\ vView.selected = shown.hash /\ ~Labelling(shown.hash)
    /\ Sends("label", "label", [NoData EXCEPT !.hash = shown.hash, !.label = (shown.label % 2) + 1])
    /\ UNCHANGED <<vView, Main>>

(* previewLocalHistoryPrune *)
Preview ==
    /\ UserMay /\ ~Busy("preview") /\ ~Busy("prune") /\ Sends("preview", "preview", [NoData EXCEPT !.days = vView.days])
    /\ UNCHANGED <<vView, Main>>

(* The retention age is changed: the preview goes. *)
ChangeRetention(days) ==
    /\ vView.dialog = None /\ days # vView.days /\ vView' = [vView EXCEPT !.days = days, !.preview = None]
    /\ UNCHANGED <<vCalls, vSerial, Main>>

RequestPrune ==
    /\ UserMay /\ vView.preview # None /\ vView.preview.eligible # {} /\ ~Busy("prune")
    /\ vView' = [vView EXCEPT !.dialog = [kind |-> "prune", preview |-> vView.preview]]
    /\ UNCHANGED <<vCalls, vSerial, Main>>
RequestRestore(hash) ==
    /\ UserMay /\ ~Busy("restore") /\ vView' = [vView EXCEPT !.dialog = [kind |-> "restore", hash |-> hash]]
    /\ UNCHANGED <<vCalls, vSerial, Main>>
CancelDialog ==
    /\ vView.dialog # None /\ vView' = [vView EXCEPT !.dialog = None]
    /\ UNCHANGED <<vCalls, vSerial, Main>>

(* pruneRequestFromPreview takes the preview the dialog was opened with. *)
PruneOfLatest(dialog) == IF vView.preview = None THEN dialog.preview ELSE vView.preview
PruneRequest(dialog) == dialog.preview

ConfirmPrune ==
    /\ vView.dialog.kind = "prune" /\ vView' = [vView EXCEPT !.dialog = None]
    /\ Sends("prune", "prune", [NoData EXCEPT !.preview = PruneRequest(vView.dialog), !.shown = vView.dialog.preview.eligible])
    /\ UNCHANGED Main
ConfirmRestore ==
    /\ vView.dialog.kind = "restore" /\ vView' = [vView EXCEPT !.dialog = None]
    /\ Sends("restore", "restore", [NoData EXCEPT !.hash = vView.dialog.hash])
    /\ UNCHANGED Main

-----------------------------------------------------------------------------
(* The main process: HistoryRepository as far as the page can tell.        *)
Eligible(days) ==
    Hashes({r \in vRepo : r.hash # Head_ /\ r.label = 0 /\ r.age >= days})
With(hash, revisions) == CHOOSE r \in revisions : r.hash = hash
Plus(revisions, last) == revisions \cup {[hash |-> last + 1, label |-> 0, age |-> 0]}

Ends(c, ok, answer) == vCalls' = (vCalls \ {c}) \cup {[c EXCEPT !.done = TRUE, !.ok = ok, !.answer = answer]}

(* Another change of the application's state is committed. *)
Snapshot ==
    /\ vHashes < Len(FirstRevisions) + 1 /\ vRepo' = Plus(vRepo, vHashes) /\ vHashes' = vHashes + 1
    /\ UNCHANGED <<vView, vCalls, vSerial, vLate, vPruned>>

MainFails(c) ==
    /\ ~c.done /\ Ends(c, FALSE, NoAnswer)
    /\ UNCHANGED <<vView, vSerial, Main>>
MainLists(c) ==
    /\ ~c.done /\ c.op \in {"list", "metadata"}
    /\ Ends(c, TRUE, [NoAnswer EXCEPT !.list = IF c.op = "list" THEN vRepo ELSE {}])
    /\ UNCHANGED <<vView, vSerial, Main>>
MainPreviews(c) ==
    /\ ~c.done /\ c.op = "preview"
    /\ Ends(c, TRUE, [NoAnswer EXCEPT !.preview = [kind |-> "preview", days |-> c.data.days, head |-> Head_, eligible |-> Eligible(c.data.days)]])
    /\ UNCHANGED <<vView, vSerial, Main>>
MainDiffs(c) ==
    /\ ~c.done /\ c.op = "diff" /\ c.data.hash \in Hashes(vRepo)
    /\ Ends(c, TRUE, [NoAnswer EXCEPT !.revision = With(c.data.hash, vRepo)])
    /\ UNCHANGED <<vView, vSerial, Main>>

(* label, and whether a read under way has seen the old one *)
MainLabels(c) ==
    /\ ~c.done /\ c.op = "label" /\ c.data.hash \in Hashes(vRepo)
    /\ vRepo' = {IF r.hash = c.data.hash THEN [r EXCEPT !.label = c.data.label] ELSE r : r \in vRepo}
    /\ Ends(c, TRUE, [NoAnswer EXCEPT !.revision = With(c.data.hash, vRepo')])
    /\ vLate' = IF \E d \in vCalls : d.done /\ d.op \in {"list", "diff"} THEN vLate \cup {c.data.hash} ELSE vLate
    /\ UNCHANGED <<vView, vSerial, vHashes, vPruned>>

(* prune: refused unless HEAD and the eligible revisions are still the
   request's.  What is kept gets new hashes, and the prune is recorded in a
   commit of its own. *)
MainPrunes(c) ==
    LET removed == Eligible(c.data.preview.days)
        kept == {r \in vRepo : r.hash \notin removed}
    IN /\ ~c.done /\ c.op = "prune"
       /\ c.data.preview.head = Head_ /\ c.data.preview.eligible = removed
       /\ vRepo' = Plus({[r EXCEPT !.hash = vHashes + @] : r \in kept}, 2 * vHashes)
       /\ vHashes' = 2 * vHashes + 1
       /\ vPruned' = vPruned \cup {[shown |-> c.data.shown, removed |-> removed]}
       /\ Ends(c, TRUE, NoAnswer) /\ UNCHANGED <<vView, vSerial, vLate>>

MainRestores(c) ==
    /\ ~c.done /\ c.op = "restore" /\ c.data.hash \in Hashes(vRepo)
    /\ vRepo' = Plus(vRepo, vHashes) /\ vHashes' = vHashes + 1
    /\ Ends(c, TRUE, NoAnswer) /\ UNCHANGED <<vView, vSerial, vLate, vPruned>>

-----------------------------------------------------------------------------
(* The page goes on with an answer. *)
Over(c) == vCalls' = vCalls \ {c} /\ UNCHANGED vSerial
Then(c, op) == vCalls' = (vCalls \ {c}) \cup {Call(op, c.for, NoData)} /\ vSerial' = vSerial + 1
Updated(list, revision) == {IF r.hash = revision.hash THEN revision ELSE r : r \in list}
Cleared == [vView EXCEPT !.loaded = FALSE, !.list = {}, !.selected = 0, !.diff = 0, !.failed = FALSE, !.preview = None]

ListArrives(c) ==
    /\ c.done /\ c.op = "list" /\ Over(c)
    /\ vView' = IF c.ok THEN [vView EXCEPT !.list = c.answer.list, !.loaded = TRUE] ELSE vView
    /\ UNCHANGED Main

AnyDiff(c) == TRUE
DiffWanted(c) == c.data.seq = vView.seq /\ c.data.hash = vView.selected
DiffArrives(c) ==
    /\ c.done /\ c.op = "diff" /\ Over(c)
    /\ vView' = CASE ~DiffWanted(c) -> vView
                  [] DiffWanted(c) /\ c.ok -> [vView EXCEPT !.diff = c.data.hash, !.list = Updated(@, c.answer.revision)]
                  [] DiffWanted(c) /\ ~c.ok -> [vView EXCEPT !.failed = TRUE]
    /\ UNCHANGED Main

LabelOfDiff(list, revision) == list
Labelled(list, revision) == Updated(list, revision)
LabelArrives(c) ==
    /\ c.done /\ c.op = "label" /\ Over(c)
    /\ vView' = IF c.ok THEN [vView EXCEPT !.list = Labelled(@, c.answer.revision)] ELSE vView
    /\ UNCHANGED Main

PreviewArrives(c) ==
    /\ c.done /\ c.op = "preview" /\ Over(c)
    /\ vView' = [vView EXCEPT !.preview = c.answer.preview]
    /\ UNCHANGED Main

(* After a prune the metadata is refreshed first; only then does the page
   forget what it shows and list again. *)
PruneArrives(c) ==
    /\ c.done /\ c.op = "prune" /\ IF c.ok THEN Then(c, "metadata") ELSE Over(c)
    /\ UNCHANGED <<vView, Main>>
MetadataArrives(c) ==
    /\ c.done /\ c.op = "metadata"
    /\ IF c.ok THEN Then(c, "list") /\ vView' = Cleared ELSE Over(c) /\ UNCHANGED vView
    /\ UNCHANGED Main
RestoreArrives(c) ==
    /\ c.done /\ c.op = "restore"
    /\ IF c.ok THEN Then(c, "list") /\ vView' = Cleared ELSE Over(c) /\ UNCHANGED vView
    /\ UNCHANGED Main

HistoryPaneNext ==
    \/ OpenHistory \/ Preview \/ RequestPrune \/ CancelDialog \/ ConfirmPrune \/ ConfirmRestore \/ Snapshot
    \/ \E r \in vView.list : HideDiff(r.hash) \/ ShowDiff(r.hash) \/ SaveLabel(r) \/ RequestRestore(r.hash)
    \/ \E days \in {1, 2} : ChangeRetention(days)
    \/ \E c \in vCalls :
          \/ MainFails(c) \/ MainLists(c) \/ MainPreviews(c) \/ MainDiffs(c) \/ MainLabels(c) \/ MainPrunes(c) \/ MainRestores(c)
          \/ ListArrives(c) \/ DiffArrives(c) \/ LabelArrives(c) \/ PreviewArrives(c)
          \/ PruneArrives(c) \/ MetadataArrives(c) \/ RestoreArrives(c)

-----------------------------------------------------------------------------
(* An open revision never stays blank: once the read of its changes has
   ended they are shown, or that they could not be read, however often other
   revisions were opened and closed meanwhile. *)
OpenFilled ==
    vView.selected # 0 /\ (~\E c \in vCalls : c.op = "diff" /\ c.data.seq = vView.seq) =>
        vView.failed \/ vView.diff = vView.selected

(* A prune removes the revisions its own confirmation dialog listed and no
   others, whatever was previewed, labelled or committed while it was open. *)
PruneAsShown == \A p \in vPruned : p.removed = p.shown

(* The list shows the labels the repository has, unless a label was saved
   over a read that had already seen the one before. *)
LabelsShown ==
    \A r \in vView.list, kept \in vRepo :
        kept.hash = r.hash /\ r.hash \notin vLate /\ ~Labelling(r.hash) => r.label = kept.label
=============================================================================
