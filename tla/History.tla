------------------------------- MODULE History -------------------------------
(***************************************************************************)
(* The local history: history-repository.ts keeps a Git commit of the      *)
(* state file for every change, app-service.ts restores and prunes.  A     *)
(* commit is named by what it and its ancestors hold, so a commit is here  *)
(* the chain that ends in it.  Snapshots, labels and prunes run one after  *)
(* the other on #queue; previews and reads do not wait for later ones.     *)
(* Another program may commit to the repository at any time.               *)
(***************************************************************************)
EXTENDS Naturals, Sequences, SequencesExt, FiniteSets

CONSTANTS MaxStates,    \* states of the application ever written
          MaxCommits,   \* commits ever made
          MaxTime       \* days

VARIABLES hState,       \* the state file
          hStore,       \* "idle", or "saving": the store waits for its snapshot
          hChain,       \* the commits from the first to HEAD
          hNotes,       \* the commits that carry a label
          hDirty,       \* the work tree has changes that are not committed
          hReady,       \* #ready: "none", "ok", or "failed" for good
          hQueue,       \* the operations waiting on #queue
          hPrune,       \* the running prune and its step
          hShown,       \* the preview the user sees
          hRestore,     \* the running restoreLocalRevision
          hJournal,     \* a prune that is to be journalled
          hNow,         \* today
          hStates,      \* states ever written
          hSerial,      \* commits ever made
          hAsked,       \* history: the revisions the user labelled
          hMeanwhile,   \* history: a change since the restore's own snapshot
          hReplacedLost \* history: a restore replaced a state that is in no commit

historyVars == <<hState, hStore, hChain, hNotes, hDirty, hReady, hQueue, hPrune, hShown, hRestore,
                 hJournal, hNow, hStates, hSerial, hAsked, hMeanwhile, hReplacedLost>>

Commits == {SubSeq(hChain, 1, i) : i \in DOMAIN hChain}
Trees == {hChain[i].tree : i \in DOMAIN hChain}
Nothing == [step |-> "none"]

HistoryInit ==
    /\ hState = 1 /\ hStore = "idle" /\ hChain = <<>> /\ hNotes = {} /\ hDirty = FALSE
    /\ hReady = "none" /\ hQueue = <<>> /\ hPrune = Nothing /\ hShown = Nothing
    /\ hRestore = Nothing /\ hJournal = FALSE /\ hNow = 0 /\ hStates = 1 /\ hSerial = 0
    /\ hAsked = {} /\ hMeanwhile = FALSE /\ hReplacedLost = FALSE

-----------------------------------------------------------------------------
(* A change of the state, whose update waits for the snapshot. *)
Writes(value) ==
    /\ hStore = "idle"
    /\ hState' = value /\ hStore' = "saving"
    /\ hQueue' = Append(hQueue, [kind |-> "snapshot", by |-> "store"])
    /\ hMeanwhile' = TRUE

Change ==
    /\ hStates < MaxStates
    /\ hStates' = hStates + 1 /\ Writes(hStates + 1)
    /\ UNCHANGED <<hChain, hNotes, hDirty, hReady, hPrune, hShown, hRestore, hNow, hSerial, hAsked,
                   hJournal, hReplacedLost>>

(* A label is asked for a revision that is listed. *)
AskLabel(commit) ==
    /\ Len(hQueue) < 2 /\ commit \in Commits
    /\ hQueue' = Append(hQueue, [kind |-> "label", commit |-> commit])
    /\ UNCHANGED <<hState, hStore, hChain, hNotes, hDirty, hReady, hPrune, hShown, hRestore, hNow,
                   hStates, hSerial, hAsked, hMeanwhile, hJournal, hReplacedLost>>

(* #previewAtCutoff *)
Eligible(chain, notes, cutoff) ==
    {SubSeq(chain, 1, i) : i \in {j \in 1..(Len(chain) - 1) :
        /\ chain[j].own /\ SubSeq(chain, 1, j) \notin notes /\ chain[j].at < cutoff}}

(* previewPrune only waits for what was queued before it: by then others may
   be queued or running. *)
Preview(cutoff) ==
    /\ hReady # "failed" /\ hChain # <<>>
    /\ hShown' = [step |-> "shown", head |-> hChain, cutoff |-> cutoff,
                  eligible |-> Eligible(hChain, hNotes, cutoff)]
    /\ UNCHANGED <<hState, hStore, hChain, hNotes, hDirty, hReady, hQueue, hPrune, hRestore, hNow,
                   hStates, hSerial, hAsked, hMeanwhile, hJournal, hReplacedLost>>

(* The user confirms what the preview shows. *)
AskPrune ==
    /\ Len(hQueue) < 2 /\ hShown # Nothing
    /\ hQueue' = Append(hQueue, [kind |-> "prune", shown |-> hShown])
    /\ UNCHANGED <<hState, hStore, hChain, hNotes, hDirty, hReady, hPrune, hShown, hRestore, hNow,
                   hStates, hSerial, hAsked, hMeanwhile, hJournal, hReplacedLost>>

-----------------------------------------------------------------------------
(* The head of #queue runs; a failure is caught and the next one runs. *)
Runs(kind) == hPrune = Nothing /\ hQueue # <<>> /\ Head(hQueue).kind = kind

(* #ensureRepository; a rejected #ready is kept. *)
Ensured == hReady \in {"none", "ok"} /\ hReady' = "ok"

Committed(tree, own) == [n |-> hSerial + 1, tree |-> tree, at |-> hNow, own |-> own]

(* What waits for a snapshot goes on; only the restore minds a failure. *)
SnapshotEnds(succeeded) ==
    /\ hQueue' = Tail(hQueue)
    /\ IF Head(hQueue).by = "store"
       THEN hStore' = "idle" /\ UNCHANGED <<hRestore, hMeanwhile>>
       ELSE /\ hRestore' = IF succeeded THEN [hRestore EXCEPT !.step = "replace"] ELSE Nothing
            /\ hMeanwhile' = FALSE /\ UNCHANGED hStore

Snapshot ==
    /\ Runs("snapshot") /\ Ensured
    /\ IF hChain # <<>> /\ Last(hChain).tree = hState
       THEN UNCHANGED <<hChain, hSerial>>
       ELSE /\ hSerial < MaxCommits /\ hSerial' = hSerial + 1
            /\ hChain' = Append(hChain, Committed(hState, TRUE))
    /\ hDirty' = FALSE /\ SnapshotEnds(TRUE)
    /\ UNCHANGED <<hState, hNotes, hPrune, hShown, hNow, hStates, hAsked, hJournal, hReplacedLost>>

(* The repository cannot be made, or a Git command fails, perhaps after the
   file was copied. *)
SnapshotFails ==
    /\ Runs("snapshot")
    /\ \/ hReady # "ok" /\ hReady' = "failed" /\ UNCHANGED hDirty
       \/ hReady = "ok" /\ hDirty' \in {hDirty, TRUE} /\ UNCHANGED hReady
    /\ SnapshotEnds(FALSE)
    /\ UNCHANGED <<hState, hChain, hNotes, hPrune, hShown, hNow, hStates, hSerial, hAsked, hJournal, hReplacedLost>>

(* label: #resolveCommit wants an ancestor of HEAD. *)
Label ==
    /\ Runs("label") /\ hQueue' = Tail(hQueue)
    /\ LET commit == Head(hQueue).commit
       IN IF commit \in Commits /\ hReady = "ok"
          THEN hNotes' = hNotes \cup {commit} /\ hAsked' = hAsked \cup {Last(commit).n}
          ELSE UNCHANGED <<hNotes, hAsked>>
    /\ UNCHANGED <<hState, hStore, hChain, hDirty, hReady, hPrune, hShown, hRestore, hNow, hStates,
                   hSerial, hMeanwhile, hJournal, hReplacedLost>>

(* The checks prune makes before it rewrites anything. *)
StillAsShown(shown) ==
    /\ hChain = shown.head
    /\ Eligible(hChain, hNotes, shown.cutoff) = shown.eligible /\ shown.eligible # {}
    /\ \A i \in DOMAIN hChain : hChain[i].own
    /\ ~hDirty

Retained(shown) ==
    {i \in DOMAIN hChain : SubSeq(hChain, 1, i) \notin shown.eligible}
(* The place of a retained commit among the retained ones. *)
Place(shown, i) == Cardinality({j \in Retained(shown) : j <= i})
Rewritten(shown) ==
    [k \in 1..Cardinality(Retained(shown)) |->
        hChain[CHOOSE i \in Retained(shown) : Place(shown, i) = k]]

(* The notes added to the rewritten commits. *)
CopiedNotes(shown) ==
    {SubSeq(Rewritten(shown), 1, Place(shown, i)) :
        i \in {j \in Retained(shown) : SubSeq(hChain, 1, j) \in hNotes}}

BeginPrune ==
    /\ Runs("prune")
    /\ LET shown == Head(hQueue).shown
       IN IF hReady = "ok" /\ StillAsShown(shown)
          THEN /\ hNotes' = hNotes \cup CopiedNotes(shown)
               /\ hPrune' = [step |-> "check", shown |-> shown,
                             to |-> Rewritten(shown), from |-> hChain]
               /\ UNCHANGED hQueue
          ELSE hQueue' = Tail(hQueue) /\ UNCHANGED <<hNotes, hPrune>>
    /\ UNCHANGED <<hState, hStore, hChain, hDirty, hReady, hShown, hRestore, hNow, hStates, hSerial,
                   hAsked, hMeanwhile, hJournal, hReplacedLost>>

PruneEnds == hPrune' = Nothing /\ hQueue' = Tail(hQueue)

(* The tree of HEAD is kept and HEAD is still the one that was checked. *)
CheckHead ==
    /\ hPrune.step = "check"
    /\ IF hChain = hPrune.from /\ Last(hPrune.to).tree = Last(hPrune.from).tree
       THEN hPrune' = [hPrune EXCEPT !.step = "swap"] /\ UNCHANGED hQueue
       ELSE PruneEnds
    /\ UNCHANGED <<hState, hStore, hChain, hNotes, hDirty, hReady, hShown, hRestore, hNow, hStates,
                   hSerial, hAsked, hMeanwhile, hJournal, hReplacedLost>>

AnyHead == TRUE

(* git update-ref with the old value *)
HeadUnmoved == hChain = hPrune.from

UpdateRef ==
    /\ hPrune.step = "swap" /\ PruneEnds
    /\ IF HeadUnmoved
       THEN hChain' = hPrune.to /\ hJournal' = TRUE
       ELSE UNCHANGED <<hChain, hJournal>>
    /\ UNCHANGED <<hState, hStore, hNotes, hDirty, hReady, hShown, hRestore, hNow, hStates, hSerial,
                   hAsked, hMeanwhile, hReplacedLost>>

(* pruneLocalHistory journals the prune in the state. *)
JournalPrune ==
    /\ hJournal /\ hStates < MaxStates
    /\ hJournal' = FALSE /\ hStates' = hStates + 1 /\ Writes(hStates + 1)
    /\ UNCHANGED <<hChain, hNotes, hDirty, hReady, hPrune, hShown, hRestore, hNow, hSerial, hAsked,
                   hReplacedLost>>

PruneFails ==
    /\ hPrune # Nothing /\ PruneEnds
    /\ UNCHANGED <<hState, hStore, hChain, hNotes, hDirty, hReady, hShown, hRestore, hNow, hStates,
                   hSerial, hAsked, hMeanwhile, hJournal, hReplacedLost>>

-----------------------------------------------------------------------------
(* restoreLocalRevision: the revision is read, the present state snapshotted
   once more, then replaced, then the restore is journalled. *)
BeginRestore(commit) ==
    /\ hRestore = Nothing /\ hReady = "ok" /\ Len(hQueue) < 2 /\ commit \in Commits
    /\ hRestore' = [step |-> "snapshot", tree |-> Last(commit).tree]
    /\ hMeanwhile' = FALSE
    /\ hQueue' = Append(hQueue, [kind |-> "snapshot", by |-> "restore"])
    /\ UNCHANGED <<hState, hStore, hChain, hNotes, hDirty, hReady, hPrune, hShown, hNow, hStates,
                   hSerial, hAsked, hJournal, hReplacedLost>>

Replace ==
    /\ hRestore.step = "replace" /\ Writes(hRestore.tree)
    /\ hReplacedLost' = (hReplacedLost \/ (hState \notin Trees /\ ~hMeanwhile))
    /\ hRestore' = [hRestore EXCEPT !.step = "journal"]
    /\ UNCHANGED <<hChain, hNotes, hDirty, hReady, hPrune, hShown, hNow, hStates, hSerial, hAsked, hJournal>>

Journal ==
    /\ hRestore.step = "journal" /\ hStates < MaxStates
    /\ hStates' = hStates + 1 /\ Writes(hStates + 1) /\ hRestore' = Nothing
    /\ UNCHANGED <<hChain, hNotes, hDirty, hReady, hPrune, hShown, hNow, hSerial, hAsked, hJournal, hReplacedLost>>

-----------------------------------------------------------------------------
(* Another program commits; a day passes; the process dies and starts. *)
ForeignCommit ==
    /\ hChain # <<>> /\ hSerial < MaxCommits /\ \A i \in DOMAIN hChain : hChain[i].own
    /\ hSerial' = hSerial + 1 /\ hChain' = Append(hChain, Committed(Last(hChain).tree, FALSE))
    /\ UNCHANGED <<hState, hStore, hNotes, hDirty, hReady, hQueue, hPrune, hShown, hRestore, hNow,
                   hStates, hAsked, hMeanwhile, hJournal, hReplacedLost>>

DayPasses ==
    /\ hNow < MaxTime /\ hNow' = hNow + 1
    /\ UNCHANGED <<hState, hStore, hChain, hNotes, hDirty, hReady, hQueue, hPrune, hShown, hRestore,
                   hStates, hSerial, hAsked, hMeanwhile, hJournal, hReplacedLost>>

Restart ==
    /\ hQueue # <<>> \/ hReady = "failed"
    /\ hStore' = "idle" /\ hReady' = "none" /\ hQueue' = <<>> /\ hPrune' = Nothing
    /\ hShown' = Nothing /\ hRestore' = Nothing /\ hJournal' = FALSE
    /\ UNCHANGED <<hState, hChain, hNotes, hDirty, hNow, hStates, hSerial, hAsked, hMeanwhile,
                   hReplacedLost>>

HistoryNext ==
    \/ Change \/ AskPrune \/ Snapshot \/ SnapshotFails \/ Label
    \/ \E commit \in Commits : AskLabel(commit) \/ BeginRestore(commit)
    \/ \E cutoff \in 1..hNow : Preview(cutoff)
    \/ BeginPrune \/ CheckHead \/ UpdateRef \/ JournalPrune \/ PruneFails
    \/ Replace \/ Journal \/ ForeignCommit \/ DayPasses \/ Restart

-----------------------------------------------------------------------------
Serials(chain) == {chain[i].n : i \in DOMAIN chain}

(* A revision leaves the history only in a prune whose confirmed preview
   listed it: not a newer one, not one that another program committed or that
   was labelled between the preview and the prune. *)
LostOnlyIfShown ==
    [][\A n \in Serials(hChain) \ Serials(hChain') :
          \E commit \in hPrune.shown.eligible : Last(commit).n = n]_historyVars

(* A label the user gave stays on its revision, also when a prune rewrites
   the commits, and keeps it from being pruned. *)
LabelsKept ==
    \A n \in hAsked : \E commit \in Commits : Last(commit).n = n /\ commit \in hNotes

(* "The prior current state remains available as another local revision": the
   state a restore replaces is in the history, even if its own snapshot had
   failed, unless it was written while the restore was under way. *)
RestoreKeepsPrevious == ~hReplacedLost
=============================================================================
