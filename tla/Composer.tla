------------------------------ MODULE Composer ------------------------------
(* The renderer's message composer (main.ts): one composer, one confirmation *)
(* dialog, and the calls to the main process that are still in flight while  *)
(* the user goes on typing.                                                  *)
(*                                                                           *)
(* A text is a number drawn fresh for every edit; a composer object is the   *)
(* number drawn when it was created.  cSafe holds the texts that are not the *)
(* user's unsaved work: what a composer started with, and what the main      *)
(* process stored, queued or handed to the server.                           *)
EXTENDS Naturals, FiniteSets

CONSTANTS Accounts,   \* the accounts configured at the start
          MaxTexts,   \* bound on the numbers drawn
          MaxPending  \* bound on the calls in flight

VARIABLES cCompose,   \* state.compose
          cSlot,      \* state.confirmation
          cCalls,     \* calls in flight
          cDrafts,    \* the main process's drafts
          cAccounts,  \* bootstrap.accounts
          cFresh,     \* the last number drawn
          cSafe,      \* texts that are not unsaved work
          cLost,      \* how unsaved work left the composer
          cTold,      \* composers and texts whose delivery was reported to the user
          cTwice,     \* those delivered again after that report
          cOpen       \* the window is open

composerVars == <<cCompose, cSlot, cCalls, cDrafts, cAccounts, cFresh, cSafe, cLost, cTold, cTwice, cOpen>>

None == [kind |-> "none"]
(* What the form holds, as far as sending asks: recipients and a subject. *)
Forms == {"bare", "untitled", "full"}
Texts == 0..MaxTexts
Decisions == {"discard-compose", "replace-compose", "close-window", "remove-account"}

ComposerOf(account, text, base, draft, form, obj) ==
    [kind |-> "composer", account |-> account, text |-> text, base |-> base,
     draft |-> draft, form |-> form, obj |-> obj]

ComposerInit ==
    /\ cCompose = None /\ cSlot = None /\ cCalls = {} /\ cDrafts = {}
    /\ cAccounts = Accounts /\ cFresh = 0 /\ cSafe = {} /\ cLost = {}
    /\ cTold = {} /\ cTwice = {} /\ cOpen = TRUE

-----------------------------------------------------------------------------
(* composeFingerprint and composerIsDirty. *)
ComposerIsDirty == cCompose # None /\ cCompose.text # cCompose.base
Draw == cFresh < MaxTexts /\ cFresh' = cFresh + 1
Busy(kinds) == \E c \in cCalls : c.kind \in kinds
(* The dialog covers the window: the user reaches nothing behind it. *)
UserActs == cOpen /\ cSlot = None
MayCall == Cardinality(cCalls) < MaxPending

(* The composer on screen is given up for another one, or for none. *)
Leave(how) ==
    cLost' = IF cCompose = None \/ cCompose.text \in cSafe THEN cLost ELSE cLost \cup {how}

(* beginComposer: a fresh draft of an existing account, filled in from the   *)
(* message, the mailto link and the signature before the baseline is taken.  *)
BeginComposer(account, form, how) ==
    /\ Draw
    /\ Leave(how)
    /\ cCompose' = ComposerOf(account, cFresh + 1, cFresh + 1, 0, form, cFresh + 1)
    /\ cSafe' = cSafe \cup {cFresh + 1}

(* openComposer, from a button, a shortcut or the palette, and from a mailto *)
(* link that the system may hand over at any time.                           *)
OpenComposer(account, form) ==
    \/ /\ ComposerIsDirty
       /\ cSlot' = [kind |-> "replace-compose", account |-> account, form |-> form]
       /\ UNCHANGED <<cCompose, cFresh, cSafe, cLost>>
    \/ /\ ~ComposerIsDirty
       /\ BeginComposer(account, form, "silent")
       /\ UNCHANGED cSlot

Compose(account, form) ==
    /\ UserActs /\ account \in cAccounts
    /\ OpenComposer(account, form)
    /\ UNCHANGED <<cCalls, cDrafts, cAccounts, cTold, cTwice, cOpen>>

(* handleMailtoActivation: without an account the link waits for the setup. *)
Mailto(account, form) ==
    /\ cOpen /\ account \in cAccounts
    /\ OpenComposer(account, form)
    /\ UNCHANGED <<cCalls, cDrafts, cAccounts, cTold, cTwice, cOpen>>

(* Typing, choosing a sender identity, removing an attachment: the input     *)
(* listener runs captureComposer on every change.                            *)
Edit(form) ==
    /\ UserActs /\ cCompose # None /\ Draw
    /\ cCompose' = [cCompose EXCEPT !.text = cFresh + 1, !.form = form]
    /\ UNCHANGED <<cSlot, cCalls, cDrafts, cAccounts, cSafe, cLost, cTold, cTwice, cOpen>>

(* applyIdentities drops a removed identity from the open draft, which then  *)
(* differs from its baseline without any edit.                               *)
IdentityRemoved ==
    /\ UserActs /\ cCompose # None /\ Draw
    /\ cCompose' = [cCompose EXCEPT !.text = cFresh + 1]
    /\ cSafe' = IF cCompose.text \in cSafe THEN cSafe \cup {cFresh + 1} ELSE cSafe
    /\ UNCHANGED <<cSlot, cCalls, cDrafts, cAccounts, cLost, cTold, cTwice, cOpen>>

-----------------------------------------------------------------------------
SaveOnlyExclusive == ~Busy({"save"})
Exclusive == ~Busy({"send", "save"})
Persisted(id) == {d \in cDrafts : d.id = id}
Submitted(kind) ==
    [kind |-> kind, at |-> "main", compose |-> cCompose, snapshot |-> Persisted(cCompose.draft), outcome |-> "none"]

(* sendComposer up to its first await. *)
SendComposer(confirmed) ==
    /\ Exclusive
    /\ cCompose # None /\ cCompose.form # "bare"
    /\ \/ /\ cCompose.form = "untitled" /\ ~confirmed
          /\ cSlot' = [kind |-> "send-empty-subject"] /\ UNCHANGED cCalls
       \/ /\ cCompose.form = "full" \/ confirmed
          /\ MayCall /\ cSlot' = None /\ cCalls' = cCalls \cup {Submitted("send")}
    /\ UNCHANGED <<cCompose, cDrafts, cAccounts, cFresh, cSafe, cLost, cTold, cTwice, cOpen>>

Send == UserActs /\ SendComposer(FALSE)

(* saveComposerDraft up to its first await. *)
SaveDraft ==
    /\ UserActs /\ MayCall /\ Exclusive /\ cCompose # None
    /\ cCalls' = cCalls \cup {Submitted("save")}
    /\ UNCHANGED <<cCompose, cSlot, cDrafts, cAccounts, cFresh, cSafe, cLost, cTold, cTwice, cOpen>>

(* The main process's part of sendMessage and saveDraft, seen from here: it  *)
(* refuses a removed account; otherwise the message is delivered or queued   *)
(* and its draft removed, or it is rejected and kept as a draft, under its   *)
(* own id if the stored draft is still the one read at the start.            *)
Reported(call) == <<call.compose.obj, call.compose.text>>
Stored(id, call) ==
    {d \in cDrafts : d.id # id} \cup {[id |-> id, account |-> call.compose.account, text |-> call.compose.text]}
MainAnswers(call) ==
    /\ call \in cCalls /\ call.kind \in {"send", "save"} /\ call.at = "main"
    /\ LET id == IF call.compose.draft = 0 THEN cFresh + 1 ELSE call.compose.draft
           unchanged == Persisted(call.compose.draft) = call.snapshot
           Answer(outcome) == cCalls' = (cCalls \ {call}) \cup {[call EXCEPT !.at = "answered", !.outcome = outcome]}
       IN \/ /\ Answer("failed") /\ UNCHANGED <<cDrafts, cFresh, cSafe, cTwice>>
          \/ /\ call.kind = "send" /\ call.compose.account \in cAccounts
             /\ Answer("taken")
             /\ cDrafts' = IF unchanged THEN cDrafts \ call.snapshot ELSE cDrafts
             /\ cSafe' = cSafe \cup {call.compose.text}
             /\ cTwice' = IF Reported(call) \in cTold THEN cTwice \cup {Reported(call)} ELSE cTwice
             /\ UNCHANGED cFresh
          \/ /\ call.kind = "send" /\ call.compose.account \in cAccounts
             /\ Draw /\ Answer("rejected")
             /\ cDrafts' = Stored(IF unchanged THEN id ELSE cFresh + 1, call)
             /\ cSafe' = cSafe \cup {call.compose.text} /\ UNCHANGED cTwice
          \/ /\ call.kind = "save" /\ call.compose.account \in cAccounts
             /\ IF call.compose.draft = 0 THEN Draw ELSE UNCHANGED cFresh
             /\ cCalls' = (cCalls \ {call})
                    \cup {[call EXCEPT !.at = "answered", !.outcome = "saved", !.compose.draft = id]}
             /\ cDrafts' = Stored(id, call)
             /\ cSafe' = cSafe \cup {call.compose.text} /\ UNCHANGED cTwice
    /\ UNCHANGED <<cCompose, cSlot, cAccounts, cLost, cTold, cOpen>>

StillCurrent(call) == cCompose # None /\ cCompose.obj = call.compose.obj
EditsIgnored(call) == FALSE
NewerEditsRemain(call) == StillCurrent(call) /\ cCompose.text # call.compose.text

(* sendComposer after refreshMetadata: a rejected message keeps the composer *)
(* open, any other closes it unless it was edited meanwhile.  When the call  *)
(* or the refresh fails the composer stays as it is and an error is shown.   *)
SendAnswered(call) ==
    /\ cOpen /\ call \in cCalls /\ call.kind = "send" /\ call.at = "answered"
    /\ cCalls' = cCalls \ {call}
    /\ \/ UNCHANGED <<cCompose, cLost, cTold>>
       \/ /\ call.outcome = "rejected"
          /\ cCompose' = IF StillCurrent(call) THEN [cCompose EXCEPT !.base = call.compose.text] ELSE cCompose
          /\ UNCHANGED <<cLost, cTold>>
       \/ /\ call.outcome = "taken"
          /\ IF StillCurrent(call) /\ ~NewerEditsRemain(call)
             THEN Leave("silent") /\ cCompose' = None
             ELSE UNCHANGED <<cCompose, cLost>>
          /\ cTold' = cTold \cup {Reported(call)}
    /\ UNCHANGED <<cSlot, cDrafts, cAccounts, cFresh, cSafe, cTwice, cOpen>>

(* saveComposerDraft after refreshDraftAndOutbox. *)
SaveAnswered(call) ==
    /\ cOpen /\ call \in cCalls /\ call.kind = "save" /\ call.at = "answered"
    /\ cCalls' = cCalls \ {call}
    /\ \/ UNCHANGED <<cCompose, cLost>>
       \/ /\ call.outcome = "saved" /\ StillCurrent(call)
          /\ IF NewerEditsRemain(call)
             THEN /\ cCompose' = [cCompose EXCEPT !.draft = call.compose.draft, !.base = call.compose.text]
                  /\ UNCHANGED cLost
             ELSE /\ cCompose' = [call.compose EXCEPT !.base = call.compose.text]
                  /\ IF cCompose.text = call.compose.text THEN UNCHANGED cLost ELSE Leave("silent")
    /\ UNCHANGED <<cSlot, cDrafts, cAccounts, cFresh, cSafe, cTold, cTwice, cOpen>>

(* chooseComposeAttachments: the chosen files go to whichever composer is    *)
(* open when the dialog of the system ends.                                  *)
ChooseAttachments ==
    /\ UserActs /\ MayCall /\ cCompose # None /\ ~Busy({"choose"})
    /\ cCalls' = cCalls \cup {[kind |-> "choose"]}
    /\ UNCHANGED <<cCompose, cSlot, cDrafts, cAccounts, cFresh, cSafe, cLost, cTold, cTwice, cOpen>>
AttachmentsChosen ==
    /\ cOpen /\ Busy({"choose"})
    /\ cCalls' = {c \in cCalls : c.kind # "choose"}
    /\ \/ UNCHANGED <<cCompose, cFresh>>
       \/ cCompose # None /\ Draw /\ cCompose' = [cCompose EXCEPT !.text = cFresh + 1]
    /\ UNCHANGED <<cSlot, cDrafts, cAccounts, cSafe, cLost, cTold, cTwice, cOpen>>

(* "open-draft": loads the account and the draft, then replaces the composer *)
(* without asking.                                                           *)
OpenDraft(draft) ==
    /\ UserActs /\ MayCall /\ draft \in cDrafts /\ ~Busy({"open"})
    /\ cCalls' = cCalls \cup {[kind |-> "open", id |-> draft.id]}
    /\ UNCHANGED <<cCompose, cSlot, cDrafts, cAccounts, cFresh, cSafe, cLost, cTold, cTwice, cOpen>>
DraftOpened(call) ==
    /\ cOpen /\ call \in cCalls /\ call.kind = "open"
    /\ cCalls' = cCalls \ {call}
    /\ IF \E d \in cDrafts : d.id = call.id /\ d.account \in cAccounts
       THEN LET d == CHOOSE x \in cDrafts : x.id = call.id
            IN /\ Draw /\ Leave("open-draft")
               /\ \E form \in Forms :
                    cCompose' = ComposerOf(d.account, d.text, d.text, d.id, form, cFresh + 1)
       ELSE UNCHANGED <<cCompose, cFresh, cLost>>
    /\ UNCHANGED <<cSlot, cDrafts, cAccounts, cSafe, cTold, cTwice, cOpen>>

(* "delete-draft". *)
DeleteDraft(draft) ==
    /\ UserActs /\ draft \in cDrafts
    /\ cDrafts' = cDrafts \ {draft}
    /\ UNCHANGED <<cCompose, cSlot, cCalls, cAccounts, cFresh, cSafe, cLost, cTold, cTwice, cOpen>>

-----------------------------------------------------------------------------
(* "request-close-compose". *)
RequestClose ==
    /\ UserActs /\ cCompose # None
    /\ IF ComposerIsDirty
       THEN cSlot' = [kind |-> "discard-compose"] /\ UNCHANGED <<cCompose, cLost>>
       ELSE cCompose' = None /\ Leave("silent") /\ UNCHANGED cSlot
    /\ UNCHANGED <<cCalls, cDrafts, cAccounts, cFresh, cSafe, cTold, cTwice, cOpen>>

(* reviewWindowClose and the beforeunload listener: with unsaved work the    *)
(* window stays and, unless another dialog is already up, asks.              *)
ReviewWindowClose ==
    /\ cOpen
    /\ IF ComposerIsDirty
       THEN /\ cSlot = None /\ cSlot' = [kind |-> "close-window"]
            /\ UNCHANGED <<cOpen, cLost>>
       ELSE cOpen' = FALSE /\ Leave("silent") /\ UNCHANGED cSlot
    /\ UNCHANGED <<cCompose, cCalls, cDrafts, cAccounts, cFresh, cSafe, cTold, cTwice>>

AskRemoveAccount(account) ==
    /\ UserActs /\ account \in cAccounts
    /\ cSlot' = [kind |-> "remove-account", account |-> account]
    /\ UNCHANGED <<cCompose, cCalls, cDrafts, cAccounts, cFresh, cSafe, cLost, cTold, cTwice, cOpen>>

CancelConfirmation ==
    /\ cOpen /\ cSlot # None /\ cSlot' = None
    /\ UNCHANGED <<cCompose, cCalls, cDrafts, cAccounts, cFresh, cSafe, cLost, cTold, cTwice, cOpen>>

(* handleConfirmation clears the dialog, then does what it asked about to    *)
(* the composer that is open now.                                            *)
ConfirmDiscard ==
    /\ cOpen /\ cSlot.kind = "discard-compose"
    /\ cSlot' = None /\ cCompose' = None /\ Leave("discard-compose")
    /\ UNCHANGED <<cCalls, cDrafts, cAccounts, cFresh, cSafe, cTold, cTwice, cOpen>>
ConfirmReplace ==
    /\ cOpen /\ cSlot.kind = "replace-compose"
    /\ cSlot' = None
    /\ IF cSlot.account \in cAccounts
       THEN BeginComposer(cSlot.account, cSlot.form, "replace-compose")
       ELSE cCompose' = None /\ Leave("replace-compose") /\ UNCHANGED <<cFresh, cSafe>>
    /\ UNCHANGED <<cCalls, cDrafts, cAccounts, cTold, cTwice, cOpen>>
ConfirmSend ==
    /\ cOpen /\ cSlot.kind = "send-empty-subject"
    /\ SendComposer(TRUE)
ConfirmClose ==
    /\ cOpen /\ cSlot.kind = "close-window"
    /\ cSlot' = None /\ cOpen' = FALSE /\ Leave("close-window")
    /\ UNCHANGED <<cCompose, cCalls, cDrafts, cAccounts, cFresh, cSafe, cTold, cTwice>>
ConfirmRemove ==
    /\ cOpen /\ cSlot.kind = "remove-account" /\ MayCall /\ ~Busy({"remove"})
    /\ cSlot' = None
    /\ cCalls' = cCalls \cup {[kind |-> "remove", account |-> cSlot.account]}
    /\ cAccounts' = cAccounts \ {cSlot.account}
    /\ cDrafts' = {d \in cDrafts : d.account # cSlot.account}
    /\ UNCHANGED <<cCompose, cFresh, cSafe, cLost, cTold, cTwice, cOpen>>
AccountRemoved(call) ==
    /\ cOpen /\ call \in cCalls /\ call.kind = "remove"
    /\ cCalls' = cCalls \ {call}
    /\ IF cCompose # None /\ cCompose.account = call.account
       THEN cCompose' = None /\ Leave("remove-account")
       ELSE UNCHANGED <<cCompose, cLost>>
    /\ UNCHANGED <<cSlot, cDrafts, cAccounts, cFresh, cSafe, cTold, cTwice, cOpen>>

ComposerNext ==
    \/ \E a \in Accounts, f \in Forms : Compose(a, f) \/ Mailto(a, f)
    \/ \E f \in Forms : Edit(f)
    \/ IdentityRemoved \/ Send \/ SaveDraft \/ ChooseAttachments \/ AttachmentsChosen
    \/ \E d \in cDrafts : OpenDraft(d) \/ DeleteDraft(d)
    \/ \E c \in cCalls : MainAnswers(c) \/ SendAnswered(c) \/ SaveAnswered(c) \/ DraftOpened(c) \/ AccountRemoved(c)
    \/ RequestClose \/ ReviewWindowClose \/ CancelConfirmation
    \/ \E a \in Accounts : AskRemoveAccount(a)
    \/ ConfirmDiscard \/ ConfirmReplace \/ ConfirmSend \/ ConfirmClose \/ ConfirmRemove

-----------------------------------------------------------------------------
(* Text the user typed and nobody has stored, queued or sent leaves the      *)
(* composer only after the dialog that says so was confirmed, or when        *)
(* another draft is opened over it: no answer of a send or a save that       *)
(* arrives late, no mailto link and no window close takes it away.           *)
LossDecided == cLost \subseteq Decisions \cup {"open-draft"}

(* Closing or replacing a composer with unsaved work always asks first. *)
AlwaysAsks == cLost \subseteq Decisions

(* A message whose delivery was reported to the user is never delivered      *)
(* again from the same composer, however fast Send is pressed and however    *)
(* the answers of earlier calls arrive.                                      *)
DeliveredOnce == cTwice = {}
=============================================================================
