------------------------------ MODULE AppWindow ------------------------------
(***************************************************************************)
(* The main process and its one window: mail links that arrive on the      *)
(* command line or from a second instance, risky links whose review the    *)
(* main process keeps while the renderer asks the user, and what loading,  *)
(* closing and the order of messages between the two processes do to them. *)
(***************************************************************************)
EXTENDS Naturals, Sequences, FiniteSets

CONSTANTS MaxMailLinks, \* mail links ever activated
          MaxReviews,   \* reviews ever asked for
          MaxPendingReviews, \* MAX_PENDING_EXTERNAL_LINK_REVIEWS
          ReviewTtl,    \* EXTERNAL_LINK_REVIEW_TTL_MS
          MaxClock      \* ticks of the clock

VARIABLES wWindow,    \* mainWindow: "none", "loading" or "loaded"
          wRenderer,  \* state.phase in the renderer
          wAccount,   \* "none", "saved" (there is one) or "active" (it is selected)
          wMailto,    \* pendingMailto of the main process
          wInbox,     \* messages sent to the renderer and not yet handled
          wSlot,      \* state.pendingMailto of the renderer
          wDialog,    \* state.confirmation
          wCompose,   \* the composer: open, dirty, and the link it was opened for
          wReviews,   \* ExternalLinkReviewQueue: pending requests, numbered as they were asked for
          wCalls,     \* confirm and cancel calls under way
          wNow,
          wLinks,     \* mail links activated
          wAsked,     \* reviews asked for
          wSettled,   \* history: mail links the user has had or declined, or that another displaced
          wAgreed,    \* history: reviews the user confirmed
          wOpened     \* history: what went to the browser, and when it had to

windowVars == <<wWindow, wRenderer, wAccount, wMailto, wInbox, wSlot, wDialog, wCompose, wReviews, wCalls, wNow,
                wLinks, wAsked, wSettled, wAgreed, wOpened>>

NoLink == 0
NoDialog == [kind |-> "none", n |-> 0]
NoComposer == [open |-> FALSE, dirty |-> FALSE, link |-> NoLink]

WindowInit ==
    /\ wWindow = "none" /\ wRenderer = "none" /\ wAccount \in {"none", "saved"}
    /\ wMailto = <<>> /\ wInbox = <<>> /\ wSlot = NoLink /\ wDialog = NoDialog /\ wCompose = NoComposer
    /\ wReviews = {} /\ wCalls = {} /\ wNow = 0 /\ wLinks = 0 /\ wAsked = 0
    /\ wSettled = {} /\ wAgreed = {} /\ wOpened = <<>>

History == <<wSettled, wAgreed, wOpened>>

-----------------------------------------------------------------------------
(* deliverMailto, for process.argv and for a second instance: to a window
   that is loaded, or into the list that waits for it. *)
NotKept(n) ==
    /\ wInbox' = IF wWindow = "loaded" THEN Append(wInbox, [kind |-> "mailto", n |-> n]) ELSE wInbox
    /\ UNCHANGED wMailto
Deliver(n) ==
    IF wWindow = "loaded"
    THEN wInbox' = Append(wInbox, [kind |-> "mailto", n |-> n]) /\ UNCHANGED wMailto
    ELSE wMailto' = Append(wMailto, n) /\ UNCHANGED wInbox

ActivateMailto ==
    /\ wLinks < MaxMailLinks /\ wLinks' = wLinks + 1 /\ Deliver(wLinks')
    /\ UNCHANGED <<wWindow, wRenderer, wAccount, wSlot, wDialog, wCompose, wReviews, wCalls, wNow, wAsked, History>>

CreateWindow ==
    /\ wWindow = "none" /\ wWindow' = "loading" /\ wRenderer' = "loading"
    /\ UNCHANGED <<wAccount, wMailto, wInbox, wSlot, wDialog, wCompose, wReviews, wCalls, wNow, wLinks, wAsked, History>>

(* did-finish-load sends the links that waited, whether or not the renderer
   has its accounts yet. *)
DidFinishLoad ==
    /\ wWindow = "loading" /\ wWindow' = "loaded"
    /\ wInbox' = wInbox \o [k \in DOMAIN wMailto |-> [kind |-> "mailto", n |-> wMailto[k]]] /\ wMailto' = <<>>
    /\ UNCHANGED <<wRenderer, wAccount, wSlot, wDialog, wCompose, wReviews, wCalls, wNow, wLinks, wAsked, History>>

(* initialize: bootstrap is answered, or fails and is retried; then the
   preferred account is selected. *)
Initialized(phase) ==
    /\ wRenderer = "loading" /\ phase \in {"ready", "error"} /\ wRenderer' = phase
    /\ UNCHANGED <<wWindow, wAccount, wMailto, wInbox, wSlot, wDialog, wCompose, wReviews, wCalls, wNow, wLinks, wAsked, History>>
Retry ==
    /\ wRenderer = "error" /\ wRenderer' = "loading"
    /\ UNCHANGED <<wWindow, wAccount, wMailto, wInbox, wSlot, wDialog, wCompose, wReviews, wCalls, wNow, wLinks, wAsked, History>>
SelectPreferred ==
    /\ wRenderer = "ready" /\ wAccount = "saved" /\ wAccount' = "active"
    /\ UNCHANGED <<wWindow, wRenderer, wMailto, wInbox, wSlot, wDialog, wCompose, wReviews, wCalls, wNow, wLinks, wAsked, History>>

(* handleMailtoActivation with an account: over unsaved work the user is
   asked first, in place of whatever else was asked. *)
OpenFor(n) ==
    IF wCompose.dirty
    THEN /\ wDialog' = [kind |-> "replace-compose", n |-> n] /\ UNCHANGED wCompose
         /\ wSettled' = wSettled \cup (IF wDialog.kind = "replace-compose" THEN {wDialog.n} ELSE {})
    ELSE /\ wCompose' = [open |-> TRUE, dirty |-> FALSE, link |-> n] /\ UNCHANGED wDialog
         /\ wSettled' = wSettled \cup {wCompose.link}

(* Without one the link waits in the renderer, in a single place. *)
ReceiveMailto ==
    /\ wInbox # <<>> /\ Head(wInbox).kind = "mailto" /\ wInbox' = Tail(wInbox)
    /\ IF wAccount = "active" THEN OpenFor(Head(wInbox).n) /\ UNCHANGED wSlot
       ELSE wSlot' = Head(wInbox).n /\ wSettled' = wSettled \cup {wSlot} /\ UNCHANGED <<wDialog, wCompose>>
    /\ UNCHANGED <<wWindow, wRenderer, wAccount, wMailto, wReviews, wCalls, wNow, wLinks, wAsked, wAgreed, wOpened>>

(* An account is added, or the demo created; a link that waits is opened. *)
AddAccount ==
    /\ wRenderer = "ready" /\ wAccount' = "active" /\ (wAccount = "active" => wSlot # NoLink)
    /\ wSlot' = NoLink
    /\ IF wSlot = NoLink THEN UNCHANGED <<wDialog, wCompose, wSettled>> ELSE OpenFor(wSlot)
    /\ UNCHANGED <<wWindow, wRenderer, wMailto, wInbox, wReviews, wCalls, wNow, wLinks, wAsked, wAgreed, wOpened>>

(* The user writes, or sends and closes. *)
Type ==
    /\ wAccount = "active" /\ ~wCompose.dirty /\ wDialog = NoDialog
    /\ wCompose' = [wCompose EXCEPT !.open = TRUE, !.dirty = TRUE]
    /\ UNCHANGED <<wWindow, wRenderer, wAccount, wMailto, wInbox, wSlot, wDialog, wReviews, wCalls, wNow, wLinks, wAsked, History>>
Finish ==
    /\ wCompose.open /\ wDialog = NoDialog /\ wCompose' = NoComposer /\ wSettled' = wSettled \cup {wCompose.link}
    /\ UNCHANGED <<wWindow, wRenderer, wAccount, wMailto, wInbox, wSlot, wDialog, wReviews, wCalls, wNow, wLinks, wAsked, wAgreed, wOpened>>

-----------------------------------------------------------------------------
(* setWindowOpenHandler for a link that is not ordinary, and
   ExternalLinkReviewQueue.create: expired requests go, and the oldest when
   there are too many. *)
Kept(reviews) ==
    LET current == {r \in reviews : wNow < r.expires}
    IN {r \in current : Cardinality({s \in current : s.id > r.id}) < MaxPendingReviews - 1}

OpenRiskyLink ==
    /\ wWindow = "loaded" /\ wAsked < MaxReviews /\ wAsked' = wAsked + 1
    /\ wReviews' = Kept(wReviews) \cup {[id |-> wAsked', expires |-> wNow + ReviewTtl]}
    /\ wInbox' = Append(wInbox, [kind |-> "review", n |-> wAsked'])
    /\ UNCHANGED <<wWindow, wRenderer, wAccount, wMailto, wSlot, wDialog, wCompose, wCalls, wNow, wLinks, History>>

(* onExternalLinkReview: one question at a time, and none before the
   workspace is there. *)
ReceiveReview ==
    /\ wInbox # <<>> /\ Head(wInbox).kind = "review" /\ wInbox' = Tail(wInbox)
    /\ IF wRenderer # "ready" \/ wDialog # NoDialog
       THEN wCalls' = wCalls \cup {[op |-> "cancel", id |-> Head(wInbox).n]} /\ UNCHANGED wDialog
       ELSE wDialog' = [kind |-> "external-link", n |-> Head(wInbox).n] /\ UNCHANGED wCalls
    /\ UNCHANGED <<wWindow, wRenderer, wAccount, wMailto, wSlot, wCompose, wReviews, wNow, wLinks, wAsked, History>>

(* handleConfirmation and cancelConfirmation *)
ConfirmDialog ==
    /\ wDialog # NoDialog /\ wDialog' = NoDialog
    /\ IF wDialog.kind = "external-link"
       THEN /\ wCalls' = wCalls \cup {[op |-> "confirm", id |-> wDialog.n]} /\ wAgreed' = wAgreed \cup {wDialog.n}
            /\ UNCHANGED <<wCompose, wSettled>>
       ELSE /\ wCompose' = [open |-> TRUE, dirty |-> FALSE, link |-> wDialog.n]
            /\ wSettled' = wSettled \cup {wCompose.link} /\ UNCHANGED <<wCalls, wAgreed>>
    /\ UNCHANGED <<wWindow, wRenderer, wAccount, wMailto, wInbox, wSlot, wReviews, wNow, wLinks, wAsked, wOpened>>
CancelDialog ==
    /\ wDialog # NoDialog /\ wDialog' = NoDialog
    /\ IF wDialog.kind = "external-link"
       THEN wCalls' = wCalls \cup {[op |-> "cancel", id |-> wDialog.n]} /\ UNCHANGED wSettled
       ELSE wSettled' = wSettled \cup {wDialog.n} /\ UNCHANGED wCalls
    /\ UNCHANGED <<wWindow, wRenderer, wAccount, wMailto, wInbox, wSlot, wCompose, wReviews, wNow, wLinks, wAsked, wAgreed, wOpened>>

(* The requests takeForConfirmation hands to the browser; each is taken out
   whether or not it is still in time. *)
Whenever(id) == {r \in wReviews : r.id = id}
InTime(id) == {r \in wReviews : r.id = id /\ wNow < r.expires}

HandleCall(call) ==
    /\ call \in wCalls /\ wCalls' = wCalls \ {call}
    /\ wReviews' = {r \in wReviews : r.id # call.id}
    /\ LET handed == IF call.op = "confirm" /\ wWindow = "loaded" THEN InTime(call.id) ELSE {}
       IN IF handed = {} THEN UNCHANGED wOpened
          ELSE \E r \in handed : wOpened' = Append(wOpened, [id |-> r.id, at |-> wNow, expires |-> r.expires])
    /\ UNCHANGED <<wWindow, wRenderer, wAccount, wMailto, wInbox, wSlot, wDialog, wCompose, wNow, wLinks, wAsked, wSettled, wAgreed>>

Tick ==
    /\ wNow < MaxClock /\ wNow' = wNow + 1
    /\ UNCHANGED <<wWindow, wRenderer, wAccount, wMailto, wInbox, wSlot, wDialog, wCompose, wReviews, wCalls, wLinks, wAsked, History>>

(* The window is closed: its reviews are cleared, the program quits and takes
   with it what was on its way or waiting. *)
Closed ==
    /\ wWindow # "none" /\ wWindow' = "none" /\ wRenderer' = "none"
    /\ wAccount' = IF wAccount = "active" THEN "saved" ELSE wAccount
    /\ wMailto' = <<>> /\ wInbox' = <<>> /\ wSlot' = NoLink /\ wDialog' = NoDialog /\ wCompose' = NoComposer
    /\ wReviews' = {} /\ wCalls' = {} /\ wSettled' = wSettled \cup 1..wLinks
    /\ UNCHANGED <<wNow, wLinks, wAsked, wAgreed, wOpened>>

WindowNext ==
    \/ ActivateMailto \/ CreateWindow \/ DidFinishLoad \/ Retry \/ SelectPreferred \/ ReceiveMailto \/ AddAccount
    \/ \E phase \in {"ready", "error"} : Initialized(phase)
    \/ Type \/ Finish \/ OpenRiskyLink \/ ReceiveReview \/ ConfirmDialog \/ CancelDialog
    \/ \E call \in wCalls : HandleCall(call)
    \/ Tick \/ Closed

-----------------------------------------------------------------------------
(* What is handed to the browser was confirmed by the user in a dialog that
   showed it, within its lifetime, and is handed over once. *)
OpenedOnceInTime ==
    /\ \A k \in DOMAIN wOpened : wOpened[k].id \in wAgreed /\ wOpened[k].at < wOpened[k].expires
    /\ \A j, k \in DOMAIN wOpened : wOpened[j].id = wOpened[k].id => j = k

(* Where a mail link still is. *)
Somewhere(n) ==
    \/ \E k \in DOMAIN wMailto : wMailto[k] = n
    \/ \E k \in DOMAIN wInbox : wInbox[k].kind = "mailto" /\ wInbox[k].n = n
    \/ wSlot = n \/ (wDialog.kind = "replace-compose" /\ wDialog.n = n) \/ wCompose.link = n

(* A mail link is never lost on the way, whatever the window is doing when
   it arrives: it is kept until the user has had it in the composer, declined
   it or closed the window, or until another link takes its place. *)
MailLinkKept == \A n \in 1..wLinks : Somewhere(n) \/ n \in wSettled
=============================================================================
