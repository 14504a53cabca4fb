--------------------------- MODULE MailWindowProofs --------------------------
(***************************************************************************)
(* Proofs about the window around the editors: the way a mailto: link      *)
(* takes from the main process into the renderer, the place the window     *)
(* comes back to, and what the history page and the mail view show, for    *)
(* every number of links, reloads, displays, saves, revisions, accounts,   *)
(* folders and handlers under way.                                         *)
(***************************************************************************)
EXTENDS MCMailWindow, FiniteSetTheorems, WellFoundedInduction, TLAPS

-----------------------------------------------------------------------------
(***************************************************************************)
(* Mail links and external links.                                          *)
(***************************************************************************)
Letters == [kind : {"mailto", "review"}, n : Nat]
Questions == [kind : {"none", "replace-compose", "external-link"}, n : Nat]
Writing == [open : BOOLEAN, dirty : BOOLEAN, link : Nat]
PendingReviews == [id : Nat, expires : Nat]
Openings == [id : Nat, at : Nat, expires : Nat]
LinkTypes ==
    /\ wNow \in Nat /\ wLinks \in Nat /\ wAsked \in Nat /\ wSlot \in Nat
    /\ wMailto \in Seq(Nat) /\ wInbox \in Seq(Letters)
    /\ wDialog \in Questions /\ wCompose \in Writing
    /\ \A r \in wReviews : r \in PendingReviews
    /\ wOpened \in Seq(Openings)
(* A review that is pending was asked for and is not open yet, and only     *)
(* what the user agreed to is on its way to be confirmed.                   *)
Reviewed ==
    /\ \A r \in wReviews : r.id <= wAsked
    /\ \A k \in DOMAIN wOpened : wOpened[k].id <= wAsked /\ \A r \in wReviews : r.id # wOpened[k].id
    /\ \A call \in wCalls : call.op = "confirm" => call.id \in wAgreed
LinksInv == LinkTypes /\ Reviewed /\ Window!OpenedOnceInTime /\ Window!MailLinkKept

LEMMA LinkRecords ==
    /\ \A l \in Letters : l.n \in Nat
    /\ \A q \in Questions : q.n \in Nat
    /\ \A c \in Writing : c.link \in Nat
    /\ \A r \in PendingReviews : r.id \in Nat /\ r.expires \in Nat
    /\ \A o \in Openings : o.id \in Nat
BY DEF Letters, Questions, Writing, PendingReviews, Openings

LEMMA LetterMade ==
    ASSUME NEW n \in Nat, NEW kind \in {"mailto", "review"}, NEW l, l = [kind |-> kind, n |-> n]
    PROVE  l \in Letters /\ l.kind = kind /\ l.n = n
BY DEF Letters

LEMMA QuestionMade ==
    ASSUME NEW n \in Nat, NEW kind \in {"none", "replace-compose", "external-link"},
           NEW q, q = [kind |-> kind, n |-> n]
    PROVE  q \in Questions /\ q.kind = kind /\ q.n = n
BY DEF Questions

LEMMA WritingMade ==
    ASSUME NEW n \in Nat,
           NEW c, \/ c = [open |-> TRUE, dirty |-> FALSE, link |-> n]
                  \/ c = [open |-> TRUE, dirty |-> TRUE, link |-> n]
                  \/ c = [open |-> FALSE, dirty |-> FALSE, link |-> n]
    PROVE  c \in Writing /\ c.link = n
<1>1. CASE c = [open |-> TRUE, dirty |-> FALSE, link |-> n]
  BY <1>1 DEF Writing
<1>2. CASE c = [open |-> TRUE, dirty |-> TRUE, link |-> n]
  BY <1>2 DEF Writing
<1>3. CASE c = [open |-> FALSE, dirty |-> FALSE, link |-> n]
  BY <1>3 DEF Writing
<1> QED BY <1>1, <1>2, <1>3

(* Where a mail link is: in a queue, or on the screen.                      *)
Waiting(m) == \E k \in DOMAIN wMailto : wMailto[k] = m
Posted(m) == \E k \in DOMAIN wInbox : wInbox[k].kind = "mailto" /\ wInbox[k].n = m
Shown(m) == wSlot = m \/ (wDialog.kind = "replace-compose" /\ wDialog.n = m) \/ wCompose.link = m
LEMMA LinksStay ==
    ASSUME Window!MailLinkKept, wLinks \in Nat, wSettled \subseteq wSettled', NEW n \in Nat,
           wLinks' = wLinks \/ (wLinks' = wLinks + 1 /\ n = wLinks + 1 /\ (Waiting(n)' \/ Posted(n)')),
           \A m \in 1..wLinks :
               /\ Waiting(m) => Waiting(m)' \/ Posted(m)'
               /\ Posted(m) => Posted(m)' \/ Shown(m)'
               /\ Shown(m) => Shown(m)' \/ m \in wSettled'
    PROVE  Window!MailLinkKept'
<1>1. \A m : Window!Somewhere(m) <=> Waiting(m) \/ Posted(m) \/ Shown(m)
  BY DEF Window!Somewhere, Waiting, Posted, Shown
<1>2. \A m : Window!Somewhere(m)' <=> Waiting(m)' \/ Posted(m)' \/ Shown(m)'
  BY DEF Window!Somewhere, Waiting, Posted, Shown
<1>3. \A m \in 1..wLinks : Waiting(m) \/ Posted(m) \/ Shown(m) \/ m \in wSettled
  BY <1>1 DEF Window!MailLinkKept
<1>4. ASSUME NEW m \in 1..wLinks'
      PROVE  Waiting(m)' \/ Posted(m)' \/ Shown(m)' \/ m \in wSettled'
  <2>1. CASE m \in 1..wLinks
    BY <1>3, <2>1
  <2>2. CASE wLinks' # wLinks /\ m = n
    BY <2>2
  <2> QED BY <2>1, <2>2
<1> QED BY <1>2, <1>4 DEF Window!MailLinkKept

(* Queues.                                                                  *)
LEMMA QueueTail ==
    ASSUME NEW S, NEW q \in Seq(S), q # <<>>
    PROVE  /\ Head(q) \in S /\ Tail(q) \in Seq(S)
           /\ \A k \in DOMAIN q : q[k] = Head(q) \/ \E j \in DOMAIN Tail(q) : Tail(q)[j] = q[k]
<1>1. ASSUME NEW k \in DOMAIN q, k # 1
      PROVE  k - 1 \in DOMAIN Tail(q) /\ Tail(q)[k - 1] = q[k]
  BY <1>1
<1>2. Head(q) = q[1] /\ Head(q) \in S /\ Tail(q) \in Seq(S)
  OBVIOUS
<1> QED BY <1>1, <1>2

LEMMA QueueAppend ==
    ASSUME NEW S, NEW q \in Seq(S), NEW x \in S
    PROVE  /\ Append(q, x) \in Seq(S)
           /\ \A k \in DOMAIN q : k \in DOMAIN Append(q, x) /\ Append(q, x)[k] = q[k]
           /\ Len(q) \in Nat /\ DOMAIN q = 1..Len(q) /\ DOMAIN Append(q, x) = 1..(Len(q) + 1)
           /\ Append(q, x)[Len(q) + 1] = x
OBVIOUS

LEMMA LinksStart ==
    ASSUME Window!WindowInit
    PROVE  LinksInv
<1>1. /\ wReviews = {} /\ wCalls = {} /\ wNow = 0 /\ wLinks = 0 /\ wAsked = 0 /\ wSlot = 0
      /\ wMailto = <<>> /\ wInbox = <<>> /\ wOpened = <<>>
  BY DEF Window!WindowInit, Window!NoLink
<1>2. wDialog = [kind |-> "none", n |-> 0] /\ wCompose = [open |-> FALSE, dirty |-> FALSE, link |-> 0]
  BY DEF Window!WindowInit, Window!NoDialog, Window!NoComposer, Window!NoLink
<1>3. wDialog \in Questions /\ wCompose \in Writing
  BY <1>2, 0 \in Nat, QuestionMade, WritingMade
<1>4. \A S : <<>> \in Seq(S) /\ DOMAIN (<<>>) = {}
  OBVIOUS
<1>5. LinkTypes
  BY <1>1, <1>3, <1>4 DEF LinkTypes
<1> QED BY <1>1, <1>4, <1>5 DEF LinksInv, Reviewed, Window!OpenedOnceInTime, Window!MailLinkKept

LEMMA LinksRest ==
    ASSUME LinksInv, UNCHANGED windowVars
    PROVE  LinksInv'
BY DEF LinksInv, LinkTypes, Reviewed, Window!OpenedOnceInTime, Window!MailLinkKept, Window!Somewhere, windowVars

(* What the reviews need of a step that opens nothing.                      *)
LEMMA NothingOpened ==
    ASSUME LinksInv, UNCHANGED wOpened, wAsked' \in Nat, wAsked <= wAsked', wAgreed \subseteq wAgreed',
           \A r \in wReviews' : r \in wReviews \/ (r.id = wAsked' /\ wAsked' = wAsked + 1),
           \A call \in wCalls' : call \in wCalls \/ (call.op = "confirm" => call.id \in wAgreed')
    PROVE  Reviewed' /\ Window!OpenedOnceInTime'
<1>1. /\ \A k \in DOMAIN wOpened : wOpened[k].id \in Nat
      /\ \A r \in wReviews : r.id \in Nat
      /\ wAsked \in Nat
  BY LinkRecords DEF LinksInv, LinkTypes
<1>2. Reviewed'
  BY <1>1 DEF LinksInv, Reviewed
<1>3. Window!OpenedOnceInTime'
  BY DEF LinksInv, Window!OpenedOnceInTime
<1> QED BY <1>2, <1>3


LEMMA OpenForKeeps ==
    ASSUME LinkTypes, NEW n \in Nat, Window!OpenFor(n)
    PROVE  /\ wDialog' \in Questions
           /\ wCompose' \in Writing
           /\ (wDialog'.kind = "replace-compose" /\ wDialog'.n = n) \/ wCompose'.link = n
           /\ wSettled \subseteq wSettled'
           /\ wDialog.kind = "replace-compose" => wDialog' = wDialog \/ wDialog.n \in wSettled'
           /\ wCompose' = wCompose \/ wCompose.link \in wSettled'
<1>1. CASE wCompose.dirty
  <2>1. wDialog' = [kind |-> "replace-compose", n |-> n] /\ wCompose' = wCompose
        /\ wSettled \subseteq wSettled' /\ (wDialog.kind = "replace-compose" => wDialog.n \in wSettled')
    BY <1>1 DEF Window!OpenFor
  <2> QED BY <2>1, QuestionMade DEF LinkTypes
<1>2. CASE ~wCompose.dirty
  <2>1. wCompose' = [open |-> TRUE, dirty |-> FALSE, link |-> n] /\ wDialog' = wDialog
        /\ wSettled \subseteq wSettled' /\ wCompose.link \in wSettled'
    BY <1>2 DEF Window!OpenFor
  <2> QED BY <2>1, WritingMade DEF LinkTypes
<1> QED BY <1>1, <1>2

LEMMA LinksSafe ==
    ASSUME LinksInv, Window!WindowNext
    PROVE  LinksInv'
<1> USE DEF Window!NoLink, Window!NoDialog, Window!NoComposer, Window!History
<1>1. /\ LinkTypes /\ Window!MailLinkKept
      /\ wInbox \in Seq(Letters) /\ wMailto \in Seq(Nat) /\ wOpened \in Seq(Openings)
      /\ wNow \in Nat /\ wLinks \in Nat /\ wAsked \in Nat /\ wSlot \in Nat
      /\ wDialog \in Questions /\ wCompose \in Writing
  BY DEF LinksInv, LinkTypes
<1>2. CASE Window!ActivateMailto
  <2>1. Reviewed' /\ Window!OpenedOnceInTime'
    BY <1>2, NothingOpened DEF Window!ActivateMailto, LinksInv, LinkTypes
  <2>7. PICK n \in Nat : n = wLinks + 1
    BY <1>1
  <2> DEFINE letter == [kind |-> "mailto", n |-> n]
  <2>2. n \in Nat /\ letter \in Letters /\ letter.kind = "mailto" /\ letter.n = n
    BY <1>1, LetterMade
  <2> HIDE DEF letter
  <2>3. /\ wLinks' = n
        /\ UNCHANGED <<wSlot, wDialog, wCompose, wReviews, wNow, wAsked, wSettled, wOpened>>
        /\ \/ wInbox' = Append(wInbox, letter) /\ wMailto' = wMailto
           \/ wMailto' = Append(wMailto, n) /\ wInbox' = wInbox
    BY <1>2, <2>7 DEF Window!ActivateMailto, Window!Deliver, letter
  <2>4. /\ wInbox' \in Seq(Letters) /\ wMailto' \in Seq(Nat)
        /\ \A k \in DOMAIN wMailto : k \in DOMAIN wMailto' /\ wMailto'[k] = wMailto[k]
        /\ \A k \in DOMAIN wInbox : k \in DOMAIN wInbox' /\ wInbox'[k] = wInbox[k]
        /\ (\E k \in DOMAIN wMailto' : wMailto'[k] = n) \/ (\E k \in DOMAIN wInbox' : wInbox'[k] = letter)
    <3>1. CASE wInbox' = Append(wInbox, letter) /\ wMailto' = wMailto
      <4> DEFINE last == Len(wInbox) + 1
      <4>1. last \in DOMAIN wInbox' /\ wInbox'[last] = letter
        BY <1>1, <2>2, <3>1, QueueAppend
      <4> QED BY <1>1, <2>2, <3>1, <4>1, QueueAppend
    <3>2. CASE wMailto' = Append(wMailto, n) /\ wInbox' = wInbox
      <4> DEFINE last == Len(wMailto) + 1
      <4>1. last \in DOMAIN wMailto' /\ wMailto'[last] = n
        BY <1>1, <2>2, <3>2, QueueAppend
      <4>2. /\ wMailto' \in Seq(Nat)
            /\ \A k \in DOMAIN wMailto : k \in DOMAIN wMailto' /\ wMailto'[k] = wMailto[k]
        BY <1>1, <2>2, <3>2, QueueAppend
      <4> QED BY <1>1, <3>2, <4>1, <4>2
    <3> QED BY <2>3, <3>1, <3>2
  <2>5. LinkTypes'
    BY <1>1, <2>2, <2>3, <2>4 DEF LinkTypes
  <2>6. Window!MailLinkKept'
    <3>1. \A m : /\ Waiting(m) => Waiting(m)'
                 /\ Posted(m) => Posted(m)'
                 /\ Shown(m) => Shown(m)'
      BY <2>3, <2>4 DEF Waiting, Posted, Shown
    <3>2. Waiting(n)' \/ Posted(n)'
      BY <2>2, <2>4 DEF Waiting, Posted
    <3> QED BY <1>1, <2>3, <2>7, <3>1, <3>2, LinksStay
  <2> QED BY <2>1, <2>5, <2>6 DEF LinksInv
<1>3. CASE \/ Window!CreateWindow \/ Window!Retry \/ Window!SelectPreferred \/ Window!Tick
           \/ \E phase \in {"ready", "error"} : Window!Initialized(phase)
  <2>1. /\ UNCHANGED <<wMailto, wInbox, wSlot, wDialog, wCompose, wReviews, wCalls, wLinks, wAsked,
                       wSettled, wAgreed, wOpened>>
        /\ wNow' \in Nat
    BY <1>1, <1>3 DEF Window!CreateWindow, Window!Retry, Window!SelectPreferred, Window!Tick,
                      Window!Initialized, LinkTypes
  <2> QED BY <2>1 DEF LinksInv, LinkTypes, Reviewed, Window!OpenedOnceInTime, Window!MailLinkKept,
                      Window!Somewhere
<1>4. CASE Window!DidFinishLoad
  <2> DEFINE waited == [k \in DOMAIN wMailto |-> [kind |-> "mailto", n |-> wMailto[k]]]
  <2>1. Reviewed' /\ Window!OpenedOnceInTime'
    BY <1>4, NothingOpened DEF Window!DidFinishLoad, LinksInv, LinkTypes
  <2>2. waited \in Seq(Letters) /\ DOMAIN waited = DOMAIN wMailto
    <3>1. \A k \in DOMAIN wMailto : [kind |-> "mailto", n |-> wMailto[k]] \in Letters
      <4>1. \A k \in DOMAIN wMailto : wMailto[k] \in Nat
        BY <1>1
      <4> QED BY <4>1, LetterMade
    <3>2. Len(wMailto) \in Nat /\ DOMAIN wMailto = 1..Len(wMailto)
      BY <1>1
    <3> QED BY <3>1, <3>2
  <2>3. wInbox' = wInbox \o waited /\ wMailto' = <<>>
        /\ UNCHANGED <<wSlot, wDialog, wCompose, wReviews, wNow, wLinks, wAsked, wSettled, wOpened>>
    BY <1>4 DEF Window!DidFinishLoad
  <2>4. \A k \in DOMAIN wMailto : waited[k] = [kind |-> "mailto", n |-> wMailto[k]]
    OBVIOUS
  <2> HIDE DEF waited
  <2>6. /\ wInbox' \in Seq(Letters)
        /\ \A k \in DOMAIN wInbox : k \in DOMAIN wInbox' /\ wInbox'[k] = wInbox[k]
        /\ \A k \in DOMAIN wMailto : \E j \in DOMAIN wInbox' : wInbox'[j] = waited[k]
    <3>1. /\ wInbox' \in Seq(Letters)
          /\ \A k \in DOMAIN wInbox : k \in DOMAIN wInbox' /\ wInbox'[k] = wInbox[k]
          /\ \A k \in DOMAIN waited : \E j \in DOMAIN wInbox' : wInbox'[j] = waited[k]
      <4>1. /\ wInbox \in Seq(Letters) /\ waited \in Seq(Letters) /\ wInbox' = wInbox \o waited
        BY <1>1, <2>2, <2>3
      <4>2. /\ Len(wInbox) \in Nat /\ Len(waited) \in Nat
            /\ DOMAIN wInbox = 1..Len(wInbox) /\ DOMAIN waited = 1..Len(waited)
            /\ wInbox' \in Seq(Letters) /\ DOMAIN wInbox' = 1..(Len(wInbox) + Len(waited))
            /\ \A k \in 1..Len(wInbox) : wInbox'[k] = wInbox[k]
            /\ \A k \in 1..Len(waited) : wInbox'[Len(wInbox) + k] = waited[k]
        BY <4>1
      <4>3. /\ \A k \in 1..Len(wInbox) : k \in DOMAIN wInbox'
            /\ \A k \in 1..Len(waited) : Len(wInbox) + k \in DOMAIN wInbox'
        BY <4>2
      <4> QED BY <4>2, <4>3
    <3> QED BY <2>2, <3>1
  <2>7. Window!MailLinkKept'
    <3>1. \A k \in DOMAIN wMailto : waited[k].kind = "mailto" /\ waited[k].n = wMailto[k]
      <4>1. ASSUME NEW k \in DOMAIN wMailto
            PROVE  waited[k].kind = "mailto" /\ waited[k].n = wMailto[k]
        <5>1. waited[k] = [kind |-> "mailto", n |-> wMailto[k]]
          BY <2>4
        <5> QED BY <5>1
      <4> QED BY <4>1
    <3>2. \A m : /\ Waiting(m) => Posted(m)'
                 /\ Posted(m) => Posted(m)'
                 /\ Shown(m) => Shown(m)'
      BY <2>3, <2>6, <3>1 DEF Waiting, Posted, Shown
    <3> QED BY <1>1, <2>3, <3>2, LinksStay
  <2>8. LinkTypes'
    BY <1>1, <2>3, <2>6 DEF LinkTypes
  <2> QED BY <2>1, <2>7, <2>8 DEF LinksInv
<1>5. CASE Window!ReceiveMailto
  <2>7. PICK n : n = Head(wInbox).n
    OBVIOUS
  <2>1. Reviewed' /\ Window!OpenedOnceInTime'
    BY <1>5, NothingOpened DEF Window!ReceiveMailto, LinksInv, LinkTypes
  <2>2. /\ n \in Nat /\ wInbox # <<>> /\ wInbox' = Tail(wInbox)
        /\ Head(wInbox).kind = "mailto" /\ Head(wInbox).n = n
        /\ UNCHANGED <<wMailto, wReviews, wNow, wLinks, wAsked, wOpened>>
        /\ IF wAccount = "active" THEN Window!OpenFor(n) /\ UNCHANGED wSlot
           ELSE wSlot' = n /\ wSettled' = wSettled \cup {wSlot} /\ UNCHANGED <<wDialog, wCompose>>
    BY <1>1, <1>5, <2>7, QueueTail, LinkRecords DEF Window!ReceiveMailto
  <2>3. \A k \in DOMAIN wInbox : wInbox[k] = Head(wInbox) \/ \E j \in DOMAIN wInbox' : wInbox'[j] = wInbox[k]
    BY <1>1, <2>2, QueueTail
  <2>4. wInbox' \in Seq(Letters)
    BY <1>1, <2>2, QueueTail
  <2>5. CASE wAccount = "active"
    <3>1. LinkTypes'
      BY <1>1, <2>2, <2>4, <2>5, OpenForKeeps DEF LinkTypes
    <3>2. Window!MailLinkKept'
      <4>1. /\ (wDialog'.kind = "replace-compose" /\ wDialog'.n = n) \/ wCompose'.link = n
            /\ wSettled \subseteq wSettled' /\ wSlot' = wSlot
            /\ wDialog.kind = "replace-compose" => wDialog' = wDialog \/ wDialog.n \in wSettled'
            /\ wCompose' = wCompose \/ wCompose.link \in wSettled'
        BY <1>1, <2>2, <2>5, OpenForKeeps
      <4>2. \A m : /\ Waiting(m) => Waiting(m)'
                   /\ Posted(m) => Posted(m)' \/ m = n
                   /\ Shown(m) => Shown(m)' \/ m \in wSettled'
        BY <2>2, <2>3, <4>1 DEF Waiting, Posted, Shown
      <4>3. Shown(n)'
        BY <4>1 DEF Shown
      <4> QED BY <1>1, <2>2, <4>1, <4>2, <4>3, LinksStay
    <3> QED BY <2>1, <3>1, <3>2 DEF LinksInv
  <2>6. CASE wAccount # "active"
    <3>1. LinkTypes'
      BY <1>1, <2>2, <2>4, <2>6 DEF LinkTypes
    <3>2. Window!MailLinkKept'
      <4>1. \A m : /\ Waiting(m) => Waiting(m)'
                   /\ Posted(m) => Posted(m)' \/ Shown(m)'
                   /\ Shown(m) => Shown(m)' \/ m \in wSettled'
        BY <2>2, <2>3, <2>6 DEF Waiting, Posted, Shown
      <4> QED BY <1>1, <2>2, <2>6, <4>1, LinksStay
    <3> QED BY <2>1, <3>1, <3>2 DEF LinksInv
  <2> QED BY <2>5, <2>6
<1>6. CASE Window!AddAccount
  <2>1. Reviewed' /\ Window!OpenedOnceInTime'
    BY <1>6, NothingOpened DEF Window!AddAccount, LinksInv, LinkTypes
  <2>2. /\ UNCHANGED <<wMailto, wInbox, wReviews, wNow, wLinks, wAsked, wOpened>> /\ wSlot' = 0
        /\ IF wSlot = 0 THEN UNCHANGED <<wDialog, wCompose, wSettled>> ELSE Window!OpenFor(wSlot)
        /\ wSlot \in Nat
    BY <1>1, <1>6 DEF Window!AddAccount, LinkTypes
  <2>3. CASE wSlot = 0
    BY <1>1, <2>1, <2>2, <2>3 DEF LinksInv, LinkTypes, Window!MailLinkKept, Window!Somewhere
  <2>4. CASE wSlot # 0
    <3>1. LinkTypes'
      BY <1>1, <2>2, <2>4, OpenForKeeps DEF LinkTypes
    <3>2. Window!MailLinkKept'
      <4>1. /\ (wDialog'.kind = "replace-compose" /\ wDialog'.n = wSlot) \/ wCompose'.link = wSlot
            /\ wSettled \subseteq wSettled'
            /\ wDialog.kind = "replace-compose" => wDialog' = wDialog \/ wDialog.n \in wSettled'
            /\ wCompose' = wCompose \/ wCompose.link \in wSettled'
        BY <1>1, <2>2, <2>4, OpenForKeeps
      <4>2. \A m : /\ Waiting(m) => Waiting(m)'
                   /\ Posted(m) => Posted(m)'
                   /\ Shown(m) => Shown(m)' \/ m \in wSettled'
        BY <2>2, <4>1 DEF Waiting, Posted, Shown
      <4> QED BY <1>1, <2>2, <4>1, <4>2, LinksStay
    <3> QED BY <2>1, <3>1, <3>2 DEF LinksInv
  <2> QED BY <2>3, <2>4
<1>7. CASE Window!Type \/ Window!Finish
  <2>1. Reviewed' /\ Window!OpenedOnceInTime'
    BY <1>7, NothingOpened DEF Window!Type, Window!Finish, LinksInv, LinkTypes
  <2>2. /\ UNCHANGED <<wMailto, wInbox, wSlot, wDialog, wReviews, wNow, wLinks, wAsked, wOpened>>
        /\ wSettled \subseteq wSettled'
        /\ wCompose'.link = wCompose.link \/ wCompose.link \in wSettled'
        /\ wCompose' \in Writing
    <3>1. CASE Window!Type
      <4>1. wCompose' = [open |-> TRUE, dirty |-> TRUE, link |-> wCompose.link]
        <5>1. wCompose' = [wCompose EXCEPT !.open = TRUE, !.dirty = TRUE]
          BY <3>1 DEF Window!Type
        <5> QED BY <1>1, <5>1 DEF Writing
      <4> DEFINE n == wCompose.link
      <4>2. n \in Nat /\ wCompose' = [open |-> TRUE, dirty |-> TRUE, link |-> n]
        BY <1>1, <4>1, LinkRecords
      <4> HIDE DEF n
      <4>3. wCompose' \in Writing /\ wCompose'.link = n
        BY <4>2, WritingMade
      <4> QED BY <3>1, <4>3 DEF Window!Type, n
    <3>2. CASE Window!Finish
      <4>1. wCompose' = [open |-> FALSE, dirty |-> FALSE, link |-> 0]
        BY <3>2 DEF Window!Finish
      <4>2. wCompose' \in Writing
        BY <4>1, WritingMade
      <4> QED BY <3>2, <4>2 DEF Window!Finish
    <3> QED BY <1>7, <3>1, <3>2
  <2> QED BY <1>1, <2>1, <2>2 DEF LinksInv, LinkTypes, Window!MailLinkKept, Window!Somewhere
<1>8. CASE Window!OpenRiskyLink
  <2>1. /\ wAsked' = wAsked + 1 /\ wInbox' = Append(wInbox, [kind |-> "review", n |-> wAsked'])
        /\ wReviews' \subseteq wReviews \cup {[id |-> wAsked', expires |-> wNow + ReviewTtl]}
        /\ UNCHANGED <<wMailto, wSlot, wDialog, wCompose, wCalls, wNow, wLinks, wSettled, wAgreed, wOpened>>
    BY <1>8 DEF Window!OpenRiskyLink, Window!Kept
  <2> DEFINE letter == [kind |-> "review", n |-> wAsked']
             review == [id |-> wAsked', expires |-> wNow + ReviewTtl]
  <2>6. letter \in Letters /\ review \in PendingReviews /\ review.id = wAsked' /\ wAsked' \in Nat
    <3>1. wNow + ReviewTtl \in Nat /\ wAsked' \in Nat
      BY <1>1, <2>1, MailWindowAssumption
    <3>2. letter \in Letters
      BY <3>1, LetterMade
    <3> QED BY <3>1, <3>2 DEF PendingReviews
  <2> HIDE DEF letter, review
  <2>7. wInbox' = Append(wInbox, letter) /\ wReviews' \subseteq wReviews \cup {review}
    BY <2>1 DEF letter, review
  <2>4. /\ wInbox' \in Seq(Letters)
        /\ \A k \in DOMAIN wInbox : k \in DOMAIN wInbox' /\ wInbox'[k] = wInbox[k]
    BY <1>1, <2>6, <2>7, QueueAppend
  <2>2. LinkTypes'
    BY <1>1, <2>1, <2>4, <2>6, <2>7 DEF LinkTypes
  <2>3. Reviewed' /\ Window!OpenedOnceInTime'
    BY <1>1, <2>1, <2>6, <2>7, NothingOpened
  <2>5. Window!MailLinkKept'
    <3>1. \A m : /\ Waiting(m) => Waiting(m)'
                 /\ Posted(m) => Posted(m)'
                 /\ Shown(m) => Shown(m)'
      BY <2>1, <2>4, <2>6 DEF Waiting, Posted, Shown
    <3> QED BY <1>1, <2>1, <3>1, LinksStay
  <2> QED BY <2>2, <2>3, <2>5 DEF LinksInv
<1>9. CASE Window!ReceiveReview
  <2>1. /\ wInbox # <<>> /\ Head(wInbox).kind = "review" /\ wInbox' = Tail(wInbox) /\ Head(wInbox).n \in Nat
        /\ UNCHANGED <<wMailto, wSlot, wCompose, wReviews, wNow, wLinks, wAsked, wSettled, wAgreed, wOpened>>
        /\ \/ UNCHANGED wDialog /\ wCalls' = wCalls \cup {[op |-> "cancel", id |-> Head(wInbox).n]}
           \/ UNCHANGED wCalls /\ wDialog = [kind |-> "none", n |-> 0]
              /\ wDialog' = [kind |-> "external-link", n |-> Head(wInbox).n]
    BY <1>1, <1>9, QueueTail, LinkRecords DEF Window!ReceiveReview
  <2>6. wDialog' = wDialog \/ (wDialog.kind = "none" /\ wDialog' \in Questions)
    <3> DEFINE n == Head(wInbox).n
    <3>1. CASE wDialog = [kind |-> "none", n |-> 0] /\ wDialog' = [kind |-> "external-link", n |-> n]
      <4>1. n \in Nat
        BY <2>1
      <4> HIDE DEF n
      <4>2. wDialog' \in Questions
        BY <3>1, <4>1, QuestionMade
      <4> QED BY <3>1, <4>2
    <3> QED BY <2>1, <3>1
  <2>2. Reviewed' /\ Window!OpenedOnceInTime'
    BY <1>1, <2>1, NothingOpened DEF LinkTypes
  <2>3. LinkTypes'
    BY <1>1, <2>1, <2>6, QueueTail DEF LinkTypes
  <2>4. \A k \in DOMAIN wInbox : wInbox[k].kind = "mailto" => \E j \in DOMAIN wInbox' : wInbox'[j] = wInbox[k]
    BY <1>1, <2>1, QueueTail
  <2>5. Window!MailLinkKept'
    <3>1. \A m : /\ Waiting(m) => Waiting(m)'
                 /\ Posted(m) => Posted(m)'
                 /\ Shown(m) => Shown(m)'
      BY <2>1, <2>4, <2>6 DEF Waiting, Posted, Shown
    <3> QED BY <1>1, <2>1, <3>1, LinksStay
  <2> QED BY <2>2, <2>3, <2>5 DEF LinksInv
<1>10. CASE Window!ConfirmDialog \/ Window!CancelDialog
  <2>1. /\ UNCHANGED <<wMailto, wInbox, wSlot, wReviews, wNow, wLinks, wAsked, wOpened>>
        /\ wDialog' = [kind |-> "none", n |-> 0]
        /\ wSettled \subseteq wSettled' /\ wAgreed \subseteq wAgreed'
        /\ wCompose' \in Writing
        /\ wCompose'.link = wCompose.link \/ wCompose.link \in wSettled'
        /\ wDialog.kind = "replace-compose" => wCompose'.link = wDialog.n \/ wDialog.n \in wSettled'
        /\ \A call \in wCalls' : call \in wCalls \/ (call.op = "confirm" => call.id \in wAgreed')
    <3>1. CASE Window!ConfirmDialog
      <4>1. CASE wDialog.kind = "external-link"
        BY <1>1, <3>1, <4>1 DEF Window!ConfirmDialog
      <4>2. CASE wDialog.kind # "external-link"
        <5> DEFINE n == wDialog.n
        <5>1. n \in Nat /\ wCompose' = [open |-> TRUE, dirty |-> FALSE, link |-> n]
          BY <1>1, <3>1, <4>2, LinkRecords DEF Window!ConfirmDialog
        <5> HIDE DEF n
        <5>2. wCompose' \in Writing /\ wCompose'.link = n
          BY <5>1, WritingMade
        <5> QED BY <1>1, <3>1, <4>2, <5>2 DEF Window!ConfirmDialog, n
      <4> QED BY <4>1, <4>2
    <3>2. CASE Window!CancelDialog
      BY <1>1, <3>2 DEF Window!CancelDialog
    <3> QED BY <1>10, <3>1, <3>2
  <2>2. Reviewed' /\ Window!OpenedOnceInTime'
    BY <1>1, <2>1, NothingOpened DEF LinkTypes
  <2>3. LinkTypes'
    <3>1. wDialog' \in Questions
      BY <2>1, QuestionMade
    <3> QED BY <1>1, <2>1, <3>1 DEF LinkTypes
  <2>4. Window!MailLinkKept'
    <3>1. wDialog'.kind = "none"
      BY <2>1
    <3> QED BY <1>1, <2>1, <3>1 DEF Window!MailLinkKept, Window!Somewhere
  <2> QED BY <2>2, <2>3, <2>4 DEF LinksInv
<1>11. ASSUME NEW call \in wCalls, Window!HandleCall(call)
       PROVE  LinksInv'
  <2>1. /\ UNCHANGED <<wMailto, wInbox, wSlot, wDialog, wCompose, wNow, wLinks, wAsked, wSettled, wAgreed>>
        /\ wCalls' = wCalls \ {call} /\ wReviews' = {r \in wReviews : r.id # call.id}
        /\ \/ UNCHANGED wOpened
           \/ /\ call.op = "confirm"
              /\ \E r \in Window!InTime(call.id) :
                    wOpened' = Append(wOpened, [id |-> r.id, at |-> wNow, expires |-> r.expires])
    BY <1>11 DEF Window!HandleCall
  <2>2. Window!MailLinkKept'
    BY <1>1, <2>1 DEF Window!MailLinkKept, Window!Somewhere
  <2>3. CASE UNCHANGED wOpened
    <3>1. Reviewed' /\ Window!OpenedOnceInTime'
      BY <1>1, <2>1, <2>3, NothingOpened DEF LinkTypes
    <3> QED BY <1>1, <2>1, <2>2, <2>3, <3>1 DEF LinksInv, LinkTypes
  <2>4. CASE call.op = "confirm" /\ ~UNCHANGED wOpened
    <3>1. PICK r \in wReviews :
             /\ r.id = call.id /\ wNow < r.expires
             /\ wOpened' = Append(wOpened, [id |-> r.id, at |-> wNow, expires |-> r.expires])
      BY <2>1, <2>4 DEF Window!InTime
    <3> DEFINE entry == [id |-> r.id, at |-> wNow, expires |-> r.expires]
               last == Len(wOpened) + 1
    <3>2. entry \in Openings /\ entry.id = r.id /\ entry.at < entry.expires
      <4>1. r \in PendingReviews /\ r.id \in Nat /\ r.expires \in Nat
        BY <1>1, LinkRecords DEF LinkTypes
      <4> QED BY <1>1, <3>1, <4>1 DEF Openings
    <3> HIDE DEF entry
    <3>3. /\ wOpened' \in Seq(Openings)
          /\ DOMAIN wOpened' = 1..last /\ last \notin DOMAIN wOpened /\ DOMAIN wOpened = 1..(last - 1) /\ last \in Nat
          /\ wOpened'[last] = entry
          /\ \A k \in DOMAIN wOpened : wOpened'[k] = wOpened[k]
      <4>1. wOpened' = Append(wOpened, entry)
        BY <3>1 DEF entry
      <4> QED BY <1>1, <3>2, <4>1, QueueAppend
    <3> HIDE DEF last
    <3>4. \A k \in DOMAIN wOpened' : k \in DOMAIN wOpened \/ k = last
      BY <3>3
    <3>5. Reviewed /\ Window!OpenedOnceInTime
      BY DEF LinksInv
    <3>6. Reviewed'
      BY <2>1, <3>1, <3>2, <3>3, <3>4, <3>5 DEF Reviewed
    <3>7. Window!OpenedOnceInTime'
      <4>1. \A k \in DOMAIN wOpened : wOpened[k].id # r.id
        BY <3>5 DEF Reviewed
      <4>2. r.id \in wAgreed
        BY <2>4, <3>1, <3>5 DEF Reviewed
      <4> QED BY <2>1, <3>2, <3>3, <3>4, <3>5, <4>1, <4>2 DEF Window!OpenedOnceInTime
    <3>8. LinkTypes'
      BY <1>1, <2>1, <3>3 DEF LinkTypes
    <3> QED BY <2>2, <3>6, <3>7, <3>8 DEF LinksInv
  <2> QED BY <2>1, <2>3, <2>4
<1>12. CASE Window!Closed
  <2>1. Reviewed' /\ Window!OpenedOnceInTime'
    BY <1>1, <1>12, NothingOpened DEF Window!Closed, LinkTypes
  <2>2. LinkTypes'
    <3>1. wDialog' = [kind |-> "none", n |-> 0] /\ wCompose' = [open |-> FALSE, dirty |-> FALSE, link |-> 0]
      BY <1>12 DEF Window!Closed
    <3>2. wDialog' \in Questions /\ wCompose' \in Writing
      BY <3>1, 0 \in Nat, QuestionMade, WritingMade
    <3>3. \A S : <<>> \in Seq(S)
      OBVIOUS
    <3> QED BY <1>1, <1>12, <3>2, <3>3 DEF Window!Closed, LinkTypes
  <2>3. Window!MailLinkKept'
    BY <1>1, <1>12 DEF Window!Closed, Window!MailLinkKept
  <2> QED BY <2>1, <2>2, <2>3 DEF LinksInv
<1> QED BY <1>2, <1>3, <1>4, <1>5, <1>6, <1>7, <1>8, <1>9, <1>10, <1>11, <1>12 DEF Window!WindowNext
-----------------------------------------------------------------------------
(***************************************************************************)
(* The place of the window.                                                *)
(***************************************************************************)
PlaceSet == [x : Int, width : Int, maximized : BOOLEAN]
BoundsType ==
    /\ bWindow \in PlaceSet /\ bFile \in PlaceSet /\ bQueue \in Seq(PlaceSet)
    /\ bTimer \in BOOLEAN /\ bMoves \in Nat
    /\ bWindow # Bounds!NoWindow => bWindow.width > 0
(* The last save queued is of the place the window has, and what is queued  *)
(* can be read again.                                                       *)
SavesLead ==
    /\ bWindow = Bounds!NoWindow => ~bTimer
    /\ \A k \in DOMAIN bQueue : bQueue[k].width >= MinWidth
    /\ bWindow # Bounds!NoWindow /\ ~bTimer /\ bWindow.width >= MinWidth /\ bQueue # <<>> =>
          bQueue[Len(bQueue)] = bWindow
(* An unreadable file is known to be one while anything may replace it.     *)
KnownUnreadable ==
    bFile = Bounds!Garbage => bInvalid \/ (bWindow = Bounds!NoWindow /\ bQueue = <<>>)
BoundsInv == BoundsType /\ SavesLead /\ KnownUnreadable /\ PlaceKept

(* A non-empty set of naturals has a least element.                         *)
LEMMA LeastNumber ==
    ASSUME NEW T, T \subseteq Nat, T # {}
    PROVE  \E x \in T : \A y \in T : x <= y
<1> DEFINE R == OpToRel(<, Nat)
<1>1. IsWellFoundedOn(R, Nat)
  BY NatLessThanWellFounded
<1> HIDE DEF R
<1>2. PICK x \in T : \A y \in T : ~(<<y, x>> \in R)
  BY <1>1, WFMin
<1>3. \A y \in T : ~(y < x)
  BY <1>2 DEF R, OpToRel
<1> QED BY <1>3

(* One of the displays overlaps most.                                       *)
LEMMA BestIsADisplay ==
    ASSUME NEW screen \in Screens, NEW b, b.x \in Int, b.width \in Int
    PROVE  Bounds!Best(b, screen) \in DOMAIN screen
<1> DEFINE D == DOMAIN screen
           o(k) == Bounds!overlapArea(b, screen[k])
           W == Bounds!Greatest(0, b.width)
           T == {W - o(k) : k \in D}
           S == {k \in D : \A j \in D : o(k) >= o(j)}
<1>1. /\ D \subseteq Nat /\ D # {}
      /\ \A k \in D : screen[k].x \in Int /\ screen[k].width \in Nat
  <2>1. Len(screen) \in Nat \ {0} /\ D = 1..Len(screen)
    BY MailWindowAssumption
  <2>2. 1 \in D
    BY <2>1
  <2> QED BY <2>1, <2>2, MailWindowAssumption
<1> HIDE DEF D
<1>2. \A k \in D : o(k) \in Nat /\ o(k) <= W
  BY <1>1 DEF Bounds!overlapArea, Bounds!Least, Bounds!Greatest
<1>3. W \in Nat
  BY DEF Bounds!Greatest
<1> HIDE DEF o, W
<1>4. T \subseteq Nat /\ T # {}
  <2>1. \A k \in D : W - o(k) \in Nat
    BY <1>2, <1>3
  <2> QED BY <1>1, <2>1
<1>5. PICK t \in T : \A y \in T : t <= y
  <2> HIDE DEF T
  <2> QED BY <1>4, LeastNumber
<1>6. PICK k \in D : t = W - o(k)
  BY <1>5
<1>7. \A j \in D : o(k) >= o(j)
  BY <1>2, <1>3, <1>5, <1>6
<1>8. S \subseteq Nat /\ S # {}
  BY <1>1, <1>7
<1>9. \E x \in S : \A y \in S : x <= y
  <2> HIDE DEF S
  <2> QED BY <1>8, LeastNumber
<1>10. Bounds!Min(S) \in S
  <2> HIDE DEF S
  <2> QED BY <1>9 DEF Bounds!Min
<1> QED BY <1>10 DEF Bounds!Best, o, D

(* Wherever a window was, it is placed wholly on one display.               *)
LEMMA Fitted ==
    ASSUME NEW screen \in Screens, NEW b, b.x \in Int, b.width \in Int,
           NEW f, f = Bounds!resolveWindowBounds(b, screen)
    PROVE  /\ f.x \in Int /\ f.width \in Int /\ f.width > 0
           /\ \E k \in DOMAIN screen : /\ f.x >= screen[k].x
                                       /\ f.x + f.width <= screen[k].x + screen[k].width
<1> DEFINE best == Bounds!Best(b, screen)
           visible == Bounds!overlapArea(b, screen[best]) >= MinOverlap
           k == IF visible THEN best ELSE 1
           area == screen[k]
           width == Bounds!clamp(b.width, Bounds!Least(MinWidth, area.width), area.width)
           x == IF visible THEN Bounds!clamp(b.x, area.x, area.x + area.width - width)
                ELSE Bounds!Centred(width, area)
<1>1. k \in DOMAIN screen
  <2>1. 1 \in DOMAIN screen
    BY MailWindowAssumption
  <2> QED BY <2>1, BestIsADisplay
<1>2. area.x \in Int /\ area.width \in Nat \ {0} /\ MinWidth \in Nat \ {0}
  BY <1>1, MailWindowAssumption
<1>3. f.x = x /\ f.width = width
  BY DEF Bounds!resolveWindowBounds
<1> HIDE DEF k, area, visible
<1>4. width \in Int /\ width <= area.width /\ width > 0
  BY <1>2 DEF Bounds!clamp, Bounds!Least, Bounds!Greatest
<1> HIDE DEF width
<1>5. x \in Int /\ x >= area.x /\ x <= area.x + area.width - width
  <2>1. CASE visible
    BY <1>2, <1>4, <2>1 DEF Bounds!clamp, Bounds!Least, Bounds!Greatest
  <2>2. CASE ~visible
    BY <1>2, <1>4, <2>2 DEF Bounds!Centred, Bounds!Half
  <2> QED BY <2>1, <2>2
<1> HIDE DEF x
<1> QED BY <1>1, <1>2, <1>3, <1>4, <1>5 DEF area

LEMMA BoundsStart ==
    ASSUME Bounds!BoundsInit
    PROVE  BoundsInv
<1>0. Bounds!NoWindow.width = 0
  BY DEF Bounds!NoWindow
<1>1. /\ bWindow = Bounds!NoWindow /\ bTimer = FALSE /\ bQueue = <<>> /\ bMoves = 0
      /\ bFile \in {Bounds!NoFile, Bounds!Garbage} /\ bHad = (bFile = Bounds!Garbage)
  BY DEF Bounds!BoundsInit
<1>2. Bounds!NoWindow \in PlaceSet /\ Bounds!NoFile \in PlaceSet /\ Bounds!Garbage \in PlaceSet
  BY DEF PlaceSet, Bounds!NoWindow, Bounds!NoFile, Bounds!Garbage
<1>3. BoundsType /\ SavesLead
  <2>1. <<>> \in Seq(PlaceSet) /\ DOMAIN (<<>>) = {}
    OBVIOUS
  <2>2. bFile \in PlaceSet
    BY <1>1, <1>2
  <2> QED BY <1>1, <1>2, <2>1, <2>2 DEF BoundsType, SavesLead
<1> QED BY <1>1, <1>3 DEF BoundsInv, KnownUnreadable, PlaceKept, Bounds!OpensOnScreen, Bounds!RestSaved,
                          Bounds!UnreadableKept

(* What a save that joins the queue leaves.                                 *)
LEMMA SaveJoins ==
    ASSUME NEW q \in Seq(PlaceSet), NEW w \in PlaceSet, \A k \in DOMAIN q : q[k].width >= MinWidth,
           NEW r, r = Bounds!Saves(q, w)
    PROVE  /\ r \in Seq(PlaceSet)
           /\ \A k \in DOMAIN r : r[k].width >= MinWidth
           /\ w.width >= MinWidth => r # <<>> /\ r[Len(r)] = w
<1>1. MinWidth \in Nat /\ w.width \in Int
  BY MailWindowAssumption DEF PlaceSet
<1>2. CASE w.width < MinWidth
  BY <1>1, <1>2 DEF Bounds!Saves
<1>3. CASE w.width >= MinWidth
  <2>1. r = Append(q, w)
    BY <1>1, <1>3 DEF Bounds!Saves
  <2>2. r \in Seq(PlaceSet) /\ Len(r) = Len(q) + 1 /\ r[Len(r)] = w /\ Len(q) \in Nat
        /\ DOMAIN r = 1..(Len(q) + 1) /\ DOMAIN q = 1..Len(q)
        /\ \A k \in DOMAIN q : r[k] = q[k]
    BY <2>1
  <2>3. \A k \in DOMAIN r : k \in DOMAIN q \/ k = Len(r)
    BY <2>2
  <2>4. r # <<>>
    BY <2>2
  <2> QED BY <1>3, <2>2, <2>3, <2>4
<1> QED BY <1>1, <1>2, <1>3

(* The head of the queue is saved, or dropped.                              *)
LEMMA SaveLeaves ==
    ASSUME BoundsType, SavesLead, bQueue # <<>>, bQueue' = Tail(bQueue),
           UNCHANGED <<bWindow, bTimer, bMoves>>
    PROVE  /\ bQueue' \in Seq(PlaceSet) /\ SavesLead'
           /\ Head(bQueue) \in PlaceSet /\ Head(bQueue).width >= MinWidth
           /\ Head(bQueue) # Bounds!Garbage
           /\ /\ bWindow # Bounds!NoWindow /\ ~bTimer /\ bWindow.width >= MinWidth /\ bQueue' = <<>>
              => Head(bQueue) = bWindow
<1> DEFINE n == Len(bQueue)
           q == bQueue'
<1>1. /\ bQueue \in Seq(PlaceSet) /\ n \in Nat \ {0} /\ DOMAIN bQueue = 1..n
      /\ q \in Seq(PlaceSet) /\ Len(q) = n - 1 /\ DOMAIN q = 1..(n - 1)
      /\ \A k \in 1..(n - 1) : q[k] = bQueue[k + 1]
      /\ Head(bQueue) = bQueue[1]
  BY DEF BoundsType
<1>2. 1 \in DOMAIN bQueue /\ bQueue[1] \in PlaceSet
  BY <1>1
<1>3. \A k \in DOMAIN q : k + 1 \in DOMAIN bQueue
  BY <1>1
<1>4. \A k \in DOMAIN q : q[k].width >= MinWidth
  BY <1>1, <1>3 DEF SavesLead
<1>5. q # <<>> => q[Len(q)] = bQueue[n]
  <2>1. ASSUME q # <<>>
        PROVE  n - 1 \in 1..(n - 1)
    BY <1>1, <2>1
  <2> QED BY <1>1, <2>1
<1>6. q = <<>> => n = 1
  <2>1. q = <<>> => Len(q) = 0
    OBVIOUS
  <2> QED BY <1>1, <2>1
<1>7. Head(bQueue).width >= MinWidth
  BY <1>1, <1>2 DEF SavesLead
<1>8. Head(bQueue) # Bounds!Garbage
  <2>1. Bounds!Garbage.width = -1
    BY DEF Bounds!Garbage
  <2> QED BY <1>7, <2>1, MailWindowAssumption
<1>9. SavesLead'
  <2>1. \A k \in DOMAIN bQueue' : bQueue'[k].width >= MinWidth
    BY <1>4
  <2>2. bWindow # Bounds!NoWindow /\ ~bTimer /\ bWindow.width >= MinWidth /\ bQueue' # <<>> =>
           bQueue'[Len(bQueue')] = bWindow
    BY <1>5 DEF SavesLead
  <2> QED BY <2>1, <2>2 DEF SavesLead
<1>10. bWindow # Bounds!NoWindow /\ ~bTimer /\ bWindow.width >= MinWidth /\ bQueue' = <<>>
       => Head(bQueue) = bWindow
  BY <1>1, <1>6 DEF SavesLead
<1> QED BY <1>1, <1>2, <1>7, <1>8, <1>9, <1>10

LEMMA BoundsSafe ==
    ASSUME BoundsInv, Bounds!BoundsNext
    PROVE  BoundsInv'
<1>1. /\ BoundsType /\ SavesLead /\ KnownUnreadable
      /\ Bounds!OpensOnScreen /\ Bounds!RestSaved /\ Bounds!UnreadableKept
      /\ bWindow \in PlaceSet /\ bFile \in PlaceSet /\ bQueue \in Seq(PlaceSet) /\ bMoves \in Nat
      /\ \A k \in DOMAIN bQueue : bQueue[k].width >= MinWidth
  BY DEF BoundsInv, BoundsType, SavesLead, PlaceKept
<1>0. Bounds!NoWindow.width = 0 /\ (bWindow # Bounds!NoWindow => bWindow.width > 0)
  BY <1>1 DEF Bounds!NoWindow, BoundsType
<1>2. CASE Bounds!TimerFires
  <2>1. /\ bTimer /\ bTimer' = FALSE /\ bQueue' = Bounds!Saves(bQueue, bWindow)
        /\ UNCHANGED <<bScreen, bWindow, bFile, bInvalid, bAside, bMoves, bFailed, bHad>>
    BY <1>2 DEF Bounds!TimerFires
  <2>2. /\ bQueue' \in Seq(PlaceSet) /\ \A k \in DOMAIN bQueue' : bQueue'[k].width >= MinWidth
        /\ bWindow.width >= MinWidth => bQueue' # <<>> /\ bQueue'[Len(bQueue')] = bWindow
    <3>1. bQueue \in Seq(PlaceSet) /\ bWindow \in PlaceSet /\ (\A k \in DOMAIN bQueue : bQueue[k].width >= MinWidth)
      BY <1>1
    <3> QED BY <2>1, <3>1, SaveJoins
  <2>3. bWindow # Bounds!NoWindow
    BY <1>1, <2>1 DEF SavesLead
  <2> QED BY <1>1, <2>1, <2>2, <2>3
          DEF BoundsInv, BoundsType, SavesLead, KnownUnreadable, PlaceKept, Bounds!OpensOnScreen,
              Bounds!RestSaved, Bounds!UnreadableKept
<1>3. CASE Bounds!ToggleMaximized \/ Bounds!CloseRequested
  <2>1. /\ bWindow # Bounds!NoWindow /\ bMoves' = bMoves + 1 /\ bQueue' = Bounds!Saves(bQueue, bWindow')
        /\ bWindow' = bWindow \/ bWindow' = [bWindow EXCEPT !.maximized = ~@]
        /\ UNCHANGED <<bScreen, bTimer, bFile, bInvalid, bAside, bFailed, bHad>>
    BY <1>3 DEF Bounds!ToggleMaximized, Bounds!CloseRequested
  <2>2. bWindow' \in PlaceSet /\ bWindow'.width = bWindow.width
    BY <1>1, <2>1 DEF PlaceSet
  <2>3. /\ bQueue' \in Seq(PlaceSet) /\ \A k \in DOMAIN bQueue' : bQueue'[k].width >= MinWidth
        /\ bWindow'.width >= MinWidth => bQueue' # <<>> /\ bQueue'[Len(bQueue')] = bWindow'
    <3>1. bQueue \in Seq(PlaceSet) /\ bWindow' \in PlaceSet /\ (\A k \in DOMAIN bQueue : bQueue[k].width >= MinWidth)
      BY <1>1, <2>2
    <3>2. bQueue' = Bounds!Saves(bQueue, bWindow')
      BY <2>1
    <3> DEFINE w == bWindow'
    <3> HIDE DEF w
    <3>3. /\ bQueue' \in Seq(PlaceSet) /\ \A k \in DOMAIN bQueue' : bQueue'[k].width >= MinWidth
          /\ w.width >= MinWidth => bQueue' # <<>> /\ bQueue'[Len(bQueue')] = w
      BY <3>1, <3>2, SaveJoins DEF w
    <3> QED BY <3>3 DEF w
  <2>4. BoundsType' /\ SavesLead' /\ KnownUnreadable'
    <3>1. bWindow' = Bounds!NoWindow => ~bTimer
      BY <1>0, <2>1, <2>2
    <3> QED BY <1>0, <1>1, <2>1, <2>2, <2>3, <3>1 DEF BoundsType, SavesLead, KnownUnreadable
  <2> QED BY <1>1, <2>1, <2>2, <2>3, <2>4
          DEF BoundsInv, PlaceKept, Bounds!OpensOnScreen, Bounds!RestSaved, Bounds!UnreadableKept
<1>4. CASE Bounds!CloseWindow
  <2>1. /\ bWindow' = Bounds!NoWindow /\ bTimer' = FALSE /\ bQueue' = Bounds!Saves(bQueue, bWindow)
        /\ bWindow # Bounds!NoWindow
        /\ UNCHANGED <<bScreen, bFile, bInvalid, bAside, bMoves, bFailed, bHad>>
    BY <1>4 DEF Bounds!CloseWindow
  <2>2. /\ bQueue' \in Seq(PlaceSet) /\ \A k \in DOMAIN bQueue' : bQueue'[k].width >= MinWidth
    BY <1>1, <2>1, SaveJoins
  <2>3. Bounds!NoWindow \in PlaceSet
    BY DEF PlaceSet, Bounds!NoWindow
  <2> QED BY <1>1, <2>1, <2>2, <2>3
          DEF BoundsInv, BoundsType, SavesLead, KnownUnreadable, PlaceKept, Bounds!OpensOnScreen,
              Bounds!RestSaved, Bounds!UnreadableKept
<1>5. ASSUME NEW place \in Places, Bounds!UserMoves(place)
      PROVE  BoundsInv'
  <2>1. /\ bWindow # Bounds!NoWindow /\ bMoves' = bMoves + 1 /\ bTimer' = TRUE
        /\ bWindow' = [place EXCEPT !.maximized = bWindow.maximized]
        /\ UNCHANGED <<bScreen, bQueue, bFile, bInvalid, bAside, bFailed, bHad>>
    BY <1>5 DEF Bounds!UserMoves
  <2>2. place \in [x : Int, width : Nat \ {0}, maximized : BOOLEAN] /\ bWindow.maximized \in BOOLEAN
    BY <1>1, MailWindowAssumption DEF PlaceSet
  <2>3. bWindow' \in PlaceSet /\ bWindow'.width > 0
    BY <2>1, <2>2 DEF PlaceSet
  <2>4. bWindow' # Bounds!NoWindow
    BY <1>0, <2>3
  <2> QED BY <1>1, <2>1, <2>3, <2>4
          DEF BoundsInv, BoundsType, SavesLead, KnownUnreadable, PlaceKept, Bounds!OpensOnScreen,
              Bounds!RestSaved, Bounds!UnreadableKept
<1>6. ASSUME NEW renamed \in BOOLEAN, Bounds!SaveRuns(renamed)
      PROVE  BoundsInv'
  <2>1. /\ bQueue # <<>> /\ bQueue' = Tail(bQueue) /\ bFile' = Head(bQueue) /\ bInvalid' = FALSE
        /\ bAside' = Bounds!SetAside(renamed)
        /\ UNCHANGED <<bScreen, bWindow, bTimer, bMoves, bFailed, bHad>>
    BY <1>6 DEF Bounds!SaveRuns
  <2>2. /\ bQueue' \in Seq(PlaceSet) /\ SavesLead' /\ bFile' \in PlaceSet /\ bFile' # Bounds!Garbage
        /\ bWindow # Bounds!NoWindow /\ ~bTimer /\ bWindow.width >= MinWidth /\ bQueue' = <<>>
           => bFile' = bWindow
    BY <1>1, <2>1, SaveLeaves
  <2>3. bHad => bAside' # "none"
    BY <1>1, <2>1 DEF Bounds!SetAside, KnownUnreadable, Bounds!UnreadableKept
  <2> QED BY <1>1, <2>1, <2>2, <2>3
          DEF BoundsInv, BoundsType, KnownUnreadable, PlaceKept, Bounds!OpensOnScreen,
              Bounds!RestSaved, Bounds!UnreadableKept
<1>7. ASSUME NEW renamed \in BOOLEAN, Bounds!SaveFails(renamed)
      PROVE  BoundsInv'
  <2>1. /\ bQueue # <<>> /\ bQueue' = Tail(bQueue) /\ bFailed' = TRUE
        /\ bAside' = IF renamed THEN Bounds!SetAside(TRUE) ELSE bAside
        /\ bFile' = IF bInvalid /\ renamed THEN Bounds!NoFile ELSE bFile
        /\ UNCHANGED <<bScreen, bWindow, bTimer, bInvalid, bMoves, bHad>>
    BY <1>7 DEF Bounds!SaveFails
  <2>2. bQueue' \in Seq(PlaceSet) /\ SavesLead'
    BY <1>1, <2>1, SaveLeaves
  <2>3. bFile' \in PlaceSet
    BY <1>1, <2>1 DEF PlaceSet, Bounds!NoFile
  <2>4. bHad /\ bFile' # Bounds!Garbage => bAside' # "none"
    BY <1>1, <2>1 DEF Bounds!SetAside, Bounds!UnreadableKept
  <2>5. KnownUnreadable'
    <3>1. Bounds!NoFile # Bounds!Garbage
      BY DEF Bounds!NoFile, Bounds!Garbage
    <3> QED BY <1>1, <2>1, <3>1 DEF KnownUnreadable
  <2> QED BY <1>1, <2>1, <2>2, <2>3, <2>4, <2>5
          DEF BoundsInv, BoundsType, PlaceKept, Bounds!OpensOnScreen, Bounds!RestSaved,
              Bounds!UnreadableKept
<1>8. ASSUME NEW screen \in Screens, Bounds!Start(screen)
      PROVE  BoundsInv'
  <2> DEFINE read == IF Bounds!Readable(bFile) THEN bFile ELSE Bounds!Default(screen)
             fitted == Bounds!resolveWindowBounds(read, screen)
  <2>1. /\ bWindow = Bounds!NoWindow /\ bQueue' = Bounds!Saves(<<>>, bWindow') /\ bScreen' = screen
        /\ bWindow' = [x |-> fitted.x, width |-> fitted.width, maximized |-> read.maximized]
        /\ bInvalid' = (bFile = Bounds!Garbage) /\ bMoves' = 0
        /\ UNCHANGED <<bTimer, bFile, bAside, bHad>>
    BY <1>8 DEF Bounds!Start
  <2>2. read.x \in Int /\ read.width \in Int /\ read.maximized \in BOOLEAN
    <3>1. screen[1].x \in Int /\ screen[1].width \in Nat
      BY MailWindowAssumption
    <3>2. LET d == Bounds!Default(screen)
          IN d.x \in Int /\ d.width \in Int /\ d.maximized \in BOOLEAN
      BY <3>1, MailWindowAssumption DEF Bounds!Default, Bounds!Centred, Bounds!Half
    <3>3. bFile.x \in Int /\ bFile.width \in Int /\ bFile.maximized \in BOOLEAN
      BY <1>1 DEF PlaceSet
    <3> QED BY <3>2, <3>3
  <2> HIDE DEF read
  <2>3. /\ fitted.x \in Int /\ fitted.width \in Int /\ fitted.width > 0
        /\ \E k \in DOMAIN screen : /\ fitted.x >= screen[k].x
                                    /\ fitted.x + fitted.width <= screen[k].x + screen[k].width
    BY <2>2, Fitted
  <2> HIDE DEF fitted
  <2>4. bWindow' \in PlaceSet /\ bWindow'.x = fitted.x /\ bWindow'.width = fitted.width
    BY <2>1, <2>2, <2>3 DEF PlaceSet
  <2>5. /\ bQueue' \in Seq(PlaceSet) /\ \A k \in DOMAIN bQueue' : bQueue'[k].width >= MinWidth
        /\ bWindow'.width >= MinWidth => bQueue' # <<>> /\ bQueue'[Len(bQueue')] = bWindow'
    <3>1. <<>> \in Seq(PlaceSet) /\ DOMAIN (<<>>) = {}
      OBVIOUS
    <3> DEFINE w == bWindow'
               none == <<>>
    <3>2. bQueue' = Bounds!Saves(none, w) /\ w \in PlaceSet /\ none \in Seq(PlaceSet)
          /\ \A k \in DOMAIN none : none[k].width >= MinWidth
      BY <2>1, <2>4, <3>1
    <3> HIDE DEF w, none
    <3>3. /\ bQueue' \in Seq(PlaceSet) /\ \A k \in DOMAIN bQueue' : bQueue'[k].width >= MinWidth
          /\ w.width >= MinWidth => bQueue' # <<>> /\ bQueue'[Len(bQueue')] = w
      BY <3>2, SaveJoins
    <3> QED BY <3>3 DEF w
  <2>6. Bounds!OpensOnScreen'
    BY <2>1, <2>3, <2>4 DEF Bounds!OpensOnScreen
  <2>7. ~bTimer
    BY <1>1, <2>1 DEF SavesLead
  <2> QED BY <1>1, <2>1, <2>3, <2>4, <2>5, <2>6, <2>7
          DEF BoundsInv, BoundsType, SavesLead, KnownUnreadable, PlaceKept, Bounds!RestSaved,
              Bounds!UnreadableKept
<1> QED BY <1>2, <1>3, <1>4, <1>5, <1>6, <1>7, <1>8 DEF Bounds!BoundsNext

LEMMA BoundsRest ==
    ASSUME BoundsInv, UNCHANGED boundsVars
    PROVE  BoundsInv'
BY DEF BoundsInv, BoundsType, SavesLead, KnownUnreadable, PlaceKept, Bounds!OpensOnScreen,
       Bounds!RestSaved, Bounds!UnreadableKept, boundsVars

(* A link handed to the browser was confirmed in a dialog that showed it,   *)
(* within its lifetime and once, and no mail link is lost on the way        *)
(* (external-link-review.ts, deliverMailto).  The invariant adds that a     *)
(* review which is pending has not been opened, and that only what the user *)
(* agreed to is on its way to be confirmed.                                 *)
THEOREM LinksStayKept == MailSpec => []LinksHandedOver
<1>1. MailInit => LinksInv
  BY LinksStart DEF MailInit
<1>2. LinksInv /\ [MailNext]_mailVars => LinksInv'
  <2>1. ASSUME LinksInv, MailNext PROVE LinksInv'
    <3>1. Window!WindowNext \/ UNCHANGED windowVars
      BY <2>1 DEF MailNext
    <3> QED BY <2>1, <3>1, LinksSafe, LinksRest
  <2>2. ASSUME LinksInv, UNCHANGED mailVars PROVE LinksInv'
    <3>1. UNCHANGED windowVars
      BY <2>2 DEF mailVars
    <3> QED BY <2>2, <3>1, LinksRest
  <2> QED BY <2>1, <2>2
<1>3. LinksInv => LinksHandedOver
  BY DEF LinksInv, LinksHandedOver
<1> QED BY <1>1, <1>2, <1>3, PTL DEF MailSpec

(* The window opens wholly on one display, at rest the file says where it   *)
(* is, and an unreadable file is set aside before it is replaced            *)
(* (window-state.ts, persistWindowState in index.ts).  The invariant adds   *)
(* that the last save queued is of the place the window has, that what is   *)
(* queued can be read again, and that an unreadable file is known to be one *)
(* while anything may replace it.                                           *)
THEOREM PlaceStaysKept == MailSpec => []PlaceKept
<1>1. MailInit => BoundsInv
  BY BoundsStart DEF MailInit
<1>2. BoundsInv /\ [MailNext]_mailVars => BoundsInv'
  <2>1. ASSUME BoundsInv, MailNext PROVE BoundsInv'
    <3>1. Bounds!BoundsNext \/ UNCHANGED boundsVars
      BY <2>1 DEF MailNext
    <3> QED BY <2>1, <3>1, BoundsSafe, BoundsRest
  <2>2. ASSUME BoundsInv, UNCHANGED mailVars PROVE BoundsInv'
    <3>1. UNCHANGED boundsVars
      BY <2>2 DEF mailVars
    <3> QED BY <2>2, <3>1, BoundsRest
  <2> QED BY <2>1, <2>2
<1>3. BoundsInv => PlaceKept
  BY DEF BoundsInv
<1> QED BY <1>1, <1>2, <1>3, PTL DEF MailSpec

-----------------------------------------------------------------------------
(***************************************************************************)
(* The history page.                                                       *)
(***************************************************************************)
RevisionFields == {"hash", "label", "age"}
CallFields == {"id", "op", "for", "data", "done", "ok", "answer"}
DataFields == {"hash", "seq", "label", "days", "preview", "shown"}
ViewFields == {"loaded", "list", "selected", "diff", "failed", "seq", "days", "preview", "dialog"}

(* A revision that was in the repository at some time. *)
Known(r) == DOMAIN r = RevisionFields /\ r.hash \in Nat \ {0} /\ r.hash <= vHashes
(* It has the label it has in the repository, if it still is there. *)
Agrees(r) == r.hash \notin vLate => \A kept \in vRepo : kept.hash = r.hash => r.label = kept.label
(* Its label was saved, and the page does not know yet. *)
Relabelled(hash) == \E c \in vCalls : c.op = "label" /\ c.data.hash = hash /\ c.done /\ c.ok

RepoInv ==
    /\ vHashes \in Nat
    /\ \A r \in vRepo : Known(r)
    /\ \A r, q \in vRepo : r.hash = q.hash => r = q
ViewInv ==
    /\ DOMAIN vView = ViewFields
    /\ \A r \in vView.list : Known(r) /\ (Relabelled(r.hash) \/ Agrees(r))
(* What an answer under way says is what the repository has, and a prune   *)
(* asks for what its dialog listed.                                        *)
Answered(c) ==
    /\ c.op = "list" => \A r \in c.answer.list : Known(r) /\ Agrees(r)
    /\ c.op \in {"diff", "label"} /\ c.ok => Known(c.answer.revision) /\ Agrees(c.answer.revision)
    /\ c.op = "label" /\ c.ok => c.answer.revision.hash = c.data.hash
CallInv(c) ==
    /\ DOMAIN c = CallFields /\ c.done \in BOOLEAN
    /\ c.op = "prune" => c.data.shown = c.data.preview.eligible
    /\ c.done => Answered(c)
CallsInv ==
    /\ \A c \in vCalls : CallInv(c)
    /\ \A c, d \in vCalls : c.op = "label" /\ d.op = "label" /\ c.data.hash = d.data.hash => c = d
HistoryInv == RepoInv /\ ViewInv /\ CallsInv /\ Revisions!PruneAsShown

(* What the page shows of a label it is not waiting for is true. *)
LEMMA LabelsFollow == HistoryInv => Revisions!LabelsShown
BY DEF HistoryInv, ViewInv, Agrees, Relabelled, Revisions!LabelsShown, Revisions!Labelling

LEMMA HistoryStart == Revisions!HistoryPaneInit => HistoryInv
<1> SUFFICES ASSUME Revisions!HistoryPaneInit PROVE HistoryInv
    OBVIOUS
<1>1. RepoInv
  <2>1. \A k \in DOMAIN FirstRevisions : k \in Nat \ {0} /\ k <= vHashes
    BY MailViewAssumption DEF Revisions!HistoryPaneInit
  <2> QED BY <2>1, MailViewAssumption DEF Revisions!HistoryPaneInit, RepoInv, Known, RevisionFields
<1> QED
    BY <1>1 DEF Revisions!HistoryPaneInit, HistoryInv, ViewInv, CallsInv, ViewFields, Revisions!PruneAsShown

(* A call that is made. *)
LEMMA CallMade ==
    ASSUME NEW op, NEW for, NEW data, op = "prune" => data.shown = data.preview.eligible,
           NEW c, c = Revisions!Call(op, for, data)
    PROVE  CallInv(c) /\ c.op = op /\ c.data = data /\ ~c.done
BY DEF Revisions!Call, CallInv, CallFields

(* The page asks for something and keeps its list. *)
LEMMA PageAsks ==
    ASSUME HistoryInv, NEW op, NEW for, NEW data,
           Revisions!Sends(op, for, data),
           op = "prune" => data.shown = data.preview.eligible,
           op = "label" => ~Revisions!Labelling(data.hash),
           DOMAIN vView' = ViewFields, vView'.list = vView.list,
           UNCHANGED Revisions!Main
    PROVE  HistoryInv'
<1> DEFINE c == Revisions!Call(op, for, data)
<1>1. CallInv(c) /\ c.op = op /\ c.data = data /\ ~c.done
    BY CallMade
<1>2. vCalls' = vCalls \cup {c} /\ UNCHANGED <<vRepo, vHashes, vLate, vPruned>>
    BY DEF Revisions!Sends, Revisions!Main
<1> HIDE DEF c
<1>3. \A r : (Known(r)' <=> Known(r)) /\ (Agrees(r)' <=> Agrees(r))
    BY <1>2 DEF Known, Agrees
<1>4. \A d : CallInv(d)' <=> CallInv(d)
    BY <1>3 DEF CallInv, Answered
<1>5. RepoInv' /\ Revisions!PruneAsShown'
    BY <1>2, <1>3 DEF HistoryInv, RepoInv, Revisions!PruneAsShown
<1>6. ViewInv'
    BY <1>2, <1>3 DEF HistoryInv, ViewInv, Relabelled
<1>7. CallsInv'
    BY <1>1, <1>2, <1>4 DEF HistoryInv, CallsInv, Revisions!Labelling
<1> QED BY <1>5, <1>6, <1>7 DEF HistoryInv

(* The page changes, but not its list. *)
LEMMA PageChanges ==
    ASSUME HistoryInv, DOMAIN vView' = ViewFields, vView'.list = vView.list,
           UNCHANGED <<vCalls, Revisions!Main>>
    PROVE  HistoryInv'
<1>1. UNCHANGED <<vCalls, vRepo, vHashes, vLate, vPruned>>
    BY DEF Revisions!Main
<1>2. \A r : (Known(r)' <=> Known(r)) /\ (Agrees(r)' <=> Agrees(r))
    BY <1>1 DEF Known, Agrees
<1>3. \A d : CallInv(d)' <=> CallInv(d)
    BY <1>2 DEF CallInv, Answered
<1> QED
    BY <1>1, <1>2, <1>3 DEF HistoryInv, RepoInv, ViewInv, Relabelled, CallsInv, Revisions!PruneAsShown

(* The main process answers, and nothing is labelled or committed.         *)
LEMMA MainAnswers ==
    ASSUME HistoryInv, NEW c \in vCalls, ~c.done, NEW ok \in BOOLEAN, NEW answer,
           Revisions!Ends(c, ok, answer),
           c.op = "label" => ~ok,
           c.op = "list" => \A r \in answer.list : Known(r) /\ Agrees(r),
           c.op = "diff" /\ ok => Known(answer.revision) /\ Agrees(answer.revision),
           UNCHANGED <<vView, vRepo, vHashes, vLate, vPruned>>
    PROVE  HistoryInv'
<1>1. PICK e : e = [c EXCEPT !.done = TRUE, !.ok = ok, !.answer = answer]
    OBVIOUS
<1>2. vCalls' = (vCalls \ {c}) \cup {e}
    BY <1>1 DEF Revisions!Ends
<1>3. /\ DOMAIN e = CallFields /\ e.op = c.op /\ e.data = c.data
      /\ e.done = TRUE /\ e.ok = ok /\ e.answer = answer
  <2>1. DOMAIN c = CallFields
      BY DEF HistoryInv, CallsInv, CallInv
  <2> QED BY <1>1, <2>1 DEF CallFields
<1>4. \A r : (Known(r)' <=> Known(r)) /\ (Agrees(r)' <=> Agrees(r))
    BY DEF Known, Agrees
<1>5. \A d : CallInv(d)' <=> CallInv(d)
    BY <1>4 DEF CallInv, Answered
<1>6. CallInv(e)
    BY <1>3 DEF CallInv, Answered, HistoryInv, CallsInv
<1>7. CallsInv'
    BY <1>2, <1>3, <1>5, <1>6 DEF HistoryInv, CallsInv
<1>8. \A hash : Relabelled(hash) => Relabelled(hash)'
  <2> SUFFICES ASSUME NEW hash, NEW d \in vCalls, d.op = "label", d.data.hash = hash, d.done, d.ok
               PROVE  Relabelled(hash)'
      BY DEF Relabelled
  <2>1. d # c
      OBVIOUS
  <2> QED BY <1>2, <2>1 DEF Relabelled
<1>9. ViewInv'
    BY <1>4, <1>8 DEF HistoryInv, ViewInv
<1> QED
    BY <1>4, <1>7, <1>9 DEF HistoryInv, RepoInv, Revisions!PruneAsShown

LEMMA ReadsAnswered ==
    ASSUME HistoryInv, NEW c \in vCalls,
           \/ Revisions!MainFails(c) \/ Revisions!MainLists(c)
           \/ Revisions!MainPreviews(c) \/ Revisions!MainDiffs(c)
    PROVE  HistoryInv'
<1>1. UNCHANGED <<vView, vRepo, vHashes, vLate, vPruned>> /\ ~c.done
    BY DEF Revisions!MainFails, Revisions!MainLists, Revisions!MainPreviews, Revisions!MainDiffs,
           Revisions!Main
<1>2. \A r \in vRepo : Known(r) /\ Agrees(r)
    BY DEF HistoryInv, RepoInv, Agrees
<1>3. CASE Revisions!MainFails(c)
    BY <1>1, <1>3, MainAnswers DEF Revisions!MainFails, Revisions!NoAnswer
<1>4. CASE Revisions!MainLists(c)
  <2>1. PICK answer : /\ answer = [Revisions!NoAnswer EXCEPT !.list = IF c.op = "list" THEN vRepo ELSE {}]
                      /\ Revisions!Ends(c, TRUE, answer)
      BY <1>4 DEF Revisions!MainLists
  <2>2. c.op = "list" => answer.list = vRepo
      BY <2>1 DEF Revisions!NoAnswer
  <2>3. c.op \in {"list", "metadata"}
      BY <1>4 DEF Revisions!MainLists
  <2> QED BY <1>1, <1>2, <2>1, <2>2, <2>3, MainAnswers
<1>5. CASE Revisions!MainPreviews(c)
    BY <1>1, <1>5, MainAnswers DEF Revisions!MainPreviews
<1>6. CASE Revisions!MainDiffs(c)
  <2>1. PICK answer : /\ answer = [Revisions!NoAnswer EXCEPT !.revision = Revisions!With(c.data.hash, vRepo)]
                      /\ Revisions!Ends(c, TRUE, answer)
      BY <1>6 DEF Revisions!MainDiffs
  <2>2. answer.revision = Revisions!With(c.data.hash, vRepo)
      BY <2>1 DEF Revisions!NoAnswer
  <2>3. Revisions!With(c.data.hash, vRepo) \in vRepo
      BY <1>6 DEF Revisions!MainDiffs, Revisions!Hashes, Revisions!With
  <2>4. c.op = "diff"
      BY <1>6 DEF Revisions!MainDiffs
  <2> QED BY <1>1, <1>2, <2>1, <2>2, <2>3, <2>4, MainAnswers
<1> QED BY <1>3, <1>4, <1>5, <1>6

(* A label is saved: a list or revision read before and still under way is *)
(* late, and the page's own list waits for the answer.                     *)
LEMMA LabelSaved ==
    ASSUME HistoryInv, NEW c \in vCalls, Revisions!MainLabels(c)
    PROVE  HistoryInv'
<1> DEFINE h == c.data.hash
           Set(r) == IF r.hash = h THEN [r EXCEPT !.label = c.data.label] ELSE r
<1>1. /\ ~c.done /\ c.op = "label" /\ h \in Revisions!Hashes(vRepo)
      /\ vRepo' = {Set(r) : r \in vRepo}
      /\ vLate' = IF \E d \in vCalls : d.done /\ d.op \in {"list", "diff"} THEN vLate \cup {h} ELSE vLate
      /\ UNCHANGED <<vView, vHashes, vPruned>>
    BY DEF Revisions!MainLabels
<1>2. \A r \in vRepo : /\ DOMAIN Set(r) = RevisionFields /\ Set(r).hash = r.hash
                       /\ r.hash # h => Set(r) = r
    BY DEF HistoryInv, RepoInv, Known, RevisionFields
<1> HIDE DEF Set
<1>3. \A r : Known(r)' <=> Known(r)
    BY <1>1 DEF Known
<1>4. RepoInv'
    BY <1>1, <1>2, <1>3 DEF HistoryInv, RepoInv, Known
<1>5. \A r : Agrees(r) /\ r.hash # h => Agrees(r)'
    BY <1>1, <1>2 DEF Agrees
<1>6. \A r : r.hash \in vLate' => Agrees(r)'
    BY DEF Agrees
<1>7. \A r \in vRepo' : Known(r)' /\ Agrees(r)'
    BY <1>4 DEF RepoInv, Agrees
<1> DEFINE fresh == Revisions!With(h, vRepo')
<1>8. fresh \in vRepo' /\ fresh.hash = h
  <2>1. \E r \in vRepo' : r.hash = h
      BY <1>1, <1>2 DEF Revisions!Hashes
  <2> QED BY <2>1 DEF Revisions!With
<1>9. PICK answer : /\ answer = [Revisions!NoAnswer EXCEPT !.revision = fresh]
                    /\ Revisions!Ends(c, TRUE, answer)
    BY DEF Revisions!MainLabels
<1> HIDE DEF fresh
<1>10. answer.revision = fresh
    BY <1>9 DEF Revisions!NoAnswer
<1>11. PICK e : e = [c EXCEPT !.done = TRUE, !.ok = TRUE, !.answer = answer]
    OBVIOUS
<1>12. vCalls' = (vCalls \ {c}) \cup {e}
    BY <1>9, <1>11 DEF Revisions!Ends
<1>13. /\ DOMAIN e = CallFields /\ e.op = c.op /\ e.data = c.data
       /\ e.done = TRUE /\ e.ok = TRUE /\ e.answer = answer
  <2>1. DOMAIN c = CallFields 
      BY DEF HistoryInv, CallsInv, CallInv
  <2> QED BY <1>11, <2>1 DEF CallFields
<1>14. CallInv(e)'
    BY <1>1, <1>7, <1>8, <1>10, <1>13 DEF CallInv, Answered
<1>15. ASSUME NEW d \in vCalls, d # c PROVE CallInv(d)'
  <2>1. CallInv(d)
      BY DEF HistoryInv, CallsInv
  <2>2. SUFFICES ASSUME d.done PROVE Answered(d)'
      BY <2>1 DEF CallInv
  <2>3. Answered(d)
      BY <2>1, <2>2 DEF CallInv
  <2>4. CASE d.op \in {"list", "diff"}
    <3>1. \A r : Agrees(r) => Agrees(r)'
        BY <1>1, <1>5, <1>6, <2>2, <2>4
    <3> QED BY <1>3, <2>3, <2>4, <3>1 DEF Answered
  <2>5. CASE d.op = "label"
    <3>1. d.data.hash # h
        BY <1>1, <2>5, <1>15 DEF HistoryInv, CallsInv
    <3> QED BY <1>3, <1>5, <2>3, <2>5, <3>1 DEF Answered
  <2> QED BY <2>4, <2>5 DEF Answered
<1>16. CallsInv'
  <2>1. \A d \in vCalls' : CallInv(d)'
      BY <1>12, <1>14, <1>15
  <2>2. \A d1, d2 \in vCalls' : d1.op = "label" /\ d2.op = "label" /\ d1.data.hash = d2.data.hash => d1 = d2
      BY <1>1, <1>12, <1>13 DEF HistoryInv, CallsInv
  <2> QED BY <2>1, <2>2 DEF CallsInv
<1>17. Relabelled(h)'
    BY <1>1, <1>12, <1>13 DEF Relabelled
<1>18. \A hash : Relabelled(hash) => Relabelled(hash)'
  <2> SUFFICES ASSUME NEW hash, NEW d \in vCalls, d.op = "label", d.data.hash = hash, d.done, d.ok
               PROVE  Relabelled(hash)'
      BY DEF Relabelled
  <2>1. d # c
      BY <1>1
  <2> QED BY <1>12, <2>1 DEF Relabelled
<1>19. ViewInv'
    BY <1>1, <1>3, <1>5, <1>17, <1>18 DEF HistoryInv, ViewInv
<1> QED
    BY <1>1, <1>4, <1>16, <1>19 DEF HistoryInv, Revisions!PruneAsShown

(* A snapshot, a prune or a restore: the revisions that are new have       *)
(* hashes nobody has seen.                                                 *)
LEMMA Renewed ==
    ASSUME HistoryInv, RepoInv', vHashes' >= vHashes,
           \A r \in vRepo' : r \in vRepo \/ r.hash > vHashes,
           vLate' = vLate,
           NEW r, Known(r)
    PROVE  Known(r)' /\ (Agrees(r) => Agrees(r)')
BY DEF HistoryInv, RepoInv, Known, Agrees

LEMMA RepoPlus ==
    ASSUME RepoInv, vRepo' = Revisions!Plus(vRepo, vHashes), vHashes' = vHashes + 1
    PROVE  /\ RepoInv' /\ vHashes' >= vHashes
           /\ \A r \in vRepo' : r \in vRepo \/ r.hash > vHashes
<1>1. PICK new : new = [hash |-> vHashes + 1, label |-> 0, age |-> 0]
    OBVIOUS
<1>2. vRepo' = vRepo \cup {new}
    BY <1>1 DEF Revisions!Plus
<1>3. DOMAIN new = RevisionFields /\ new.hash = vHashes + 1
    BY <1>1 DEF RevisionFields
<1> QED BY <1>2, <1>3 DEF RepoInv, Known

LEMMA SnapshotTaken == HistoryInv /\ Revisions!Snapshot => HistoryInv'
<1> SUFFICES ASSUME HistoryInv, Revisions!Snapshot PROVE HistoryInv'
    OBVIOUS
<1>1. /\ vRepo' = Revisions!Plus(vRepo, vHashes) /\ vHashes' = vHashes + 1
      /\ UNCHANGED <<vView, vCalls, vSerial, vLate, vPruned>>
    BY DEF Revisions!Snapshot
<1>2. /\ RepoInv' /\ vHashes' >= vHashes
      /\ \A r \in vRepo' : r \in vRepo \/ r.hash > vHashes
    BY <1>1, RepoPlus DEF HistoryInv
<1>3. \A r : Known(r) => Known(r)' /\ (Agrees(r) => Agrees(r)')
    BY <1>1, <1>2, Renewed
<1>4. \A d : CallInv(d) => CallInv(d)'
    BY <1>3 DEF CallInv, Answered
<1> QED
    BY <1>1, <1>2, <1>3, <1>4 DEF HistoryInv, ViewInv, Relabelled, CallsInv, Revisions!PruneAsShown

(* The same with the answer of the call that was carried out.              *)
LEMMA Carried ==
    ASSUME HistoryInv, NEW c \in vCalls, ~c.done, c.op \in {"prune", "restore"},
           Revisions!Ends(c, TRUE, Revisions!NoAnswer),
           RepoInv', vHashes' >= vHashes,
           \A r \in vRepo' : r \in vRepo \/ r.hash > vHashes,
           UNCHANGED <<vView, vLate>>
    PROVE  ViewInv' /\ CallsInv'
<1>1. PICK e : e = [c EXCEPT !.done = TRUE, !.ok = TRUE, !.answer = Revisions!NoAnswer]
    OBVIOUS
<1>2. vCalls' = (vCalls \ {c}) \cup {e}
    BY <1>1 DEF Revisions!Ends
<1>3. /\ DOMAIN e = CallFields /\ e.op = c.op /\ e.data = c.data
      /\ e.done = TRUE /\ e.ok = TRUE /\ e.answer = Revisions!NoAnswer
  <2>1. DOMAIN c = CallFields 
      BY DEF HistoryInv, CallsInv, CallInv
  <2> QED BY <1>1, <2>1 DEF CallFields
<1>4. \A r : Known(r) => Known(r)' /\ (Agrees(r) => Agrees(r)')
    BY Renewed
<1>5. \A d : CallInv(d) => CallInv(d)'
    BY <1>4 DEF CallInv, Answered
<1>6. CallInv(e)'
    BY <1>3 DEF CallInv, Answered, HistoryInv, CallsInv
<1>7. CallsInv'
    BY <1>2, <1>3, <1>5, <1>6 DEF HistoryInv, CallsInv
<1>8. \A hash : Relabelled(hash) => Relabelled(hash)'
  <2> SUFFICES ASSUME NEW hash, NEW d \in vCalls, d.op = "label", d.data.hash = hash, d.done, d.ok
               PROVE  Relabelled(hash)'
      BY DEF Relabelled
  <2>1. d # c
      OBVIOUS
  <2> QED BY <1>2, <2>1 DEF Relabelled
<1>9. ViewInv'
    BY <1>4, <1>8 DEF HistoryInv, ViewInv
<1> QED BY <1>7, <1>9

LEMMA RestoreCarried ==
    ASSUME HistoryInv, NEW c \in vCalls, Revisions!MainRestores(c)
    PROVE  HistoryInv'
<1>1. /\ ~c.done /\ c.op = "restore" /\ Revisions!Ends(c, TRUE, Revisions!NoAnswer)
      /\ vRepo' = Revisions!Plus(vRepo, vHashes) /\ vHashes' = vHashes + 1
      /\ UNCHANGED <<vView, vSerial, vLate, vPruned>>
    BY DEF Revisions!MainRestores
<1>2. /\ RepoInv' /\ vHashes' >= vHashes
      /\ \A r \in vRepo' : r \in vRepo \/ r.hash > vHashes
    BY <1>1, RepoPlus DEF HistoryInv
<1> QED BY <1>1, <1>2, Carried DEF HistoryInv, Revisions!PruneAsShown

(* What a prune keeps gets new hashes, and what it removes its dialog had  *)
(* listed.                                                                 *)
LEMMA PruneCarried ==
    ASSUME HistoryInv, NEW c \in vCalls, Revisions!MainPrunes(c)
    PROVE  HistoryInv'
<1>1. PICK removed : removed = Revisions!Eligible(c.data.preview.days)
    OBVIOUS
<1>2. PICK kept : kept = {r \in vRepo : r.hash \notin removed}
    OBVIOUS
<1> DEFINE Renumbered(r) == [r EXCEPT !.hash = vHashes + @]
<1>3. /\ ~c.done /\ c.op = "prune" /\ Revisions!Ends(c, TRUE, Revisions!NoAnswer)
      /\ c.data.preview.eligible = removed
      /\ vRepo' = Revisions!Plus({Renumbered(r) : r \in kept}, 2 * vHashes)
      /\ vHashes' = 2 * vHashes + 1
      /\ vPruned' = vPruned \cup {[shown |-> c.data.shown, removed |-> removed]}
      /\ UNCHANGED <<vView, vSerial, vLate>>
    BY <1>1, <1>2 DEF Revisions!MainPrunes
<1>4. \A r \in kept : DOMAIN Renumbered(r) = RevisionFields /\ Renumbered(r).hash = vHashes + r.hash
    BY <1>2 DEF HistoryInv, RepoInv, Known, RevisionFields
<1>5. PICK new : new = [hash |-> 2 * vHashes + 1, label |-> 0, age |-> 0]
    OBVIOUS
<1>6. DOMAIN new = RevisionFields /\ new.hash = 2 * vHashes + 1
    BY <1>5 DEF RevisionFields
<1>7. vRepo' = {Renumbered(r) : r \in kept} \cup {new}
    BY <1>3, <1>5 DEF Revisions!Plus
<1> HIDE DEF Renumbered
<1>8. vHashes \in Nat /\ \A r \in kept : r \in vRepo /\ r.hash \in Nat \ {0} /\ r.hash <= vHashes
    BY <1>2 DEF HistoryInv, RepoInv, Known
<1>9. /\ RepoInv' /\ vHashes' >= vHashes
      /\ \A r \in vRepo' : r \in vRepo \/ r.hash > vHashes
  <2>1. \A r \in vRepo' : Known(r)' /\ r.hash > vHashes
      BY <1>3, <1>4, <1>6, <1>7, <1>8 DEF Known
  <2>2. \A r, q \in vRepo' : r.hash = q.hash => r = q
    <3>1. \A r, q \in kept : vHashes + r.hash = vHashes + q.hash => r = q
        BY <1>8 DEF HistoryInv, RepoInv
    <3>2. \A r \in kept : vHashes + r.hash # 2 * vHashes + 1
        BY <1>8
    <3> QED BY <1>4, <1>6, <1>7, <3>1, <3>2
  <2> QED BY <1>3, <1>8, <2>1, <2>2 DEF RepoInv
<1>10. Revisions!PruneAsShown'
  <2>1. c.data.shown = removed
      BY <1>3 DEF HistoryInv, CallsInv, CallInv
  <2> QED BY <1>3, <2>1 DEF HistoryInv, Revisions!PruneAsShown
<1> QED BY <1>3, <1>9, <1>10, Carried DEF HistoryInv

(* An answer arrives: the call is over, or the next one takes its place.   *)
LEMMA AnswerTaken ==
    ASSUME HistoryInv, NEW c \in vCalls, c.done, NEW op,
           Revisions!Over(c) \/ (Revisions!Then(c, op) /\ op \in {"list", "metadata"}),
           DOMAIN vView' = ViewFields,
           \A r \in vView'.list :
              Known(r) /\ (Agrees(r) \/ (Relabelled(r.hash) /\ (c.op = "label" /\ c.ok => r.hash # c.data.hash))),
           UNCHANGED Revisions!Main
    PROVE  HistoryInv'
<1>1. UNCHANGED <<vRepo, vHashes, vLate, vPruned>>
    BY DEF Revisions!Main
<1>2. \A r : (Known(r)' <=> Known(r)) /\ (Agrees(r)' <=> Agrees(r))
    BY <1>1 DEF Known, Agrees
<1>3. \A d : CallInv(d)' <=> CallInv(d)
    BY <1>2 DEF CallInv, Answered
<1>4. CallsInv' /\ vCalls \ {c} \subseteq vCalls'
  <2>1. CASE Revisions!Over(c)
      BY <1>3, <2>1 DEF HistoryInv, CallsInv, Revisions!Over
  <2>2. CASE Revisions!Then(c, op) /\ op \in {"list", "metadata"}
    <3>1. PICK next : next = Revisions!Call(op, c.for, Revisions!NoData)
        OBVIOUS
    <3>2. CallInv(next) /\ next.op = op
        BY <2>2, <3>1, CallMade
    <3> QED BY <1>3, <2>2, <3>1, <3>2 DEF HistoryInv, CallsInv, Revisions!Then
  <2> QED BY <2>1, <2>2
<1>5. \A hash : Relabelled(hash) /\ (c.op = "label" /\ c.ok => hash # c.data.hash) => Relabelled(hash)'
    BY <1>4 DEF Relabelled
<1>6. ViewInv'
    BY <1>2, <1>5 DEF ViewInv
<1> QED
    BY <1>1, <1>2, <1>4, <1>6 DEF HistoryInv, RepoInv, Revisions!PruneAsShown

(* A list with one revision replaced by an answer that agrees.             *)
LEMMA OneUpdated ==
    ASSUME HistoryInv, NEW revision, Known(revision), Agrees(revision),
           NEW list, list = Revisions!Updated(vView.list, revision)
    PROVE  \A r \in list : \/ r = revision
                           \/ r \in vView.list /\ r.hash # revision.hash
BY DEF Revisions!Updated

LEMMA ListsAnswered ==
    ASSUME HistoryInv, NEW c \in vCalls,
           \/ Revisions!ListArrives(c) \/ Revisions!PreviewArrives(c) \/ Revisions!PruneArrives(c)
           \/ Revisions!MetadataArrives(c) \/ Revisions!RestoreArrives(c)
    PROVE  HistoryInv'
<1>1. \A r \in vView.list : Known(r) /\ (Agrees(r) \/ Relabelled(r.hash))
    BY DEF HistoryInv, ViewInv
<1>2. CASE Revisions!ListArrives(c)
  <2>1. DOMAIN vView' = ViewFields /\ (vView'.list = vView.list \/ vView'.list = c.answer.list)
      BY <1>2 DEF Revisions!ListArrives, HistoryInv, ViewInv, ViewFields
  <2>2. \A r \in c.answer.list : Known(r) /\ Agrees(r)
      BY <1>2 DEF Revisions!ListArrives, HistoryInv, CallsInv, CallInv, Answered
  <2>3. c.op = "list" /\ c.done /\ Revisions!Over(c) /\ UNCHANGED Revisions!Main
      BY <1>2 DEF Revisions!ListArrives
  <2>4. \A r \in vView'.list : Known(r) /\ (Agrees(r) \/ Relabelled(r.hash))
      BY <1>1, <2>1, <2>2
  <2> QED BY <2>1, <2>3, <2>4, AnswerTaken
<1>3. CASE Revisions!PreviewArrives(c)
  <2>1. DOMAIN vView' = ViewFields /\ vView'.list = vView.list
      BY <1>3 DEF Revisions!PreviewArrives, HistoryInv, ViewInv, ViewFields
  <2>2. c.op = "preview" /\ c.done /\ Revisions!Over(c) /\ UNCHANGED Revisions!Main
      BY <1>3 DEF Revisions!PreviewArrives
  <2> QED BY <1>1, <2>1, <2>2, AnswerTaken
<1>4. CASE Revisions!PruneArrives(c)
  <2>1. /\ c.op = "prune" /\ c.done /\ UNCHANGED Revisions!Main /\ vView' = vView
        /\ Revisions!Over(c) \/ Revisions!Then(c, "metadata")
      BY <1>4 DEF Revisions!PruneArrives
  <2> QED BY <1>1, <2>1, AnswerTaken DEF HistoryInv, ViewInv
<1>5. CASE Revisions!MetadataArrives(c) \/ Revisions!RestoreArrives(c)
  <2>1. c.op \in {"metadata", "restore"} /\ c.done /\ UNCHANGED Revisions!Main
      BY <1>5 DEF Revisions!MetadataArrives, Revisions!RestoreArrives
  <2>2. \/ Revisions!Over(c) /\ vView' = vView
        \/ Revisions!Then(c, "list") /\ vView' = Revisions!Cleared
      BY <1>5 DEF Revisions!MetadataArrives, Revisions!RestoreArrives
  <2>3. DOMAIN Revisions!Cleared = ViewFields /\ Revisions!Cleared.list = {}
      BY DEF Revisions!Cleared, HistoryInv, ViewInv, ViewFields
  <2>4. DOMAIN vView' = ViewFields /\ (vView'.list = vView.list \/ vView'.list = {})
      BY <2>2, <2>3 DEF HistoryInv, ViewInv
  <2> QED BY <1>1, <2>1, <2>2, <2>4, AnswerTaken
<1> QED BY <1>2, <1>3, <1>4, <1>5

LEMMA RevisionsAnswered ==
    ASSUME HistoryInv, NEW c \in vCalls, Revisions!DiffArrives(c) \/ Revisions!LabelArrives(c)
    PROVE  HistoryInv'
<1>1. \A r \in vView.list : Known(r) /\ (Agrees(r) \/ Relabelled(r.hash))
    BY DEF HistoryInv, ViewInv
<1>2. /\ c.done /\ c.op \in {"diff", "label"} /\ Revisions!Over(c) /\ UNCHANGED Revisions!Main
    BY DEF Revisions!DiffArrives, Revisions!LabelArrives
<1>3. Answered(c)
    BY <1>2 DEF HistoryInv, CallsInv, CallInv
<1>4. PICK updated : updated = Revisions!Updated(vView.list, c.answer.revision)
    OBVIOUS
<1>5. /\ DOMAIN vView' = ViewFields
      /\ \/ vView'.list = vView.list /\ ~(c.op = "label" /\ c.ok)
         \/ vView'.list = updated /\ c.ok
  <2>1. DOMAIN vView = ViewFields
      BY DEF HistoryInv, ViewInv
  <2>2. CASE Revisions!LabelArrives(c) /\ c.ok
      BY <1>4, <2>1, <2>2 DEF Revisions!LabelArrives, Revisions!Labelled, ViewFields
  <2>3. CASE Revisions!LabelArrives(c) /\ ~c.ok
      BY <2>1, <2>3 DEF Revisions!LabelArrives
  <2>4. CASE Revisions!DiffArrives(c) /\ ~Revisions!DiffWanted(c)
      BY <2>1, <2>4 DEF Revisions!DiffArrives
  <2>5. CASE Revisions!DiffArrives(c) /\ Revisions!DiffWanted(c) /\ c.ok
    <3>1. vView' = [vView EXCEPT !.diff = c.data.hash, !.list = Revisions!Updated(@, c.answer.revision)]
        BY <2>5 DEF Revisions!DiffArrives
    <3> QED BY <1>4, <2>1, <2>5, <3>1 DEF ViewFields
  <2>6. CASE Revisions!DiffArrives(c) /\ Revisions!DiffWanted(c) /\ ~c.ok
    <3>1. vView' = [vView EXCEPT !.failed = TRUE]
        BY <2>6 DEF Revisions!DiffArrives
    <3> QED BY <2>1, <2>6, <3>1 DEF ViewFields
  <2> QED BY <2>2, <2>3, <2>4, <2>5, <2>6
<1>6. CASE vView'.list = vView.list /\ ~(c.op = "label" /\ c.ok)
    BY <1>1, <1>2, <1>5, <1>6, AnswerTaken
<1>7. CASE vView'.list = updated /\ c.ok
  <2>1. Known(c.answer.revision) /\ Agrees(c.answer.revision)
      BY <1>2, <1>3, <1>7 DEF Answered
  <2>2. c.op = "label" => c.answer.revision.hash = c.data.hash
      BY <1>3, <1>7 DEF Answered
  <2>3. \A r \in updated : r = c.answer.revision \/ (r \in vView.list /\ r.hash # c.answer.revision.hash)
      BY <1>4, <2>1, OneUpdated
  <2>4. \A r \in vView'.list :
           Known(r) /\ (Agrees(r) \/ (Relabelled(r.hash) /\ (c.op = "label" /\ c.ok => r.hash # c.data.hash)))
      BY <1>1, <1>7, <2>1, <2>2, <2>3
  <2> QED BY <1>2, <1>5, <2>4, AnswerTaken
<1> QED BY <1>5, <1>6, <1>7

(* What the user does on the page.                                         *)
LEMMA UserOnPage ==
    ASSUME HistoryInv,
           \/ Revisions!OpenHistory \/ Revisions!Preview \/ Revisions!RequestPrune
           \/ Revisions!CancelDialog \/ Revisions!ConfirmPrune \/ Revisions!ConfirmRestore
           \/ \E r \in vView.list : \/ Revisions!HideDiff(r.hash) \/ Revisions!ShowDiff(r.hash)
                                    \/ Revisions!SaveLabel(r) \/ Revisions!RequestRestore(r.hash)
           \/ \E days \in {1, 2} : Revisions!ChangeRetention(days)
    PROVE  HistoryInv'
<1>1. DOMAIN vView = ViewFields
    BY DEF HistoryInv, ViewInv
<1>2. CASE Revisions!OpenHistory
    BY <1>1, <1>2, PageAsks DEF Revisions!OpenHistory
<1>3. CASE Revisions!Preview
  <2>1. PICK data : data = [Revisions!NoData EXCEPT !.days = vView.days]
      OBVIOUS
  <2> QED BY <1>1, <1>3, <2>1, PageAsks DEF Revisions!Preview
<1>4. CASE \/ Revisions!RequestPrune \/ Revisions!CancelDialog
           \/ \E r \in vView.list : Revisions!HideDiff(r.hash) \/ Revisions!RequestRestore(r.hash)
           \/ \E days \in {1, 2} : Revisions!ChangeRetention(days)
  <2>1. /\ DOMAIN vView' = ViewFields /\ vView'.list = vView.list
        /\ UNCHANGED <<vCalls, Revisions!Main>>
      BY <1>1, <1>4 DEF Revisions!RequestPrune, Revisions!CancelDialog, Revisions!HideDiff,
                        Revisions!RequestRestore, Revisions!ChangeRetention, ViewFields
  <2> QED BY <2>1, PageChanges
<1>5. CASE Revisions!ConfirmPrune
  <2>1. PICK preview : preview = vView.dialog.preview
      OBVIOUS
  <2>2. PICK data : data = [Revisions!NoData EXCEPT !.preview = preview, !.shown = preview.eligible]
      OBVIOUS
  <2>3. data.shown = data.preview.eligible
      BY <2>2 DEF Revisions!NoData
  <2>4. Revisions!Sends("prune", "prune", data)
      BY <1>5, <2>1, <2>2 DEF Revisions!ConfirmPrune, Revisions!PruneRequest
  <2>5. DOMAIN vView' = ViewFields /\ vView'.list = vView.list /\ UNCHANGED Revisions!Main
      BY <1>1, <1>5 DEF Revisions!ConfirmPrune, ViewFields
  <2> QED BY <2>3, <2>4, <2>5, PageAsks
<1>6. CASE Revisions!ConfirmRestore
  <2>1. DOMAIN vView' = ViewFields /\ vView'.list = vView.list /\ UNCHANGED Revisions!Main
      BY <1>1, <1>6 DEF Revisions!ConfirmRestore, ViewFields
  <2> QED BY <1>6, <2>1, PageAsks DEF Revisions!ConfirmRestore
<1>7. ASSUME NEW r \in vView.list, Revisions!ShowDiff(r.hash) PROVE HistoryInv'
  <2>1. DOMAIN vView' = ViewFields /\ vView'.list = vView.list /\ UNCHANGED Revisions!Main
      BY <1>1, <1>7 DEF Revisions!ShowDiff, ViewFields
  <2> QED BY <1>7, <2>1, PageAsks DEF Revisions!ShowDiff
<1>8. ASSUME NEW r \in vView.list, Revisions!SaveLabel(r) PROVE HistoryInv'
  <2>1. PICK data : /\ data = [Revisions!NoData EXCEPT !.hash = r.hash, !.label = (r.label % 2) + 1]
                    /\ Revisions!Sends("label", "label", data)
      BY <1>8 DEF Revisions!SaveLabel
  <2>2. data.hash = r.hash
      BY <2>1 DEF Revisions!NoData
  <2>3. vView' = vView /\ UNCHANGED Revisions!Main /\ ~Revisions!Labelling(r.hash)
      BY <1>8 DEF Revisions!SaveLabel
  <2> QED BY <1>1, <2>1, <2>2, <2>3, PageAsks
<1> QED BY <1>2, <1>3, <1>4, <1>5, <1>6, <1>7, <1>8

(* Every step of the history page keeps the invariant.                     *)
LEMMA HistorySafe == HistoryInv /\ Revisions!HistoryPaneNext => HistoryInv'
BY ReadsAnswered, LabelSaved, SnapshotTaken, RestoreCarried, PruneCarried, ListsAnswered,
   RevisionsAnswered, UserOnPage DEF Revisions!HistoryPaneNext
LEMMA HistoryRests == HistoryInv /\ UNCHANGED paneVars => HistoryInv'
<1> SUFFICES ASSUME HistoryInv, UNCHANGED paneVars PROVE HistoryInv'
    OBVIOUS
<1>1. UNCHANGED <<vCalls, Revisions!Main>> /\ vView' = vView
    BY DEF paneVars, Revisions!Main
<1> QED BY <1>1, PageChanges DEF HistoryInv, ViewInv
-----------------------------------------------------------------------------
(***************************************************************************)
(* The mail view.                                                          *)
(***************************************************************************)
PaneFields ==
    {"account", "view", "folders", "rows", "selected", "detail", "search", "nav", "folderSeq",
     "accountSeq", "messageSeq", "busy", "stored", "threads", "ops", "last", "failed", "filtered",
     "astray", "moved"}
ThreadFields ==
    {"kind", "pc", "nav", "account", "place", "seq", "accountSeq", "messageSeq", "message", "detail"}

(* The handlers that open a folder: while they list it, and before.        *)
Openers == {"folder", "unified", "account", "sync"}
Filling == {"list", "tags", "message", "reading"}
Navigates(t) == t.kind \in Openers /\ t.pc \in Filling \cup {"folders", "sync"}

(* What a handler of the latest navigation knows of the view.              *)
Aims(s, t) ==
    /\ t.kind = s.last /\ t.account = s.account
    /\ t.kind = "account" => t.accountSeq = s.accountSeq
Fills(s, t) == t.place = s.view /\ t.seq = s.folderSeq
Opening(s, t) == t.kind \in Openers /\ t.nav = s.nav
NoneOpening(s) == \A u \in s.threads : ~(Navigates(u) /\ u.nav = s.nav)

ThreadShape(s, t) ==
    /\ DOMAIN t = ThreadFields
    /\ t.nav \in Nat /\ t.nav <= s.nav
ThreadStage(t) ==
    /\ t.pc = "folders" => t.kind = "account"
    /\ t.pc = "sync" => t.kind = "sync"
    /\ t.pc \in {"list", "tags"} => t.kind \in Openers
    /\ t.pc \in {"message", "reading"} => t.kind \in Openers \cup {"message"}
    /\ t.pc = "move" => t.kind = "message"
    /\ t.kind = "folder" /\ t.pc \in Filling => t.place # Pane!Unified
ThreadKnows(s, t) ==
    Navigates(t) /\ t.nav = s.nav => Aims(s, t) /\ (t.pc \in Filling => Fills(s, t))
ThreadsOK(s) ==
    /\ \A t \in s.threads : ThreadShape(s, t) /\ ThreadStage(t) /\ ThreadKnows(s, t)
    /\ \A t, u \in s.threads :
          Navigates(t) /\ t.nav = s.nav /\ Navigates(u) /\ u.nav = s.nav => t = u

(* The reader and the list; the reader goes astray only with a search.     *)
DetailFits(s) == (s.view = Pane!Unified /\ s.astray) \/ s.detail = Nowhere \/ s.detail = s.selected
RowsFit(s) == s.filtered \/ s.view = Nowhere \/ s.rows \subseteq Pane!ContentOf(s.view)
PaneFits(s) ==
    /\ DOMAIN s = PaneFields /\ s.nav \in Nat /\ s.account # Nowhere
    /\ s.search # "off" => s.astray
    /\ DetailFits(s) /\ RowsFit(s)

(* The selection is stored, or a handler of the latest navigation will.    *)
Stores(s) == s.failed \/ s.last \notin {"folder", "account"} \/ s.stored = s.view
Pursued(s) == Stores(s) \/ \E t \in s.threads : Navigates(t) /\ t.nav = s.nav /\ t.kind = s.last

PaneOK(s) == PaneFits(s) /\ ThreadsOK(s) /\ Pursued(s)

(* The same while a handler goes on, before and after it set the view.     *)
Ready(s, t) ==
    /\ PaneFits(s) /\ ThreadsOK(s) /\ ThreadShape(s, t)
    /\ Opening(s, t) => Aims(s, t) /\ NoneOpening(s)
    /\ Opening(s, t) \/ Pursued(s)
Held(s, t) == Ready(s, t) /\ (Opening(s, t) => Fills(s, t))

(* Nothing the invariant speaks of differs.                                *)
Unseen == {"folders", "messageSeq", "busy", "ops", "moved"}
Alike(s, r) == DOMAIN r = PaneFields /\ \A f \in PaneFields \ Unseen : r[f] = s[f]
LEMMA AlikeFields ==
    ASSUME NEW s, NEW r, Alike(s, r)
    PROVE  /\ DOMAIN r = PaneFields
           /\ r.account = s.account /\ r.view = s.view /\ r.rows = s.rows
           /\ r.selected = s.selected /\ r.detail = s.detail /\ r.search = s.search
           /\ r.nav = s.nav /\ r.folderSeq = s.folderSeq /\ r.accountSeq = s.accountSeq
           /\ r.stored = s.stored /\ r.threads = s.threads /\ r.last = s.last
           /\ r.failed = s.failed /\ r.filtered = s.filtered /\ r.astray = s.astray
BY DEF Alike, PaneFields, Unseen
LEMMA AlikeKeeps ==
    ASSUME NEW s, NEW r, Alike(s, r)
    PROVE  /\ PaneOK(s) => PaneOK(r)
           /\ \A t : (Ready(s, t) => Ready(r, t)) /\ (Held(s, t) => Held(r, t))
<1>1. /\ DOMAIN r = PaneFields
      /\ r.account = s.account /\ r.view = s.view /\ r.rows = s.rows
      /\ r.selected = s.selected /\ r.detail = s.detail /\ r.search = s.search
      /\ r.nav = s.nav /\ r.folderSeq = s.folderSeq /\ r.accountSeq = s.accountSeq
      /\ r.stored = s.stored /\ r.threads = s.threads /\ r.last = s.last
      /\ r.failed = s.failed /\ r.filtered = s.filtered /\ r.astray = s.astray
    BY AlikeFields
<1>2. PaneFits(s) => PaneFits(r)
    BY <1>1 DEF PaneFits, DetailFits, RowsFit
<1>3. \A t : /\ ThreadShape(s, t) <=> ThreadShape(r, t)
             /\ Aims(s, t) <=> Aims(r, t)
             /\ Fills(s, t) <=> Fills(r, t)
    BY <1>1 DEF ThreadShape, Aims, Fills
<1>4. ThreadsOK(s) => ThreadsOK(r)
    BY <1>1, <1>3 DEF ThreadsOK, ThreadKnows
<1>5. Pursued(s) => Pursued(r)
    BY <1>1 DEF Pursued, Stores
<1> QED
    BY <1>1, <1>2, <1>3, <1>4, <1>5 DEF PaneOK, Ready, Held, Opening, NoneOpening
LEMMA ReleasedAlike ==
    ASSUME NEW s, DOMAIN s = PaneFields, NEW latest, NEW key
    PROVE  Alike(s, Pane!Release(s, latest, key))
BY DEF Alike, PaneFields, Unseen, Pane!Release

(* A thread is added.                                                      *)
LEMMA Joined ==
    ASSUME NEW s, PaneFits(s), ThreadsOK(s), NEW t, NEW pc, ThreadShape(s, t),
           NEW u, u = [t EXCEPT !.pc = pc],
           ThreadStage(u), ThreadKnows(s, u),
           Navigates(u) /\ u.nav = s.nav => NoneOpening(s),
           Pursued(s) \/ (Navigates(u) /\ u.nav = s.nav /\ u.kind = s.last)
    PROVE  PaneOK(Pane!Awaiting(s, t, pc))
<1>1. PICK r : r = Pane!Awaiting(s, t, pc)
    OBVIOUS
<1>2. DOMAIN s = PaneFields
    BY DEF PaneFits
<1>3. /\ DOMAIN r = PaneFields /\ r.threads = s.threads \cup {u}
      /\ \A f \in PaneFields \ {"threads"} : r[f] = s[f]
    BY <1>1, <1>2 DEF Pane!Awaiting, PaneFields
<1>4. /\ r.account = s.account /\ r.view = s.view /\ r.rows = s.rows
      /\ r.selected = s.selected /\ r.detail = s.detail /\ r.search = s.search
      /\ r.nav = s.nav /\ r.folderSeq = s.folderSeq /\ r.accountSeq = s.accountSeq
      /\ r.stored = s.stored /\ r.last = s.last
      /\ r.failed = s.failed /\ r.filtered = s.filtered /\ r.astray = s.astray
    BY <1>3 DEF PaneFields
<1>5. ThreadShape(s, u)
    BY DEF ThreadShape, ThreadFields
<1>6. PaneFits(r)
    BY <1>3, <1>4 DEF PaneFits, DetailFits, RowsFit
<1>7. \A v : /\ ThreadShape(s, v) <=> ThreadShape(r, v)
             /\ ThreadKnows(s, v) <=> ThreadKnows(r, v)
    BY <1>4 DEF ThreadShape, ThreadKnows, Aims, Fills
<1>8. ThreadsOK(r)
    BY <1>3, <1>4, <1>5, <1>7 DEF ThreadsOK, NoneOpening
<1>9. Pursued(r)
  <2>1. Stores(s) => Stores(r)
      BY <1>4 DEF Stores
  <2>2. \A v \in s.threads \cup {u} : Navigates(v) /\ v.nav = s.nav /\ v.kind = s.last => Pursued(r)
      BY <1>3, <1>4 DEF Pursued
  <2> QED BY <2>1, <2>2 DEF Pursued
<1> QED
    BY <1>1, <1>6, <1>8, <1>9 DEF PaneOK

-----------------------------------------------------------------------------
(* The ends of the handlers. *)
LEMMA FolderEnds ==
    ASSUME NEW s, NEW t, Held(s, t), t.kind = "folder" => ~Opening(s, t) \/ Pursued(s)
    PROVE  PaneOK(Pane!AfterFolder(s, t))
<1>1. /\ PaneFits(s) /\ ThreadsOK(s) /\ ThreadShape(s, t) /\ DOMAIN s = PaneFields
      /\ Opening(s, t) => Aims(s, t) /\ Fills(s, t)
      /\ Pursued(s) \/ (Opening(s, t) /\ t.kind = s.last)
    BY DEF Ready, Held, PaneFits, Aims
<1>2. CASE t.kind = "account" /\ Pane!OwnsAccount(s, t)
  <2>1. PICK q : q = [s EXCEPT !.stored = t.place]
      OBVIOUS
  <2>2. Pane!AfterFolder(s, t) = Pane!Awaiting(q, t, "save account")
      BY <1>2, <2>1 DEF Pane!AfterFolder
  <2>3. PICK u : u = [t EXCEPT !.pc = "save account"]
      OBVIOUS
  <2>4. u.pc = "save account"
      BY <1>1, <2>3 DEF ThreadShape, ThreadFields
  <2>5. /\ q.account = s.account /\ q.view = s.view /\ q.rows = s.rows
        /\ q.selected = s.selected /\ q.detail = s.detail /\ q.search = s.search
        /\ q.nav = s.nav /\ q.folderSeq = s.folderSeq /\ q.accountSeq = s.accountSeq
        /\ q.stored = t.place /\ q.last = s.last /\ q.threads = s.threads /\ DOMAIN q = PaneFields
        /\ q.failed = s.failed /\ q.filtered = s.filtered /\ q.astray = s.astray
      BY <1>1, <2>1 DEF PaneFields
  <2>6. PaneFits(q) /\ ThreadsOK(q) /\ ThreadShape(q, t)
      BY <1>1, <2>5 DEF PaneFits, DetailFits, RowsFit, ThreadsOK, ThreadShape, ThreadKnows, Aims, Fills
  <2>7. Pursued(q)
    <3>1. t.place = s.view
        BY <1>1, <1>2 DEF Opening, Openers, Fills, Pane!OwnsAccount, Pane!OwnsNavigation
    <3> QED BY <2>5, <3>1 DEF Pursued, Stores
  <2>8. ThreadStage(u) /\ ~Navigates(u)
      BY <2>4 DEF ThreadStage, Navigates, Filling
  <2>9. ThreadKnows(q, u)
      BY <2>8 DEF ThreadKnows
  <2> QED BY <2>2, <2>3, <2>6, <2>7, <2>8, <2>9, Joined
<1>3. CASE t.kind = "account" /\ ~Pane!OwnsAccount(s, t)
  <2>1. Pane!AfterFolder(s, t) = Pane!Release(s, t.accountSeq = s.accountSeq, "account")
      BY <1>3 DEF Pane!AfterFolder, Pane!EndAccount
  <2>2. ~Opening(s, t)
      BY <1>1, <1>3 DEF Pane!OwnsAccount, Pane!OwnsNavigation, Aims, Opening
  <2>3. PaneOK(s)
      BY <1>1, <2>2 DEF PaneOK
  <2> QED BY <1>1, <2>1, <2>3, ReleasedAlike, AlikeKeeps
<1>4. CASE t.kind = "sync"
  <2>1. PaneOK(s)
    <3>1. s.last = "sync" => Stores(s)
        BY DEF Stores
    <3> QED BY <1>1, <1>4, <3>1 DEF PaneOK, Pursued
  <2>2. CASE Pane!OwnsNavigation(s, t)
    <3>1. PICK u : u = [t EXCEPT !.pc = "metadata"]
        OBVIOUS
    <3>2. u.pc = "metadata"
        BY <1>1, <3>1 DEF ThreadShape, ThreadFields
    <3>3. ThreadStage(u) /\ ~Navigates(u)
        BY <3>2 DEF ThreadStage, Navigates, Filling
    <3>4. ThreadKnows(s, u)
        BY <3>3 DEF ThreadKnows
    <3>5. Pane!AfterFolder(s, t) = Pane!Awaiting(s, t, "metadata")
        BY <1>4, <2>2 DEF Pane!AfterFolder
    <3> QED BY <1>1, <2>1, <3>1, <3>3, <3>4, <3>5, Joined DEF PaneOK
  <2>3. CASE ~Pane!OwnsNavigation(s, t)
    <3>1. Pane!AfterFolder(s, t) = Pane!Release(s, TRUE, "sync")
        BY <1>4, <2>3 DEF Pane!AfterFolder, Pane!EndSync
    <3> QED BY <1>1, <2>1, <3>1, ReleasedAlike, AlikeKeeps
  <2> QED BY <2>2, <2>3
<1>5. CASE t.kind \notin {"account", "sync"}
  <2>1. Pane!AfterFolder(s, t) = s
      BY <1>5 DEF Pane!AfterFolder
  <2>2. Pursued(s)
    <3>1. CASE t.kind = "folder"
        BY <1>1, <3>1
    <3>2. CASE t.kind # "folder" /\ s.last = t.kind
        BY <1>5, <3>2 DEF Pursued, Stores
    <3> QED BY <1>1, <3>1, <3>2
  <2> QED BY <1>1, <2>1, <2>2 DEF PaneOK
<1> QED BY <1>2, <1>3, <1>4, <1>5

LEMMA FolderLoadEnds ==
    ASSUME NEW s, NEW t, Held(s, t), t.kind = "folder" => ~Opening(s, t) \/ Pursued(s)
    PROVE  PaneOK(Pane!EndFolder(s, t))
<1>1. PICK r : r = Pane!Release(s, t.seq = s.folderSeq, "folder")
    OBVIOUS
<1>2. Alike(s, r) /\ Pane!EndFolder(s, t) = Pane!AfterFolder(r, t)
    BY <1>1, ReleasedAlike DEF Ready, Held, PaneFits, Pane!EndFolder
<1>3. Held(r, t)
    BY <1>2, AlikeKeeps
<1>4. r.nav = s.nav /\ r.threads = s.threads /\ (Stores(s) => Stores(r)) /\ r.last = s.last
    BY <1>2, AlikeFields DEF Stores
<1>5. t.kind = "folder" => ~Opening(r, t) \/ Pursued(r)
    BY <1>4 DEF Opening, Pursued
<1> QED BY <1>2, <1>3, <1>5, FolderEnds

LEMMA MessageEnds ==
    ASSUME NEW s, NEW t, Held(s, t)
    PROVE  PaneOK(Pane!AfterMessage(s, t))
<1>1. /\ PaneFits(s) /\ ThreadsOK(s) /\ ThreadShape(s, t) /\ DOMAIN s = PaneFields
      /\ Opening(s, t) => Aims(s, t) /\ Fills(s, t)
      /\ Pursued(s) \/ (Opening(s, t) /\ t.kind = s.last)
    BY DEF Ready, Held, PaneFits, Aims
<1>2. CASE t.kind = "folder" /\ Pane!OwnsFolder(s, t)
  <2>1. PICK q : q = [s EXCEPT !.stored = t.place]
      OBVIOUS
  <2>2. Pane!AfterMessage(s, t) = Pane!Awaiting(q, t, "save")
      BY <1>2, <2>1 DEF Pane!AfterMessage
  <2>3. PICK u : u = [t EXCEPT !.pc = "save"]
      OBVIOUS
  <2>4. u.pc = "save" /\ u.kind = "folder"
      BY <1>1, <1>2, <2>3 DEF ThreadShape, ThreadFields
  <2>5. /\ q.account = s.account /\ q.view = s.view /\ q.rows = s.rows
        /\ q.selected = s.selected /\ q.detail = s.detail /\ q.search = s.search
        /\ q.nav = s.nav /\ q.folderSeq = s.folderSeq /\ q.accountSeq = s.accountSeq
        /\ q.stored = t.place /\ q.last = s.last /\ q.threads = s.threads /\ DOMAIN q = PaneFields
        /\ q.failed = s.failed /\ q.filtered = s.filtered /\ q.astray = s.astray
      BY <1>1, <2>1 DEF PaneFields
  <2>6. PaneFits(q) /\ ThreadsOK(q) /\ ThreadShape(q, t)
      BY <1>1, <2>5 DEF PaneFits, DetailFits, RowsFit, ThreadsOK, ThreadShape, ThreadKnows, Aims, Fills
  <2>7. Pursued(q)
      BY <1>2, <2>5 DEF Pursued, Stores, Pane!OwnsFolder
  <2>8. ThreadStage(u) /\ ~Navigates(u)
      BY <2>4 DEF ThreadStage, Navigates, Filling
  <2>9. ThreadKnows(q, u)
      BY <2>8 DEF ThreadKnows
  <2> QED BY <2>2, <2>3, <2>6, <2>7, <2>8, <2>9, Joined
<1>3. CASE ~(t.kind = "folder" /\ Pane!OwnsFolder(s, t)) /\ t.kind = "message"
  <2>1. Pane!AfterMessage(s, t) = s
      BY <1>3 DEF Pane!AfterMessage
  <2>2. ~Opening(s, t)
      BY <1>3 DEF Opening, Openers
  <2> QED BY <1>1, <2>1, <2>2 DEF PaneOK
<1>4. CASE ~(t.kind = "folder" /\ Pane!OwnsFolder(s, t)) /\ t.kind # "message"
  <2>1. Pane!AfterMessage(s, t) = Pane!EndFolder(s, t)
      BY <1>4 DEF Pane!AfterMessage
  <2>2. t.kind = "folder" => ~Opening(s, t)
      BY <1>1, <1>4 DEF Opening, Aims, Fills, Pane!OwnsFolder
  <2> QED BY <2>1, <2>2, FolderLoadEnds
<1> QED BY <1>2, <1>3, <1>4

-----------------------------------------------------------------------------
(* A handler waits for its next answer. *)
LEMMA HeldWaits ==
    ASSUME NEW s, NEW t, NEW pc \in Filling, Held(s, t), t.kind \in Openers \cup {"message"},
           pc \in {"list", "tags"} => t.kind \in Openers,
           t.kind = "folder" => t.place # Pane!Unified
    PROVE  PaneOK(Pane!Awaiting(s, t, pc))
<1>1. PICK u : u = [t EXCEPT !.pc = pc]
    OBVIOUS
<1>2. PaneFits(s) /\ ThreadsOK(s) /\ ThreadShape(s, t)
    BY DEF Held, Ready
<1>3. /\ u.pc = pc /\ u.kind = t.kind /\ u.nav = t.nav /\ u.account = t.account
      /\ u.accountSeq = t.accountSeq /\ u.place = t.place /\ u.seq = t.seq
    BY <1>1, <1>2 DEF ThreadShape, ThreadFields
<1>4. ThreadStage(u)
    BY <1>3 DEF ThreadStage, Filling, Openers
<1>5. Opening(s, t) => ThreadKnows(s, u) /\ NoneOpening(s) /\ Navigates(u) /\ u.kind = s.last
    BY <1>3 DEF Held, Ready, ThreadKnows, Aims, Fills, Navigates, Opening
<1>6. ~Opening(s, t) => ~(Navigates(u) /\ u.nav = s.nav) /\ Pursued(s)
    BY <1>3 DEF Navigates, Opening, Held, Ready
<1>7. ThreadKnows(s, u)
    BY <1>5, <1>6 DEF ThreadKnows
<1> QED
    BY <1>1, <1>2, <1>3, <1>4, <1>5, <1>6, <1>7, Joined DEF Opening

(* loadMessage, called with a message that is wanted, or with a view that  *)
(* fits whether or not it is.                                              *)
LEMMA MessageWanted ==
    ASSUME NEW p, NEW s, NEW t, NEW m, Held(p, t), t.kind \in Openers \cup {"message"},
           t.kind = "folder" => t.place # Pane!Unified,
           DOMAIN s = PaneFields, \A f \in PaneFields \ (Unseen \cup {"selected"}) : s[f] = p[f],
           t.nav = s.nav, Pane!Belongs(s, m)
    PROVE  PaneOK(Pane!LoadMessage(s, t, m))
<1>1. PICK drawn : drawn = [s EXCEPT !.messageSeq = @ + 1]
    OBVIOUS
<1>2. PICK q : q = [drawn EXCEPT !.selected = m, !.detail = Nowhere, !.busy = @ \cup {"message"}]
    OBVIOUS
<1>3. PICK u : u = [t EXCEPT !.message = m, !.messageSeq = drawn.messageSeq]
    OBVIOUS
<1>4. Pane!LoadMessage(s, t, m) = Pane!Awaiting(q, u, "message")
    BY <1>1, <1>2, <1>3 DEF Pane!LoadMessage
<1>5. DOMAIN t = ThreadFields /\ PaneFits(p)
    BY DEF Held, Ready, ThreadShape
<1>6. /\ DOMAIN u = ThreadFields /\ u.kind = t.kind /\ u.nav = t.nav /\ u.account = t.account
      /\ u.accountSeq = t.accountSeq /\ u.place = t.place /\ u.seq = t.seq
    BY <1>3, <1>5 DEF ThreadFields
<1>7. /\ DOMAIN q = PaneFields /\ q.detail = Nowhere
      /\ \A f \in PaneFields \ (Unseen \cup {"selected", "detail"}) : q[f] = p[f]
    BY <1>1, <1>2 DEF PaneFields, Unseen
<1>8. /\ q.account = p.account /\ q.view = p.view /\ q.rows = p.rows /\ q.search = p.search
      /\ q.nav = p.nav /\ q.folderSeq = p.folderSeq /\ q.accountSeq = p.accountSeq
      /\ q.stored = p.stored /\ q.threads = p.threads /\ q.last = p.last
      /\ q.failed = p.failed /\ q.filtered = p.filtered /\ q.astray = p.astray
    BY <1>7 DEF PaneFields, Unseen
<1>9. PaneFits(q)
    BY <1>5, <1>7, <1>8 DEF PaneFits, DetailFits, RowsFit
<1>10. /\ ThreadsOK(p) => ThreadsOK(q)
       /\ Pursued(p) => Pursued(q)
       /\ NoneOpening(p) => NoneOpening(q)
    BY <1>8 DEF ThreadsOK, ThreadShape, ThreadKnows, Aims, Fills, Pursued, Stores, NoneOpening
<1>11. Held(q, u)
    BY <1>6, <1>8, <1>9, <1>10 DEF Held, Ready, ThreadShape, Opening, Aims, Fills
<1> QED
    BY <1>4, <1>6, <1>11, HeldWaits DEF Filling

LEMMA MessageLoads ==
    ASSUME NEW s, NEW t, NEW m, Held(s, t), t.kind \in Openers \cup {"message"},
           t.kind = "folder" => t.place # Pane!Unified
    PROVE  PaneOK(Pane!LoadMessage(s, t, m))
<1>1. DOMAIN s = PaneFields
    BY DEF Held, Ready, PaneFits
<1>2. CASE t.nav = s.nav /\ Pane!Belongs(s, m)
    BY <1>1, <1>2, MessageWanted
<1>3. CASE ~(t.nav = s.nav /\ Pane!Belongs(s, m))
  <2>1. PICK drawn : drawn = [s EXCEPT !.messageSeq = @ + 1]
      OBVIOUS
  <2>2. Pane!LoadMessage(s, t, m) = Pane!AfterMessage(drawn, t)
      BY <1>3, <2>1 DEF Pane!LoadMessage
  <2>3. Alike(s, drawn)
      BY <1>1, <2>1 DEF Alike, PaneFields, Unseen
  <2> QED BY <2>2, <2>3, AlikeKeeps, MessageEnds
<1> QED BY <1>2, <1>3

(* loadFolder and loadUnifiedFolder.                                       *)
LEMMA ViewLoads ==
    ASSUME NEW s, NEW t, NEW view, Ready(s, t), t.kind \in Openers,
           t.kind = "folder" => view # Pane!Unified
    PROVE  PaneOK(Pane!LoadView(s, t, view))
<1>1. /\ PaneFits(s) /\ ThreadsOK(s) /\ ThreadShape(s, t) /\ DOMAIN s = PaneFields
      /\ DOMAIN t = ThreadFields
    BY DEF Ready, PaneFits, ThreadShape
<1>2. CASE t.nav # s.nav \/ s.account # t.account
  <2>1. ~Opening(s, t)
      BY <1>2 DEF Opening, Ready, Aims
  <2>2. Held(s, t)
      BY <2>1 DEF Held
  <2>3. Pane!LoadView(s, t, view) = Pane!AfterFolder(s, t)
      BY <1>2 DEF Pane!LoadView
  <2> QED BY <2>1, <2>2, <2>3, FolderEnds
<1>3. CASE ~(t.nav # s.nav \/ s.account # t.account)
  <2>1. PICK q : q = [s EXCEPT !.folderSeq = @ + 1, !.view = view, !.rows = {}, !.selected = Nowhere,
                               !.detail = Nowhere, !.busy = @ \cup {"folder"}, !.filtered = FALSE]
      OBVIOUS
  <2>2. PICK u : u = [t EXCEPT !.place = view, !.seq = s.folderSeq + 1,
                               !.message = s.selected, !.detail = s.detail]
      OBVIOUS
  <2>3. Pane!LoadView(s, t, view) = Pane!Awaiting(q, u, "list")
      BY <1>3, <2>1, <2>2 DEF Pane!LoadView
  <2>4. /\ DOMAIN q = PaneFields
        /\ q.view = view /\ q.rows = {} /\ q.detail = Nowhere /\ q.folderSeq = s.folderSeq + 1
        /\ q.account = s.account /\ q.search = s.search
        /\ q.nav = s.nav /\ q.accountSeq = s.accountSeq
        /\ q.threads = s.threads /\ q.last = s.last /\ q.astray = s.astray
      BY <1>1, <2>1 DEF PaneFields
  <2>5. /\ DOMAIN u = ThreadFields /\ u.kind = t.kind /\ u.nav = t.nav /\ u.account = t.account
        /\ u.accountSeq = t.accountSeq /\ u.place = view /\ u.seq = s.folderSeq + 1
      BY <1>1, <2>2 DEF ThreadFields
  <2>6. Opening(s, t) /\ Aims(s, t) /\ NoneOpening(s)
      BY <1>3 DEF Opening, Ready
  <2>7. PaneFits(q)
      BY <1>1, <2>4 DEF PaneFits, DetailFits, RowsFit
  <2>8. ThreadsOK(q) /\ NoneOpening(q)
    <3>1. NoneOpening(q) /\ \A v : ThreadShape(s, v) => ThreadShape(q, v)
        BY <2>4, <2>6 DEF NoneOpening, ThreadShape
    <3>2. \A v \in q.threads : ThreadKnows(q, v)
        BY <3>1 DEF NoneOpening, ThreadKnows
    <3> QED BY <1>1, <2>4, <3>1, <3>2 DEF ThreadsOK, NoneOpening
  <2>9. Held(q, u)
      BY <1>1, <2>4, <2>5, <2>6, <2>7, <2>8 DEF Held, Ready, ThreadShape, Opening, Aims, Fills
  <2> QED BY <2>3, <2>5, <2>9, HeldWaits DEF Filling
<1> QED BY <1>2, <1>3

-----------------------------------------------------------------------------
(* A new navigation leaves the handlers of the ones before behind. *)
LEMMA LeftBehind ==
    ASSUME NEW s, ThreadsOK(s), s.nav \in Nat, NEW q, q.nav = s.nav + 1, q.threads = s.threads
    PROVE  ThreadsOK(q) /\ NoneOpening(q)
<1>1. \A u \in q.threads : u.nav \in Nat /\ u.nav < q.nav
    BY DEF ThreadsOK, ThreadShape
<1>2. \A u \in q.threads : ThreadShape(q, u) /\ ThreadStage(u)
    BY <1>1 DEF ThreadsOK, ThreadShape
<1>3. \A u \in q.threads : u.nav # q.nav
    BY <1>1
<1> QED
    BY <1>2, <1>3 DEF ThreadsOK, ThreadKnows, NoneOpening

(* loadAccount, from any state of the view.                                *)
LEMMA AccountLoads ==
    ASSUME NEW s, DOMAIN s = PaneFields, s.nav \in Nat, s.search # "off" => s.astray, ThreadsOK(s),
           NEW account \in PaneAccounts
    PROVE  PaneOK(Pane!LoadAccount(s, account))
<1>1. PICK q : q = [Pane!Navigate(s, "account") EXCEPT
                      !.accountSeq = @ + 1, !.account = account, !.view = Nowhere, !.folders = Nowhere,
                      !.rows = {}, !.selected = Nowhere, !.detail = Nowhere,
                      !.busy = @ \cup {"account"}, !.failed = FALSE, !.filtered = FALSE]
    OBVIOUS
<1>2. PICK t : t = Pane!Thread("account", "", q.nav, account)
    OBVIOUS
<1>3. PICK u : u = [t EXCEPT !.accountSeq = q.accountSeq]
    OBVIOUS
<1>4. Pane!LoadAccount(s, account) = Pane!Awaiting(q, u, "folders")
    BY <1>1, <1>2, <1>3 DEF Pane!LoadAccount
<1>5. /\ DOMAIN q = PaneFields /\ q.nav = s.nav + 1 /\ q.last = "account" /\ q.account = account
      /\ q.view = Nowhere /\ q.rows = {} /\ q.detail = Nowhere /\ q.search = s.search
      /\ q.astray = s.astray /\ q.threads = s.threads
    BY <1>1 DEF Pane!Navigate, PaneFields
<1>6. /\ DOMAIN u = ThreadFields /\ u.kind = "account" /\ u.nav = q.nav /\ u.account = account
      /\ u.accountSeq = q.accountSeq
  <2>1. DOMAIN t = ThreadFields /\ t.kind = "account" /\ t.nav = q.nav /\ t.account = account
      BY <1>2 DEF Pane!Thread, ThreadFields
  <2> QED BY <1>3, <2>1 DEF ThreadFields
<1>7. PaneFits(q)
    BY <1>5, MailViewAssumption DEF PaneFits, DetailFits, RowsFit
<1>8. ThreadsOK(q) /\ NoneOpening(q)
    BY <1>5, LeftBehind
<1>9. PICK v : v = [u EXCEPT !.pc = "folders"]
    OBVIOUS
<1>10. /\ DOMAIN v = ThreadFields /\ v.kind = "account" /\ v.nav = q.nav /\ v.account = account
       /\ v.accountSeq = q.accountSeq /\ v.pc = "folders"
    BY <1>6, <1>9 DEF ThreadFields
<1>11. ThreadShape(q, u)
    BY <1>5, <1>6 DEF ThreadShape
<1>12. ThreadStage(v) /\ Navigates(v) /\ ThreadKnows(q, v)
    BY <1>5, <1>10 DEF ThreadStage, Navigates, Openers, Filling, ThreadKnows, Aims
<1> QED
    BY <1>4, <1>5, <1>7, <1>8, <1>9, <1>10, <1>11, <1>12, Joined

LEMMA PaneStart == ASSUME NEW a \in PaneAccounts PROVE PaneOK(Pane!LoadAccount(Pane!Blank, a))
<1>1. DOMAIN Pane!Blank = PaneFields
    BY DEF Pane!Blank, PaneFields
<1>2. Pane!Blank.nav = 0 /\ Pane!Blank.search = "off" /\ Pane!Blank.threads = {}
    BY DEF Pane!Blank
<1>3. ThreadsOK(Pane!Blank)
    BY <1>2 DEF ThreadsOK
<1> QED BY <1>1, <1>2, <1>3, AccountLoads

-----------------------------------------------------------------------------
(* What the user starts. *)
LEMMA StartsKeep ==
    ASSUME NEW s, PaneOK(s), pane' = [s EXCEPT !.ops = @ + 1]
    PROVE  PaneOK(pane')
<1>1. Alike(s, pane')
    BY DEF PaneOK, PaneFits, Alike, PaneFields, Unseen
<1> QED BY <1>1, AlikeKeeps

(* A navigation of the user, with the handler that makes it.               *)
LEMMA NavigationReady ==
    ASSUME PaneOK(pane), NEW kind, NEW s, NEW t,
           DOMAIN s = PaneFields, s.nav = pane.nav + 1, s.last = kind, s.threads = pane.threads,
           s.account = pane.account, s.view = pane.view, s.rows = pane.rows,
           s.selected = pane.selected, s.detail = pane.detail, s.search = pane.search,
           s.filtered = pane.filtered, s.astray = pane.astray,
           DOMAIN t = ThreadFields, t.kind = kind, t.nav = s.nav, t.account = s.account,
           kind # "account"
    PROVE  Ready(s, t) /\ PaneFits(s) /\ ThreadsOK(s) /\ NoneOpening(s)
<1>1. PaneFits(pane) /\ ThreadsOK(pane)
    BY DEF PaneOK
<1>2. PaneFits(s)
    BY <1>1 DEF PaneFits, DetailFits, RowsFit
<1>3. ThreadsOK(s) /\ NoneOpening(s)
    BY <1>1, LeftBehind DEF PaneFits
<1>4. ThreadShape(s, t)
    BY <1>2 DEF ThreadShape, PaneFits
<1>5. Opening(s, t) \/ Stores(s)
    BY DEF Opening, Openers, Stores
<1> QED
    BY <1>2, <1>3, <1>4, <1>5 DEF Ready, Aims, Pursued

LEMMA FolderSelected ==
    ASSUME PaneOK(pane), NEW path, Pane!SelectFolder(path) PROVE PaneOK(pane')
<1>1. DOMAIN pane = PaneFields /\ pane.account # Nowhere
    BY DEF PaneOK, PaneFits
<1>2. PICK s : s = [Pane!Navigate(pane, "folder") EXCEPT !.failed = FALSE]
    OBVIOUS
<1>3. PICK t : t = Pane!Thread("folder", "", s.nav, s.account)
    OBVIOUS
<1>4. PICK view : view = [account |-> s.account, path |-> path]
    OBVIOUS
<1>5. PICK r : r = Pane!LoadView(s, t, view)
    OBVIOUS
<1>6. pane' = [r EXCEPT !.ops = @ + 1]
    BY <1>2, <1>3, <1>4, <1>5 DEF Pane!SelectFolder, Pane!Starts
<1>7. /\ DOMAIN s = PaneFields /\ s.nav = pane.nav + 1 /\ s.last = "folder" /\ s.threads = pane.threads
      /\ s.account = pane.account /\ s.view = pane.view /\ s.rows = pane.rows
      /\ s.selected = pane.selected /\ s.detail = pane.detail /\ s.search = pane.search
      /\ s.filtered = pane.filtered /\ s.astray = pane.astray
    BY <1>1, <1>2 DEF Pane!Navigate, PaneFields
<1>8. DOMAIN t = ThreadFields /\ t.kind = "folder" /\ t.nav = s.nav /\ t.account = s.account
    BY <1>3 DEF Pane!Thread, ThreadFields
<1>9. Ready(s, t)
    BY <1>7, <1>8, NavigationReady
<1>10. view # Pane!Unified
    BY <1>1, <1>4, <1>7 DEF Pane!Unified
<1>11. PaneOK(r)
    BY <1>5, <1>8, <1>9, <1>10, ViewLoads DEF Openers
<1> QED BY <1>6, <1>11, StartsKeep

LEMMA UnifiedSelected ==
    ASSUME PaneOK(pane), Pane!SelectUnified PROVE PaneOK(pane')
<1>1. DOMAIN pane = PaneFields
    BY DEF PaneOK, PaneFits
<1>2. PICK s : s = [Pane!Navigate(pane, "unified") EXCEPT !.failed = FALSE]
    OBVIOUS
<1>3. PICK t : t = Pane!Thread("unified", "", s.nav, s.account)
    OBVIOUS
<1>4. PICK r : r = Pane!LoadView(s, t, Pane!Unified)
    OBVIOUS
<1>5. pane' = [r EXCEPT !.ops = @ + 1]
    BY <1>2, <1>3, <1>4 DEF Pane!SelectUnified, Pane!Starts
<1>6. /\ DOMAIN s = PaneFields /\ s.nav = pane.nav + 1 /\ s.last = "unified" /\ s.threads = pane.threads
      /\ s.account = pane.account /\ s.view = pane.view /\ s.rows = pane.rows
      /\ s.selected = pane.selected /\ s.detail = pane.detail /\ s.search = pane.search
      /\ s.filtered = pane.filtered /\ s.astray = pane.astray
    BY <1>1, <1>2 DEF Pane!Navigate, PaneFields
<1>7. DOMAIN t = ThreadFields /\ t.kind = "unified" /\ t.nav = s.nav /\ t.account = s.account
    BY <1>3 DEF Pane!Thread, ThreadFields
<1>8. Ready(s, t)
    BY <1>6, <1>7, NavigationReady
<1>9. PaneOK(r)
    BY <1>4, <1>7, <1>8, ViewLoads DEF Openers
<1> QED BY <1>5, <1>9, StartsKeep

(* A handler that opens nothing waits.                                     *)
LEMMA OtherWaits ==
    ASSUME NEW s, PaneOK(s), NEW t, NEW pc, ThreadShape(s, t),
           pc \notin Filling \cup {"folders", "sync"}, pc = "move" => t.kind = "message"
    PROVE  PaneOK(Pane!Awaiting(s, t, pc))
<1>1. PICK u : u = [t EXCEPT !.pc = pc]
    OBVIOUS
<1>2. u.pc = pc /\ u.kind = t.kind
    BY <1>1 DEF ThreadShape, ThreadFields
<1>3. ~Navigates(u) /\ ThreadStage(u)
    BY <1>2 DEF Navigates, ThreadStage, Filling
<1>4. ThreadKnows(s, u)
    BY <1>3 DEF ThreadKnows
<1> QED BY <1>1, <1>3, <1>4, Joined DEF PaneOK

LEMMA SyncStarted == ASSUME PaneOK(pane), Pane!Sync PROVE PaneOK(pane')
<1>1. DOMAIN pane = PaneFields /\ pane.nav \in Nat
    BY DEF PaneOK, PaneFits
<1>2. PICK s : s = Pane!Navigate(pane, "sync")
    OBVIOUS
<1>3. PICK q : q = [s EXCEPT !.busy = @ \cup {"sync"}]
    OBVIOUS
<1>4. PICK t0 : t0 = Pane!Thread("sync", "", s.nav, s.account)
    OBVIOUS
<1>5. PICK t : t = [t0 EXCEPT !.place = s.view]
    OBVIOUS
<1>6. PICK r : r = Pane!Awaiting(q, t, "sync")
    OBVIOUS
<1>7. pane' = [r EXCEPT !.ops = @ + 1]
    BY <1>2, <1>3, <1>4, <1>5, <1>6 DEF Pane!Sync, Pane!Starts
<1>8. /\ DOMAIN q = PaneFields /\ q.nav = pane.nav + 1 /\ q.last = "sync" /\ q.threads = pane.threads
      /\ q.account = pane.account /\ q.view = pane.view /\ q.rows = pane.rows
      /\ q.selected = pane.selected /\ q.detail = pane.detail /\ q.search = pane.search
      /\ q.filtered = pane.filtered /\ q.astray = pane.astray
      /\ s.nav = q.nav /\ s.account = q.account
    BY <1>1, <1>2, <1>3 DEF Pane!Navigate, PaneFields
<1>9. PICK u : u = [t EXCEPT !.pc = "sync"]
    OBVIOUS
<1>10. DOMAIN t0 = ThreadFields /\ t0.kind = "sync" /\ t0.nav = q.nav /\ t0.account = q.account
    BY <1>4, <1>8 DEF Pane!Thread, ThreadFields
<1>11. PaneFits(q) /\ ThreadsOK(q) /\ NoneOpening(q)
    BY <1>8, <1>10, NavigationReady
<1>12. DOMAIN t = ThreadFields /\ t.kind = "sync" /\ t.nav = q.nav /\ t.account = q.account
    BY <1>5, <1>10 DEF ThreadFields
<1>13. u.kind = "sync" /\ u.nav = q.nav /\ u.account = q.account /\ u.pc = "sync"
    BY <1>9, <1>12 DEF ThreadFields
<1>14. ThreadShape(q, t)
    BY <1>1, <1>8, <1>12 DEF ThreadShape
<1>15. ThreadStage(u) /\ ThreadKnows(q, u)
    BY <1>8, <1>13 DEF ThreadStage, ThreadKnows, Aims, Filling
<1>16. Pursued(q)
    BY <1>8 DEF Pursued, Stores
<1>17. PaneOK(r)
    BY <1>6, <1>9, <1>11, <1>14, <1>15, <1>16, Joined
<1> QED BY <1>7, <1>17, StartsKeep

LEMMA OthersStarted ==
    ASSUME PaneOK(pane),
           \/ \E m : Pane!SelectMessage(m)
           \/ Pane!Move \/ Pane!RunFilters \/ Pane!FolderAdmin \/ Pane!Replace
    PROVE  PaneOK(pane')
<1>1. DOMAIN pane = PaneFields /\ pane.nav \in Nat
    BY DEF PaneOK, PaneFits
<1>2. ASSUME NEW kind, NEW t, DOMAIN t = ThreadFields, t.nav = pane.nav
      PROVE  ThreadShape(pane, t)
    BY <1>1, <1>2 DEF ThreadShape
<1>3. ASSUME NEW m, Pane!SelectMessage(m) PROVE PaneOK(pane')
  <2>1. PICK t : t = Pane!Thread("message", "", pane.nav, pane.account)
      OBVIOUS
  <2>2. PICK r : r = Pane!LoadMessage(pane, t, m)
      OBVIOUS
  <2>3. pane' = [r EXCEPT !.ops = @ + 1]
      BY <1>3, <2>1, <2>2 DEF Pane!SelectMessage, Pane!Starts
  <2>4. DOMAIN t = ThreadFields /\ t.kind = "message" /\ t.nav = pane.nav
      BY <2>1 DEF Pane!Thread, ThreadFields
  <2>5. Held(pane, t)
      BY <1>2, <2>4 DEF PaneOK, Held, Ready, Opening, Openers
  <2>6. PaneOK(r)
      BY <2>2, <2>4, <2>5, MessageLoads
  <2> QED BY <2>3, <2>6, StartsKeep
<1>4. CASE Pane!Move
  <2>1. PICK t0 : t0 = Pane!Thread("message", "", pane.nav, pane.account)
      OBVIOUS
  <2>2. PICK t : t = [t0 EXCEPT !.message = Pane!Active(pane)]
      OBVIOUS
  <2>3. PICK r : r = Pane!Awaiting(pane, t, "move")
      OBVIOUS
  <2>4. pane' = [r EXCEPT !.ops = @ + 1]
      BY <1>4, <2>1, <2>2, <2>3 DEF Pane!Move, Pane!Starts
  <2>5. DOMAIN t0 = ThreadFields /\ t0.kind = "message" /\ t0.nav = pane.nav
      BY <2>1 DEF Pane!Thread, ThreadFields
  <2>6. DOMAIN t = ThreadFields /\ t.kind = "message" /\ t.nav = pane.nav
      BY <2>2, <2>5 DEF ThreadFields
  <2>7. PaneOK(r)
      BY <1>2, <2>3, <2>6, OtherWaits DEF Filling
  <2> QED BY <2>4, <2>7, StartsKeep
<1>5. CASE Pane!RunFilters
  <2>1. PICK t0 : t0 = Pane!Thread("filters", "", pane.nav, pane.account)
      OBVIOUS
  <2>2. PICK t : t = [t0 EXCEPT !.place = pane.view]
      OBVIOUS
  <2>3. PICK r : r = Pane!Awaiting(pane, t, "filters")
      OBVIOUS
  <2>4. pane' = [r EXCEPT !.ops = @ + 1]
      BY <1>5, <2>1, <2>2, <2>3 DEF Pane!RunFilters, Pane!Starts
  <2>5. DOMAIN t0 = ThreadFields /\ t0.nav = pane.nav
      BY <2>1 DEF Pane!Thread, ThreadFields
  <2>6. DOMAIN t = ThreadFields /\ t.nav = pane.nav
      BY <2>2, <2>5 DEF ThreadFields
  <2>7. PaneOK(r)
      BY <1>2, <2>3, <2>6, OtherWaits DEF Filling
  <2> QED BY <2>4, <2>7, StartsKeep
<1>6. CASE Pane!FolderAdmin
  <2>1. PICK t : t = Pane!Thread("folder", "", pane.nav, pane.account)
      OBVIOUS
  <2>2. PICK r : r = Pane!Awaiting(pane, t, "admin")
      OBVIOUS
  <2>3. pane' = [r EXCEPT !.ops = @ + 1]
      BY <1>6, <2>1, <2>2 DEF Pane!FolderAdmin, Pane!Starts
  <2>4. DOMAIN t = ThreadFields /\ t.nav = pane.nav
      BY <2>1 DEF Pane!Thread, ThreadFields
  <2>5. PaneOK(r)
      BY <1>2, <2>2, <2>4, OtherWaits DEF Filling
  <2> QED BY <2>3, <2>5, StartsKeep
<1>7. CASE Pane!Replace
  <2>1. PICK s : s = Pane!Navigate(pane, "replace")
      OBVIOUS
  <2>2. PICK t : t = Pane!Thread("replace", "", s.nav, s.account)
      OBVIOUS
  <2>3. PICK r : r = Pane!Awaiting(s, t, "replace")
      OBVIOUS
  <2>4. pane' = [r EXCEPT !.ops = @ + 1]
      BY <1>7, <2>1, <2>2, <2>3 DEF Pane!Replace, Pane!Starts
  <2>5. /\ DOMAIN s = PaneFields /\ s.nav = pane.nav + 1 /\ s.last = "replace" /\ s.threads = pane.threads
        /\ s.account = pane.account /\ s.view = pane.view /\ s.rows = pane.rows
        /\ s.selected = pane.selected /\ s.detail = pane.detail /\ s.search = pane.search
        /\ s.filtered = pane.filtered /\ s.astray = pane.astray
      BY <1>1, <2>1 DEF Pane!Navigate, PaneFields
  <2>6. DOMAIN t = ThreadFields /\ t.kind = "replace" /\ t.nav = s.nav /\ t.account = s.account
      BY <2>2 DEF Pane!Thread, ThreadFields
  <2>7. Ready(s, t)
      BY <2>5, <2>6, NavigationReady
  <2>8. PaneOK(s) /\ ThreadShape(s, t)
      BY <2>5, <2>7 DEF Ready, PaneOK, Pursued, Stores
  <2>9. PaneOK(r)
      BY <2>3, <2>6, <2>8, OtherWaits DEF Filling
  <2> QED BY <2>4, <2>9, StartsKeep
<1> QED BY <1>3, <1>4, <1>5, <1>6, <1>7

LEMMA AccountSelected ==
    ASSUME PaneOK(pane), NEW a \in PaneAccounts, Pane!SelectAccount(a) PROVE PaneOK(pane')
<1>1. PICK r : r = Pane!LoadAccount(pane, a)
    OBVIOUS
<1>2. pane' = [r EXCEPT !.ops = @ + 1]
    BY <1>1 DEF Pane!SelectAccount, Pane!Starts
<1>3. PaneOK(r)
    BY <1>1, AccountLoads DEF PaneOK, PaneFits
<1> QED BY <1>2, <1>3, StartsKeep

LEMMA PatternTyped ==
    ASSUME PaneOK(pane), (\E on \in BOOLEAN : Pane!TypePattern(on)) \/ Pane!SearchAnswered
    PROVE  PaneOK(pane')
<1>1. DOMAIN pane = PaneFields /\ PaneFits(pane) /\ ThreadsOK(pane) /\ Pursued(pane)
    BY DEF PaneOK, PaneFits
<1>2. /\ DOMAIN pane' = PaneFields
      /\ \A f \in PaneFields \ {"search", "astray", "ops"} : pane'[f] = pane[f]
      /\ pane'.search # "off" => pane'.astray
      /\ pane.astray => pane'.astray
  <2>1. ASSUME NEW on \in BOOLEAN, Pane!TypePattern(on)
        PROVE  /\ DOMAIN pane' = PaneFields /\ pane'.astray = TRUE
               /\ \A f \in PaneFields \ {"search", "astray", "ops"} : pane'[f] = pane[f]
    <3>1. PICK s : s = [pane EXCEPT !.search = IF on THEN "pending" ELSE "off", !.astray = TRUE]
        OBVIOUS
    <3>2. pane' = [s EXCEPT !.ops = @ + 1]
        BY <2>1, <3>1 DEF Pane!TypePattern, Pane!Starts
    <3> QED BY <1>1, <3>1, <3>2 DEF PaneFields
  <2>2. CASE Pane!SearchAnswered
    <3>1. pane' = [pane EXCEPT !.search = "hits"] /\ pane.search = "pending"
        BY <2>2 DEF Pane!SearchAnswered
    <3>2. pane.astray
        BY <1>1, <3>1 DEF PaneFits
    <3> QED BY <1>1, <3>1, <3>2 DEF PaneFields
  <2> QED BY <2>1, <2>2
<1>3. /\ pane'.account = pane.account /\ pane'.view = pane.view /\ pane'.rows = pane.rows
      /\ pane'.selected = pane.selected /\ pane'.detail = pane.detail
      /\ pane'.nav = pane.nav /\ pane'.folderSeq = pane.folderSeq /\ pane'.accountSeq = pane.accountSeq
      /\ pane'.stored = pane.stored /\ pane'.threads = pane.threads /\ pane'.last = pane.last
      /\ pane'.failed = pane.failed /\ pane'.filtered = pane.filtered
    BY <1>2 DEF PaneFields
<1>4. PaneFits(pane')
    BY <1>1, <1>2, <1>3 DEF PaneFits, DetailFits, RowsFit
<1>5. ThreadsOK(pane') /\ Pursued(pane')
    BY <1>1, <1>3 DEF ThreadsOK, ThreadShape, ThreadKnows, Aims, Fills, Pursued, Stores
<1> QED BY <1>4, <1>5 DEF PaneOK

-----------------------------------------------------------------------------
(* Answers. *)
LEMMA Resumed ==
    ASSUME PaneOK(pane), NEW t \in pane.threads, NEW s, s = Pane!Resume(t)
    PROVE  /\ PaneFits(s) /\ ThreadsOK(s) /\ DOMAIN s = PaneFields
           /\ ThreadShape(s, t) /\ ThreadStage(t) /\ DOMAIN t = ThreadFields
           /\ ~Navigates(t) => PaneOK(s)
           /\ t.pc \in Filling => Held(s, t)
           /\ t.pc \in {"folders", "sync"} => Ready(s, t)
<1>1. PaneFits(pane) /\ ThreadsOK(pane) /\ Pursued(pane) /\ DOMAIN pane = PaneFields
    BY DEF PaneOK, PaneFits
<1>2. /\ DOMAIN s = PaneFields /\ s.threads = pane.threads \ {t}
      /\ s.account = pane.account /\ s.view = pane.view /\ s.rows = pane.rows
      /\ s.selected = pane.selected /\ s.detail = pane.detail /\ s.search = pane.search
      /\ s.nav = pane.nav /\ s.folderSeq = pane.folderSeq /\ s.accountSeq = pane.accountSeq
      /\ s.stored = pane.stored /\ s.last = pane.last
      /\ s.failed = pane.failed /\ s.filtered = pane.filtered /\ s.astray = pane.astray
    BY <1>1 DEF Pane!Resume, PaneFields
<1>3. PaneFits(s)
    BY <1>1, <1>2 DEF PaneFits, DetailFits, RowsFit
<1>4. /\ \A u : ThreadShape(pane, u) <=> ThreadShape(s, u)
      /\ \A u : ThreadKnows(pane, u) <=> ThreadKnows(s, u)
    BY <1>2 DEF ThreadShape, ThreadKnows, Aims, Fills
<1>5. ThreadsOK(s) /\ ThreadShape(s, t) /\ ThreadStage(t) /\ ThreadKnows(s, t)
    BY <1>1, <1>2, <1>4 DEF ThreadsOK
<1>6. Navigates(t) /\ t.nav = s.nav => NoneOpening(s)
    BY <1>1, <1>2 DEF ThreadsOK, NoneOpening
<1>7. Pursued(s) \/ (Navigates(t) /\ t.nav = s.nav)
  <2>1. Stores(pane) => Stores(s)
      BY <1>2 DEF Stores
  <2>2. \A u \in pane.threads : Navigates(u) /\ u.nav = pane.nav /\ u.kind = pane.last =>
           Pursued(s) \/ (Navigates(t) /\ t.nav = s.nav)
      BY <1>2 DEF Pursued
  <2> QED BY <1>1, <2>1, <2>2 DEF Pursued
<1>8. t.pc \in Filling \cup {"folders", "sync"} => Ready(s, t)
    BY <1>3, <1>5, <1>6, <1>7 DEF Ready, Opening, Navigates, ThreadKnows
<1>9. t.pc \in Filling => Held(s, t)
    BY <1>5, <1>8 DEF Held, Opening, Navigates, ThreadKnows
<1> QED
    BY <1>2, <1>3, <1>5, <1>7, <1>8, <1>9 DEF PaneOK, ThreadShape

(* A call of a handler fails. *)
LEMMA FailedKeeps ==
    ASSUME NEW s, NEW t, DOMAIN s = PaneFields, NEW r, r = Pane!Fails(s, t)
    PROVE  /\ DOMAIN r = PaneFields
           /\ PaneOK(s) => PaneOK(r)
           /\ Ready(s, t) => PaneOK(r) /\ Ready(r, t)
           /\ Held(s, t) => Held(r, t)
<1>1. /\ DOMAIN r = PaneFields /\ r.threads = s.threads
      /\ r.account = s.account /\ r.view = s.view /\ r.rows = s.rows
      /\ r.selected = s.selected /\ r.detail = s.detail /\ r.search = s.search
      /\ r.nav = s.nav /\ r.folderSeq = s.folderSeq /\ r.accountSeq = s.accountSeq
      /\ r.stored = s.stored /\ r.last = s.last
      /\ r.filtered = s.filtered /\ r.astray = s.astray
    BY DEF Pane!Fails, PaneFields
<1>2. r.failed <=> (s.failed \/ t.nav = s.nav)
    BY DEF Pane!Fails, PaneFields
<1>3. PaneFits(s) => PaneFits(r)
    BY <1>1 DEF PaneFits, DetailFits, RowsFit
<1>4. ThreadsOK(s) => ThreadsOK(r)
    BY <1>1 DEF ThreadsOK, ThreadShape, ThreadKnows, Aims, Fills
<1>5. Stores(s) \/ t.nav = s.nav => Stores(r)
    BY <1>1, <1>2 DEF Stores
<1>6. Pursued(s) => Pursued(r)
    BY <1>1, <1>5 DEF Pursued
<1>7. Opening(s, t) => Pursued(r)
    BY <1>5 DEF Opening, Pursued
<1>8. Ready(s, t) => PaneOK(r) /\ Ready(r, t)
  <2> SUFFICES ASSUME Ready(s, t) PROVE PaneOK(r) /\ Ready(r, t)
      OBVIOUS
  <2>1. PaneOK(r)
      BY <1>3, <1>4, <1>6, <1>7 DEF Ready, PaneOK
  <2>2. ThreadShape(r, t) /\ (Opening(r, t) => Aims(r, t) /\ NoneOpening(r))
      BY <1>1 DEF Ready, ThreadShape, Opening, Aims, NoneOpening
  <2> QED BY <2>1, <2>2 DEF Ready, PaneOK
<1>9. Held(s, t) => Held(r, t)
    BY <1>1, <1>8 DEF Held, Opening, Fills
<1> QED BY <1>1, <1>3, <1>4, <1>6, <1>8, <1>9 DEF PaneOK

LEMMA FoldersAnswered ==
    ASSUME PaneOK(pane), NEW t \in pane.threads, Pane!FoldersListed(t) PROVE PaneOK(pane')
<1>1. PICK s : s = Pane!Resume(t)
    OBVIOUS
<1>2. t.pc = "folders"
    BY DEF Pane!FoldersListed
<1>3. Ready(s, t) /\ DOMAIN s = PaneFields /\ t.kind = "account"
    BY <1>1, <1>2, Resumed DEF ThreadStage
<1>4. PICK f : f = Pane!Fails(s, t)
    OBVIOUS
<1>5. PaneOK(f) /\ DOMAIN f = PaneFields
    BY <1>3, <1>4, FailedKeeps
<1>6. CASE pane' = Pane!EndAccount(f, t)
  <2>1. Alike(f, pane')
      BY <1>5, <1>6, ReleasedAlike DEF Pane!EndAccount
  <2> QED BY <1>5, <2>1, AlikeKeeps
<1>7. ASSUME NEW path,
             pane' = Pane!LoadView([s EXCEPT !.folders = t.account], t, [account |-> t.account, path |-> path])
      PROVE  PaneOK(pane')
  <2>1. PICK q : q = [s EXCEPT !.folders = t.account]
      OBVIOUS
  <2>2. Alike(s, q)
      BY <1>3, <2>1 DEF Alike, PaneFields, Unseen
  <2>3. Ready(q, t)
      BY <1>3, <2>2, AlikeKeeps
  <2> QED BY <1>3, <1>7, <2>1, <2>3, ViewLoads DEF Openers
<1>8. CASE ~Pane!OwnsAccount(s, t) /\ pane' = Pane!EndAccount(s, t)
  <2>1. PaneOK(s)
      BY <1>3, <1>8 DEF Ready, PaneOK, Opening, Aims, Pane!OwnsAccount, Pane!OwnsNavigation
  <2>2. Alike(s, pane')
      BY <1>3, <1>8, ReleasedAlike DEF Pane!EndAccount
  <2> QED BY <2>1, <2>2, AlikeKeeps
<1> QED
    BY <1>1, <1>4, <1>6, <1>7, <1>8 DEF Pane!FoldersListed

(* Other rows, another selection or reader that fit. *)
LEMMA Refitted ==
    ASSUME NEW s, NEW r, DOMAIN r = PaneFields, PaneFits(r),
           \A f \in PaneFields \ (Unseen \cup {"rows", "selected", "detail", "filtered", "astray"}) : r[f] = s[f]
    PROVE  /\ PaneOK(s) => PaneOK(r)
           /\ \A t : (Ready(s, t) => Ready(r, t)) /\ (Held(s, t) => Held(r, t))
<1>1. /\ r.account = s.account /\ r.view = s.view /\ r.nav = s.nav
      /\ r.folderSeq = s.folderSeq /\ r.accountSeq = s.accountSeq /\ r.stored = s.stored
      /\ r.threads = s.threads /\ r.last = s.last /\ r.failed = s.failed
    BY DEF PaneFields, Unseen
<1>2. \A t : /\ ThreadShape(s, t) <=> ThreadShape(r, t)
             /\ Aims(s, t) <=> Aims(r, t)
             /\ Fills(s, t) <=> Fills(r, t)
    BY <1>1 DEF ThreadShape, Aims, Fills
<1>3. ThreadsOK(s) => ThreadsOK(r)
    BY <1>1, <1>2 DEF ThreadsOK, ThreadKnows
<1>4. Pursued(s) => Pursued(r)
    BY <1>1 DEF Pursued, Stores
<1> QED
    BY <1>1, <1>2, <1>3, <1>4 DEF PaneOK, Ready, Held, Opening, NoneOpening

(* A message is not Nowhere. *)
LEMMA MessageThere == \A m \in Pane!AllInboxes : m # Nowhere
<1>1. Pane!Inbox \in Paths
    BY MailViewAssumption DEF Pane!Inbox
<1>2. ASSUME NEW m \in Pane!AllInboxes PROVE m # Nowhere
  <2>1. PICK a \in PaneAccounts : m \in Pane!MessagesOf([account |-> a, path |-> Pane!Inbox])
      BY <1>2 DEF Pane!AllInboxes
  <2>2. PICK n \in {1, 2} : m = [place |-> [account |-> a, path |-> Pane!Inbox], n |-> n]
      BY <2>1 DEF Pane!MessagesOf
  <2>3. m \in [place : [account : PaneAccounts, path : Paths], n : {1, 2}]
      BY <1>1, <2>2
  <2> QED BY <2>3, MailViewAssumption
<1> QED BY <1>2

(* listMessages and listUnifiedMessages come back.                         *)
LEMMA ListAnswered ==
    ASSUME PaneOK(pane), NEW t \in pane.threads, Pane!Listed(t) PROVE PaneOK(pane')
<1>1. PICK s : s = Pane!Resume(t)
    OBVIOUS
<1>2. t.pc = "list"
    BY DEF Pane!Listed
<1>3. /\ Held(s, t) /\ DOMAIN s = PaneFields /\ PaneFits(s) /\ t.kind \in Openers
      /\ t.kind = "folder" => t.place # Pane!Unified
    BY <1>1, <1>2, Resumed DEF ThreadStage, Filling
<1>4. PICK f : f = Pane!Fails(s, t)
    OBVIOUS
<1>5. PaneOK(f) /\ Held(f, t)
    BY <1>3, <1>4, FailedKeeps DEF Held
<1>6. PICK filled : filled = [s EXCEPT !.rows = Pane!Listing(s, t.place)]
    OBVIOUS
<1>7. CASE pane' = Pane!EndFolder(f, t)
    BY <1>5, <1>7, FolderLoadEnds DEF PaneOK
<1>8. CASE ~Pane!OwnsFolder(s, t) /\ pane' = Pane!EndFolder(s, t)
  <2>1. ~Opening(s, t)
      BY <1>3, <1>8 DEF Pane!OwnsFolder, Held, Ready, Opening, Aims, Fills
  <2> QED BY <1>3, <1>8, <2>1, FolderLoadEnds
<1>9. CASE Pane!OwnsFolder(s, t)
  <2>1. t.nav = s.nav /\ s.view = t.place
      BY <1>9 DEF Pane!OwnsFolder
  <2>2. /\ DOMAIN filled = PaneFields /\ filled.rows = Pane!Listing(s, t.place)
        /\ \A g \in PaneFields \ {"rows"} : filled[g] = s[g]
      BY <1>3, <1>6 DEF PaneFields
  <2>3. /\ filled.account = s.account /\ filled.view = t.place /\ filled.search = s.search
        /\ filled.selected = s.selected /\ filled.detail = s.detail
        /\ filled.nav = s.nav /\ filled.filtered = s.filtered /\ filled.astray = s.astray
      BY <2>1, <2>2 DEF PaneFields
  <2>4. PaneFits(filled)
      BY <1>3, <2>1, <2>2, <2>3 DEF PaneFits, DetailFits, RowsFit, Pane!Listing
  <2>5. Held(filled, t)
      BY <1>3, <2>2, <2>4, Refitted DEF Unseen
  <2>6. CASE t.place # Pane!Unified /\ pane' = Pane!Awaiting(filled, t, "tags")
      BY <1>3, <2>5, <2>6, HeldWaits DEF Filling
  <2>7. CASE t.place = Pane!Unified /\ filled.rows = {} /\ pane' = Pane!EndFolder(filled, t)
      BY <1>3, <2>5, <2>7, FolderLoadEnds
  <2>8. ASSUME t.place = Pane!Unified, NEW m \in filled.rows, NEW chosen,
               chosen = [filled EXCEPT !.selected = m]
        PROVE  /\ Pane!Active(chosen) = Nowhere => PaneOK(Pane!EndFolder(chosen, t))
               /\ t.detail = m => PaneOK(Pane!EndFolder([chosen EXCEPT !.detail = m], t))
               /\ PaneOK(Pane!LoadMessage(chosen, t, m))
    <3>1. /\ DOMAIN chosen = PaneFields /\ chosen.selected = m
          /\ \A g \in PaneFields \ {"selected"} : chosen[g] = filled[g]
        BY <2>2, <2>8 DEF PaneFields
    <3>2. /\ chosen.account = filled.account /\ chosen.view = t.place /\ chosen.search = filled.search
          /\ chosen.rows = filled.rows /\ chosen.detail = filled.detail
          /\ chosen.nav = filled.nav /\ chosen.filtered = filled.filtered /\ chosen.astray = filled.astray
        BY <2>3, <3>1 DEF PaneFields
    <3>3. m # Nowhere
        BY <2>2, <2>8, MessageThere DEF Pane!Listing, Pane!ContentOf
    <3>4. chosen.astray => Held(chosen, t)
      <4>1. chosen.astray => PaneFits(chosen)
          BY <2>4, <2>8, <3>1, <3>2 DEF PaneFits, DetailFits, RowsFit
      <4> QED BY <2>5, <3>1, <4>1, Refitted DEF Unseen
    <3>5. chosen.search # "off" => chosen.astray
        BY <2>4, <3>2 DEF PaneFits
    <3>6. chosen.search = "off" => Pane!Active(chosen) # Nowhere /\ Pane!Belongs(chosen, m)
        BY <2>8, <3>1, <3>2, <3>3 DEF Pane!Active, Pane!Belongs
    <3>7. ASSUME Pane!Active(chosen) = Nowhere PROVE PaneOK(Pane!EndFolder(chosen, t))
        BY <1>3, <2>8, <3>4, <3>5, <3>6, <3>7, FolderLoadEnds
    <3>8. ASSUME t.detail = m PROVE PaneOK(Pane!EndFolder([chosen EXCEPT !.detail = m], t))
      <4>1. PICK r : r = [chosen EXCEPT !.detail = m]
          OBVIOUS
      <4>2. /\ DOMAIN r = PaneFields /\ r.selected = m /\ r.detail = m
            /\ \A g \in PaneFields \ {"selected", "detail"} : r[g] = filled[g]
          BY <3>1, <4>1 DEF PaneFields
      <4>3. /\ r.account = filled.account /\ r.view = filled.view /\ r.search = filled.search
            /\ r.rows = filled.rows /\ r.nav = filled.nav
            /\ r.filtered = filled.filtered /\ r.astray = filled.astray
          BY <4>2 DEF PaneFields
      <4>4. PaneFits(r)
          BY <2>4, <4>2, <4>3 DEF PaneFits, DetailFits, RowsFit
      <4>5. Held(r, t)
          BY <2>5, <4>2, <4>4, Refitted DEF Unseen
      <4> QED BY <1>3, <2>8, <4>1, <4>5, FolderLoadEnds
    <3>9. PaneOK(Pane!LoadMessage(chosen, t, m))
      <4>1. CASE chosen.search = "off"
          BY <1>3, <2>1, <2>5, <3>1, <3>2, <2>3, <3>6, <4>1, MessageWanted DEF Unseen
      <4>2. CASE chosen.search # "off"
          BY <1>3, <3>4, <3>5, <4>2, MessageLoads
      <4> QED BY <4>1, <4>2
    <3> QED BY <3>7, <3>8, <3>9
  <2>9. CASE /\ t.place = Pane!Unified
             /\ \E m \in IF t.message \in filled.rows THEN {t.message} ELSE filled.rows :
                  LET chosen == [filled EXCEPT !.selected = m] IN
                  pane' = IF Pane!Active(chosen) = Nowhere THEN Pane!EndFolder(chosen, t)
                          ELSE IF t.detail = m THEN Pane!EndFolder([chosen EXCEPT !.detail = m], t)
                          ELSE Pane!LoadMessage(chosen, t, m)
    <3>1. PICK m \in filled.rows :
                  LET chosen == [filled EXCEPT !.selected = m] IN
                  pane' = IF Pane!Active(chosen) = Nowhere THEN Pane!EndFolder(chosen, t)
                          ELSE IF t.detail = m THEN Pane!EndFolder([chosen EXCEPT !.detail = m], t)
                          ELSE Pane!LoadMessage(chosen, t, m)
        BY <2>9
    <3>2. PICK chosen : chosen = [filled EXCEPT !.selected = m]
        OBVIOUS
    <3>3. \/ Pane!Active(chosen) = Nowhere /\ pane' = Pane!EndFolder(chosen, t)
          \/ t.detail = m /\ pane' = Pane!EndFolder([chosen EXCEPT !.detail = m], t)
          \/ pane' = Pane!LoadMessage(chosen, t, m)
        BY <3>1, <3>2
    <3>4. /\ Pane!Active(chosen) = Nowhere => PaneOK(Pane!EndFolder(chosen, t))
          /\ t.detail = m => PaneOK(Pane!EndFolder([chosen EXCEPT !.detail = m], t))
          /\ PaneOK(Pane!LoadMessage(chosen, t, m))
        BY <2>8, <2>9, <3>2
    <3> QED BY <3>3, <3>4
  <2>10. \/ pane' = Pane!EndFolder(f, t)
         \/ t.place # Pane!Unified /\ pane' = Pane!Awaiting(filled, t, "tags")
         \/ /\ t.place = Pane!Unified
            /\ \E m \in IF t.message \in filled.rows THEN {t.message} ELSE filled.rows :
                  LET chosen == [filled EXCEPT !.selected = m] IN
                  pane' = IF Pane!Active(chosen) = Nowhere THEN Pane!EndFolder(chosen, t)
                          ELSE IF t.detail = m THEN Pane!EndFolder([chosen EXCEPT !.detail = m], t)
                          ELSE Pane!LoadMessage(chosen, t, m)
         \/ t.place = Pane!Unified /\ filled.rows = {} /\ pane' = Pane!EndFolder(filled, t)
      BY <1>1, <1>4, <1>6, <1>9 DEF Pane!Listed
  <2> QED BY <1>7, <2>6, <2>7, <2>9, <2>10
<1>10. pane' = Pane!EndFolder(f, t) \/ (~Pane!OwnsFolder(s, t) /\ pane' = Pane!EndFolder(s, t)) \/ Pane!OwnsFolder(s, t)
    BY <1>1, <1>4 DEF Pane!Listed
<1> QED BY <1>7, <1>8, <1>9, <1>10

LEMMA TagsAnswered ==
    ASSUME PaneOK(pane), NEW t \in pane.threads, Pane!TagsListed(t) PROVE PaneOK(pane')
<1>1. PICK s : s = Pane!Resume(t)
    OBVIOUS
<1>2. t.pc = "tags"
    BY DEF Pane!TagsListed
<1>3. /\ Held(s, t) /\ DOMAIN s = PaneFields /\ t.kind \in Openers
      /\ t.kind = "folder" => t.place # Pane!Unified
    BY <1>1, <1>2, Resumed DEF ThreadStage, Filling
<1>4. PICK f : f = Pane!Fails(s, t)
    OBVIOUS
<1>5. PaneOK(f) /\ Held(f, t)
    BY <1>3, <1>4, FailedKeeps DEF Held
<1>6. CASE pane' = Pane!EndFolder(f, t)
    BY <1>5, <1>6, FolderLoadEnds DEF PaneOK
<1>7. CASE ~Pane!OwnsFolder(s, t) /\ pane' = Pane!EndFolder(s, t)
  <2>1. ~Opening(s, t)
      BY <1>3, <1>7 DEF Pane!OwnsFolder, Held, Ready, Opening, Aims, Fills
  <2> QED BY <1>3, <1>7, <2>1, FolderLoadEnds
<1>8. CASE \E m \in Pane!Listing(s, t.place) : pane' = Pane!LoadMessage(s, t, m)
    BY <1>3, <1>8, MessageLoads
<1>9. CASE pane' = Pane!AfterMessage(s, t)
    BY <1>3, <1>9, MessageEnds
<1> QED
    BY <1>1, <1>4, <1>6, <1>7, <1>8, <1>9 DEF Pane!TagsListed

(* getMessage comes back, and a message counts as read.                    *)
LEMMA ReaderEnds ==
    ASSUME NEW s, NEW t, Held(s, t) PROVE PaneOK(Pane!EndMessage(s, t))
<1>1. PICK r : r = Pane!Release(s, t.messageSeq = s.messageSeq, "message")
    OBVIOUS
<1>2. Alike(s, r)
    BY <1>1, ReleasedAlike DEF Held, Ready, PaneFits
<1>3. Pane!EndMessage(s, t) = Pane!AfterMessage(r, t)
    BY <1>1 DEF Pane!EndMessage
<1> QED BY <1>2, <1>3, AlikeKeeps, MessageEnds

LEMMA MessageAnswered ==
    ASSUME PaneOK(pane), NEW t \in pane.threads, Pane!MessageFetched(t) \/ Pane!MessageRead(t)
    PROVE  PaneOK(pane')
<1>1. PICK s : s = Pane!Resume(t)
    OBVIOUS
<1>2. t.pc \in {"message", "reading"}
    BY DEF Pane!MessageFetched, Pane!MessageRead
<1>3. /\ Held(s, t) /\ DOMAIN s = PaneFields /\ PaneFits(s) /\ t.kind \in Openers \cup {"message"}
      /\ t.kind = "folder" => t.place # Pane!Unified
    BY <1>1, <1>2, Resumed DEF ThreadStage, Filling
<1>4. ASSUME NEW d, d = Nowhere \/ d = s.selected, NEW r, r = [s EXCEPT !.detail = d]
      PROVE  Held(r, t)
  <2>1. /\ DOMAIN r = PaneFields /\ r.detail = d
        /\ \A g \in PaneFields \ {"detail"} : r[g] = s[g]
      BY <1>3, <1>4 DEF PaneFields
  <2>2. /\ r.account = s.account /\ r.view = s.view /\ r.search = s.search /\ r.rows = s.rows
        /\ r.selected = s.selected /\ r.nav = s.nav /\ r.filtered = s.filtered /\ r.astray = s.astray
      BY <2>1 DEF PaneFields
  <2>3. PaneFits(r)
      BY <1>3, <1>4, <2>1, <2>2 DEF PaneFits, DetailFits, RowsFit
  <2> QED BY <1>3, <2>1, <2>3, Refitted DEF Unseen
<1>5. CASE pane' = Pane!EndMessage(s, t)
    BY <1>3, <1>5, ReaderEnds
<1>6. CASE Pane!OwnsMessage(s, t) /\ pane' = Pane!Awaiting([s EXCEPT !.detail = t.message], t, "reading")
  <2>1. t.message = s.selected
      BY <1>6 DEF Pane!OwnsMessage
  <2>2. PICK r : r = [s EXCEPT !.detail = t.message]
      OBVIOUS
  <2>3. Held(r, t)
      BY <1>4, <2>1, <2>2
  <2> QED BY <1>3, <1>6, <2>2, <2>3, HeldWaits DEF Filling
<1>7. CASE pane' = Pane!EndMessage([s EXCEPT !.detail = Nowhere], t)
  <2>1. PICK r : r = [s EXCEPT !.detail = Nowhere]
      OBVIOUS
  <2>2. Held(r, t)
      BY <1>4, <2>1
  <2> QED BY <1>7, <2>1, <2>2, ReaderEnds
<1> QED
    BY <1>1, <1>5, <1>6, <1>7 DEF Pane!MessageFetched, Pane!MessageRead

(* What remains of a handler once its selection is stored, or its call     *)
(* outside the view came back.                                             *)
LEMMA RestAnswered ==
    ASSUME PaneOK(pane), NEW t \in pane.threads,
           Pane!SelectionSaved(t) \/ Pane!AccountSaved(t) \/ Pane!MetadataRead(t)
    PROVE  PaneOK(pane')
<1>1. PICK s : s = Pane!Resume(t)
    OBVIOUS
<1>2. t.pc \in {"save", "save account", "metadata"}
    BY DEF Pane!SelectionSaved, Pane!AccountSaved, Pane!MetadataRead
<1>3. ~Navigates(t)
    BY <1>2 DEF Navigates, Filling
<1>4. PaneOK(s) /\ DOMAIN s = PaneFields /\ ThreadShape(s, t) /\ DOMAIN t = ThreadFields
    BY <1>1, <1>3, Resumed
<1>5. CASE Pane!SelectionSaved(t)
  <2>1. PICK u : u = [t EXCEPT !.kind = "saved"]
      OBVIOUS
  <2>2. u.kind = "saved" /\ DOMAIN u = ThreadFields /\ u.nav = t.nav
      BY <1>4, <2>1 DEF ThreadFields
  <2>3. Held(s, u)
      BY <1>4, <2>2 DEF Held, Ready, Opening, Openers, ThreadShape, PaneOK
  <2>4. pane' = Pane!EndFolder(s, u)
      BY <1>1, <1>5, <2>1 DEF Pane!SelectionSaved
  <2> QED BY <2>2, <2>3, <2>4, FolderLoadEnds
<1>6. CASE Pane!AccountSaved(t)
  <2>1. pane' = Pane!Release(s, t.accountSeq = s.accountSeq, "account")
      BY <1>1, <1>6 DEF Pane!AccountSaved, Pane!EndAccount
  <2>2. Alike(s, pane')
      BY <1>4, <2>1, ReleasedAlike
  <2> QED BY <1>4, <2>2, AlikeKeeps
<1>7. CASE Pane!MetadataRead(t)
  <2>1. pane' = Pane!Release(s, TRUE, "sync")
      BY <1>1, <1>7 DEF Pane!MetadataRead, Pane!EndSync
  <2>2. Alike(s, pane')
      BY <1>4, <2>1, ReleasedAlike
  <2> QED BY <1>4, <2>2, AlikeKeeps
<1> QED BY <1>5, <1>6, <1>7

LEMMA SyncAnswered ==
    ASSUME PaneOK(pane), NEW t \in pane.threads, Pane!Synchronized(t) PROVE PaneOK(pane')
<1>1. PICK s : s = Pane!Resume(t)
    OBVIOUS
<1>2. t.pc = "sync"
    BY DEF Pane!Synchronized
<1>3. Ready(s, t) /\ DOMAIN s = PaneFields /\ t.kind = "sync"
    BY <1>1, <1>2, Resumed DEF ThreadStage
<1>4. PICK f : f = Pane!Fails(s, t)
    OBVIOUS
<1>5. PaneOK(f) /\ DOMAIN f = PaneFields
    BY <1>3, <1>4, FailedKeeps
<1>6. CASE pane' = Pane!EndSync(f)
  <2>1. Alike(f, pane')
      BY <1>5, <1>6, ReleasedAlike DEF Pane!EndSync
  <2> QED BY <1>5, <2>1, AlikeKeeps
<1>7. ASSUME NEW view, pane' = Pane!LoadView([s EXCEPT !.folders = t.account], t, view)
      PROVE  PaneOK(pane')
  <2>1. PICK q : q = [s EXCEPT !.folders = t.account]
      OBVIOUS
  <2>2. Alike(s, q)
      BY <1>3, <2>1 DEF Alike, PaneFields, Unseen
  <2>3. Ready(q, t)
      BY <1>3, <2>2, AlikeKeeps
  <2> QED BY <1>3, <1>7, <2>1, <2>3, ViewLoads DEF Openers
<1>8. CASE ~Pane!OwnsNavigation(s, t) /\ pane' = Pane!EndSync(s)
  <2>1. PaneOK(s)
      BY <1>3, <1>8 DEF Ready, PaneOK, Opening, Aims, Pane!OwnsNavigation
  <2>2. Alike(s, pane')
      BY <1>3, <1>8, ReleasedAlike DEF Pane!EndSync
  <2> QED BY <2>1, <2>2, AlikeKeeps
<1> QED
    BY <1>1, <1>4, <1>6, <1>7, <1>8 DEF Pane!Synchronized

LEMMA MoveAnswered ==
    ASSUME PaneOK(pane), NEW t \in pane.threads, Pane!Moved(t) PROVE PaneOK(pane')
<1>1. PICK s : s = Pane!Resume(t)
    OBVIOUS
<1>2. t.pc = "move"
    BY DEF Pane!Moved
<1>3. /\ PaneOK(s) /\ DOMAIN s = PaneFields /\ DOMAIN t = ThreadFields /\ t.kind = "message"
      /\ PaneFits(s) /\ s.nav \in Nat
    BY <1>1, <1>2, Resumed DEF ThreadStage, Navigates, Filling, PaneFits
<1>4. PICK left : left = [s EXCEPT !.rows = @ \ {t.message}, !.selected = Nowhere, !.detail = Nowhere,
                                   !.moved = @ \cup {t.message}]
    OBVIOUS
<1>5. PICK now : now = [t EXCEPT !.nav = s.nav]
    OBVIOUS
<1>6. /\ DOMAIN left = PaneFields /\ left.rows \subseteq s.rows /\ left.detail = Nowhere
      /\ \A g \in PaneFields \ {"rows", "selected", "detail", "moved"} : left[g] = s[g]
    BY <1>3, <1>4 DEF PaneFields
<1>7. /\ left.account = s.account /\ left.view = s.view /\ left.search = s.search
      /\ left.nav = s.nav /\ left.filtered = s.filtered /\ left.astray = s.astray
    BY <1>6 DEF PaneFields
<1>8. PaneFits(left)
    BY <1>3, <1>6, <1>7 DEF PaneFits, DetailFits, RowsFit
<1>9. PaneOK(left)
    BY <1>3, <1>6, <1>8, Refitted DEF Unseen
<1>10. DOMAIN now = ThreadFields /\ now.kind = "message" /\ now.nav = left.nav
    BY <1>3, <1>5, <1>7 DEF ThreadFields
<1>11. Held(left, now)
    BY <1>3, <1>7, <1>8, <1>9, <1>10 DEF Held, Ready, Opening, Openers, ThreadShape, PaneOK
<1>12. ASSUME NEW m, pane' = Pane!LoadMessage(left, now, m) PROVE PaneOK(pane')
    BY <1>10, <1>11, <1>12, MessageLoads
<1>13. pane' = s \/ pane' = left \/ \E m \in left.rows : pane' = Pane!LoadMessage(left, now, m)
    BY <1>1, <1>4, <1>5 DEF Pane!Moved
<1> QED BY <1>3, <1>9, <1>12, <1>13

LEMMA FiltersAnswered ==
    ASSUME PaneOK(pane), NEW t \in pane.threads, Pane!FiltersRan(t) PROVE PaneOK(pane')
<1>1. PICK s : s = Pane!Resume(t)
    OBVIOUS
<1>2. t.pc = "filters"
    BY DEF Pane!FiltersRan
<1>3. PaneOK(s) /\ DOMAIN s = PaneFields /\ PaneFits(s)
    BY <1>1, <1>2, Resumed DEF Navigates, Filling
<1>4. PICK r : r = [s EXCEPT !.rows = Pane!Listing(s, t.place), !.filtered = TRUE, !.astray = TRUE]
    OBVIOUS
<1>5. /\ DOMAIN r = PaneFields /\ r.filtered = TRUE /\ r.astray = TRUE
      /\ \A g \in PaneFields \ {"rows", "filtered", "astray"} : r[g] = s[g]
    BY <1>3, <1>4 DEF PaneFields
<1>6. /\ r.account = s.account /\ r.view = s.view /\ r.search = s.search
      /\ r.selected = s.selected /\ r.detail = s.detail /\ r.nav = s.nav
    BY <1>5 DEF PaneFields
<1>7. PaneFits(r)
    BY <1>3, <1>5, <1>6 DEF PaneFits, DetailFits, RowsFit
<1>8. PaneOK(r)
    BY <1>3, <1>5, <1>7, Refitted DEF Unseen
<1> QED BY <1>1, <1>3, <1>4, <1>8 DEF Pane!FiltersRan

LEMMA FoldersKept ==
    ASSUME PaneOK(pane), NEW t \in pane.threads, Pane!FoldersChanged(t) PROVE PaneOK(pane')
<1>1. PICK s : s = Pane!Resume(t)
    OBVIOUS
<1>2. t.pc = "admin"
    BY DEF Pane!FoldersChanged
<1>3. PaneOK(s) /\ DOMAIN s = PaneFields /\ PaneFits(s) /\ ThreadsOK(s)
    BY <1>1, <1>2, Resumed DEF Navigates, Filling
<1>4. PICK shown : shown = [s EXCEPT !.folders = t.account]
    OBVIOUS
<1>5. PaneOK(shown)
  <2>1. Alike(s, shown)
      BY <1>3, <1>4 DEF Alike, PaneFields, Unseen
  <2> QED BY <1>3, <2>1, AlikeKeeps
<1>6. PICK moved : moved = [Pane!Navigate(shown, "folder") EXCEPT !.failed = FALSE]
    OBVIOUS
<1>7. PICK u : u = Pane!Thread("folder", "", moved.nav, s.account)
    OBVIOUS
<1>8. ASSUME NEW path, pane' = Pane!LoadView(moved, u, [account |-> s.account, path |-> path])
      PROVE  PaneOK(pane')
  <2>1. /\ DOMAIN moved = PaneFields /\ moved.nav = s.nav + 1 /\ moved.last = "folder"
        /\ moved.account = s.account /\ moved.view = s.view /\ moved.rows = s.rows
        /\ moved.selected = s.selected /\ moved.detail = s.detail /\ moved.search = s.search
        /\ moved.filtered = s.filtered /\ moved.astray = s.astray /\ moved.threads = s.threads
      BY <1>3, <1>4, <1>6 DEF Pane!Navigate, PaneFields
  <2>2. DOMAIN u = ThreadFields /\ u.kind = "folder" /\ u.nav = moved.nav /\ u.account = moved.account
      BY <1>7, <2>1 DEF Pane!Thread, ThreadFields
  <2>3. PaneFits(moved)
      BY <1>3, <2>1 DEF PaneFits, DetailFits, RowsFit
  <2>4. ThreadsOK(moved) /\ NoneOpening(moved)
      BY <1>3, <2>1, LeftBehind DEF PaneFits
  <2>5. Ready(moved, u)
      BY <1>3, <2>1, <2>2, <2>3, <2>4 DEF Ready, Opening, Openers, Aims, ThreadShape, PaneFits
  <2>6. [account |-> s.account, path |-> path] # Pane!Unified
      BY <1>3 DEF Pane!Unified, PaneFits
  <2> QED BY <1>8, <2>2, <2>5, <2>6, ViewLoads DEF Openers
<1>9. pane' = s \/ pane' = shown
        \/ \E path \in Paths : pane' = Pane!LoadView(moved, u, [account |-> s.account, path |-> path])
    BY <1>1, <1>4, <1>6, <1>7 DEF Pane!FoldersChanged
<1> QED BY <1>3, <1>5, <1>8, <1>9

LEMMA ReplaceAnswered ==
    ASSUME PaneOK(pane), NEW t \in pane.threads, Pane!Replaced(t) PROVE PaneOK(pane')
<1>1. PICK s : s = Pane!Resume(t)
    OBVIOUS
<1>2. t.pc = "replace"
    BY DEF Pane!Replaced
<1>3. PaneOK(s) /\ DOMAIN s = PaneFields
    BY <1>1, <1>2, Resumed DEF Navigates, Filling
<1>4. CASE pane' = Pane!Fails(s, t)
    BY <1>3, <1>4, FailedKeeps
<1>5. ASSUME NEW a \in PaneAccounts, pane' = Pane!LoadAccount(s, a) PROVE PaneOK(pane')
    BY <1>3, <1>5, AccountLoads DEF PaneOK, PaneFits
<1> QED BY <1>1, <1>4, <1>5 DEF Pane!Replaced

LEMMA PaneSafe == ASSUME PaneOK(pane), Pane!PaneNext PROVE PaneOK(pane')
<1>1. CASE \E a \in PaneAccounts : Pane!SelectAccount(a)
    BY <1>1, AccountSelected
<1>2. CASE \E p \in Paths : Pane!SelectFolder(p)
    BY <1>2, FolderSelected
<1>3. CASE \/ \E m \in pane.rows \cup Hits : Pane!SelectMessage(m)
           \/ Pane!Move \/ Pane!RunFilters \/ Pane!FolderAdmin \/ Pane!Replace
    BY <1>3, OthersStarted
<1>4. CASE Pane!SelectUnified \/ Pane!Sync
    BY <1>4, UnifiedSelected, SyncStarted
<1>5. CASE Pane!SearchAnswered \/ \E on \in BOOLEAN : Pane!TypePattern(on)
    BY <1>5, PatternTyped
<1>6. ASSUME NEW t \in pane.threads,
             \/ Pane!FoldersListed(t) \/ Pane!Listed(t) \/ Pane!TagsListed(t)
             \/ Pane!MessageFetched(t) \/ Pane!MessageRead(t)
             \/ Pane!SelectionSaved(t) \/ Pane!AccountSaved(t) \/ Pane!Synchronized(t)
             \/ Pane!MetadataRead(t) \/ Pane!Moved(t) \/ Pane!FiltersRan(t)
             \/ Pane!FoldersChanged(t) \/ Pane!Replaced(t)
      PROVE  PaneOK(pane')
    BY <1>6, FoldersAnswered, ListAnswered, TagsAnswered, MessageAnswered, RestAnswered, SyncAnswered,
       MoveAnswered, FiltersAnswered, FoldersKept, ReplaceAnswered
<1> QED BY <1>1, <1>2, <1>3, <1>4, <1>5, <1>6 DEF Pane!PaneNext

LEMMA PaneShown ==
    ASSUME PaneOK(pane) PROVE Pane!DetailOwnButUnified /\ Pane!RowsOwnButFilters /\ Pane!StoredOwn
<1>1. DetailFits(pane) /\ RowsFit(pane) /\ Pursued(pane)
    BY DEF PaneOK, PaneFits
<1>2. Pane!DetailOwnButUnified /\ Pane!RowsOwnButFilters
    BY <1>1 DEF DetailFits, RowsFit, Pane!DetailOwnButUnified, Pane!DetailOwn, Pane!RowsOwnButFilters, Pane!RowsOwn
<1>3. Pane!StoredOwn
    BY <1>1 DEF Pursued, Stores, Pane!StoredOwn, Pane!Settled
<1> QED BY <1>2, <1>3

PaneInv == PaneOK(pane)
(* A component that rests shows what it showed. *)
LEMMA PaneRests == PaneInv /\ UNCHANGED pane => PaneInv'
BY DEF PaneInv
LEMMA PaneStays == PaneInv /\ Pane!PaneNext => PaneInv'
BY PaneSafe DEF PaneInv

(* What is shown belongs to what is selected: the message in the reader, the *)
(* rows of the list and the stored selection of the mail view, and what the  *)
(* dialogs and labels of the history page say (openMessage, selectFolder,    *)
(* pruneLocalHistory in main.ts).  The invariant adds what every handler in  *)
(* flight knows: the one of the latest navigation alone fills the view it    *)
(* asked for and will store it, and an answer under way to the history page  *)
(* says what the repository has.                                             *)
THEOREM ShownStaysSelected == MailSpec => []ShownIsSelected
<1>1. MailInit => PaneInv /\ HistoryInv
  <2> SUFFICES ASSUME MailInit PROVE PaneInv /\ HistoryInv
    OBVIOUS
  <2>1. HistoryInv
    BY HistoryStart DEF MailInit
  <2>2. PICK a \in PaneAccounts : pane = Pane!LoadAccount(Pane!Blank, a)
    BY DEF MailInit, Pane!PaneInit
  <2> QED BY <2>1, <2>2, PaneStart DEF PaneInv
<1>2. PaneInv /\ HistoryInv /\ [MailNext]_mailVars => PaneInv' /\ HistoryInv'
  <2>1. ASSUME PaneInv, HistoryInv, MailNext PROVE PaneInv' /\ HistoryInv'
    <3>1. Pane!PaneNext \/ UNCHANGED pane
      BY <2>1 DEF MailNext
    <3>2. Revisions!HistoryPaneNext \/ UNCHANGED paneVars
      BY <2>1 DEF MailNext
    <3> QED BY <2>1, <3>1, <3>2, PaneStays, PaneRests, HistorySafe, HistoryRests
  <2>2. ASSUME PaneInv, HistoryInv, UNCHANGED mailVars PROVE PaneInv' /\ HistoryInv'
    <3>1. UNCHANGED pane /\ UNCHANGED paneVars
      BY <2>2 DEF mailVars
    <3> QED BY <2>2, <3>1, PaneRests, HistoryRests
  <2> QED BY <2>1, <2>2
<1>3. PaneInv /\ HistoryInv => ShownIsSelected
  <2>1. ASSUME PaneInv, HistoryInv PROVE ShownIsSelected
    <3>1. Pane!DetailOwnButUnified /\ Pane!RowsOwnButFilters /\ Pane!StoredOwn
      BY <2>1, PaneShown DEF PaneInv
    <3>2. Revisions!PruneAsShown /\ Revisions!LabelsShown
      BY <2>1, LabelsFollow DEF HistoryInv
    <3> QED BY <3>1, <3>2 DEF ShownIsSelected
  <2> QED BY <2>1
<1> QED BY <1>1, <1>2, <1>3, PTL DEF MailSpec
=============================================================================
