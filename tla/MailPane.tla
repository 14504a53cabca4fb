------------------------------ MODULE MailPane ------------------------------
(* The renderer's mail view (main.ts): which account, folder and message are *)
(* on screen while the answers of several navigations are still under way.   *)
(*                                                                           *)
(* Every handler is asynchronous.  It captures the navigation number and its *)
(* own request number, and after each await goes on only if both are still   *)
(* the latest and the view is still the one it asked for.  A handler in      *)
(* flight is a record in threads, at the call it awaits (pc).  JavaScript    *)
(* runs from one await to the next without interruption, so one action is    *)
(* the arrival of one answer and everything the handler does until its next  *)
(* call.                                                                     *)
EXTENDS Naturals, FiniteSets

CONSTANTS PaneAccounts,   \* accounts
          Paths,          \* folder paths, the same in every account
          Twos,           \* the places that hold two messages; the others hold one
          Hits,           \* the messages a search finds
          MaxOps,         \* bound on what the user starts
          Nowhere         \* no account, view or message

VARIABLE pane

Listings == [account : PaneAccounts, path : Paths]
MessagesOf(place) == {[place |-> place, n |-> n] : n \in IF place \in Twos THEN {1, 2} ELSE {1}}
Inbox == CHOOSE p \in Paths : TRUE
Unified == [account |-> Nowhere, path |-> "unified"]
AllInboxes == UNION {MessagesOf([account |-> a, path |-> Inbox]) : a \in PaneAccounts}
ContentOf(view) == IF view = Unified THEN AllInboxes ELSE MessagesOf(view)
(* What the main process lists: everything but what was moved away. *)
Listing(s, view) == ContentOf(view) \ s.moved

Blank ==
    [account |-> Nowhere, view |-> Nowhere, folders |-> Nowhere, rows |-> {},
     selected |-> Nowhere, detail |-> Nowhere, search |-> "off",
     nav |-> 0, folderSeq |-> 0, accountSeq |-> 0, messageSeq |-> 0,
     busy |-> {}, stored |-> Nowhere, threads |-> {}, ops |-> 0,
     last |-> "none", failed |-> FALSE, filtered |-> FALSE, astray |-> FALSE, moved |-> {}]

Thread(kind, pc, nav, account) ==
    [kind |-> kind, pc |-> pc, nav |-> nav, account |-> account, place |-> Nowhere,
     seq |-> 0, accountSeq |-> 0, messageSeq |-> 0, message |-> Nowhere, detail |-> Nowhere]
Awaiting(s, t, pc) == [s EXCEPT !.threads = @ \cup {[t EXCEPT !.pc = pc]}]

-----------------------------------------------------------------------------
(* Ownership, as every handler checks it after an await. *)
NotChecked(s, t) == TRUE
OwnsFolder(s, t) == t.seq = s.folderSeq /\ t.nav = s.nav /\ s.account = t.account /\ s.view = t.place
OwnsNavigation(s, t) == t.nav = s.nav /\ s.account = t.account
OwnsAccount(s, t) == OwnsNavigation(s, t) /\ t.accountSeq = s.accountSeq
(* messageBelongsToCurrentView: a hit while a search is on, a row of the     *)
(* unified list, else a message of the open folder.                          *)
Belongs(s, m) ==
    CASE s.search = "hits"    -> m \in Hits
      [] s.search = "pending" -> FALSE
      [] OTHER                -> IF s.view = Unified THEN m \in s.rows ELSE s.view = m.place
AnyAnswer(s, t) == t.nav = s.nav
OwnsMessage(s, t) ==
    /\ t.messageSeq = s.messageSeq /\ t.nav = s.nav
    /\ Belongs(s, t.message) /\ s.selected = t.message
(* activeMessage. *)
Active(s) ==
    CASE s.search = "off"  -> IF s.selected \in s.rows THEN s.selected ELSE Nowhere
      [] s.search = "hits" -> IF s.selected \in Hits THEN s.selected ELSE Nowhere
      [] OTHER             -> Nowhere

-----------------------------------------------------------------------------
(* The ends of the handlers, innermost last: a folder load inside an account *)
(* load or a synchronization hands over to the rest of its caller.           *)
ReleaseOnSuccess(s, latest, key) == IF latest /\ ~s.failed THEN [s EXCEPT !.busy = @ \ {key}] ELSE s
Release(s, latest, key) == IF latest THEN [s EXCEPT !.busy = @ \ {key}] ELSE s
EndAccount(s, t) == Release(s, t.accountSeq = s.accountSeq, "account")
EndSync(s) == Release(s, TRUE, "sync")
AfterFolder(s, t) ==
    CASE t.kind = "account" -> IF OwnsAccount(s, t)
                               THEN Awaiting([s EXCEPT !.stored = t.place], t, "save account")
                               ELSE EndAccount(s, t)
      [] t.kind = "sync"    -> IF OwnsNavigation(s, t) THEN Awaiting(s, t, "metadata") ELSE EndSync(s)
      [] OTHER              -> s
EndFolder(s, t) == AfterFolder(Release(s, t.seq = s.folderSeq, "folder"), t)
(* After loadMessage a folder opened by the user is stored as the selection. *)
AfterMessage(s, t) ==
    CASE t.kind = "folder" /\ OwnsFolder(s, t) -> Awaiting([s EXCEPT !.stored = t.place], t, "save")
      [] t.kind = "message"                    -> s
      [] OTHER                                 -> EndFolder(s, t)

(* loadMessage up to its await: it draws its number before it looks whether  *)
(* the message is still wanted.                                              *)
LoadMessage(s, t, m) ==
    LET drawn == [s EXCEPT !.messageSeq = @ + 1] IN
    IF t.nav # s.nav \/ ~Belongs(s, m) THEN AfterMessage(drawn, t)
    ELSE Awaiting([drawn EXCEPT !.selected = m, !.detail = Nowhere, !.busy = @ \cup {"message"}],
                  [t EXCEPT !.message = m, !.messageSeq = drawn.messageSeq], "message")
(* loadFolder and loadUnifiedFolder up to their first await. *)
LoadView(s, t, view) ==
    IF t.nav # s.nav \/ s.account # t.account THEN AfterFolder(s, t)
    ELSE Awaiting([s EXCEPT !.folderSeq = @ + 1, !.view = view, !.rows = {}, !.selected = Nowhere,
                            !.detail = Nowhere, !.busy = @ \cup {"folder"}, !.filtered = FALSE],
                  [t EXCEPT !.place = view, !.seq = s.folderSeq + 1,
                            !.message = s.selected, !.detail = s.detail], "list")
(* beginMailNavigation. *)
Navigate(s, last) == [s EXCEPT !.nav = @ + 1, !.last = last]
(* loadAccount up to its first await. *)
LoadAccount(s, account) ==
    LET moved == [Navigate(s, "account") EXCEPT
                    !.accountSeq = @ + 1, !.account = account, !.view = Nowhere, !.folders = Nowhere,
                    !.rows = {}, !.selected = Nowhere, !.detail = Nowhere,
                    !.busy = @ \cup {"account"}, !.failed = FALSE, !.filtered = FALSE]
    IN Awaiting(moved, [Thread("account", "", moved.nav, account) EXCEPT !.accountSeq = moved.accountSeq], "folders")

-----------------------------------------------------------------------------
(* initialize opens the account selected last, or the first one. *)
PaneInit == \E a \in PaneAccounts : pane = LoadAccount(Blank, a)

(* What the user starts. *)
Starts(s) == pane' = [s EXCEPT !.ops = @ + 1]
MayStart == pane.ops < MaxOps
SelectAccount(account) == MayStart /\ Starts(LoadAccount(pane, account))
(* "select-folder". *)
SelectFolder(path) ==
    /\ MayStart /\ pane.account # Nowhere /\ pane.folders # Nowhere
    /\ LET s == [Navigate(pane, "folder") EXCEPT !.failed = FALSE]
       IN Starts(LoadView(s, Thread("folder", "", s.nav, s.account), [account |-> s.account, path |-> path]))
(* "select-unified-folder". *)
SelectUnified ==
    /\ MayStart /\ pane.account # Nowhere
    /\ LET s == [Navigate(pane, "unified") EXCEPT !.failed = FALSE]
       IN Starts(LoadView(s, Thread("unified", "", s.nav, s.account), Unified))
(* "select-message", a row or a search hit. *)
SelectMessage(m) ==
    /\ MayStart
    /\ m \in IF pane.search = "hits" THEN Hits ELSE pane.rows
    /\ Starts(LoadMessage(pane, Thread("message", "", pane.nav, pane.account), m))
(* syncCurrentAccount up to its await. *)
Sync ==
    /\ MayStart /\ pane.account # Nowhere /\ "sync" \notin pane.busy
    /\ LET s == Navigate(pane, "sync")
       IN Starts(Awaiting([s EXCEPT !.busy = @ \cup {"sync"}],
                          [Thread("sync", "", s.nav, s.account) EXCEPT !.place = s.view], "sync"))
(* moveSelectedMessage; the row leaves the list whatever list that is then.  *)
Move ==
    /\ MayStart /\ Active(pane) # Nowhere /\ pane.search = "off" /\ pane.view # Unified
    /\ ~\E t \in pane.threads : t.pc = "move"
    /\ Starts(Awaiting(pane, [Thread("message", "", pane.nav, pane.account) EXCEPT !.message = Active(pane)], "move"))
(* "run-filters": lists the folder it was started on into state.messages.    *)
RunFilters ==
    /\ MayStart /\ pane.view \in Listings /\ ~\E t \in pane.threads : t.pc = "filters"
    /\ Starts(Awaiting(pane, [Thread("filters", "", pane.nav, pane.account) EXCEPT !.place = pane.view], "filters"))
(* "create-folder", "rename-folder", "delete-folder", "mark-folder-read".     *)
FolderAdmin ==
    /\ MayStart /\ pane.account # Nowhere /\ ~\E t \in pane.threads : t.pc = "admin"
    /\ Starts(Awaiting(pane, Thread("folder", "", pane.nav, pane.account), "admin"))
(* "remove-account" and "restore-local": a new navigation, a call, and then  *)
(* the load of an account.                                                   *)
Replace ==
    /\ MayStart /\ ~\E t \in pane.threads : t.pc = "replace"
    /\ LET s == Navigate(pane, "replace") IN Starts(Awaiting(s, Thread("replace", "", s.nav, s.account), "replace"))
(* scheduleMailSearch: a new pattern drops the result at once; the answer is *)
(* taken only for the latest pattern.                                        *)
TypePattern(on) ==
    /\ MayStart
    /\ Starts([pane EXCEPT !.search = IF on THEN "pending" ELSE "off", !.astray = TRUE])
SearchAnswered == pane.search = "pending" /\ pane' = [pane EXCEPT !.search = "hits"]

-----------------------------------------------------------------------------
(* Answers.  s is the pane without the thread that goes on. *)
Resume(t) == [pane EXCEPT !.threads = @ \ {t}]
Fails(s, t) == [s EXCEPT !.failed = @ \/ t.nav = s.nav]

FoldersListed(t) ==
    /\ t.pc = "folders"
    /\ LET s == Resume(t) IN
       \/ pane' = EndAccount(Fails(s, t), t)
       \/ /\ OwnsAccount(s, t)
          /\ \E path \in IF s.stored # Nowhere /\ s.stored.account = t.account THEN {s.stored.path} ELSE {Inbox} :
               pane' = LoadView([s EXCEPT !.folders = t.account], t, [account |-> t.account, path |-> path])
       \/ ~OwnsAccount(s, t) /\ pane' = EndAccount(s, t)
(* listMessages or listUnifiedMessages. *)
Listed(t) ==
    /\ t.pc = "list"
    /\ LET s == Resume(t)
           filled == [s EXCEPT !.rows = Listing(s, t.place)]
       IN
       \/ pane' = EndFolder(Fails(s, t), t)
       \/ ~OwnsFolder(s, t) /\ pane' = EndFolder(s, t)
       \/ OwnsFolder(s, t) /\ t.place # Unified /\ pane' = Awaiting(filled, t, "tags")
       \/ /\ OwnsFolder(s, t) /\ t.place = Unified
          /\ \E m \in IF t.message \in filled.rows THEN {t.message} ELSE filled.rows :
               LET chosen == [filled EXCEPT !.selected = m] IN
               pane' = IF Active(chosen) = Nowhere THEN EndFolder(chosen, t)
                       ELSE IF t.detail = m THEN EndFolder([chosen EXCEPT !.detail = m], t)
                       ELSE LoadMessage(chosen, t, m)
       \/ OwnsFolder(s, t) /\ t.place = Unified /\ filled.rows = {} /\ pane' = EndFolder(filled, t)
(* listMessageTagAssignments. *)
TagsListed(t) ==
    /\ t.pc = "tags"
    /\ LET s == Resume(t) IN
       \/ pane' = EndFolder(Fails(s, t), t)
       \/ ~OwnsFolder(s, t) /\ pane' = EndFolder(s, t)
       \/ OwnsFolder(s, t) /\ \E m \in Listing(s, t.place) : pane' = LoadMessage(s, t, m)
       \/ OwnsFolder(s, t) /\ Listing(s, t.place) = {} /\ pane' = AfterMessage(s, t)
(* getMessage, and the seven tenths of a second before a message counts as   *)
(* read.                                                                     *)
EndMessage(s, t) == AfterMessage(Release(s, t.messageSeq = s.messageSeq, "message"), t)
MessageFetched(t) ==
    /\ t.pc = "message"
    /\ LET s == Resume(t) IN
       \/ ~OwnsMessage(s, t) /\ pane' = EndMessage(s, t)
       \/ OwnsMessage(s, t) /\ pane' = Awaiting([s EXCEPT !.detail = t.message], t, "reading")
       \/ OwnsMessage(s, t) /\ pane' = EndMessage([s EXCEPT !.detail = Nowhere], t)
MessageRead(t) == t.pc = "reading" /\ pane' = EndMessage(Resume(t), t)
SelectionSaved(t) == t.pc = "save" /\ pane' = EndFolder(Resume(t), [t EXCEPT !.kind = "saved"])
AccountSaved(t) == t.pc = "save account" /\ pane' = EndAccount(Resume(t), t)
Synchronized(t) ==
    /\ t.pc = "sync"
    /\ LET s == Resume(t) IN
       \/ pane' = EndSync(Fails(s, t))
       \/ ~OwnsNavigation(s, t) /\ pane' = EndSync(s)
       \/ /\ OwnsNavigation(s, t)
          /\ \E view \in IF t.place = Unified THEN {Unified}
                         ELSE IF s.view = Nowhere THEN {[account |-> t.account, path |-> Inbox]} ELSE {s.view} :
               pane' = LoadView([s EXCEPT !.folders = t.account], t, view)
MetadataRead(t) == t.pc = "metadata" /\ pane' = EndSync(Resume(t))
Moved(t) ==
    /\ t.pc = "move"
    /\ LET s == Resume(t)
           left == [s EXCEPT !.rows = @ \ {t.message}, !.selected = Nowhere, !.detail = Nowhere,
                             !.moved = @ \cup {t.message}]
           now == [t EXCEPT !.nav = s.nav]
       IN \/ pane' = s
          \/ left.rows = {} /\ pane' = left
          \/ \E m \in left.rows : pane' = LoadMessage(left, now, m)
FiltersRan(t) ==
    /\ t.pc = "filters"
    /\ LET s == Resume(t) IN
       \/ pane' = s
       \/ pane' = [s EXCEPT !.rows = Listing(s, t.place), !.filtered = TRUE, !.astray = TRUE]
(* The folder list that came back is shown whatever account is open by then, *)
(* and after a rename or a removal a folder is opened in that account.       *)
FoldersChanged(t) ==
    /\ t.pc = "admin"
    /\ LET s == Resume(t)
           shown == [s EXCEPT !.folders = t.account]
           moved == [Navigate(shown, "folder") EXCEPT !.failed = FALSE]
       IN \/ pane' = s
          \/ pane' = shown
          \/ \E path \in Paths :
                pane' = LoadView(moved, Thread("folder", "", moved.nav, s.account), [account |-> s.account, path |-> path])
Replaced(t) ==
    /\ t.pc = "replace"
    /\ \/ pane' = Fails(Resume(t), t)
       \/ \E a \in PaneAccounts : pane' = LoadAccount(Resume(t), a)

PaneNext ==
    \/ \E a \in PaneAccounts : SelectAccount(a)
    \/ \E p \in Paths : SelectFolder(p)
    \/ \E m \in pane.rows \cup Hits : SelectMessage(m)
    \/ SelectUnified \/ Sync \/ Move \/ RunFilters \/ FolderAdmin \/ Replace \/ SearchAnswered
    \/ \E on \in BOOLEAN : TypePattern(on)
    \/ \E t \in pane.threads :
         \/ FoldersListed(t) \/ Listed(t) \/ TagsListed(t) \/ MessageFetched(t) \/ MessageRead(t)
         \/ SelectionSaved(t) \/ AccountSaved(t) \/ Synchronized(t) \/ MetadataRead(t)
         \/ Moved(t) \/ FiltersRan(t) \/ FoldersChanged(t) \/ Replaced(t)

-----------------------------------------------------------------------------
Settled == pane.threads = {}

(* The reader shows the message that is selected, whichever order the        *)
(* answers of the messages opened one after another came in.                 *)
DetailOwn == pane.detail # Nowhere => pane.detail = pane.selected
(* The same, but for a unified list that arrives while a search is on. *)
DetailOwnButUnified == (pane.view = Unified /\ pane.astray) \/ DetailOwn

(* The list holds messages of the folder whose name stands above it. *)
RowsOwn == pane.view # Nowhere => pane.rows \subseteq ContentOf(pane.view)
(* The same, but for the list a filter run stores when it ends. *)
RowsOwnButFilters == pane.filtered \/ RowsOwn

(* When the last answer has arrived and no call of the last navigation       *)
(* failed, the list is exactly what the requested folder holds: a load that  *)
(* was superseded, or a move that ended after it, leaves no empty, doubled   *)
(* or stale list behind.                                                     *)
SettledFilled ==
    Settled /\ ~pane.failed /\ ~pane.filtered /\ pane.last \in {"folder", "account", "unified", "sync"}
        => pane.rows = Listing(pane, pane.view)

(* The selection stored for the next start is the folder on screen, never    *)
(* one whose load lost the race.                                             *)
StoredOwn == Settled /\ ~pane.failed /\ pane.last \in {"folder", "account"} => pane.stored = pane.view

(* When the last answer has arrived nothing is still marked as loading;      *)
(* once a search or a late filter run has put messages of other folders on   *)
(* screen, the mark of the message itself may stay.                          *)
SpinnersStop == Settled => pane.busy \subseteq (IF pane.astray THEN {"message"} ELSE {})
=============================================================================
