------------------------------- MODULE Tabs -------------------------------
(* The workspace tab strip of the renderer (src/src/renderer/main.ts,      *)
(* lib/tab-appearance.ts, lib/bulk-tab-close.ts): the order of the tabs,   *)
(* the pinned and the closed ones, the context menu, the reviewed bulk     *)
(* close and the copy in local storage that the next start reads.          *)
(*                                                                         *)
(* A label pattern is the set of tabs whose labels it matches; the empty,  *)
(* blank or rejected pattern is NoPattern.                                 *)
EXTENDS Naturals, Sequences, SequencesExt, FiniteSets

CONSTANTS Pages,        \* the tabs of TAB_DEFINITIONS, in their order
          NoPattern,    \* a pattern that selects nothing: empty or invalid
          NoTab         \* no context menu is open

VARIABLES tPrefs,       \* state.tabPreferences: order, pinned, closed
          tActive,      \* state.activeTab
          tMenu,        \* the tab of state.contextMenu, or NoTab
          tInclude,     \* state.bulkIncludePinned, saved with the review
          tConfirm,     \* the open bulk-close dialog, or None
          tStored,      \* local storage: the serialized tabPreferences
          tWaived       \* history: the pinned tabs the user agreed to close,
                        \* and those pinned when they were already closed

tabVars == <<tPrefs, tActive, tMenu, tInclude, tConfirm, tStored, tWaived>>

None == [none |-> TRUE]
PageSet == ToSet(Pages)
-----------------------------------------------------------------------------
(* What the strip shows, and the tab the page area belongs to: rendering   *)
(* the strip replaces an active tab that is not visible.                   *)
VisibleTabIds(prefs) == SelectSeq(prefs.order, LAMBDA id : id \notin prefs.closed)
Visible(prefs) == ToSet(prefs.order) \ prefs.closed
FirstVisible(prefs) ==
    IF Visible(prefs) = {} THEN Pages[1]
    ELSE prefs.order[CHOOSE i \in DOMAIN prefs.order :
            /\ prefs.order[i] \notin prefs.closed
            /\ \A j \in DOMAIN prefs.order : prefs.order[j] \notin prefs.closed => i <= j]
RenderTabStrip(prefs, active) ==
    IF active \in Visible(prefs) THEN active ELSE FirstVisible(prefs)

(* What a start makes of the stored preferences: unknown and repeated tabs *)
(* are dropped, missing ones appended, and no pinned tab is closed.        *)
NormalizeTabPreferences(stored) ==
    [order |-> IF PageSet \subseteq ToSet(stored.order) THEN stored.order
               ELSE stored.order \o SelectSeq(Pages, LAMBDA id : id \notin ToSet(stored.order)),
     pinned |-> stored.pinned,
     closed |-> stored.closed \ stored.pinned]

DefaultTabs == [order |-> Pages, pinned |-> {Pages[1]}, closed |-> {}]

TabsInit ==
    /\ tPrefs = DefaultTabs /\ tStored = DefaultTabs
    /\ tActive = Pages[1] /\ tMenu = NoTab /\ tInclude = FALSE
    /\ tConfirm = None /\ tWaived = {}

(* Every change of the preferences is persisted, then drawn.               *)
PersistTabs(prefs, active) ==
    /\ tPrefs' = prefs /\ tStored' = prefs
    /\ tActive' = RenderTabStrip(prefs, active)
-----------------------------------------------------------------------------
(* The workspace behind an open confirmation is inert.                     *)
UserActs == tConfirm = None

(* A click on a tab, a space, a search result or a closed tab's chip, the  *)
(* palette, Alt+digit: the tab opens and the manager and menu close.       *)
ActivateTab(id) ==
    /\ UserActs
    /\ PersistTabs([tPrefs EXCEPT !.closed = @ \ {id}], id)
    /\ tMenu' = NoTab /\ tWaived' = tWaived \ {id}
    /\ UNCHANGED <<tInclude, tConfirm>>

(* The arrow, Home and End keys on a focused tab walk the visible tabs and *)
(* wrap around.                                                            *)
ArrowKey(step) ==
    LET v == VisibleTabIds(tPrefs)
        at(i) == v[i]
    IN /\ UserActs /\ v # <<>>
       /\ \E i \in 1..Len(v) :
             /\ at(i) = tActive
             /\ LET next == CASE step = "right" -> (i % Len(v)) + 1
                              [] step = "left" -> ((i - 2 + Len(v)) % Len(v)) + 1
                              [] step = "home" -> 1
                              [] step = "end" -> Len(v)
                IN PersistTabs(tPrefs, at(next))
       /\ tMenu' = NoTab
       /\ UNCHANGED <<tInclude, tConfirm, tWaived>>

(* Close a tab, from its button or from its menu: refused for a pinned tab.*)
(* The menu stays open, over a tab that is gone.                           *)
CloseTab(id) ==
    /\ UserActs
    /\ id \in Visible(tPrefs) \/ id = tMenu
    /\ id \notin tPrefs.pinned
    /\ LET prefs == [tPrefs EXCEPT !.closed = @ \cup {id}]
       IN PersistTabs(prefs, IF tActive = id THEN FirstVisible(prefs) ELSE tActive)
    /\ UNCHANGED <<tMenu, tInclude, tConfirm, tWaived>>

(* The context menu of a tab of the strip, by pointer or keyboard.         *)
OpenMenu(id) ==
    /\ UserActs /\ id \in Visible(tPrefs)
    /\ tMenu' = id
    /\ UNCHANGED <<tPrefs, tActive, tInclude, tConfirm, tStored, tWaived>>

CloseMenu ==
    /\ UserActs /\ tMenu # NoTab /\ tMenu' = NoTab
    /\ UNCHANGED <<tPrefs, tActive, tInclude, tConfirm, tStored, tWaived>>

TogglePin ==
    /\ UserActs /\ tMenu # NoTab
    /\ LET pins == tMenu \notin tPrefs.pinned
       IN /\ PersistTabs([tPrefs EXCEPT
                 !.pinned = IF pins THEN @ \cup {tMenu} ELSE @ \ {tMenu}], tActive)
          /\ tWaived' = IF pins /\ tMenu \in tPrefs.closed
                        THEN tWaived \cup {tMenu} ELSE tWaived \ {tMenu}
    /\ tMenu' = NoTab
    /\ UNCHANGED <<tInclude, tConfirm>>

(* splice(from, 1) then splice(to, 0, id): the tabs between shift by one. *)
Moved(order, from, to) ==
    [k \in DOMAIN order |->
        order[IF k = to THEN from
              ELSE IF from <= k /\ k < to THEN k + 1
              ELSE IF to < k /\ k <= from THEN k - 1 ELSE k]]

MoveTabBy(offset) ==
    /\ UserActs /\ tMenu # NoTab
    /\ \E from \in DOMAIN tPrefs.order :
          /\ tPrefs.order[from] = tMenu
          /\ from + offset \in DOMAIN tPrefs.order
          /\ PersistTabs([tPrefs EXCEPT !.order = Moved(@, from, from + offset)], tActive)
    /\ UNCHANGED <<tMenu, tInclude, tConfirm, tWaived>>

(* Drop a dragged tab on another one.                                      *)
DropTab ==
    /\ UserActs
    /\ \E from, to \in DOMAIN tPrefs.order :
          /\ from # to
          /\ {tPrefs.order[from], tPrefs.order[to]} \cap tPrefs.closed = {}
          /\ PersistTabs([tPrefs EXCEPT !.order = Moved(@, from, to)], tActive)
    /\ UNCHANGED <<tMenu, tInclude, tConfirm, tWaived>>
-----------------------------------------------------------------------------
(* The tabs a bulk close would close: no pattern selects none, inverse     *)
(* selects what does not match, pinned tabs only when included.            *)
EvaluateUnprotected(pattern, inverse) ==
    IF pattern = NoPattern THEN {}
    ELSE {id \in Visible(tPrefs) : (id \in pattern) # inverse}
EvaluateBulkTabClose(pattern, inverse) ==
    IF pattern = NoPattern THEN {}
    ELSE {id \in Visible(tPrefs) :
             /\ (id \in pattern) # inverse
             /\ tInclude \/ id \notin tPrefs.pinned}

SetIncludePinned ==
    /\ UserActs /\ tInclude' = ~tInclude
    /\ UNCHANGED <<tPrefs, tActive, tMenu, tConfirm, tStored, tWaived>>

(* Review and close: the button is disabled when nothing would close. The  *)
(* dialog keeps the tabs it lists, and which of them are pinned.           *)
RequestBulkClose ==
    /\ UserActs
    /\ \E pattern \in {NoPattern} \cup SUBSET PageSet, inverse \in BOOLEAN :
          LET ids == EvaluateBulkTabClose(pattern, inverse)
          IN /\ ids # {}
             /\ tConfirm' = [ids |-> ids, include |-> tInclude,
                             pinned |-> ids \cap tPrefs.pinned]
    /\ UNCHANGED <<tPrefs, tActive, tMenu, tInclude, tStored, tWaived>>

CancelBulkClose ==
    /\ tConfirm # None /\ tConfirm' = None
    /\ UNCHANGED <<tPrefs, tActive, tMenu, tInclude, tStored, tWaived>>

ConfirmBulkClose ==
    /\ tConfirm # None /\ tConfirm' = None
    /\ PersistTabs([tPrefs EXCEPT !.closed = @ \cup tConfirm.ids], tActive)
    /\ tWaived' = tWaived \cup (IF tConfirm.include THEN tConfirm.pinned ELSE {})
    /\ UNCHANGED <<tMenu, tInclude>>

(* The program starts again: the preferences come from local storage, the  *)
(* active tab is the first one until the strip is drawn.                   *)
RestartTabs ==
    /\ LET prefs == NormalizeTabPreferences(tStored)
       IN /\ tPrefs' = prefs
          /\ tActive' = RenderTabStrip(prefs, Pages[1])
    /\ tMenu' = NoTab /\ tConfirm' = None /\ tWaived' = {}
    /\ UNCHANGED <<tInclude, tStored>>

TabsNext ==
    \/ \E id \in PageSet : ActivateTab(id) \/ CloseTab(id) \/ OpenMenu(id)
    \/ \E step \in {"left", "right", "home", "end"} : ArrowKey(step)
    \/ CloseMenu \/ TogglePin \/ DropTab
    \/ \E offset \in {-1, 1} : MoveTabBy(offset)
    \/ SetIncludePinned \/ RequestBulkClose \/ CancelBulkClose \/ ConfirmBulkClose
    \/ RestartTabs
-----------------------------------------------------------------------------
(* docs/experience/tabs-and-discovery.md:32: "Pinned tabs remain protected *)
(* unless the user restores or makes an explicit, visibly disclosed        *)
(* choice". A pinned tab is closed only when a dialog listed it with the   *)
(* switch on, or it was closed first and pinned from the menu that         *)
(* outlived it.                                                            *)
PinnedProtected == tPrefs.pinned \cap tPrefs.closed \subseteq tWaived

(* The page on the screen belongs to a tab of the strip, whatever was      *)
(* closed, and whatever the stored preferences say at a start; only an     *)
(* empty strip leaves the first page without its tab.                      *)
ActiveShown == \/ tActive \in Visible(tPrefs)
               \/ Visible(tPrefs) = {} /\ tActive = Pages[1]

(* docs/experience/tabs-and-discovery.md:9: "Tab order, closed tabs,       *)
(* pinned tabs [...] are persisted locally": a restart shows the strip as  *)
(* it was.                                                                 *)
RestartKeepsStrip == NormalizeTabPreferences(tStored) = tPrefs

(* A restart brings back exactly the closed tabs that are also pinned.     *)
RestartKeepsStripButPinned ==
    LET next == NormalizeTabPreferences(tStored)
    IN /\ next.order = tPrefs.order /\ next.pinned = tPrefs.pinned
       /\ tPrefs.closed \ next.closed \subseteq tWaived
=============================================================================
