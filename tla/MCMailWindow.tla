---------------------------- MODULE MCMailWindow ----------------------------
(***************************************************************************)
(* The rest of the window for TLC: the mail view and its conversations,    *)
(* the account setup, the history page, and what the main process does for *)
(* the window, its mail and external links and its place on the displays.  *)
(* They share no state that the properties speak of: a behaviour moves one *)
(* of them and the others rest. The account setup is tried                 *)
(* with two calls crossing the bridge and nothing else, and with one       *)
(* beside the form's own busy actions.                                     *)
(***************************************************************************)
EXTENDS Integers, Sequences

CONSTANTS work, home, inbox, archive, PaneAccounts, Paths, Twos, Hits, MaxOps, Nowhere, Mails,
          Untitled, PrefixLimit, ReferenceLimit, MessageLimit, MaxSetupCalls, SetupKeys,
          FirstRevisions, MaxPaneCalls, MaxUnderWay, MaxMailLinks, MaxReviews, MaxPendingReviews,
          ReviewTtl, MaxClock, Screens, Places, MinWidth, DefaultWidth, MinOverlap, MaxMoves

(* What is selected when nothing is, is no account and no message; an      *)
(* account has a folder; the revisions the page starts with are a sequence. *)
ASSUME MailViewAssumption ==
    /\ Paths # {} /\ Nowhere \notin PaneAccounts
    /\ Nowhere \notin [place : [account : PaneAccounts, path : Paths], n : {1, 2}]
    /\ Len(FirstRevisions) \in Nat /\ DOMAIN FirstRevisions = 1..Len(FirstRevisions)
(* The displays are at least one, the primary one first, and have a width, *)
(* and so has a window; what limits them and the lifetime of a review are  *)
(* numbers.                                                                *)
ASSUME MailWindowAssumption ==
    /\ ReviewTtl \in Nat
    /\ MinWidth \in Nat \ {0} /\ DefaultWidth \in Nat /\ MinOverlap \in Nat
    /\ \A screen \in Screens :
          /\ Len(screen) \in Nat \ {0} /\ DOMAIN screen = 1..Len(screen)
          /\ \A k \in DOMAIN screen : screen[k].x \in Int /\ screen[k].width \in Nat \ {0}
    /\ Places \subseteq [x : Int, width : Nat \ {0}, maximized : BOOLEAN]

VARIABLES moving,  \* the component a behaviour moves
          pane,
          gMessages, gAt, gStep, gParents, gSubjects, gReferences, gGroups,
          uOpen, uAccounts, uForm, uAuth, uSignIn, uTimer, uRequests, uReplies, uMain, uBrowsers,
          uBusy, uPop3, uBroken,
          vRepo, vHashes, vView, vCalls, vSerial, vLate, vPruned,
          wWindow, wRenderer, wAccount, wMailto, wInbox, wSlot, wDialog, wCompose, wReviews,
          wCalls, wNow, wLinks, wAsked, wSettled, wAgreed, wOpened,
          bScreen, bWindow, bTimer, bQueue, bFile, bInvalid, bAside, bMoves, bFailed, bHad

groupVars == <<gMessages, gAt, gStep, gParents, gSubjects, gReferences, gGroups>>
setupVars == <<uOpen, uAccounts, uForm, uAuth, uSignIn, uTimer, uRequests, uReplies, uMain,
               uBrowsers, uBusy, uPop3, uBroken>>
paneVars == <<vRepo, vHashes, vView, vCalls, vSerial, vLate, vPruned>>
windowVars == <<wWindow, wRenderer, wAccount, wMailto, wInbox, wSlot, wDialog, wCompose, wReviews,
                wCalls, wNow, wLinks, wAsked, wSettled, wAgreed, wOpened>>
boundsVars == <<bScreen, bWindow, bTimer, bQueue, bFile, bInvalid, bAside, bMoves, bFailed, bHad>>

Pane == INSTANCE MailPane
Conversation == INSTANCE Conversations
Setup == INSTANCE AccountSetup
BusySetup == INSTANCE AccountSetup WITH MaxSetupCalls <- 1, SetupKeys <- {"demo"}
Revisions == INSTANCE HistoryPane
Window == INSTANCE AppWindow
Bounds == INSTANCE WindowState

(* Both folders of one account hold two messages, one of them is a hit. *)
TwoOfWork == {[account |-> work, path |-> p] : p \in Paths}
WorkHit == {[place |-> [account |-> work, path |-> CHOOSE p \in Paths : TRUE], n |-> 1]}

(* Messages: subject text, reply prefixes before it, message id (0 for none),
   the message replied to and the references. *)
Mail(text, prefixes, id, replyTo, references) ==
    [text |-> text, prefixes |-> prefixes, id |-> id, replyTo |-> replyTo, references |-> references]
EightMails ==
    {Mail("a", 0, 0, 0, <<>>), Mail("a", 1, 1, 0, <<>>), Mail("a", 2, 2, 0, <<>>), Mail("none", 1, 2, 1, <<1>>),
     Mail("none", 0, 0, 0, <<>>), Mail("none", 0, 3, 0, <<2, 4>>), Mail("b", 0, 0, 3, <<>>), Mail("b", 1, 4, 0, <<1, 3>>)}

ThreeAges == <<2, 1, 0>>

(* One small display, two side by side, and one to the left of the primary. *)
Area(x, width) == [x |-> x, width |-> width]
Displays == {<<Area(0, 6)>>, <<Area(0, 4), Area(4, 8)>>, <<Area(0, 8), Area(-5, 5)>>}
WindowPlaces == {[x |-> x, width |-> w, maximized |-> FALSE] : x \in {-4, 9}, w \in {3, 7}}

MailInit ==
    /\ moving \in {"mail", "conversations", "setup", "busy-setup", "history", "links", "bounds"}
    /\ IF moving = "mail" THEN Pane!PaneInit
       ELSE pane = Pane!LoadAccount(Pane!Blank, work) /\ Pane!PaneInit
    /\ IF moving = "conversations" THEN Conversation!ConversationsInit
       ELSE gMessages = <<>> /\ Conversation!ConversationsInit
    /\ IF moving = "busy-setup" THEN Setup!SetupInit
       ELSE uAccounts = TRUE /\ Setup!SetupInit
    /\ Revisions!HistoryPaneInit
    /\ IF moving = "links" THEN Window!WindowInit
       ELSE wAccount = "none" /\ Window!WindowInit
    /\ IF moving = "bounds" THEN Bounds!BoundsInit
       ELSE bScreen = <<Area(0, 6)>> /\ bFile = Bounds!NoFile /\ Bounds!BoundsInit

MailNext ==
    /\ UNCHANGED moving
    /\ IF moving = "mail" THEN Pane!PaneNext ELSE UNCHANGED pane
    /\ IF moving = "conversations" THEN Conversation!ConversationsNext ELSE UNCHANGED groupVars
    /\ IF moving = "setup" THEN Setup!SetupNext
       ELSE IF moving = "busy-setup" THEN BusySetup!SetupNext
       ELSE UNCHANGED setupVars
    /\ IF moving = "history" THEN Revisions!HistoryPaneNext ELSE UNCHANGED paneVars
    /\ IF moving = "links" THEN Window!WindowNext ELSE UNCHANGED windowVars
    /\ IF moving = "bounds" THEN Bounds!BoundsNext ELSE UNCHANGED boundsVars

mailVars == <<pane, groupVars, setupVars, paneVars, windowVars, boundsVars, moving>>
MailSpec == MailInit /\ [][MailNext]_mailVars

-----------------------------------------------------------------------------
(* What is shown belongs to what is selected, whichever order the answers  *)
(* come in: the reader, the list and the stored selection of the mail      *)
(* view, and the revisions a prune dialog listed and their labels, each    *)
(* but for the exceptions its part names (openMessage, selectFolder,       *)
(* pruneLocalHistory in main.ts).                                          *)
ShownIsSelected ==
    /\ Pane!DetailOwnButUnified
    /\ Pane!RowsOwnButFilters
    /\ Pane!StoredOwn
    /\ Revisions!PruneAsShown
    /\ Revisions!LabelsShown

(* Nothing stays loading or blank once its answers have arrived: the       *)
(* folder list, the loading marks, an open revision's changes, the sign-in *)
(* panel and the POP3 test of a form (withBusy, toggleLocalRevisionDiff,   *)
(* scheduleOAuthPoll in main.ts).                                          *)
NothingStaysLoading ==
    /\ Pane!SettledFilled
    /\ Pane!SpinnersStop
    /\ Revisions!OpenFilled
    /\ Setup!PanelCaughtUp
    /\ Setup!Pop3NeverStuck

(* The conversations are the messages connected through any chain of       *)
(* shared subjects and references, and the union-find forest they come     *)
(* from never has a cycle (conversations.ts).                              *)
ConversationsSound == Conversation!GroupsAreThreads /\ Conversation!FindEnds

(* A link handed to the browser was confirmed in a dialog that showed it,  *)
(* within its lifetime, and once; a mail link is kept until it was in the  *)
(* composer, declined, closed with the window or replaced (external-link-  *)
(* review.ts, deliverMailto).                                              *)
LinksHandedOver == Window!OpenedOnceInTime /\ Window!MailLinkKept

(* A window opens wholly on one display, at rest the file says where it    *)
(* is, unless a save failed, and an unreadable file is set aside before it *)
(* is replaced, unless the rename failed (window-state.ts,                 *)
(* persistWindowState in index.ts).                                        *)
PlaceKept == Bounds!OpensOnScreen /\ Bounds!RestSaved /\ Bounds!UnreadableKept
=============================================================================
