----------------------------- MODULE MailCache -----------------------------
(***************************************************************************)
(* The message cache of one IMAP account: synchronization, folder listings,*)
(* message bodies, moves, tags, folder administration and the filters that *)
(* run after a synchronization, while the server renumbers its mailboxes   *)
(* (UIDVALIDITY) and other calls are in flight (src/main/app-service.ts,   *)
(* mail-service.ts, mail-organization.ts, shared/message-tags.ts).         *)
(*                                                                         *)
(* Every operation is a read of the state and one IMAP conversation (one   *)
(* step: the conversation itself compares the generation it was given with *)
(* the live one) followed by one update of the state (a second step).      *)
(* A row, a body and a tag carry the message they really belong to, `msg`, *)
(* which the program never sees: it has the folder, the uid and the        *)
(* generation.  There is one tag, and one filter that tags and moves.      *)
(***************************************************************************)
EXTENDS Naturals, FiniteSets

CONSTANTS
  Inbox, Folders,  \* mailbox paths; every one but Inbox has the role "other"
  Destination,     \* where moves of the user and of the filter go
  Msgs, NoMsg,     \* messages, and an empty place in a mailbox
  Uids,            \* 1..n, the uids a generation can hand out
  Matching,        \* the messages whose text the filter matches
  Slots,           \* calls that may be in flight together
  MaxCalls,        \* bound: calls made in a behaviour
  MaxEvents        \* bound: changes the server makes by itself

ASSUME CacheAssumption ==
  /\ Inbox \in Folders /\ Destination \in Folders
  /\ NoMsg \notin Msgs
  /\ IsFiniteSet(Uids) /\ Uids \subseteq Nat \ {0}
  /\ MaxCalls \in Nat /\ MaxEvents \in Nat

VARIABLES
  gen,             \* server: UIDVALIDITY of each mailbox, 0 if it does not exist
  box,             \* server: what each uid of each mailbox holds
  last,            \* server: the highest uid each mailbox has handed out
  kw,              \* server: the messages that carry the tag's keyword
  account,         \* state.accounts still has the account
  list,            \* state.folders: the generation of each listed folder, else 0
  cached,          \* the folders that have an entry in state.messages
  rows,            \* state.messages: the rows of each folder
  details,         \* state.details: the bodies kept
  tags,            \* state.messageTags.assignments: the tagged keys
  selected,        \* preferences.selectedFolderPath
  ledger,          \* #syncFilteredMessages
  op,              \* the call in each slot
  calls, events,
  marked,          \* history: messages a tag was put on
  twice,           \* history: the filter took one identity twice
  stray            \* history: a change reached another message than asked for

server == <<gen, box, last, kw>>
store == <<account, list, cached, rows, details, tags, selected>>
history == <<marked, twice, stray>>
vars == <<gen, box, last, kw, account, list, cached, rows, details, tags, selected,
          ledger, op, calls, events, marked, twice, stray>>

Gens == 1..(2 + MaxEvents + MaxCalls)
Idle == [pc |-> "idle"]

----------------------------------------------------------------------------
(* The mail server. *)

Empty == [u \in Uids |-> NoMsg]
Held(b) == Cardinality({u \in Uids : b[u] # NoMsg})

\* A freshly numbered mailbox: distinct messages under the first uids.
Numbered(b) == /\ \A u \in Uids : (b[u] # NoMsg) <=> u <= Held(b)
               /\ \A u, v \in Uids : b[u] = b[v] /\ b[u] # NoMsg => u = v

\* A generation no mailbox has had: every step that takes one counts.
FreshGen == 2 + calls + events

\* Uids are handed out in increasing order within a generation: the next one.
NextUid(f) == last[f] + 1

Deliver(f, m) ==
  /\ events < MaxEvents
  /\ gen[f] # 0
  /\ \A g \in Folders, u \in Uids : box[g][u] # m
  /\ NextUid(f) \in Uids
  /\ box' = [box EXCEPT ![f][NextUid(f)] = m]
  /\ last' = [last EXCEPT ![f] = NextUid(f)]
  /\ events' = events + 1
  /\ UNCHANGED <<gen, kw, store, ledger, op, calls, history>>

\* The server gives the mailbox a new UIDVALIDITY and numbers it afresh.
Renumber(f) ==
  /\ events < MaxEvents
  /\ gen[f] # 0
  /\ gen' = [gen EXCEPT ![f] = FreshGen]
  /\ \E b \in [Uids -> Msgs \union {NoMsg}] :
       /\ Numbered(b)
       /\ {b[u] : u \in Uids} \ {NoMsg} = {box[f][u] : u \in Uids} \ {NoMsg}
       /\ box' = [box EXCEPT ![f] = b]
       /\ last' = [last EXCEPT ![f] = Held(b)]
  /\ events' = events + 1
  /\ UNCHANGED <<kw, store, ledger, op, calls, history>>

\* MailService.listMessages: what a listing of the mailbox shows.
Listing(f) == {[uid |-> u, gen |-> gen[f], msg |-> box[f][u]] :
                 u \in {v \in Uids : box[f][v] # NoMsg}}

\* #assertMailboxGeneration, under the mailbox lock.
AnyGeneration(f, g) == gen[f] # 0
AssertGeneration(f, g) == gen[f] = g

\* MailService.getMessage: the message is there, under the generation expected.
Fetchable(f, u, g) == AssertGeneration(f, g) /\ box[f][u] # NoMsg

\* MailService.setMessageKeywords, confirmed by reading the keywords back.
KeywordsStored(f, u, g) ==
  /\ AssertGeneration(f, g) /\ box[f][u] # NoMsg
  /\ kw' = kw \union {box[f][u]}
  /\ UNCHANGED <<gen, box, last>>

\* MailService.moveMessage: one MOVE, never a copy and a deletion.
Moved(f, u, g) ==
  /\ AssertGeneration(f, g) /\ box[f][u] # NoMsg
  /\ gen[Destination] # 0 /\ NextUid(Destination) \in Uids
  /\ box' = [box EXCEPT ![f][u] = NoMsg, ![Destination][NextUid(Destination)] = box[f][u]]
  /\ last' = [last EXCEPT ![Destination] = NextUid(Destination)]
  /\ UNCHANGED <<gen, kw>>

\* MailService.createFolder, renameFolder and deleteFolder.
FolderCreated(f) ==
  /\ gen[f] = 0
  /\ gen' = [gen EXCEPT ![f] = FreshGen]
  /\ UNCHANGED <<box, last, kw>>

FolderRenamed(f, g) ==
  /\ gen[f] # 0 /\ gen[g] = 0
  /\ gen' = [gen EXCEPT ![f] = 0, ![g] = FreshGen]
  /\ box' = [box EXCEPT ![f] = Empty, ![g] = box[f]]
  /\ last' = [last EXCEPT ![f] = 0, ![g] = last[f]]
  /\ UNCHANGED kw

FolderDeleted(f) ==
  /\ gen[f] # 0
  /\ gen' = [gen EXCEPT ![f] = 0]
  /\ box' = [box EXCEPT ![f] = Empty] /\ last' = [last EXCEPT ![f] = 0]
  /\ UNCHANGED kw

\* MailService.listFolders: every mailbox with its generation.
ListFolders == gen

\* MailService.markFolderRead is confirmed under the generation of the folder list.
MarkedRead(f, g) == AssertGeneration(f, g)

----------------------------------------------------------------------------
(* The cache. *)

RowsAt(f, u) == {r \in rows[f] : r.uid = u}

\* #requireCurrentMessage: the row r answers for uid u of the folder.
Current(f, u, r) == /\ r \in RowsAt(f, u)
                    /\ list[f] \in {0, r.gen}

\* messageTagKey: bound to the generation that produced the uid.
TagKey(f, r) == <<f, r.gen, r.uid>>

\* syncFilterLedgerKey
LedgerKey(f, r) == <<f, r.uid, r.gen>>

\* #requireAccount inside an update.
RequireAccount == account

\* The state after a first synchronization of an account with mail in its inbox,
\* in a run of the program whose filter ledger is still empty.
Init ==
  /\ gen = [f \in Folders |-> IF f \in {Inbox, Destination} THEN 1 ELSE 0]
  /\ \E full \in {b \in [Uids -> Msgs \union {NoMsg}] : Numbered(b) /\ Held(b) > 0} :
       /\ box = [f \in Folders |-> IF f = Inbox THEN full ELSE Empty]
       /\ last = [f \in Folders |-> IF f = Inbox THEN Held(full) ELSE 0]
  /\ kw = {} /\ account = TRUE
  /\ list = gen
  /\ cached = {Inbox} /\ rows = [f \in Folders |-> Listing(f)]
  /\ details = {} /\ tags = {}
  /\ selected = Inbox
  /\ ledger = {}
  /\ op = [s \in Slots |-> Idle]
  /\ calls = 0 /\ events = 0
  /\ marked = {} /\ twice = FALSE /\ stray = FALSE

Begin(s) == /\ op[s] = Idle
            /\ calls < MaxCalls
            /\ account
            /\ calls' = calls + 1

Wait(s, o) == op' = [op EXCEPT ![s] = o]

\* What the call does next when its update is done or refused: a tag or a move
\* goes back to who called it (`then`: a filter run takes its next message), any
\* other call returns.
After(o) == IF o.pc \in {"tagged", "moved"} THEN o.then ELSE Idle

Return(s) == Wait(s, After(op[s]))

\* The update finds the account or the message gone and throws.
Refused(s) == Return(s) /\ UNCHANGED <<store, history>>

Forget(f) == /\ cached' = cached \ {f}
             /\ rows' = [rows EXCEPT ![f] = {}]
             /\ details' = {d \in details : d.f # f}

----------------------------------------------------------------------------
(* Removing the account, and choosing a folder. *)

RemoveAccount ==
  /\ account /\ calls < MaxCalls
  /\ calls' = calls + 1
  /\ account' = FALSE
  /\ list' = [f \in Folders |-> 0]
  /\ cached' = {} /\ rows' = [f \in Folders |-> {}]
  /\ details' = {} /\ tags' = {}
  /\ UNCHANGED <<server, selected, ledger, op, events, history>>

Select(f) ==
  /\ account /\ calls < MaxCalls
  /\ list[f] # 0 /\ selected # f
  /\ selected' = f /\ calls' = calls + 1
  /\ UNCHANGED <<server, account, list, cached, rows, details, tags, ledger, op,
                 events, history>>

----------------------------------------------------------------------------
(* listMessages and getMessage. *)

ListMessages(s, f) ==
  /\ Begin(s)
  /\ f \notin cached
  /\ IF gen[f] # 0 THEN Wait(s, [pc |-> "listed", f |-> f, got |-> Listing(f)])
                   ELSE Wait(s, Idle)
  /\ UNCHANGED <<server, store, ledger, events, history>>

StoreListing(s) ==
  /\ op[s].pc = "listed"
  /\ \/ /\ RequireAccount
        /\ cached' = cached \union {op[s].f}
        /\ rows' = [rows EXCEPT ![op[s].f] = op[s].got]
        /\ Wait(s, Idle)
        /\ UNCHANGED <<account, list, details, tags, selected, history>>
     \/ ~RequireAccount /\ Refused(s)
  /\ UNCHANGED <<server, ledger, calls, events>>

\* A body kept for the same generation answers at once (no step).
GetMessage(s, f, u) ==
  /\ Begin(s)
  /\ \E r \in rows[f] :
       /\ Current(f, u, r)
       /\ \A d \in details : ~(d.f = f /\ d.uid = u /\ d.gen = r.gen)
       /\ IF Fetchable(f, u, r.gen)
            THEN Wait(s, [pc |-> "fetched",
                          d |-> [f |-> f, uid |-> u, gen |-> r.gen, msg |-> box[f][u]]])
            ELSE Wait(s, Idle)
  /\ UNCHANGED <<server, store, ledger, events, history>>

StoreDetail(s) ==
  /\ op[s].pc = "fetched"
  /\ LET d == op[s].d
         current == \E r \in rows[d.f] : Current(d.f, d.uid, r) /\ r.gen = d.gen
     IN \/ /\ RequireAccount /\ current
           /\ details' = {e \in details : e.f # d.f \/ e.uid # d.uid} \union {d}
           /\ Wait(s, Idle)
           /\ UNCHANGED <<account, list, cached, rows, tags, selected, history>>
        \/ ~(RequireAccount /\ current) /\ Refused(s)
  /\ UNCHANGED <<server, ledger, calls, events>>

----------------------------------------------------------------------------
(* syncAccount *)

SyncAccount(s) ==
  /\ Begin(s)
  /\ LET targets == {f \in {Inbox, selected} : gen[f] # 0}
     IN Wait(s, [pc |-> "sync", got |-> ListFolders, todo |-> targets, batch |-> [f \in {} |-> {}]])
  /\ UNCHANGED <<server, store, ledger, events, history>>

\* The mailboxes are listed one by one, in any order; a missing one is an error.
SyncList(s, f) ==
  /\ op[s].pc = "sync"
  /\ f \in op[s].todo
  /\ IF gen[f] = 0 THEN Wait(s, Idle)
     ELSE LET known == DOMAIN op[s].batch
          IN Wait(s, [op[s] EXCEPT !.todo = @ \ {f},
                                   !.batch = [g \in known \union {f} |->
                                                IF g = f THEN Listing(f) ELSE op[s].batch[g]]])
  /\ UNCHANGED <<server, store, ledger, calls, events, history>>

StoreSync(s) ==
  /\ op[s].pc = "sync" /\ op[s].todo = {}
  /\ LET got == op[s].got
         batch == op[s].batch
         reset == {f \in Folders : list[f] # 0 /\ got[f] # 0 /\ list[f] # got[f]}
         kept == [f \in Folders |-> IF f \in reset THEN {} ELSE rows[f]]
         known(f) == {LedgerKey(f, r) : r \in kept[f]}
         arrived == UNION {{<<f, r>> : r \in {q \in batch[f] : LedgerKey(f, q) \notin known(f)}} :
                             f \in DOMAIN batch}
     IN \/ /\ RequireAccount
           /\ list' = got
           /\ cached' = (cached \ reset) \union DOMAIN batch
           /\ rows' = [f \in Folders |-> IF f \in DOMAIN batch THEN batch[f] ELSE kept[f]]
           /\ details' = {d \in details : d.f \notin reset}
           /\ Wait(s, [pc |-> "arrived", got |-> arrived])
           /\ UNCHANGED <<account, tags, selected, history>>
        \/ ~RequireAccount /\ Refused(s)
  /\ UNCHANGED <<server, ledger, calls, events>>

\* The text the filter judges a row by: its kept body, or what the row shows.
\* buildFilterSubjects finds the body by folder and uid.
Judged(f, r) == IF \E d \in details : d.f = f /\ d.uid = r.uid
                THEN (CHOOSE d \in details : d.f = f /\ d.uid = r.uid).msg
                ELSE r.msg

RunAgain(key) == TRUE
NotYetRun(key) == key \notin ledger

\* #runFiltersAfterSync: the new identities enter the ledger before the run.  The
\* run is planned over the rows as they are now, found by folder and uid.
PlanFilters(s) ==
  /\ op[s].pc = "arrived"
  /\ LET fresh == {p \in op[s].got : NotYetRun(LedgerKey(p[1], p[2]))}
         keys == {LedgerKey(p[1], p[2]) : p \in fresh}
         plan == UNION {{[f |-> p[1], uid |-> r.uid, msg |-> r.msg] :
                           r \in {q \in RowsAt(p[1], p[2].uid) : Judged(p[1], q) \in Matching}} :
                           p \in fresh}
     IN /\ ledger' = ledger \union keys
        /\ twice' = (twice \/ keys \intersect ledger # {})
        /\ Wait(s, IF account THEN [pc |-> "filter", plan |-> plan] ELSE Idle)
  /\ UNCHANGED <<server, store, calls, events, marked, stray>>

FiltersDone(s) ==
  /\ op[s].pc = "filter" /\ op[s].plan = {}
  /\ Wait(s, Idle)
  /\ UNCHANGED <<server, store, ledger, calls, events, history>>

----------------------------------------------------------------------------
(* setMessageTags and moveMessage, called by the user or by a filter run: `then`  *)
(* is where the caller goes on.  `msg` is the message the caller saw in the row.  *)

\* The read, and the keyword store on the server.
TagCall(s, then, f, u, msg) ==
  \/ /\ \E r \in rows[f] : Current(f, u, r) /\ KeywordsStored(f, u, r.gen)
     /\ stray' = (stray \/ box[f][u] # msg)
     /\ Wait(s, [pc |-> "tagged", f |-> f, uid |-> u, msg |-> msg, then |-> then])
  \/ Wait(s, then) /\ UNCHANGED <<server, stray>>

\* The update finds the row by its uid alone.
StoreTag(s) ==
  /\ op[s].pc = "tagged"
  /\ LET o == op[s]
     IN \/ \E r \in RowsAt(o.f, o.uid) :
             /\ RequireAccount
             /\ tags' = tags \union {TagKey(o.f, r)}
             /\ marked' = marked \union {r.msg}
             /\ stray' = (stray \/ r.msg # o.msg)
             /\ Wait(s, IF o.then.pc = "filter" /\ o.f # Destination
                        THEN [o EXCEPT !.pc = "move"] ELSE o.then)
             /\ UNCHANGED <<account, list, cached, rows, details, selected, twice>>
        \/ ~(RequireAccount /\ RowsAt(o.f, o.uid) # {}) /\ Refused(s)
  /\ UNCHANGED <<server, ledger, calls, events>>

NoIdentity == [uid |-> 0, gen |-> 0]

\* The read, and the MOVE on the server: confirmed with or without the uid the
\* message got there, or failed.
MoveCall(s, then, f, u, msg) ==
  \/ /\ \E r \in rows[f] : Current(f, u, r) /\ Moved(f, u, r.gen)
     /\ \E to \in {NoIdentity, [uid |-> NextUid(Destination), gen |-> gen[Destination]]} :
          Wait(s, [pc |-> "moved", f |-> f, uid |-> u, gen |-> gen[f], to |-> to,
                   then |-> then])
     /\ stray' = (stray \/ box[f][u] # msg)
  \/ \* The network fails: the change is made locally and queued (MailQueue).
     /\ \E r \in rows[f] : /\ Current(f, u, r)
                           /\ Wait(s, [pc |-> "moved", f |-> f, uid |-> u, gen |-> r.gen,
                                       to |-> NoIdentity, then |-> then])
     /\ UNCHANGED <<server, stray>>
  \/ \* The row is gone or the generation differs: the call throws.
     /\ \A r \in rows[f] : ~(Current(f, u, r) /\ AssertGeneration(f, r.gen))
     /\ Wait(s, then)
     /\ UNCHANGED <<server, stray>>

\* carryTagsThroughMove: the tag follows the message to the identity the server
\* reported, and is dropped when it reported none.
Retagged(f, r, to) ==
  IF TagKey(f, r) \notin tags THEN tags
  ELSE (tags \ {TagKey(f, r)}) \union
       (IF to.uid = 0 THEN {} ELSE {TagKey(Destination, to)})

StoreMove(s) ==
  /\ op[s].pc = "moved"
  /\ LET o == op[s]
         current == {r \in rows[o.f] : Current(o.f, o.uid, r) /\ r.gen = o.gen}
     IN \/ \E r \in current :
             /\ RequireAccount
             /\ LET moved == IF o.to.uid = 0 THEN {}
                             ELSE {[uid |-> o.to.uid, gen |-> o.to.gen, msg |-> r.msg]}
                IN rows' = [rows EXCEPT
                     ![o.f] = @ \ {r},
                     ![Destination] = IF moved = {} THEN @
                                      ELSE {q \in @ : q.uid # o.to.uid} \union moved]
             /\ cached' = cached \union {o.f} \union (IF o.to.uid = 0 THEN {} ELSE {Destination})
             /\ details' = {d \in details : d.f # o.f \/ d.uid # o.uid}
             /\ tags' = Retagged(o.f, r, o.to)
             /\ Return(s)
             /\ UNCHANGED <<account, list, selected, history>>
        \/ ~(RequireAccount /\ current # {}) /\ Refused(s)
  /\ UNCHANGED <<server, ledger, calls, events>>

SetMessageTags(s, f) ==
  /\ Begin(s)
  /\ \E r \in rows[f] : TagCall(s, Idle, f, r.uid, r.msg)
  /\ UNCHANGED <<store, ledger, events, marked, twice>>

MoveMessage(s, f) ==
  /\ Begin(s)
  /\ f # Destination
  /\ \E r \in rows[f] : MoveCall(s, Idle, f, r.uid, r.msg)
  /\ UNCHANGED <<store, ledger, events, marked, twice>>

\* #applyFilterPlan: the tag first, the move last; a failure ends the message's turn.
FilterTags(s) ==
  /\ op[s].pc = "filter"
  /\ \E e \in op[s].plan :
       TagCall(s, [op[s] EXCEPT !.plan = @ \ {e}], e.f, e.uid, e.msg)
  /\ UNCHANGED <<store, ledger, calls, events, marked, twice>>

FilterMoves(s) ==
  /\ op[s].pc = "move"
  /\ MoveCall(s, op[s].then, op[s].f, op[s].uid, op[s].msg)
  /\ UNCHANGED <<store, ledger, calls, events, marked, twice>>

\* deleteMessageTag: the tag leaves every message (a new one takes its place here).
DeleteTag ==
  /\ tags # {} /\ calls < MaxCalls
  /\ tags' = {} /\ calls' = calls + 1
  /\ UNCHANGED <<server, account, list, cached, rows, details, selected, ledger, op,
                 events, history>>

----------------------------------------------------------------------------
(* createFolder, renameFolder, deleteFolder, markFolderRead *)

CreateFolder(s, f) ==
  /\ Begin(s)
  /\ FolderCreated(f)
  /\ Wait(s, [pc |-> "refresh"])
  /\ UNCHANGED <<store, ledger, events, history>>

RenameFolder(s, f, g) ==
  /\ Begin(s)
  /\ f # Inbox /\ FolderRenamed(f, g)
  /\ Wait(s, [pc |-> "gone", f |-> f, new |-> g])
  /\ UNCHANGED <<store, ledger, events, history>>

DeleteFolder(s, f) ==
  /\ Begin(s)
  /\ f # Inbox /\ FolderDeleted(f)
  /\ Wait(s, [pc |-> "gone", f |-> f, new |-> f])
  /\ UNCHANGED <<store, ledger, events, history>>

\* A renamed folder keeps its tags under the old path; a deleted one forgets them.
StoreFolderGone(s) ==
  /\ op[s].pc = "gone"
  /\ LET f == op[s].f
         deleted == op[s].new = f
     IN \/ /\ RequireAccount
           /\ Forget(f)
           /\ tags' = IF deleted THEN {k \in tags : k[1] # f} ELSE tags
           /\ selected' = IF selected # f THEN selected
                          ELSE IF deleted THEN Inbox ELSE op[s].new
           /\ Wait(s, [pc |-> "refresh"])
           /\ UNCHANGED <<account, list, history>>
        \/ ~RequireAccount /\ Refused(s)
  /\ UNCHANGED <<server, ledger, calls, events>>

\* #refreshFolders: list the folders, and adopt the list without clearing anything.
RefreshCall(s) ==
  /\ op[s].pc = "refresh"
  /\ Wait(s, IF account THEN [pc |-> "refreshed", got |-> ListFolders] ELSE Idle)
  /\ UNCHANGED <<server, store, ledger, calls, events, history>>

StoreFolders(s) ==
  /\ op[s].pc = "refreshed"
  /\ \/ /\ RequireAccount
        /\ list' = op[s].got
        /\ Wait(s, Idle)
        /\ UNCHANGED <<account, cached, rows, details, tags, selected, history>>
     \/ ~RequireAccount /\ Refused(s)
  /\ UNCHANGED <<server, ledger, calls, events>>

\* Read flags are not kept here; what remains is the entry the update creates.
MarkFolderRead(s, f) ==
  /\ Begin(s)
  /\ list[f] # 0
  /\ Wait(s, IF MarkedRead(f, list[f]) THEN [pc |-> "read", f |-> f] ELSE Idle)
  /\ UNCHANGED <<server, store, ledger, events, history>>

StoreRead(s) ==
  /\ op[s].pc = "read"
  /\ \/ /\ RequireAccount
        /\ cached' = cached \union {op[s].f}
        /\ Wait(s, Idle)
        /\ UNCHANGED <<account, list, rows, details, tags, selected, history>>
     \/ ~RequireAccount /\ Refused(s)
  /\ UNCHANGED <<server, ledger, calls, events>>

----------------------------------------------------------------------------
Next ==
  \/ \E f \in Folders : Renumber(f) \/ Select(f) \/ \E m \in Msgs : Deliver(f, m)
  \/ RemoveAccount \/ DeleteTag
  \/ \E s \in Slots :
       \/ SyncAccount(s) \/ StoreSync(s) \/ PlanFilters(s) \/ FiltersDone(s)
       \/ StoreListing(s) \/ StoreDetail(s) \/ StoreTag(s) \/ StoreMove(s)
       \/ FilterTags(s) \/ FilterMoves(s)
       \/ StoreFolderGone(s) \/ RefreshCall(s) \/ StoreFolders(s) \/ StoreRead(s)
       \/ \E f \in Folders :
            \/ SyncList(s, f) \/ ListMessages(s, f)
            \/ SetMessageTags(s, f) \/ MoveMessage(s, f)
            \/ CreateFolder(s, f) \/ DeleteFolder(s, f) \/ MarkFolderRead(s, f)
            \/ \E g \in Folders : RenameFolder(s, f, g)
            \/ \E u \in Uids : GetMessage(s, f, u)

Spec == Init /\ [][Next]_vars
----------------------------------------------------------------------------
Row == [uid : Uids, gen : Gens, msg : Msgs]

\* Types: the rows of a folder are unique by uid, a body is kept once per folder
\* and uid, and only a folder with an entry in state.messages has rows.
TypeOK ==
  /\ gen \in [Folders -> Gens \union {0}] /\ list \in [Folders -> Gens \union {0}]
  /\ box \in [Folders -> [Uids -> Msgs \union {NoMsg}]]
  /\ kw \subseteq Msgs /\ marked \subseteq Msgs
  /\ cached \subseteq Folders /\ selected \in Folders
  /\ \A f \in Folders : /\ rows[f] \subseteq Row
                        /\ f \notin cached => rows[f] = {}
                        /\ \A r, q \in rows[f] : r.uid = q.uid => r = q
  /\ details \subseteq [f : Folders, uid : Uids, gen : Gens, msg : Msgs]
  /\ \A d, e \in details : d.f = e.f /\ d.uid = e.uid => d = e
  /\ tags \subseteq Folders \X Gens \X Uids
  /\ DOMAIN op = Slots

\* A body kept for a row's generation is that row's own message, whatever the
\* server renumbered while it was fetched (getMessage's generation checks).
BodiesOwn ==
  \A d \in details : \A r \in RowsAt(d.f, d.uid) : r.gen = d.gen => r.msg = d.msg

\* Once an account is removed, no call that was in flight brings any of its state
\* back (#requireAccount in every update, removeAccount).
NothingReturns ==
  ~account => /\ cached = {} /\ details = {} /\ tags = {}
              /\ \A f \in Folders : list[f] = 0 /\ rows[f] = {}

\* A tag shows on a message only if a tag was put on that very message: neither a
\* renumbering, a move, a rename nor a recreated folder hands it to another one.
TagsStay ==
  \A f \in Folders : \A r \in rows[f] : TagKey(f, r) \in tags => r.msg \in marked

\* The filter runs at most once on a message identity, even when two
\* synchronizations overlap or a stale listing makes a known message look new.
FilteredOnce == ~twice

\* What setMessageTags, moveMessage and the filters change, on the server and in
\* the cache, is the message the caller saw, not one that took over its uid.
ChangesMeantMessage == ~stray

\* What is cached belongs to the message and account it is shown with: a body is
\* its row's own, a tag shows only on a message that was given one, and nothing
\* of a removed account comes back (getMessage, setMessageTags, removeAccount).
OwnMessage == TypeOK /\ BodiesOwn /\ TagsStay /\ NothingReturns
=============================================================================
