----------------------------- MODULE PimService -----------------------------
(***************************************************************************)
(* The records of pim-service.ts: contacts, mailing lists, events and      *)
(* tasks, with a transaction for every change.  Each call changes the      *)
(* state in one store.mutate, which PimStore models: here it is one step,  *)
(* taken whole or refused.  refreshTasks loads from a provider in between  *)
(* and checks afterwards that it is still wanted.                          *)
(***************************************************************************)
EXTENDS Naturals, Sequences, FiniteSetsExt

CONSTANTS PimUids,          \* identifiers, the same ones in every collection
          MaxTransactions,  \* transactions ever recorded
          Refreshes         \* refreshTasks calls, named by their request number

VARIABLES sDb,          \* PersistedPimState
          sCalls,       \* the refreshes
          sLatest,      \* #latestTaskRefreshRequest
          sStale        \* history: a refresh was applied to tasks it had not seen, or out of order

pimServiceVars == <<sDb, sCalls, sLatest, sStale>>

Kinds == {"contact", "mailing-list", "calendar-event", "task"}

(* The content of a record; revision 0 is no record. *)
Content(text, members, done, percent, stamped) ==
    [text |-> text, members |-> members, done |-> done, percent |-> percent, stamped |-> stamped]
Absent == [content |-> Content("", {}, FALSE, 0, FALSE), revision |-> 0]
Present(entity) == entity.revision > 0

(* What a caller may write into a record of each kind. *)
Inputs(kind) ==
    CASE kind = "task" -> [text : {"x"}, members : {{}}, done : BOOLEAN, percent : {0, 100}, stamped : {FALSE}]
      [] kind = "mailing-list" -> {Content("x", members, FALSE, 0, FALSE) : members \in SUBSET PimUids}
      [] OTHER -> {Content(text, {}, FALSE, 0, FALSE) : text \in {"x", "y"}}

Idle == [step |-> "idle", base |-> 0, tasks |-> [u \in PimUids |-> Absent]]

PimServiceInit ==
    /\ sDb = [records |-> [k \in Kinds |-> [u \in PimUids |-> Absent]], log |-> <<>>, taskVersion |-> 0]
    /\ sCalls = [c \in Refreshes |-> Idle] /\ sLatest = 0 /\ sStale = FALSE

-----------------------------------------------------------------------------
(* The transactions of a record. *)
Of(db, kind, uid) == {i \in DOMAIN db.log : db.log[i].kind = kind /\ db.log[i].uid = uid}

NeverHistorical(db, kind, uid) == FALSE
isHistoricalUid(db, kind, uid) == Of(db, kind, uid) # {}

OfSource(db, kind, uid) == db.records[kind][uid].revision
latestRevision(db, kind, uid) ==
    Max({db.records[kind][uid].revision}
        \cup {db.log[i].before.revision : i \in Of(db, kind, uid)}
        \cup {db.log[i].after.revision : i \in Of(db, kind, uid)})

Unrecorded(db, action, kind, uid, after) == [db EXCEPT !.records[kind][uid] = after]

(* The record is replaced and #record appends the transaction. *)
Record(db, action, kind, uid, after) ==
    [db EXCEPT !.records[kind][uid] = after,
               !.log = Append(@, [action |-> action, kind |-> kind, uid |-> uid,
                                  before |-> db.records[kind][uid], after |-> after]),
               !.taskVersion = IF kind = "task" THEN @ + 1 ELSE @]

AsGiven(content) == content

normalizeTaskContent(content) ==
    IF content.done THEN [content EXCEPT !.percent = 100, !.stamped = TRUE]
    ELSE [content EXCEPT !.stamped = FALSE, !.percent = IF @ >= 100 THEN 99 ELSE @]

assertContactsExist(db, content) == \A u \in content.members : Present(db.records["contact"][u])

(* sDb' = db, unless nothing changed or the call threw. *)
Mutates(db) == Len(db.log) <= MaxTransactions /\ sDb' = db

-----------------------------------------------------------------------------
availableUid(kind, uid) == ~Present(sDb.records[kind][uid]) /\ ~isHistoricalUid(sDb, kind, uid)

Creates(kind, uid, content) ==
    /\ availableUid(kind, uid)
    /\ Mutates(Record(sDb, "created", kind, uid, [content |-> content, revision |-> 1]))
    /\ UNCHANGED <<sCalls, sLatest, sStale>>

CreateContact(uid) == \E content \in Inputs("contact") : Creates("contact", uid, content)
CreateMailingList(uid) ==
    \E content \in Inputs("mailing-list") :
        assertContactsExist(sDb, content) /\ Creates("mailing-list", uid, content)
CreateCalendarEvent(uid) ==
    \E content \in Inputs("calendar-event") : Creates("calendar-event", uid, content)
CreateTask(uid) ==
    \E content \in Inputs("task") : Creates("task", uid, normalizeTaskContent(content))

(* A patch changes some fields; one that changes nothing is no change. *)
RecordUpdates(kind, uid, content) ==
    LET current == sDb.records[kind][uid]
    IN /\ Present(current) /\ content # current.content
       /\ Mutates(Record(sDb, "updated", kind, uid,
                         [content |-> content, revision |-> current.revision + 1]))
       /\ UNCHANGED <<sCalls, sLatest, sStale>>

UpdateContact(uid) == \E content \in Inputs("contact") : RecordUpdates("contact", uid, content)
UpdateCalendarEvent(uid) ==
    \E content \in Inputs("calendar-event") : RecordUpdates("calendar-event", uid, content)

(* The members are looked up only when the patch gives them. *)
UpdateMailingList(uid) ==
    LET current == sDb.records["mailing-list"][uid].content
    IN \/ \E text \in {"x", "y"} : RecordUpdates("mailing-list", uid, [current EXCEPT !.text = text])
       \/ \E members \in SUBSET PimUids :
             LET content == [current EXCEPT !.members = members]
             IN assertContactsExist(sDb, content) /\ RecordUpdates("mailing-list", uid, content)

TaskPatches(current) ==
    {normalizeTaskContent([current EXCEPT !.done = done]) : done \in BOOLEAN}
        \cup {normalizeTaskContent([current EXCEPT !.percent = percent]) : percent \in {0, 100}}

UpdateTask(uid) ==
    \E content \in TaskPatches(sDb.records["task"][uid].content) : RecordUpdates("task", uid, content)

(* A list keeps naming a contact that is deleted. *)
Deletes(kind, uid) ==
    /\ Present(sDb.records[kind][uid])
    /\ Mutates(Record(sDb, "deleted", kind, uid, Absent))
    /\ UNCHANGED <<sCalls, sLatest, sStale>>

DeleteContact(uid) == Deletes("contact", uid)
DeleteMailingList(uid) == Deletes("mailing-list", uid)
DeleteCalendarEvent(uid) == Deletes("calendar-event", uid)
DeleteTask(uid) == Deletes("task", uid)

(* #restoreSource: what a transaction replaced, or made if it made it anew. *)
RestoreSource(t) == IF t.action = "created" \/ ~Present(t.before) THEN t.after ELSE t.before

(* Any transaction of the record, or the last one when none is named. *)
Restore(kind, uid) ==
    /\ \E i \in Of(sDb, kind, uid) :
          LET source == RestoreSource(sDb.log[i])
          IN /\ source.content # sDb.records[kind][uid].content \/ ~Present(sDb.records[kind][uid])
             /\ Mutates(Record(sDb, "restored", kind, uid,
                    [content |-> source.content, revision |-> latestRevision(sDb, kind, uid) + 1]))
    /\ UNCHANGED <<sCalls, sLatest, sStale>>

-----------------------------------------------------------------------------
(* Imports: the records of a file one after the other, all or nothing; here at
   most one of each kind.  A refusal of one is FALSE in ok.  Dates of completion are not told apart: a
   file that only dates a completed task anew changes nothing here. *)
Result(db, ok) == [db |-> db, ok |-> ok]

Upserted(db, item) ==
    LET current == db.records[item.kind][item.uid]
        content == item.content
    IN CASE Present(current) /\ current.content = content -> db
         [] Present(current) /\ current.content # content ->
                Record(db, "updated", item.kind, item.uid,
                       [content |-> content, revision |-> current.revision + 1])
         [] ~Present(current) ->
                Record(db, "created", item.kind, item.uid,
                       [content |-> content, revision |-> latestRevision(db, item.kind, item.uid) + 1])

NoItem == [kind |-> "none"]

(* importVCard: a record that was deleted is not made anew, and a list names
   contacts that exist. *)
Refused(db, item) ==
    \/ ~Present(db.records[item.kind][item.uid]) /\ isHistoricalUid(db, item.kind, item.uid)
    \/ ~assertContactsExist(db, item.content)
VCardItem(result, item) ==
    CASE ~result.ok \/ item = NoItem -> result
      [] OTHER -> IF Refused(result.db, item) THEN Result(result.db, FALSE)
                  ELSE Result(Upserted(result.db, item), TRUE)

(* importICalendar: a UID of a deleted record, or of the other kind, is a
   conflict; "skip" leaves conflicts and records that exist alone. *)
Other(kind) == IF kind = "task" THEN "calendar-event" ELSE "task"
Conflict(db, item) ==
    \/ ~Present(db.records[item.kind][item.uid]) /\ isHistoricalUid(db, item.kind, item.uid)
    \/ Present(db.records[Other(item.kind)][item.uid])
    \/ isHistoricalUid(db, Other(item.kind), item.uid)

ICalendarItem(policy, result, item) ==
    CASE ~result.ok \/ item = NoItem -> result
      [] result.ok /\ item # NoItem /\ Conflict(result.db, item) -> Result(result.db, policy = "skip")
      [] OTHER -> IF policy = "skip" /\ Present(result.db.records[item.kind][item.uid])
                  THEN result
                  ELSE Result(Upserted(result.db, item), TRUE)

Parsed(kind) == IF kind = "task" THEN {normalizeTaskContent(c) : c \in Inputs(kind)} ELSE Inputs(kind)
Items(kind) == {NoItem} \cup [kind : {kind}, uid : PimUids, content : Parsed(kind)]

Applies(result) ==
    /\ result.ok /\ result.db # sDb /\ Mutates(result.db)
    /\ UNCHANGED <<sCalls, sLatest, sStale>>

ImportVCard ==
    \E contact \in Items("contact"), list \in Items("mailing-list") :
        Applies(VCardItem(VCardItem(Result(sDb, TRUE), contact), list))

ImportICalendar ==
    \E event \in Items("calendar-event"), task \in Items("task"), policy \in {"skip", "update"} :
        Applies(ICalendarItem(policy, ICalendarItem(policy, Result(sDb, TRUE), event), task))

-----------------------------------------------------------------------------
(* refreshTasks *)
BeginRefresh(c) ==
    /\ c = sLatest + 1 /\ sLatest' = c
    /\ sCalls' = [sCalls EXCEPT ![c] = [step |-> "loading", base |-> sDb.taskVersion,
                                        tasks |-> sDb.records["task"]]]
    /\ UNCHANGED <<sDb, sStale>>

MutateAnyway(c) == TRUE
Current(c) == c = sLatest /\ sDb.taskVersion = sCalls[c].base

(* The provider answered. *)
Loaded(c) ==
    /\ sCalls[c].step = "loading"
    /\ sCalls' = [sCalls EXCEPT ![c] = IF c = sLatest /\ sDb.taskVersion = sCalls[c].base
                                       THEN [@ EXCEPT !.step = "mutate"] ELSE Idle]
    /\ UNCHANGED <<sDb, sLatest, sStale>>

(* The mutation waits for the store's lock and queue, and checks again; what
   was loaded patches the task of its uid or makes it. *)
ApplyRefresh(c, uid) ==
    /\ sCalls[c].step = "mutate" /\ sCalls' = [sCalls EXCEPT ![c] = Idle]
    /\ \E content \in IF Present(sDb.records["task"][uid])
                       THEN TaskPatches(sDb.records["task"][uid].content) ELSE Parsed("task") :
          LET result == VCardItem(Result(sDb, TRUE), [kind |-> "task", uid |-> uid, content |-> content])
          IN IF Current(c) /\ result.ok
             THEN /\ Mutates(result.db)
                  /\ sStale' = (sStale \/ (result.db # sDb
                                     /\ (sCalls[c].tasks # sDb.records["task"] \/ c # sLatest)))
             ELSE UNCHANGED <<sDb, sStale>>
    /\ UNCHANGED sLatest

PimServiceNext ==
    \/ \E uid \in PimUids :
         \/ CreateContact(uid) \/ CreateMailingList(uid) \/ CreateCalendarEvent(uid) \/ CreateTask(uid)
         \/ UpdateContact(uid) \/ UpdateMailingList(uid) \/ UpdateCalendarEvent(uid) \/ UpdateTask(uid)
         \/ DeleteContact(uid) \/ DeleteMailingList(uid) \/ DeleteCalendarEvent(uid) \/ DeleteTask(uid)
         \/ \E kind \in Kinds : Restore(kind, uid)
         \/ \E c \in Refreshes : ApplyRefresh(c, uid)
    \/ ImportVCard \/ ImportICalendar
    \/ \E c \in Refreshes : BeginRefresh(c) \/ Loaded(c)

-----------------------------------------------------------------------------
(* A record is what its transactions say: each takes over where the one
   before it left off and the last one ends in the record as it is, so that
   what any change replaced can be restored. *)
After(db, earlier) == IF earlier = {} THEN Absent ELSE db.log[Max(earlier)].after
JournalComplete ==
    \A kind \in Kinds, uid \in PimUids :
        LET all == Of(sDb, kind, uid)
        IN /\ \A i \in all : sDb.log[i].before = After(sDb, all \cap 1..(i - 1))
           /\ sDb.records[kind][uid] = After(sDb, all)

(* A revision number stands for one content for ever: also a record that is
   deleted and comes back, by any way, never reuses one. *)
RevisionsUnique ==
    \A i, j \in DOMAIN sDb.log :
        LET s == sDb.log[i]
            t == sDb.log[j]
        IN s.kind = t.kind /\ s.uid = t.uid /\ Present(s.after) /\ s.after.revision = t.after.revision
              => s.after = t.after

(* A task is complete, at 100 per cent and dated all at once, whichever call
   wrote it. *)
CompletionConsistent ==
    \A uid \in PimUids :
        LET task == sDb.records["task"][uid].content
        IN (task.done <=> task.percent = 100) /\ (task.done <=> task.stamped)

(* A refresh never lands on tasks that changed after it began, nor after a
   newer refresh was begun. *)
RefreshNeverStale == ~sStale
=============================================================================
