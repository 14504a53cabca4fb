------------------------------ MODULE MailQueue ------------------------------
(***************************************************************************)
(* Drafts, the Outbox and the queue of pending server changes of           *)
(* src/main/app-service.ts.                                                *)
(*                                                                         *)
(* Every store.update is one atomic step (JsonStore serialises them), but  *)
(* a handler that talks to a mail server is at least two steps: it reads   *)
(* the store and calls the server, and later updates the store with the    *)
(* outcome.  Other handlers, the death of the process and changes on the   *)
(* server fall in between.                                                 *)
(*                                                                         *)
(* A queue array is a set of rows with distinct, growing positions: push   *)
(* takes the next position, find takes the least one.  A draft's content   *)
(* is the pair of its text (every field sameDraftSnapshot compares) and    *)
(* its sending identity.                                                   *)
(***************************************************************************)
EXTENDS Naturals, FiniteSets

CONSTANTS
    Accounts,        \* account identifiers
    Idents,          \* sending identities a draft can name
    Limit,           \* AUTOMATIC_MAIL_QUEUE_ATTEMPT_LIMIT
    MaxSends,        \* bound: sendMessage calls
    MaxTexts,        \* bound: distinct draft texts the user writes
    MaxIds,          \* bound: new drafts the user saves
    MaxOps,          \* bound: flag and move requests
    MaxGens,         \* bound: UIDVALIDITY generations of the mailbox
    MaxDoubts,       \* bound: lost answers
    MaxRetries,      \* bound: failed attempts after which nobody retries
    MaxCrashes       \* bound: deaths of the process

ASSUME QueueAssumption ==
    /\ Limit \in Nat \ {0}
    /\ MaxSends \in Nat /\ MaxTexts \in Nat /\ MaxIds \in Nat
    /\ MaxOps \in Nat /\ MaxGens \in Nat
    /\ MaxDoubts \in Nat /\ MaxRetries \in Nat /\ MaxCrashes \in Nat

NoId == 0            \* ComposeDraft.id is absent
Kinds == {"flags", "move"}
Content == [txt : Nat, ident : Idents]
Drafts == [id : Nat, acct : Accounts, body : Content]
Items == [sid : Nat, acct : Accounts, id : Nat, body : Content,
          attempts : Nat, tries : Nat, pos : Nat]
Ops == [n : Nat, acct : Accounts, kind : Kinds, gen : Nat,
        attempts : Nat, tries : Nat, pos : Nat]
Outcomes == {"accepted", "rejected", "error"}

VARIABLES
    (* the persisted state *)
    accounts,   \* the accounts present
    drafts,     \* state.drafts
    outbox,     \* state.outbox
    pending,    \* state.pendingOperations
    cachedGen,  \* state.folders[a].uidValidity, 0 when unknown
    (* calls in flight *)
    sends,      \* sendMessage calls waiting to record their outcome
    edits,      \* setMessageFlags / moveMessage calls, likewise
    flight,     \* #queueFlights and the call that holds each entry
    syncing,    \* syncAccount calls past their replay
    listed,     \* syncAccount calls holding a folder listing
    (* the servers *)
    serverGen,  \* the mailbox's live UIDVALIDITY
    seen,       \* the flag request the server applied last
    moved,      \* the move requests the server carried out
    delivered,  \* how often SMTP accepted each submission
    (* counters and history *)
    nextSid, nextTxt, nextId, nextOp, nextPos, crashes,
    doubts,     \* acceptances of a submission the client never recorded
    ever,       \* contents that were persisted at some time
    excused,    \* contents the user replaced, deleted or undid a send over
    sent        \* contents SMTP accepted

persisted == <<accounts, drafts, outbox, pending, cachedGen>>
server == <<serverGen, seen, moved, delivered>>
history == <<doubts, ever, excused, sent>>
counters == <<nextSid, nextTxt, nextId, nextOp, nextPos, crashes>>
vars == <<persisted, sends, edits, flight, syncing, listed, server, history,
          counters>>

NoDraft == [id |-> NoId]
Idle == [pc |-> "idle", auto |-> FALSE, ops |-> {}, items |-> {}, gen |-> 0,
         res |-> "error", mark |-> 0]

-----------------------------------------------------------------------------
OpsOf(a) == {p \in pending : p.acct = a}
ItemsOf(a) == {o \in outbox : o.acct = a}
First(S) == CHOOSE x \in S : \A y \in S : x.pos <= y.pos
DraftsWith(id) == {d \in drafts : d.id = id /\ id # NoId}

(* Mutant: snapshots are compared by identifier only.                      *)
SameIdOnly(d, e) == d.id = e.id

(* sameDraftSnapshot: every field but identityId.                          *)
SameSnapshot(d, e) ==
    \/ d = NoDraft /\ e = NoDraft
    \/ /\ d # NoDraft /\ e # NoDraft
       /\ d.id = e.id /\ d.acct = e.acct /\ d.body.txt = e.body.txt

(* The persisted draft with this identifier, or NoDraft.                   *)
FindDraft(id) ==
    IF DraftsWith(id) = {} THEN NoDraft ELSE CHOOSE d \in DraftsWith(id) : TRUE

(* Mutant: the bare content is stored.                                     *)
PutBody(d) == (drafts \ DraftsWith(d.id)) \cup {d.body}

(* Replace the draft with the new one's identifier, or append.             *)
PutDraft(d) == (drafts \ DraftsWith(d.id)) \cup {d}

(* #pendingOperationConflict: the cached generation moved on.              *)
Conflict(op, g) == op.gen = 0 \/ (g # 0 /\ g # op.gen)

(* Mutant: any pending change counts as the head.                          *)
AnyOp(a, p) == p \in OpsOf(a)

(* #queueHead: pending changes first, then the Outbox.                     *)
OpHead(a, p) == p \in OpsOf(a) /\ p = First(OpsOf(a))
ItemHead(a, o) == OpsOf(a) = {} /\ o \in ItemsOf(a) /\ o = First(ItemsOf(a))

Init ==
    /\ accounts = Accounts
    /\ drafts = {} /\ outbox = {} /\ pending = {}
    /\ cachedGen = [a \in Accounts |-> 1]
    /\ sends = {} /\ edits = {} /\ syncing = {} /\ listed = {}
    /\ flight = [a \in Accounts |-> Idle]
    /\ serverGen = [a \in Accounts |-> 1]
    /\ seen = [a \in Accounts |-> 0]
    /\ moved = {}
    /\ delivered = [s \in 1..MaxSends |-> 0]
    /\ nextSid = 1 /\ nextTxt = 1 /\ nextId = 1 /\ nextOp = 1 /\ nextPos = 1
    /\ crashes = 0
    /\ doubts = [s \in 1..MaxSends |-> 0]
    /\ ever = {} /\ excused = {} /\ sent = {}

-----------------------------------------------------------------------------
(***************************************************************************)
(* Drafts.                                                                 *)
(***************************************************************************)
(* saveDraft: a new draft gets an identifier, a known identifier is        *)
(* replaced.  The text is new, or only the identity changed.               *)
SaveDraft(a, id, txt, ident) ==
    LET saved == [id |-> IF id = NoId THEN nextId ELSE id, acct |-> a,
                  body |-> [txt |-> txt, ident |-> ident]]
    IN  /\ a \in accounts
        /\ id < nextId
        /\ id = NoId => nextId <= MaxIds
        /\ \/ txt = nextTxt /\ txt <= MaxTexts
           \/ \E d \in DraftsWith(id) : d.body.txt = txt /\ d.body.ident # ident
        /\ drafts' = PutDraft(saved)
        /\ excused' = excused \cup {d.body : d \in DraftsWith(saved.id)}
        /\ ever' = ever \cup {saved.body}
        /\ nextId' = IF id = NoId THEN nextId + 1 ELSE nextId
        /\ nextTxt' = IF txt = nextTxt THEN nextTxt + 1 ELSE nextTxt
        /\ UNCHANGED <<accounts, outbox, pending, cachedGen, sends, edits,
                       flight, syncing, listed, server, doubts, sent,
                       nextSid, nextOp, nextPos, crashes>>

DeleteDraft(a, id) ==
    /\ a \in accounts
    /\ \E d \in DraftsWith(id) : d.acct = a
    /\ drafts' = drafts \ DraftsWith(id)
    /\ excused' = excused \cup {d.body : d \in DraftsWith(id)}
    /\ UNCHANGED <<accounts, outbox, pending, cachedGen, sends, edits, flight,
                   syncing, listed, server, doubts, ever, sent, counters>>

-----------------------------------------------------------------------------
(***************************************************************************)
(* SMTP (external).  "error" covers every failure before a recipient       *)
(* verdict; the server may have accepted the message all the same.         *)
(***************************************************************************)
Submit(sid, body, res) ==
    \/ /\ res = "accepted"
       /\ delivered' = [delivered EXCEPT ![sid] = @ + 1]
       /\ sent' = sent \cup {body}
       /\ doubts' = doubts
    \/ res \in {"rejected", "error"} /\ UNCHANGED <<delivered, sent, doubts>>
    \/ /\ res = "error" /\ doubts[sid] < MaxDoubts
       /\ delivered' = [delivered EXCEPT ![sid] = @ + 1]
       /\ doubts' = [doubts EXCEPT ![sid] = @ + 1]
       /\ sent' = sent \cup {body}

(* sendMessage up to the SMTP answer: the composer's content, and the      *)
(* persisted draft with its identifier as it is now.                       *)
SendStart(a, id, txt, ident, res) ==
    LET snap == FindDraft(id)
        body == [txt |-> txt, ident |-> ident]
    IN  /\ a \in accounts
        /\ nextSid <= MaxSends
        /\ id < nextId
        /\ \/ txt = nextTxt /\ txt <= MaxTexts
           \/ snap # NoDraft /\ snap.body = body
        /\ Submit(nextSid, body, res)
        /\ sends' = sends \cup {[sid |-> nextSid, acct |-> a, id |-> id,
                                 body |-> body, snap |-> snap, res |-> res]}
        /\ nextSid' = nextSid + 1
        /\ nextTxt' = IF txt = nextTxt THEN nextTxt + 1 ELSE nextTxt
        /\ UNCHANGED <<persisted, edits, flight, syncing, listed, serverGen,
                       seen, moved, ever, excused, nextId, nextOp, nextPos,
                       crashes>>

(* sendMessage's update.  Full and partial acceptance differ only in the   *)
(* notification.                                                           *)
SendFinish(s) ==
    LET unchanged == SameSnapshot(FindDraft(s.id), s.snap)
        keepId == s.id # NoId /\ unchanged
        kept == [id |-> IF keepId THEN s.id ELSE nextId, acct |-> s.acct,
                 body |-> s.body]
        known == IF unchanged /\ s.snap # NoDraft THEN {s.snap.body} ELSE {}
    IN  /\ s \in sends
        /\ sends' = sends \ {s}
        /\ \/ s.acct \notin accounts
              /\ UNCHANGED <<drafts, outbox, ever, excused, nextId, nextPos>>
           \/ /\ s.acct \in accounts
              /\ s.res = "rejected"
              /\ drafts' = PutDraft(kept)
              /\ ever' = ever \cup {s.body}
              /\ excused' = excused \cup known
              /\ nextId' = IF keepId THEN nextId ELSE nextId + 1
              /\ UNCHANGED <<outbox, nextPos>>
           \/ /\ s.acct \in accounts
              /\ s.res # "rejected"
              /\ drafts' = IF unchanged THEN drafts \ DraftsWith(s.id)
                           ELSE drafts
              /\ excused' = excused \cup known
              /\ IF s.res = "error"
                 THEN /\ outbox' = outbox \cup
                            {[sid |-> s.sid, acct |-> s.acct, id |-> s.id,
                              body |-> s.body, attempts |-> 0, tries |-> 0,
                              pos |-> nextPos]}
                      /\ nextPos' = nextPos + 1
                      /\ ever' = ever \cup {s.body}
                 ELSE UNCHANGED <<outbox, nextPos, ever>>
              /\ nextId' = nextId
        /\ UNCHANGED <<accounts, pending, cachedGen, edits, flight, syncing,
                       listed, server, doubts, sent, nextSid, nextTxt, nextOp,
                       crashes>>

-----------------------------------------------------------------------------
(***************************************************************************)
(* IMAP.  A flag or move request names the generation it was made for and  *)
(* is refused in another one; a message that has been moved away cannot be *)
(* moved again.                                                            *)
(***************************************************************************)
(* Mutant: the mailbox generation is not asserted.                         *)
AnyGeneration(a, op) == TRUE

(* #assertMailboxGeneration, under the mailbox lock.                       *)
MailboxGeneration(a, op) == serverGen[a] = op.gen

SetFlags(a, op) ==
    /\ op.kind = "flags"
    /\ seen' = [seen EXCEPT ![a] = op.n] /\ moved' = moved

MoveMessage(op) ==
    /\ op.kind = "move" /\ op.n \notin moved
    /\ moved' = moved \cup {op.n} /\ seen' = seen

(* A request that ends in an error may have been applied all the same.     *)
Apply(a, op, res) ==
    \/ res = "error" /\ UNCHANGED <<seen, moved>>
    \/ /\ res \in {"accepted", "error"}
       /\ MailboxGeneration(a, op)
       /\ SetFlags(a, op) \/ MoveMessage(op)

(* setMessageFlags / moveMessage up to the server's answer.  A generation  *)
(* mismatch is thrown and leaves nothing behind.  Each move is of a        *)
(* message of its own.                                                     *)
EditStart(a, kind, res) ==
    LET op == [n |-> nextOp, kind |-> kind, gen |-> cachedGen[a]]
    IN  /\ a \in accounts /\ cachedGen[a] # 0
        /\ nextOp <= MaxOps
        /\ Apply(a, op, res)
        /\ edits' = edits \cup {[n |-> nextOp, acct |-> a, kind |-> kind,
                                 gen |-> cachedGen[a], res |-> res]}
        /\ nextOp' = nextOp + 1
        /\ UNCHANGED <<persisted, sends, flight, syncing, listed, serverGen,
                       delivered, history, nextSid, nextTxt, nextId, nextPos,
                       crashes>>

(* Their update: it throws when the account or the generation is gone, and *)
(* otherwise queues a request the server did not confirm.                  *)
EditFinish(e) ==
    /\ e \in edits
    /\ edits' = edits \ {e}
    /\ IF e.acct \in accounts /\ cachedGen[e.acct] = e.gen /\ e.res = "error"
       THEN /\ pending' = pending \cup
                  {[n |-> e.n, acct |-> e.acct, kind |-> e.kind, gen |-> e.gen,
                    attempts |-> 0, tries |-> 0, pos |-> nextPos]}
            /\ nextPos' = nextPos + 1
       ELSE UNCHANGED <<pending, nextPos>>
    /\ UNCHANGED <<accounts, drafts, outbox, cachedGen, sends, flight, syncing,
                   listed, server, history, nextSid, nextTxt, nextId, nextOp,
                   crashes>>

-----------------------------------------------------------------------------
(***************************************************************************)
(* Queue flights.  #withQueueFlight admits one per account and throws for  *)
(* the others, so a flight is started only where none is running.          *)
(***************************************************************************)
frame == <<cachedGen, edits, listed, serverGen, nextSid, nextTxt, nextOp,
           nextPos, crashes>>

(* The flight is over; a sync goes on to list the folders.                 *)
EndFlight(a) ==
    /\ flight' = [flight EXCEPT ![a] = Idle]
    /\ syncing' = IF flight[a].auto THEN syncing \cup {a} ELSE syncing

(* One more automatic attempt at a row, for the history only.              *)
Tried(S, a, row) ==
    {IF r.pos = row.pos /\ flight[a].auto THEN [r EXCEPT !.tries = @ + 1]
     ELSE r : r \in S}

(* Mutant: the failed attempt is not counted.                              *)
FailedUncounted(S, row) == S

(* #recordPendingFailure / #recordOutboxFailure on the row still there.    *)
Failed(S, row) ==
    {IF r.pos = row.pos THEN [r EXCEPT !.attempts = @ + 1] ELSE r : r \in S}

(* syncAccount and the snapshot #replayPending takes.                      *)
SyncStart(a) ==
    /\ a \in accounts /\ flight[a].pc = "idle"
    /\ flight' = [flight EXCEPT ![a] =
          [Idle EXCEPT !.pc = "ops", !.auto = TRUE, !.ops = OpsOf(a),
                       !.gen = cachedGen[a]]]
    /\ UNCHANGED <<accounts, drafts, outbox, pending, sends, syncing, seen,
                   moved, delivered, history, nextId, frame>>

RetryPending(a, p) ==
    /\ a \in accounts /\ flight[a].pc = "idle"
    /\ OpHead(a, p) /\ ~Conflict(p, cachedGen[a])
    /\ p.attempts < MaxRetries
    /\ flight' = [flight EXCEPT ![a] =
          [Idle EXCEPT !.pc = "ops", !.ops = {p}, !.gen = cachedGen[a]]]
    /\ UNCHANGED <<accounts, drafts, outbox, pending, sends, syncing, seen,
                   moved, delivered, history, nextId, frame>>

RetryOutbox(a, o) ==
    /\ a \in accounts /\ flight[a].pc = "idle"
    /\ ItemHead(a, o)
    /\ o.attempts < MaxRetries
    /\ flight' = [flight EXCEPT ![a] =
          [Idle EXCEPT !.pc = "items", !.items = {o}, !.mark = nextPos]]
    /\ UNCHANGED <<accounts, drafts, outbox, pending, sends, syncing, seen,
                   moved, delivered, history, nextId, frame>>

(* The replay loop stops at a conflict or at the automatic ceiling.        *)
OpsBlocked(f) ==
    \A op \in f.ops : op = First(f.ops) =>
        f.auto /\ (Conflict(op, f.gen) \/ op.attempts >= Limit)

(* #performPendingOperation on the next row of the snapshot.               *)
PerformOp(a, res) ==
    LET op == First(flight[a].ops)
    IN  /\ flight[a].pc = "ops" /\ ~OpsBlocked(flight[a])
        /\ Apply(a, op, res)
        /\ pending' = Tried(pending, a, op)
        /\ flight' = [flight EXCEPT ![a].pc = "opDone", ![a].res = res]
        /\ UNCHANGED <<accounts, drafts, outbox, sends, syncing, delivered,
                       history, nextId, frame>>

(* The row is removed, or its failure recorded; any failure ends the loop. *)
OpDone(a) ==
    LET f == flight[a]
        op == First(f.ops)
        ok == f.res = "accepted" /\ a \in accounts
    IN  /\ f.pc = "opDone"
        /\ pending' = IF ok THEN {p \in pending : p.n # op.n}
                      ELSE Failed(pending, op)
        /\ IF f.auto
           THEN /\ flight' = [flight EXCEPT ![a].pc = IF ok THEN "ops"
                                                      ELSE "check",
                                            ![a].ops = @ \ {op}]
                /\ syncing' = syncing
           ELSE EndFlight(a)
        /\ UNCHANGED <<accounts, drafts, outbox, sends, seen, moved,
                       delivered, history, nextId, frame>>

(* Mutant: the Outbox does not wait.                                       *)
ReplayCheckEager(a) ==
    LET f == flight[a]
    IN  /\ f.pc = "check" \/ (f.pc = "ops" /\ OpsBlocked(f))
        /\ flight' = [flight EXCEPT
              ![a] = [Idle EXCEPT !.pc = "items", !.auto = TRUE,
                        !.items = ItemsOf(a), !.mark = nextPos]]
        /\ UNCHANGED <<accounts, drafts, outbox, pending, sends, syncing,
                       seen, moved, delivered, history, nextId, frame>>

(* After the loop: the Outbox waits for every pending change.              *)
ReplayCheck(a) ==
    LET f == flight[a]
    IN  /\ f.pc = "check" \/ (f.pc = "ops" /\ OpsBlocked(f))
        /\ IF OpsOf(a) # {} THEN EndFlight(a)
           ELSE /\ flight' = [flight EXCEPT
                      ![a] = [Idle EXCEPT !.pc = "items", !.auto = TRUE,
                                !.items = ItemsOf(a), !.mark = nextPos]]
                /\ syncing' = syncing
        /\ UNCHANGED <<accounts, drafts, outbox, pending, sends, seen, moved,
                       delivered, history, nextId, frame>>

ItemsBlocked(f) ==
    \A item \in f.items : item = First(f.items) =>
        f.auto /\ item.attempts >= Limit

(* #deliverOutboxItem's submission of the snapshot row.                    *)
DeliverItem(a, res) ==
    LET item == First(flight[a].items)
    IN  /\ flight[a].pc = "items" /\ ~ItemsBlocked(flight[a])
        /\ Submit(item.sid, item.body, res)
        /\ outbox' = Tried(outbox, a, item)
        /\ flight' = [flight EXCEPT ![a].pc = "itemDone", ![a].res = res]
        /\ UNCHANGED <<accounts, drafts, pending, sends, syncing, seen, moved,
                       ever, excused, nextId, frame>>

(* Mutants: rows found by draft identifier; only fresh rows found.         *)
QueuedByDraft(a, item) == {o \in outbox : o.id = item.id /\ a \in accounts}
QueuedFresh(a, item) ==
    {o \in outbox : o.sid = item.sid /\ o.attempts = 0 /\ a \in accounts}

(* The row a delivery outcome is about, if it and its account still exist. *)
Queued(a, item) == {o \in outbox : o.sid = item.sid /\ a \in accounts}

(* Its update.  A row that vanished, or whose account did, is left alone.  *)
ItemDone(a) ==
    LET f == flight[a]
        item == First(f.items)
        queued == Queued(a, item)
        cur == FindDraft(item.id)
        keepId == item.id # NoId /\ (cur = NoDraft \/
                     SameSnapshot(cur, [id |-> item.id, acct |-> a,
                                        body |-> item.body]))
        kept == [id |-> IF keepId THEN item.id ELSE nextId, acct |-> a,
                 body |-> item.body]
    IN  /\ f.pc = "itemDone"
        /\ outbox' = IF f.res = "error" THEN Failed(outbox, item)
                     ELSE outbox \ queued
        /\ IF f.res = "rejected" /\ queued # {}
           THEN /\ drafts' = PutDraft(kept)
                /\ nextId' = IF keepId THEN nextId ELSE nextId + 1
           ELSE UNCHANGED <<drafts, nextId>>
        /\ IF f.auto /\ f.res # "error" /\ queued # {}
           THEN /\ flight' = [flight EXCEPT ![a].pc = "items",
                                            ![a].items = @ \ {item}]
                /\ syncing' = syncing
           ELSE EndFlight(a)
        /\ UNCHANGED <<accounts, pending, sends, seen, moved, delivered,
                       history, frame>>

(* Mutant: the attempt ceiling stops the loop without ending the flight.   *)
ReplayEndEmpty(a) ==
    /\ flight[a].pc = "items" /\ flight[a].items = {}
    /\ EndFlight(a)
    /\ UNCHANGED <<accounts, drafts, outbox, pending, sends, seen, moved,
                   delivered, history, nextId, frame>>

(* The delivery loop is done, or stops at the automatic ceiling.           *)
ReplayEnd(a) ==
    /\ flight[a].pc = "items" /\ ItemsBlocked(flight[a])
    /\ EndFlight(a)
    /\ UNCHANGED <<accounts, drafts, outbox, pending, sends, seen, moved,
                   delivered, history, nextId, frame>>

(* discardPendingOperation and cancelOutbox hold the flight across their   *)
(* one update.                                                             *)
DiscardPending(a, p) ==
    /\ a \in accounts /\ flight[a].pc = "idle" /\ p \in OpsOf(a)
    /\ pending' = {q \in pending : q.n # p.n}
    /\ UNCHANGED <<accounts, drafts, outbox, sends, flight, syncing, seen,
                   moved, delivered, history, nextId, frame>>

(* The code overwrites a draft saved under the same identifier since the   *)
(* send, without comparing snapshots; ContentKept excuses that one loss.   *)
CancelOutbox(a, o) ==
    /\ a \in accounts /\ flight[a].pc = "idle" /\ o \in ItemsOf(a)
    /\ outbox' = {q \in outbox : q.sid # o.sid}
    /\ drafts' = PutDraft([id |-> o.id, acct |-> a, body |-> o.body])
    /\ excused' = excused \cup {d.body : d \in DraftsWith(o.id)}
    /\ UNCHANGED <<accounts, pending, sends, flight, syncing, seen, moved,
                   delivered, doubts, ever, sent, nextId, frame>>

-----------------------------------------------------------------------------
(***************************************************************************)
(* The rest of syncAccount, as far as the queues depend on it: list the    *)
(* folders, then store their generations.                                  *)
(***************************************************************************)
SyncList(a) ==
    /\ a \in syncing
    /\ syncing' = syncing \ {a}
    /\ \/ listed' = listed \cup {[acct |-> a, gen |-> serverGen[a]]}
       \/ listed' = listed
    /\ UNCHANGED <<persisted, sends, edits, flight, server, history, counters>>

SyncStore(l) ==
    /\ l \in listed
    /\ listed' = listed \ {l}
    /\ cachedGen' = IF l.acct \in accounts
                    THEN [cachedGen EXCEPT ![l.acct] = l.gen] ELSE cachedGen
    /\ UNCHANGED <<accounts, drafts, outbox, pending, sends, edits, flight,
                   syncing, server, history, counters>>

RemoveAccount(a) ==
    /\ a \in accounts
    /\ accounts' = accounts \ {a}
    /\ drafts' = {d \in drafts : d.acct # a}
    /\ outbox' = {o \in outbox : o.acct # a}
    /\ pending' = {p \in pending : p.acct # a}
    /\ cachedGen' = [cachedGen EXCEPT ![a] = 0]
    /\ excused' = excused \cup {d.body : d \in drafts \ drafts'}
                          \cup {o.body : o \in outbox \ outbox'}
    /\ UNCHANGED <<sends, edits, flight, syncing, listed, server, doubts, ever,
                   sent, counters>>

(* The server gives the mailbox a new UIDVALIDITY.                         *)
ServerReset(a) ==
    /\ serverGen[a] < MaxGens
    /\ serverGen' = [serverGen EXCEPT ![a] = @ + 1]
    /\ UNCHANGED <<persisted, sends, edits, flight, syncing, listed, seen,
                   moved, delivered, history, counters>>

(* The process dies: calls and flights are forgotten, the store is not.    *)
Crash ==
    /\ crashes < MaxCrashes
    /\ crashes' = crashes + 1
    /\ sends' = {} /\ edits' = {} /\ syncing' = {} /\ listed' = {}
    /\ flight' = [a \in Accounts |-> Idle]
    /\ doubts' = [s \in 1..MaxSends |->
          IF \E a \in Accounts : /\ flight[a].pc = "itemDone"
                                 /\ flight[a].res = "accepted"
                                 /\ First(flight[a].items).sid = s
          THEN doubts[s] + 1 ELSE doubts[s]]
    /\ UNCHANGED <<persisted, server, ever, excused, sent, nextSid, nextTxt,
                   nextId, nextOp, nextPos>>

FlightStep(a) ==
    \/ \E res \in Outcomes : PerformOp(a, res) \/ DeliverItem(a, res)
    \/ OpDone(a) \/ ReplayCheck(a) \/ ItemDone(a) \/ ReplayEnd(a)

UserStep(a) ==
    \/ \E id \in 0..(MaxIds + MaxSends), txt \in 1..MaxTexts, i \in Idents :
          \/ SaveDraft(a, id, txt, i)
          \/ \E res \in Outcomes : SendStart(a, id, txt, i, res)
    \/ \E id \in 1..(MaxIds + MaxSends) : DeleteDraft(a, id)
    \/ \E k \in Kinds, res \in Outcomes : EditStart(a, k, res)
    \/ SyncStart(a)
    \/ \E p \in pending : RetryPending(a, p) \/ DiscardPending(a, p)
    \/ \E o \in outbox : RetryOutbox(a, o) \/ CancelOutbox(a, o)
    \/ RemoveAccount(a)

Next ==
    \/ \E a \in Accounts :
          UserStep(a) \/ FlightStep(a) \/ SyncList(a) \/ ServerReset(a)
    \/ \E s \in sends : SendFinish(s)
    \/ \E e \in edits : EditFinish(e)
    \/ \E l \in listed : SyncStore(l)
    \/ Crash

Spec == Init /\ [][Next]_vars

(* Network calls time out, so a running flight keeps moving.               *)
FairSpec == Spec /\ \A a \in Accounts : WF_vars(FlightStep(a))

-----------------------------------------------------------------------------
PCs == {"idle", "ops", "opDone", "check", "items", "itemDone"}

TypeOK ==
    /\ accounts \subseteq Accounts
    /\ drafts \subseteq Drafts
    /\ outbox \subseteq Items
    /\ pending \subseteq Ops
    /\ cachedGen \in [Accounts -> Nat]
    /\ sends \subseteq [sid : Nat, acct : Accounts, id : Nat, body : Content,
                        snap : Drafts \cup {NoDraft}, res : Outcomes]
    /\ edits \subseteq [n : Nat, acct : Accounts, kind : Kinds, gen : Nat,
                        res : Outcomes]
    /\ flight \in [Accounts -> [pc : PCs, auto : BOOLEAN, ops : SUBSET Ops,
                                items : SUBSET Items, gen : Nat,
                                res : Outcomes, mark : Nat]]
    /\ syncing \subseteq Accounts
    /\ listed \subseteq [acct : Accounts, gen : Nat]
    /\ serverGen \in [Accounts -> Nat]
    /\ seen \in [Accounts -> Nat]
    /\ moved \subseteq Nat
    /\ delivered \in [1..MaxSends -> Nat]
    /\ nextSid \in Nat /\ nextTxt \in Nat /\ nextId \in Nat /\ nextOp \in Nat
    /\ nextPos \in Nat /\ crashes \in Nat
    /\ doubts \in [1..MaxSends -> Nat]
    /\ ever \subseteq Content /\ excused \subseteq Content
    /\ sent \subseteq Content

(* A submission is accepted by SMTP once, and once more only for each      *)
(* acceptance whose answer or whose record was lost: no interleaving of    *)
(* sync, manual retry, cancel and removal sends a message twice.           *)
DuplicatesNeedDoubt ==
    \A s \in 1..MaxSends : delivered[s] <= 1 + doubts[s]

(* What was ever stored as a draft or queued is still a draft, still       *)
(* queued, or accepted by a server, unless the user replaced or deleted    *)
(* it: no outcome of a send, a replay or a crash loses it.  Only the       *)
(* sending identity may be an older one, since sameDraftSnapshot ignores   *)
(* it.                                                                     *)
ContentKept ==
    \A c \in ever :
        \E k \in excused \cup sent \cup {d.body : d \in drafts}
                               \cup {o.body : o \in outbox} : k.txt = c.txt

(* The queue is a queue: the change a flight is performing is the account's *)
(* oldest, a message it is submitting is the oldest queued one, and no     *)
(* pending change older than the flight's check is behind it.              *)
QueueDiscipline ==
    \A a \in accounts :
        LET f == flight[a] IN
        /\ f.pc = "opDone" => \A p \in OpsOf(a) : First(f.ops).pos <= p.pos
        /\ f.pc = "itemDone" =>
              /\ \A o \in ItemsOf(a) : First(f.items).pos <= o.pos
              /\ \A p \in OpsOf(a) : p.pos >= f.mark

(* Automatic replay gives a row at most Limit attempts, one more for each  *)
(* death of the process that kept a failure from being recorded.           *)
CeilingHolds ==
    /\ \A o \in outbox : o.tries <= Limit + crashes
    /\ \A p \in pending : p.tries <= Limit + crashes

(* The queues keep their order and their ceiling: a flight works on the    *)
(* account's oldest change and message and on no message while a change    *)
(* older than its check waits, and no row is tried automatically beyond    *)
(* Limit, but for deaths that kept a failure from being recorded           *)
(* (replayQueue in app-service.ts).                                        *)
QueuesInOrder == TypeOK /\ QueueDiscipline /\ CeilingHolds

(* A change is only ever performed in the mailbox generation it was made   *)
(* for, and the sync that notices a new generation keeps the stale rows    *)
(* from being retried.                                                     *)
NoRetryAcrossGenerations ==
    [][ \A a \in Accounts : seen'[a] # seen[a] =>
          \E op \in edits' \cup flight[a].ops :
             op.n = seen'[a] /\ op.acct = a /\ op.gen = serverGen[a] ]_vars

(* A flight always ends, so an account is never locked out of retry,       *)
(* discard and cancel.                                                     *)
FlightsEnd == \A a \in Accounts : flight[a].pc # "idle" ~> flight[a].pc = "idle"

-----------------------------------------------------------------------------
(* What the documentation says of these handlers.                          *)

(* "a newer same-ID save survives full, partial, queued, and rejected      *)
(* delivery outcomes": recording an outcome never removes a draft whose    *)
(* text is not that of the draft the send started from.                    *)
NewerSaveSurvives ==
    [][ \A s \in sends \ sends', d \in drafts \ drafts' :
          crashes' = crashes /\ d.id = s.id =>
              /\ s.snap # NoDraft /\ s.snap.id = d.id
              /\ s.snap.body.txt = d.body.txt ]_vars

(* "later operations do not overtake it": the server never goes back to an *)
(* older flag request after a newer one.                                   *)
FlagsNeverRegress == [][ \A a \in Accounts : seen'[a] >= seen[a] ]_vars

=============================================================================
