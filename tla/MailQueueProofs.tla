-------------------------- MODULE MailQueueProofs --------------------------
(***************************************************************************)
(* Proofs about MailQueue, for every number of accounts, sends, changes    *)
(* and failures: no message is sent twice without a lost answer, no text   *)
(* is lost, and the queues keep their order and their ceiling.             *)
(*                                                                         *)
(* The argument: a submission has one row or one call at a time, and a row *)
(* keeps its submission, its position and its text while its counters      *)
(* change.  What a flight holds is a copy of its account's oldest rows, so *)
(* that what it performs is the oldest row, and what a server accepted is  *)
(* the row that its outcome removes.                                       *)
(***************************************************************************)
EXTENDS MailQueue, WellFoundedInduction, TLAPS

SameItem(o, q) ==
    o.sid = q.sid /\ o.pos = q.pos /\ o.acct = q.acct /\ o.body = q.body /\ o.id = q.id

(* The identifiers handed out so far. *)
Counted(i) == i.sid \in 1..MaxSends /\ i.sid < nextSid /\ i.pos < nextPos /\ i.id < nextId

SendKeys ==
    /\ nextSid >= 1 /\ nextId >= 1
    /\ \A s \in sends :
          /\ s.sid \in 1..MaxSends /\ s.sid < nextSid /\ s.id < nextId
          /\ s.snap # NoDraft => s.snap.id = s.id /\ s.id # NoId
    /\ \A s, t \in sends : s.sid = t.sid => s = t

DraftKeys ==
    /\ \A d \in drafts : d.id < nextId
    /\ \A d, e \in drafts : d.id = e.id /\ d.id # NoId => d = e

(* A row of the Outbox is known by its submission, and by its position. *)
RowKeys ==
    /\ \A o \in outbox :
          Counted(o) /\ o.acct \in accounts /\ \A s \in sends : s.sid # o.sid
    /\ \A o, q \in outbox : o.sid = q.sid \/ o.pos = q.pos => o = q

(* A flight holds copies of rows of its account. *)
CopyKeys ==
    \A a \in Accounts : \A i \in flight[a].items :
        /\ Counted(i) /\ i.acct = a /\ \A s \in sends : s.sid # i.sid
        /\ \A o \in outbox : o.sid = i.sid \/ o.pos = i.pos => SameItem(o, i)
        /\ \A b \in Accounts : \A j \in flight[b].items :
              i.sid = j.sid \/ i.pos = j.pos => i = j

OpKeys ==
    /\ \A p \in pending : p.pos < nextPos /\ p.acct \in accounts
    /\ \A p, q \in pending : p.pos = q.pos => p = q
    /\ \A a \in Accounts : \A i \in flight[a].ops :
          /\ i.acct = a /\ i.pos < nextPos
          /\ \A p \in pending : p.pos = i.pos => p.n = i.n /\ p.acct = i.acct
          /\ \A j \in flight[a].ops : i.pos = j.pos => i = j

Keys == SendKeys /\ DraftKeys /\ RowKeys /\ CopyKeys /\ OpKeys

(* The copies are the oldest rows: none that is older is missing. *)
Ahead(copies, rows) ==
    \A i \in copies : \A r \in rows : r.pos < i.pos => \E j \in copies : j.pos = r.pos

InOrder(a) ==
    LET f == flight[a] IN
    /\ f.pc = "opDone" => f.ops # {}
    /\ f.pc = "itemDone" => f.items # {}
    /\ a \in accounts /\ f.pc \in {"ops", "opDone"} => Ahead(f.ops, OpsOf(a))
    /\ a \in accounts /\ f.pc \in {"items", "itemDone"} =>
          /\ Ahead(f.items, ItemsOf(a))
          /\ \A p \in OpsOf(a) : p.pos >= f.mark
    /\ f.mark <= nextPos
Order == \A a \in Accounts : InOrder(a)

(* A copy has the attempts of its row. *)
FreshCopies(a) ==
    LET f == flight[a] IN
    /\ f.pc \in {"ops", "opDone"} => \A i \in f.ops : \A p \in pending :
          p.pos = i.pos => p.attempts = i.attempts
    /\ f.pc \in {"items", "itemDone"} => \A i \in f.items : \A o \in outbox :
          o.pos = i.pos => o.attempts = i.attempts
Fresh == \A a \in Accounts : FreshCopies(a)

(* The row that an automatic replay is trying. *)
TryingOp(a, p) ==
    flight[a].pc = "opDone" /\ flight[a].auto /\ p.pos = First(flight[a].ops).pos
TryingItem(a, o) ==
    flight[a].pc = "itemDone" /\ flight[a].auto /\ o.pos = First(flight[a].items).pos

(* An automatic attempt is followed by its failure or by a death. *)
OpTries(p) ==
    \/ p.tries <= p.attempts + crashes
    \/ p.tries <= p.attempts + crashes + 1 /\ \E a \in Accounts : TryingOp(a, p)
ItemTries(o) ==
    \/ o.tries <= o.attempts + crashes
    \/ o.tries <= o.attempts + crashes + 1 /\ \E a \in Accounts : TryingItem(a, o)

Tries ==
    /\ \A p \in pending : OpTries(p)
    /\ \A o \in outbox : ItemTries(o)
    /\ CeilingHolds

(* A submission that may be made: its acceptances are all lost ones.       *)
Clean(s) == delivered[s] <= doubts[s]

(* A flight is about to record that the server accepted the submission.    *)
Accepted(a, s) ==
    flight[a].pc = "itemDone" /\ flight[a].res = "accepted" /\ First(flight[a].items).sid = s

Duplicates ==
    /\ DuplicatesNeedDoubt
    /\ \A s \in 1..MaxSends : s >= nextSid => delivered[s] = 0
    /\ \A s \in sends : s.res # "accepted" => Clean(s.sid)
    /\ \A o \in outbox : Clean(o.sid) \/ Accepted(o.acct, o.sid)
    /\ \A a \in Accounts : \A i \in flight[a].items : Clean(i.sid) \/ Accepted(a, i.sid)

Contents ==
    /\ ContentKept
    /\ \A a \in Accounts : flight[a].pc = "itemDone" /\ flight[a].res = "accepted" =>
           First(flight[a].items).body \in sent

IInv == TypeOK /\ Keys /\ Order /\ Fresh /\ Tries /\ Duplicates /\ Contents

-----------------------------------------------------------------------------
(***************************************************************************)
(* Choosing the head of a queue.                                           *)
(***************************************************************************)
(* A non-empty set of naturals has a least element.                        *)
LEMMA LeastNatural ==
    ASSUME NEW T, T \subseteq Nat, T # {}
    PROVE  \E x \in T : \A y \in T : x <= y
<1> DEFINE R == OpToRel(<, Nat)
<1>1. IsWellFoundedOn(R, Nat)
  BY NatLessThanWellFounded
<1> HIDE DEF R
<1>2. PICK x \in T : \A y \in T : ~(<<y, x>> \in R)
  BY <1>1, WFMin
<1>3. \A y \in T : ~(y < x)
  BY <1>2 DEF R, OpToRel
<1> QED BY <1>3

(* First takes the row with the least position (#queueHead).               *)
LEMMA FirstLeast ==
    ASSUME NEW S, S # {}, \A x \in S : x.pos \in Nat
    PROVE  First(S) \in S /\ \A y \in S : First(S).pos <= y.pos
<1> DEFINE T == {x.pos : x \in S}
<1>1. PICK n \in T : \A y \in T : n <= y
  <2>1. T \subseteq Nat /\ T # {}
    OBVIOUS
  <2> HIDE DEF T
  <2> QED BY <2>1, LeastNatural
<1>2. \E x \in S : \A y \in S : x.pos <= y.pos
  BY <1>1
<1> QED BY <1>2 DEF First

(* NoDraft is not a draft. *)
LEMMA NoDraftIsNone == \A d \in Drafts : d # NoDraft
<1> SUFFICES ASSUME NEW d \in Drafts, d = NoDraft PROVE FALSE
  OBVIOUS
<1>1. DOMAIN d = {"id", "acct", "body"}
  BY DEF Drafts
<1>2. DOMAIN d = {"id"}
  BY DEF NoDraft
<1> QED BY <1>1, <1>2

(* What the draft with an identifier is.                                   *)
LEMMA Found ==
    ASSUME NEW id
    PROVE  /\ FindDraft(id) # NoDraft \/ DraftsWith(id) # {} =>
                 FindDraft(id) \in DraftsWith(id)
           /\ drafts \subseteq Drafts => FindDraft(id) \in Drafts \cup {NoDraft}
<1>1. CASE DraftsWith(id) = {}
  BY <1>1 DEF FindDraft
<1>2. CASE DraftsWith(id) # {}
  <2>1. FindDraft(id) \in DraftsWith(id)
    BY <1>2 DEF FindDraft
  <2> QED BY <2>1 DEF DraftsWith
<1> QED BY <1>1, <1>2

(* Recording an attempt or a failure keeps every row's identity.           *)
TriedRow(a, row, q) ==
    IF q.pos = row.pos /\ flight[a].auto THEN [q EXCEPT !.tries = @ + 1] ELSE q
FailedRow(row, q) == IF q.pos = row.pos THEN [q EXCEPT !.attempts = @ + 1] ELSE q

LEMMA ItemOutcome ==
    ASSUME NEW a, NEW row, NEW q \in Items
    PROVE  /\ TriedRow(a, row, q) \in Items /\ FailedRow(row, q) \in Items
           /\ SameItem(TriedRow(a, row, q), q) /\ SameItem(FailedRow(row, q), q)
           /\ TriedRow(a, row, q).attempts = q.attempts
           /\ FailedRow(row, q).tries = q.tries
           /\ q.pos # row.pos => FailedRow(row, q) = q
           /\ q.pos # row.pos \/ flight[a].auto = FALSE => TriedRow(a, row, q) = q
           /\ q.pos = row.pos => FailedRow(row, q).attempts = q.attempts + 1
           /\ FailedRow(row, q).attempts \in {q.attempts, q.attempts + 1}
           /\ TriedRow(a, row, q).tries <= q.tries + 1
BY DEF Items, TriedRow, FailedRow, SameItem

LEMMA OpOutcome ==
    ASSUME NEW a, NEW row, NEW q \in Ops
    PROVE  /\ TriedRow(a, row, q) \in Ops /\ FailedRow(row, q) \in Ops
           /\ TriedRow(a, row, q).pos = q.pos /\ FailedRow(row, q).pos = q.pos
           /\ TriedRow(a, row, q).acct = q.acct /\ FailedRow(row, q).acct = q.acct
           /\ TriedRow(a, row, q).n = q.n /\ FailedRow(row, q).n = q.n
           /\ TriedRow(a, row, q).attempts = q.attempts
           /\ FailedRow(row, q).tries = q.tries
           /\ q.pos # row.pos => FailedRow(row, q) = q
           /\ q.pos # row.pos \/ flight[a].auto = FALSE => TriedRow(a, row, q) = q
           /\ q.pos = row.pos => FailedRow(row, q).attempts = q.attempts + 1
           /\ FailedRow(row, q).attempts \in {q.attempts, q.attempts + 1}
           /\ TriedRow(a, row, q).tries <= q.tries + 1
BY DEF Ops, TriedRow, FailedRow

-----------------------------------------------------------------------------
(***************************************************************************)
(* Types.                                                                  *)
(***************************************************************************)
FlightTypes == [pc : PCs, auto : BOOLEAN, ops : SUBSET Ops, items : SUBSET Items,
                gen : Nat, res : Outcomes, mark : Nat]
SendTypes == [sid : Nat, acct : Accounts, id : Nat, body : Content,
              snap : Drafts \cup {NoDraft}, res : Outcomes]

LEMMA InitInv == Init => IInv
<1> SUFFICES ASSUME Init PROVE IInv
  OBVIOUS
<1> USE QueueAssumption
<1>1. TypeOK
  BY DEF Init, TypeOK, Idle, PCs, Outcomes
<1>2. Keys
  BY DEF Init, Keys, SendKeys, DraftKeys, RowKeys, CopyKeys, OpKeys, Idle
<1>3. Order /\ Fresh
  BY DEF Init, Order, InOrder, Fresh, FreshCopies, Idle, OpsOf, ItemsOf, Ahead
<1>4. Tries
  BY DEF Init, Tries, CeilingHolds
<1>5. Duplicates
  BY DEF Init, Duplicates, DuplicatesNeedDoubt, Idle
<1>6. Contents
  BY DEF Init, Contents, ContentKept, Idle
<1> QED BY <1>1, <1>2, <1>3, <1>4, <1>5, <1>6 DEF IInv

(* The head of a queue that a flight works on is one of its copies.        *)
LEMMA HeadOp ==
    ASSUME TypeOK, NEW a \in Accounts, flight[a].ops # {}
    PROVE  /\ First(flight[a].ops) \in flight[a].ops /\ First(flight[a].ops) \in Ops
           /\ \A i \in flight[a].ops : First(flight[a].ops).pos <= i.pos
<1>1. flight[a].ops \subseteq Ops
  BY DEF TypeOK
<1>2. \A x \in flight[a].ops : x.pos \in Nat
  BY <1>1 DEF Ops
<1> QED BY <1>1, <1>2, FirstLeast

LEMMA HeadItem ==
    ASSUME TypeOK, NEW a \in Accounts, flight[a].items # {}
    PROVE  /\ First(flight[a].items) \in flight[a].items
           /\ First(flight[a].items) \in Items
           /\ \A i \in flight[a].items : First(flight[a].items).pos <= i.pos
<1>1. flight[a].items \subseteq Items
  BY DEF TypeOK
<1>2. \A x \in flight[a].items : x.pos \in Nat
  BY <1>1 DEF Items
<1> QED BY <1>1, <1>2, FirstLeast

(* A step on a flight that is not blocked has a row to work on.            *)
LEMMA NotBlocked ==
    ASSUME NEW a
    PROVE  /\ ~OpsBlocked(flight[a]) =>
                 /\ flight[a].ops # {}
                 /\ flight[a].auto => /\ ~(First(flight[a].ops).attempts >= Limit)
                                      /\ ~Conflict(First(flight[a].ops), flight[a].gen)
           /\ ~ItemsBlocked(flight[a]) =>
                 /\ flight[a].items # {}
                 /\ flight[a].auto => ~(First(flight[a].items).attempts >= Limit)
<1>1. ASSUME ~OpsBlocked(flight[a])
      PROVE  \E op \in flight[a].ops :
                op = First(flight[a].ops) /\ ~(flight[a].auto /\
                    (Conflict(op, flight[a].gen) \/ op.attempts >= Limit))
  BY <1>1, Zenon DEF OpsBlocked
<1>2. ASSUME ~ItemsBlocked(flight[a])
      PROVE  \E item \in flight[a].items :
                item = First(flight[a].items) /\ ~(flight[a].auto /\ item.attempts >= Limit)
  BY <1>2, Zenon DEF ItemsBlocked
<1> QED BY <1>1, <1>2, Zenon

(* What a failed or tried row is, it is one of the same type.              *)
LEMMA RowTypes ==
    /\ \A S \in SUBSET Items : \A a, row :
          Tried(S, a, row) \subseteq Items /\ Failed(S, row) \subseteq Items
    /\ \A S \in SUBSET Ops : \A a, row :
          Tried(S, a, row) \subseteq Ops /\ Failed(S, row) \subseteq Ops
<1>1. ASSUME NEW S \in SUBSET Items, NEW a, NEW row
      PROVE  Tried(S, a, row) \subseteq Items /\ Failed(S, row) \subseteq Items
  <2>1. /\ Tried(S, a, row) = {TriedRow(a, row, q) : q \in S}
        /\ Failed(S, row) = {FailedRow(row, q) : q \in S}
    BY DEF Tried, Failed, TriedRow, FailedRow
  <2>2. \A q \in S : TriedRow(a, row, q) \in Items /\ FailedRow(row, q) \in Items
    BY ItemOutcome
  <2> QED BY <2>1, <2>2
<1>2. ASSUME NEW S \in SUBSET Ops, NEW a, NEW row
      PROVE  Tried(S, a, row) \subseteq Ops /\ Failed(S, row) \subseteq Ops
  <2>1. /\ Tried(S, a, row) = {TriedRow(a, row, q) : q \in S}
        /\ Failed(S, row) = {FailedRow(row, q) : q \in S}
    BY DEF Tried, Failed, TriedRow, FailedRow
  <2>2. \A q \in S : TriedRow(a, row, q) \in Ops /\ FailedRow(row, q) \in Ops
    BY OpOutcome
  <2> QED BY <2>1, <2>2
<1> QED BY <1>1, <1>2

LEMMA Counters ==
    ASSUME TypeOK
    PROVE  /\ nextSid \in Nat /\ nextId \in Nat /\ nextPos \in Nat /\ crashes \in Nat
           /\ flight \in [Accounts -> FlightTypes]
           /\ \A b \in Accounts : flight[b] \in FlightTypes
BY DEF TypeOK, FlightTypes

(* What a flight is replaced by in a step.                                 *)
LEMMA FlightUpdate ==
    ASSUME TypeOK, NEW a, NEW f \in FlightTypes
    PROVE  [flight EXCEPT ![a] = f] \in [Accounts -> FlightTypes]
<1>1. flight \in [Accounts -> FlightTypes]
  BY Counters
<1> QED BY <1>1

LEMMA SubmitTypes ==
    ASSUME TypeOK, NEW sid \in Nat, NEW body \in Content, NEW res, Submit(sid, body, res)
    PROVE  /\ delivered' \in [1..MaxSends -> Nat] /\ doubts' \in [1..MaxSends -> Nat]
           /\ sent' \subseteq Content /\ res \in Outcomes
BY DEF Submit, TypeOK, Outcomes

LEMMA EndTypes ==
    ASSUME TypeOK, NEW a \in Accounts, EndFlight(a)
    PROVE  flight' \in [Accounts -> FlightTypes] /\ syncing' \subseteq Accounts
BY DEF EndFlight, TypeOK, Idle, FlightTypes, PCs, Outcomes

LEMMA UserTypes ==
    ASSUME TypeOK, NEW a \in Accounts, UserStep(a)
    PROVE  TypeOK'
<1>1. ASSUME NEW id \in 0..(MaxIds + MaxSends), NEW txt \in 1..MaxTexts, NEW i \in Idents,
             SaveDraft(a, id, txt, i)
      PROVE  TypeOK'
  <2>1. [txt |-> txt, ident |-> i] \in Content /\ id \in Nat
    BY QueueAssumption DEF Content
  <2>2. drafts' \subseteq Drafts /\ ever' \subseteq Content /\ excused' \subseteq Content
    <3> DEFINE b == [txt |-> txt, ident |-> i]
    <3> DEFINE new == IF id = NoId THEN nextId ELSE id
    <3> DEFINE saved == [id |-> new, acct |-> a, body |-> b]
    <3>1. /\ drafts' = PutDraft(saved) /\ ever' = ever \cup {b}
          /\ excused' = excused \cup {d.body : d \in DraftsWith(new)}
      BY <1>1 DEF SaveDraft
    <3>2. saved \in Drafts
      BY <2>1 DEF TypeOK, Drafts
    <3>3. \A d \in DraftsWith(new) : d.body \in Content
      BY DEF DraftsWith, TypeOK, Drafts
    <3> HIDE DEF saved, new, b
    <3>4. ever' \subseteq Content
      BY <2>1, <3>1 DEF TypeOK, b
    <3> QED BY <3>1, <3>2, <3>3, <3>4 DEF PutDraft, TypeOK
  <2>3. nextTxt' \in Nat /\ nextId' \in Nat
    BY <1>1 DEF SaveDraft, TypeOK
  <2>4. UNCHANGED <<accounts, outbox, pending, cachedGen, sends, edits, flight, syncing,
                    listed, server, doubts, sent, nextSid, nextOp, nextPos, crashes>>
    BY <1>1 DEF SaveDraft
  <2> QED BY <2>2, <2>3, <2>4 DEF TypeOK, server
<1>2. ASSUME NEW id \in 0..(MaxIds + MaxSends), NEW txt \in 1..MaxTexts, NEW i \in Idents,
             NEW res \in Outcomes, SendStart(a, id, txt, i, res)
      PROVE  TypeOK'
  <2> DEFINE b == [txt |-> txt, ident |-> i]
  <2>1. b \in Content /\ id \in Nat
    BY QueueAssumption DEF Content
  <2>2. Submit(nextSid, b, res) /\ nextSid \in Nat
    BY <1>2 DEF SendStart, TypeOK
  <2>3. delivered' \in [1..MaxSends -> Nat] /\ doubts' \in [1..MaxSends -> Nat]
        /\ sent' \subseteq Content
    <3> HIDE DEF b
    <3> QED BY <2>1, <2>2, SubmitTypes
  <2>4. FindDraft(id) \in Drafts \cup {NoDraft}
    BY Found DEF TypeOK
  <2>5. sends' \subseteq SendTypes
    <3>1. sends' = sends \cup {[sid |-> nextSid, acct |-> a, id |-> id, body |-> b,
                                snap |-> FindDraft(id), res |-> res]}
      BY <1>2 DEF SendStart
    <3> HIDE DEF b
    <3>2. [sid |-> nextSid, acct |-> a, id |-> id, body |-> b, snap |-> FindDraft(id),
           res |-> res] \in SendTypes
      BY <2>1, <2>2, <2>4 DEF TypeOK, SendTypes
    <3>3. sends \subseteq SendTypes
      BY DEF TypeOK, SendTypes
    <3> QED BY <3>1, <3>2, <3>3
  <2>6. /\ nextSid' \in Nat /\ nextTxt' \in Nat
        /\ UNCHANGED <<accounts, drafts, outbox, pending, cachedGen, edits, flight, syncing,
                       listed, serverGen, seen, moved, ever, excused, nextId, nextOp, nextPos,
                       crashes>>
    <3>1. /\ nextSid' = nextSid + 1 /\ nextTxt' \in {nextTxt, nextTxt + 1}
          /\ UNCHANGED <<edits, flight, syncing, listed, serverGen, seen, moved, ever,
                         excused, nextId, nextOp, nextPos, crashes>>
          /\ UNCHANGED persisted
      BY <1>2 DEF SendStart
    <3> QED BY <3>1 DEF TypeOK, persisted
  <2> QED BY <2>3, <2>5, <2>6 DEF TypeOK, SendTypes
<1>3. ASSUME NEW id, DeleteDraft(a, id) PROVE TypeOK'
  <2>1. excused' \subseteq Content
    BY <1>3 DEF DeleteDraft, DraftsWith, TypeOK, Drafts
  <2> QED BY <1>3, <2>1 DEF DeleteDraft, DraftsWith, TypeOK, server, counters
<1>4. ASSUME NEW k \in Kinds, NEW res \in Outcomes, EditStart(a, k, res) PROVE TypeOK'
  <2>1. seen' \in [Accounts -> Nat] /\ moved' \subseteq Nat
    BY <1>4 DEF EditStart, Apply, SetFlags, MoveMessage, TypeOK
  <2>2. edits' \subseteq [n : Nat, acct : Accounts, kind : Kinds, gen : Nat, res : Outcomes]
    BY <1>4 DEF EditStart, TypeOK
  <2>3. nextOp' \in Nat
    BY <1>4 DEF EditStart, TypeOK
  <2>4. UNCHANGED <<persisted, sends, flight, syncing, listed, serverGen, delivered,
                    history, nextSid, nextTxt, nextId, nextPos, crashes>>
    BY <1>4 DEF EditStart
  <2> QED BY <2>1, <2>2, <2>3, <2>4 DEF TypeOK, persisted, history
<1>5. ASSUME SyncStart(a) PROVE TypeOK'
  <2>1. flight' \in [Accounts -> FlightTypes]
    BY <1>5 DEF SyncStart, TypeOK, Idle, FlightTypes, PCs, Outcomes, OpsOf
  <2> QED BY <1>5, <2>1 DEF SyncStart, TypeOK, FlightTypes, frame, history
<1>6. ASSUME NEW p \in pending, RetryPending(a, p) PROVE TypeOK'
  <2>1. flight' \in [Accounts -> FlightTypes]
    BY <1>6 DEF RetryPending, TypeOK, Idle, FlightTypes, PCs, Outcomes
  <2> QED BY <1>6, <2>1 DEF RetryPending, TypeOK, FlightTypes, frame, history
<1>7. ASSUME NEW o \in outbox, RetryOutbox(a, o) PROVE TypeOK'
  <2>1. flight' \in [Accounts -> FlightTypes]
    BY <1>7 DEF RetryOutbox, TypeOK, Idle, FlightTypes, PCs, Outcomes
  <2> QED BY <1>7, <2>1 DEF RetryOutbox, TypeOK, FlightTypes, frame, history
<1>8. ASSUME NEW p \in pending, DiscardPending(a, p) PROVE TypeOK'
  BY <1>8 DEF DiscardPending, TypeOK, frame, history
<1>9. ASSUME NEW o \in outbox, CancelOutbox(a, o) PROVE TypeOK'
  <2>1. drafts' \subseteq Drafts /\ excused' \subseteq Content
    <3>1. [id |-> o.id, acct |-> a, body |-> o.body] \in Drafts
      BY DEF TypeOK, Drafts, Items
    <3>2. drafts' = PutDraft([id |-> o.id, acct |-> a, body |-> o.body])
          /\ excused' = excused \cup {d.body : d \in DraftsWith(o.id)}
      BY <1>9 DEF CancelOutbox
    <3>3. \A d \in drafts : d.body \in Content
      BY DEF TypeOK, Drafts
    <3> QED BY <3>1, <3>2, <3>3 DEF PutDraft, DraftsWith, TypeOK
  <2> QED BY <1>9, <2>1 DEF CancelOutbox, TypeOK, frame
<1>10. ASSUME RemoveAccount(a) PROVE TypeOK'
  <2>1. excused' \subseteq Content
    BY <1>10 DEF RemoveAccount, TypeOK, Drafts, Items
  <2> QED BY <1>10, <2>1 DEF RemoveAccount, TypeOK, server, counters
<1> QED BY <1>1, <1>2, <1>3, <1>4, <1>5, <1>6, <1>7, <1>8, <1>9, <1>10 DEF UserStep

LEMMA FlightStepTypes ==
    ASSUME TypeOK, NEW a \in Accounts, FlightStep(a), Order
    PROVE  TypeOK'
<1>1. ASSUME NEW res \in Outcomes, PerformOp(a, res) PROVE TypeOK'
  <2>1. First(flight[a].ops) \in Ops
    BY <1>1, NotBlocked, HeadOp DEF PerformOp
  <2>2. seen' \in [Accounts -> Nat] /\ moved' \subseteq Nat
    BY <1>1, <2>1 DEF PerformOp, Apply, SetFlags, MoveMessage, TypeOK, Ops
  <2>3. pending' \subseteq Ops
    BY <1>1, RowTypes DEF PerformOp, TypeOK
  <2>4. flight' \in [Accounts -> FlightTypes]
    <3>1. [flight[a] EXCEPT !.pc = "opDone", !.res = res] \in FlightTypes
      BY Counters DEF FlightTypes, PCs
    <3>2. flight' = [flight EXCEPT ![a] = [flight[a] EXCEPT !.pc = "opDone", !.res = res]]
      BY <1>1 DEF PerformOp
    <3> QED BY <3>1, <3>2, FlightUpdate
  <2> QED BY <1>1, <2>2, <2>3, <2>4 DEF PerformOp, TypeOK, FlightTypes, frame, history
<1>2. ASSUME NEW res \in Outcomes, DeliverItem(a, res) PROVE TypeOK'
  <2>1. PICK i \in Items : i = First(flight[a].items)
    BY <1>2, NotBlocked, HeadItem DEF DeliverItem
  <2>2. Submit(i.sid, i.body, res) /\ i.sid \in Nat /\ i.body \in Content
    BY <1>2, <2>1 DEF DeliverItem, Items
  <2>3. delivered' \in [1..MaxSends -> Nat] /\ doubts' \in [1..MaxSends -> Nat]
        /\ sent' \subseteq Content
    BY <2>2, SubmitTypes
  <2>4. outbox' \subseteq Items
    BY <1>2, RowTypes DEF DeliverItem, TypeOK
  <2>5. flight' \in [Accounts -> FlightTypes]
    <3>1. [flight[a] EXCEPT !.pc = "itemDone", !.res = res] \in FlightTypes
      BY Counters DEF FlightTypes, PCs
    <3>2. flight' = [flight EXCEPT ![a] = [flight[a] EXCEPT !.pc = "itemDone", !.res = res]]
      BY <1>2 DEF DeliverItem
    <3> QED BY <3>1, <3>2, FlightUpdate
  <2> QED BY <1>2, <2>3, <2>4, <2>5 DEF DeliverItem, TypeOK, FlightTypes, frame
<1>3. ASSUME OpDone(a) PROVE TypeOK'
  <2>1. pending' \subseteq Ops
    BY <1>3, RowTypes DEF OpDone, TypeOK
  <2>2. flight' \in [Accounts -> FlightTypes] /\ syncing' \subseteq Accounts
    <3>1. CASE flight[a].auto
      <4> DEFINE New(pc) == [flight[a] EXCEPT !.pc = pc,
                                          !.ops = @ \ {First(flight[a].ops)}]
      <4>1. New("ops") \in FlightTypes /\ New("check") \in FlightTypes
        BY Counters DEF FlightTypes, PCs
      <4>2. PICK pc \in {"ops", "check"} : flight' = [flight EXCEPT ![a] = New(pc)]
        BY <1>3, <3>1 DEF OpDone
      <4>3. syncing' = syncing /\ syncing \subseteq Accounts
        BY <1>3, <3>1 DEF OpDone, TypeOK
      <4> HIDE DEF New
      <4>4. New(pc) \in FlightTypes
        BY <4>1
      <4> QED BY <4>2, <4>3, <4>4, FlightUpdate
    <3>2. CASE ~flight[a].auto
      BY <1>3, <3>2, EndTypes DEF OpDone
    <3> QED BY <3>1, <3>2
  <2> QED BY <1>3, <2>1, <2>2 DEF OpDone, TypeOK, FlightTypes, frame, history
<1>4. ASSUME ReplayCheck(a) PROVE TypeOK'
  <2>1. flight' \in [Accounts -> FlightTypes] /\ syncing' \subseteq Accounts
    <3>1. CASE OpsOf(a) = {}
      <4>1. [Idle EXCEPT !.pc = "items", !.auto = TRUE, !.items = ItemsOf(a),
                         !.mark = nextPos] \in FlightTypes
        BY DEF TypeOK, FlightTypes, PCs, Idle, Outcomes, ItemsOf
      <4>2. /\ flight' = [flight EXCEPT ![a] = [Idle EXCEPT !.pc = "items", !.auto = TRUE,
                               !.items = ItemsOf(a), !.mark = nextPos]]
            /\ syncing' = syncing
        BY <1>4, <3>1 DEF ReplayCheck
      <4> QED BY <4>1, <4>2, FlightUpdate DEF TypeOK
    <3>2. CASE OpsOf(a) # {}
      BY <1>4, <3>2, EndTypes DEF ReplayCheck
    <3> QED BY <3>1, <3>2
  <2> QED BY <1>4, <2>1 DEF ReplayCheck, TypeOK, FlightTypes, frame, history
<1>5. ASSUME ItemDone(a) PROVE TypeOK'
  <2>1. First(flight[a].items) \in Items
    BY <1>5, HeadItem DEF ItemDone, Order, InOrder
  <2>2. outbox' \subseteq Items
    BY <1>5, RowTypes DEF ItemDone, TypeOK
  <2>3. drafts' \subseteq Drafts /\ nextId' \in Nat
    <3> DEFINE Kept(id) == [id |-> id, acct |-> a, body |-> First(flight[a].items).body]
    <3>1. \A id \in Nat : Kept(id) \in Drafts
      BY <2>1 DEF Drafts, Items
    <3>2. First(flight[a].items).id \in Nat /\ nextId \in Nat
      BY <2>1 DEF Items, TypeOK
    <3>3. \/ UNCHANGED <<drafts, nextId>>
          \/ /\ \E id \in {First(flight[a].items).id, nextId} : drafts' = PutDraft(Kept(id))
             /\ nextId' \in {nextId, nextId + 1}
      BY <1>5 DEF ItemDone
    <3> HIDE DEF Kept
    <3> QED BY <3>1, <3>2, <3>3 DEF PutDraft, TypeOK
  <2>4. flight' \in [Accounts -> FlightTypes] /\ syncing' \subseteq Accounts
    <3>1. CASE EndFlight(a)
      BY <3>1, EndTypes
    <3>2. CASE ~EndFlight(a)
      <4>1. [flight[a] EXCEPT !.pc = "items", !.items = @ \ {First(flight[a].items)}]
                \in FlightTypes
        BY Counters DEF FlightTypes, PCs
      <4>2. /\ flight' = [flight EXCEPT ![a] = [flight[a] EXCEPT !.pc = "items",
                               !.items = @ \ {First(flight[a].items)}]]
            /\ syncing' = syncing
        BY <1>5, <3>2 DEF ItemDone
      <4> QED BY <4>1, <4>2, FlightUpdate DEF TypeOK
    <3> QED BY <3>1, <3>2
  <2> QED BY <1>5, <2>2, <2>3, <2>4 DEF ItemDone, TypeOK, FlightTypes, frame, history
<1>6. ASSUME ReplayEnd(a) PROVE TypeOK'
  BY <1>6, EndTypes DEF ReplayEnd, TypeOK, FlightTypes, frame, history
<1> QED BY <1>1, <1>2, <1>3, <1>4, <1>5, <1>6 DEF FlightStep, ItemDone

LEMMA SendFinishTypes ==
    ASSUME TypeOK, NEW s \in sends, SendFinish(s)
    PROVE  TypeOK'
<1> DEFINE Kept(id) == [id |-> id, acct |-> s.acct, body |-> s.body]
<1>1. s \in SendTypes
  BY DEF TypeOK, SendTypes
<1>2. \A id \in Nat : Kept(id) \in Drafts
  BY <1>1 DEF Drafts, SendTypes
<1>3. s.id \in Nat /\ nextId \in Nat /\ nextPos \in Nat /\ s.body \in Content
      /\ s.sid \in Nat /\ s.acct \in Accounts
  BY <1>1 DEF SendTypes, TypeOK
<1>4. s.snap # NoDraft => s.snap.body \in Content
  BY <1>1 DEF SendTypes, Drafts
<1>5. /\ drafts' \subseteq drafts \/ \E id \in {s.id, nextId} : drafts' = PutDraft(Kept(id))
      /\ nextId' \in {nextId, nextId + 1} /\ nextPos' \in {nextPos, nextPos + 1}
      /\ ever' \subseteq ever \cup {s.body}
  BY <1>1 DEF SendFinish
<1>6. drafts' \subseteq Drafts
  <2> HIDE DEF Kept
  <2> QED BY <1>2, <1>3, <1>5 DEF PutDraft, TypeOK
<1>7. excused' \subseteq Content
  BY <1>4 DEF SendFinish, TypeOK
<1>8. outbox' \subseteq Items
  <2>1. [sid |-> s.sid, acct |-> s.acct, id |-> s.id, body |-> s.body, attempts |-> 0,
         tries |-> 0, pos |-> nextPos] \in Items
    BY <1>3 DEF Items
  <2>2. \/ outbox' = outbox
        \/ outbox' = outbox \cup {[sid |-> s.sid, acct |-> s.acct, id |-> s.id,
               body |-> s.body, attempts |-> 0, tries |-> 0, pos |-> nextPos]}
    BY DEF SendFinish
  <2> QED BY <2>1, <2>2 DEF TypeOK
<1>9. /\ sends' \subseteq sends
      /\ UNCHANGED <<accounts, pending, cachedGen, edits, flight, syncing, listed>>
      /\ UNCHANGED <<serverGen, seen, moved, delivered, doubts, sent, nextSid, nextTxt,
                     nextOp, crashes>>
  BY DEF SendFinish, server
<1>10. sends' \subseteq SendTypes
  <2>1. sends \subseteq SendTypes
    BY DEF TypeOK, SendTypes
  <2> QED BY <1>9, <2>1
<1>11. nextId' \in Nat /\ nextPos' \in Nat /\ ever' \subseteq Content
  BY <1>3, <1>5 DEF TypeOK
<1> QED BY <1>6, <1>7, <1>8, <1>9, <1>10, <1>11 DEF TypeOK, SendTypes

LEMMA TypeStep ==
    ASSUME TypeOK, Order, [Next]_vars
    PROVE  TypeOK'
<1>1. ASSUME NEW a \in Accounts, SyncList(a) PROVE TypeOK'
  <2>1. syncing' \subseteq Accounts /\ listed' \subseteq [acct : Accounts, gen : Nat]
    BY <1>1 DEF SyncList, TypeOK
  <2>2. UNCHANGED <<persisted, sends, edits, flight, server, history, counters>>
    BY <1>1 DEF SyncList
  <2> QED BY <2>1, <2>2 DEF TypeOK, persisted, server, history, counters
<1>2. ASSUME NEW a \in Accounts, ServerReset(a) PROVE TypeOK'
  <2>1. serverGen' \in [Accounts -> Nat]
    BY <1>2 DEF ServerReset, TypeOK
  <2>2. UNCHANGED <<persisted, sends, edits, flight, syncing, listed, seen, moved, delivered,
                    history, counters>>
    BY <1>2 DEF ServerReset
  <2> QED BY <2>1, <2>2 DEF TypeOK, persisted, history, counters
<1>3. ASSUME NEW e \in edits, EditFinish(e) PROVE TypeOK'
  <2>1. pending' \subseteq Ops /\ nextPos' \in Nat
    <3>1. [n |-> e.n, acct |-> e.acct, kind |-> e.kind, gen |-> e.gen, attempts |-> 0,
           tries |-> 0, pos |-> nextPos] \in Ops
      BY DEF TypeOK, Ops
    <3>2. \/ UNCHANGED <<pending, nextPos>>
          \/ /\ pending' = pending \cup {[n |-> e.n, acct |-> e.acct, kind |-> e.kind,
                   gen |-> e.gen, attempts |-> 0, tries |-> 0, pos |-> nextPos]}
             /\ nextPos' = nextPos + 1
      BY <1>3 DEF EditFinish
    <3> QED BY <3>1, <3>2 DEF TypeOK
  <2> QED BY <1>3, <2>1 DEF EditFinish, TypeOK, server, history
<1>4. ASSUME NEW l \in listed, SyncStore(l) PROVE TypeOK'
  BY <1>4 DEF SyncStore, TypeOK, server, history, counters
<1>5. ASSUME Crash PROVE TypeOK'
  <2>1. flight' \in [Accounts -> FlightTypes] /\ doubts' \in [1..MaxSends -> Nat]
    BY <1>5 DEF Crash, TypeOK, Idle, FlightTypes, PCs, Outcomes
  <2> QED BY <1>5, <2>1 DEF Crash, TypeOK, FlightTypes, persisted, server
<1>6. CASE UNCHANGED vars
  BY <1>6 DEF vars, TypeOK, persisted, server, history, counters
<1> QED BY <1>1, <1>2, <1>3, <1>4, <1>5, <1>6, UserTypes, FlightStepTypes, SendFinishTypes
        DEF Next

-----------------------------------------------------------------------------
(***************************************************************************)
(* What a step can do to each part of the state.                           *)
(***************************************************************************)
Growing ==
    /\ nextSid' >= nextSid /\ nextId' >= nextId /\ nextPos' >= nextPos
    /\ accounts' \subseteq accounts /\ crashes' >= crashes

SendsMove ==
    \/ sends' \subseteq sends
    \/ \E new : /\ sends' = sends \cup {new}
                /\ new.sid = nextSid /\ nextSid <= MaxSends /\ nextSid < nextSid'
                /\ new.id < nextId
                /\ new.snap # NoDraft => new.snap.id = new.id /\ new.id # NoId

QueuedRow(s) == [sid |-> s.sid, acct |-> s.acct, id |-> s.id, body |-> s.body,
                 attempts |-> 0, tries |-> 0, pos |-> nextPos]
OutboxMove ==
    \/ outbox' \subseteq {o \in outbox : o.acct \in accounts => o.acct \in accounts'}
    \/ /\ accounts' = accounts
       /\ \/ \E a \in Accounts : /\ \E res \in Outcomes : DeliverItem(a, res)
                                 /\ outbox' = {TriedRow(a, First(flight[a].items), q) :
                                                  q \in outbox}
          \/ \E a \in Accounts : /\ ItemDone(a)
                                 /\ outbox' = {FailedRow(First(flight[a].items), q) :
                                                  q \in outbox}
          \/ \E s \in sends : /\ outbox' = outbox \cup {QueuedRow(s)}
                              /\ sends' = sends \ {s} /\ s.acct \in accounts /\ s.res = "error"
                              /\ nextPos < nextPos'

QueuedOp(e) == [n |-> e.n, acct |-> e.acct, kind |-> e.kind, gen |-> e.gen,
                attempts |-> 0, tries |-> 0, pos |-> nextPos]
PendingMove ==
    \/ pending' \subseteq {p \in pending : p.acct \in accounts => p.acct \in accounts'}
    \/ /\ accounts' = accounts
       /\ \/ \E a \in Accounts : /\ \E res \in Outcomes : PerformOp(a, res)
                                 /\ pending' = {TriedRow(a, First(flight[a].ops), q) :
                                                   q \in pending}
          \/ \E a \in Accounts : /\ OpDone(a)
                                 /\ pending' = {FailedRow(First(flight[a].ops), q) :
                                                   q \in pending}
          \/ \E e \in edits : /\ pending' = pending \cup {QueuedOp(e)}
                              /\ e.acct \in accounts /\ nextPos < nextPos'

CopiesMove ==
    \A b \in Accounts :
        /\ \/ flight'[b].items \subseteq flight[b].items
           \/ flight'[b].items \subseteq ItemsOf(b) /\ outbox' = outbox
        /\ \/ flight'[b].ops \subseteq flight[b].ops
           \/ flight'[b].ops \subseteq OpsOf(b) /\ pending' = pending

Shape == Growing /\ SendsMove /\ OutboxMove /\ PendingMove /\ CopiesMove

(* Steps that leave the calls, the queues and the flights alone.           *)
LEMMA QuietShape ==
    ASSUME UNCHANGED <<accounts, outbox, pending, sends, flight>>, Growing
    PROVE  Shape
BY DEF Shape, SendsMove, OutboxMove, PendingMove, CopiesMove

(* A flight that changes keeps fewer copies, or ends.                      *)
LEMMA FewerCopies ==
    ASSUME NEW a \in Accounts, NEW f, f.items \subseteq flight[a].items,
           f.ops \subseteq flight[a].ops, flight \in [Accounts -> FlightTypes],
           flight' = [flight EXCEPT ![a] = f]
    PROVE  CopiesMove
BY DEF CopiesMove

LEMMA EndCopies ==
    ASSUME NEW a \in Accounts, EndFlight(a), flight \in [Accounts -> FlightTypes]
    PROVE  CopiesMove
BY DEF EndFlight, CopiesMove, Idle

LEMMA UserShape ==
    ASSUME TypeOK, NEW a \in Accounts, UserStep(a)
    PROVE  Shape
<1> USE Counters
<1>1. ASSUME NEW id, NEW txt, NEW i, SaveDraft(a, id, txt, i) PROVE Shape
  <2>1. Growing
    BY <1>1 DEF SaveDraft, Growing
  <2> QED BY <1>1, <2>1, QuietShape DEF SaveDraft
<1>2. ASSUME NEW id \in 0..(MaxIds + MaxSends), NEW txt, NEW i, NEW res,
             SendStart(a, id, txt, i, res)
      PROVE  Shape
  <2>1. Growing
    BY <1>2 DEF SendStart, Growing, persisted
  <2>2. SendsMove
    <3> DEFINE new == [sid |-> nextSid, acct |-> a, id |-> id,
                       body |-> [txt |-> txt, ident |-> i], snap |-> FindDraft(id), res |-> res]
    <3>1. sends' = sends \cup {new} /\ nextSid <= MaxSends /\ nextSid < nextSid' /\ id < nextId
      BY <1>2 DEF SendStart
    <3>2. new.snap # NoDraft => new.snap.id = new.id /\ new.id # NoId
      BY Found DEF DraftsWith
    <3>3. new.sid = nextSid /\ new.id = id
      OBVIOUS
    <3> HIDE DEF new
    <3> QED BY <3>1, <3>2, <3>3 DEF SendsMove
  <2>3. OutboxMove /\ PendingMove /\ CopiesMove
    BY <1>2 DEF SendStart, OutboxMove, PendingMove, CopiesMove, persisted
  <2> QED BY <2>1, <2>2, <2>3 DEF Shape
<1>3. ASSUME NEW id, DeleteDraft(a, id) PROVE Shape
  <2>1. Growing
    BY <1>3 DEF DeleteDraft, Growing, counters
  <2> QED BY <1>3, <2>1, QuietShape DEF DeleteDraft, counters
<1>4. ASSUME NEW k, NEW res, EditStart(a, k, res) PROVE Shape
  <2>1. Growing
    BY <1>4 DEF EditStart, Growing, persisted
  <2> QED BY <1>4, <2>1, QuietShape DEF EditStart, persisted
<1>5. ASSUME SyncStart(a) PROVE Shape
  <2>1. Growing /\ SendsMove /\ OutboxMove /\ PendingMove
    BY <1>5 DEF SyncStart, Growing, SendsMove, OutboxMove, PendingMove, frame
  <2>2. CopiesMove
    BY <1>5 DEF SyncStart, CopiesMove, Idle
  <2> QED BY <2>1, <2>2 DEF Shape
<1>6. ASSUME NEW p \in pending, RetryPending(a, p) PROVE Shape
  <2>1. Growing /\ SendsMove /\ OutboxMove /\ PendingMove
    BY <1>6 DEF RetryPending, Growing, SendsMove, OutboxMove, PendingMove, frame
  <2>2. CopiesMove
    BY <1>6 DEF RetryPending, CopiesMove, Idle, OpHead
  <2> QED BY <2>1, <2>2 DEF Shape
<1>7. ASSUME NEW o \in outbox, RetryOutbox(a, o) PROVE Shape
  <2>1. Growing /\ SendsMove /\ OutboxMove /\ PendingMove
    BY <1>7 DEF RetryOutbox, Growing, SendsMove, OutboxMove, PendingMove, frame
  <2>2. CopiesMove
    BY <1>7 DEF RetryOutbox, CopiesMove, Idle, ItemHead
  <2> QED BY <2>1, <2>2 DEF Shape
<1>8. ASSUME NEW p \in pending, DiscardPending(a, p) PROVE Shape
  BY <1>8 DEF DiscardPending, Shape, Growing, SendsMove, OutboxMove, PendingMove,
              CopiesMove, frame
<1>9. ASSUME NEW o \in outbox, CancelOutbox(a, o) PROVE Shape
  BY <1>9 DEF CancelOutbox, Shape, Growing, SendsMove, OutboxMove, PendingMove,
              CopiesMove, frame
<1>10. ASSUME RemoveAccount(a) PROVE Shape
  BY <1>10 DEF RemoveAccount, Shape, Growing, SendsMove, OutboxMove, PendingMove,
              CopiesMove, counters
<1> QED BY <1>1, <1>2, <1>3, <1>4, <1>5, <1>6, <1>7, <1>8, <1>9, <1>10 DEF UserStep

LEMMA FlightShape ==
    ASSUME TypeOK, NEW a \in Accounts, FlightStep(a)
    PROVE  Shape
<1> USE Counters
<1>1. ASSUME NEW res \in Outcomes, PerformOp(a, res) PROVE Shape
  <2>1. Growing /\ SendsMove /\ OutboxMove
    BY <1>1 DEF PerformOp, Growing, SendsMove, OutboxMove, frame
  <2>2. PendingMove
    <3>1. accounts' = accounts /\
          pending' = {TriedRow(a, First(flight[a].ops), q) : q \in pending}
      BY <1>1 DEF PerformOp, Tried, TriedRow
    <3> QED BY <1>1, <3>1 DEF PendingMove
  <2>3. CopiesMove
    BY <1>1 DEF PerformOp, CopiesMove
  <2> QED BY <2>1, <2>2, <2>3 DEF Shape
<1>2. ASSUME NEW res \in Outcomes, DeliverItem(a, res) PROVE Shape
  <2>1. Growing /\ SendsMove /\ PendingMove
    BY <1>2 DEF DeliverItem, Growing, SendsMove, PendingMove, frame
  <2>2. OutboxMove
    <3>1. accounts' = accounts /\
          outbox' = {TriedRow(a, First(flight[a].items), q) : q \in outbox}
      BY <1>2 DEF DeliverItem, Tried, TriedRow
    <3> QED BY <1>2, <3>1 DEF OutboxMove
  <2>3. CopiesMove
    BY <1>2 DEF DeliverItem, CopiesMove
  <2> QED BY <2>1, <2>2, <2>3 DEF Shape
<1>3. ASSUME OpDone(a) PROVE Shape
  <2>1. Growing /\ SendsMove /\ OutboxMove
    BY <1>3 DEF OpDone, Growing, SendsMove, OutboxMove, frame
  <2>2. PendingMove
    <3>1. accounts' = accounts /\
          \/ pending' \subseteq pending
          \/ pending' = {FailedRow(First(flight[a].ops), q) : q \in pending}
      BY <1>3 DEF OpDone, Failed, FailedRow
    <3> QED BY <1>3, <3>1 DEF PendingMove
  <2>3. CopiesMove
    <3>1. CASE EndFlight(a)
      BY <3>1, EndCopies
    <3>2. CASE ~EndFlight(a)
      <4>1. \E pc \in {"ops", "check"} : flight' = [flight EXCEPT ![a] =
                [flight[a] EXCEPT !.pc = pc, !.ops = @ \ {First(flight[a].ops)}]]
        BY <1>3, <3>2 DEF OpDone
      <4>2. PICK pc : flight' = [flight EXCEPT ![a] =
                [flight[a] EXCEPT !.pc = pc, !.ops = @ \ {First(flight[a].ops)}]]
        BY <4>1
      <4> DEFINE f == [flight[a] EXCEPT !.pc = pc, !.ops = @ \ {First(flight[a].ops)}]
      <4>3. f.items = flight[a].items /\ f.ops \subseteq flight[a].ops
        BY DEF FlightTypes
      <4> HIDE DEF f
      <4> QED BY <4>2, <4>3, FewerCopies DEF f
    <3> QED BY <3>1, <3>2
  <2> QED BY <2>1, <2>2, <2>3 DEF Shape
<1>4. ASSUME ReplayCheck(a) PROVE Shape
  <2>1. Growing /\ SendsMove /\ OutboxMove /\ PendingMove
    BY <1>4 DEF ReplayCheck, Growing, SendsMove, OutboxMove, PendingMove, frame
  <2>2. CopiesMove
    <3>1. CASE EndFlight(a)
      BY <3>1, EndCopies
    <3>2. CASE ~EndFlight(a)
      <4>1. /\ flight' = [flight EXCEPT ![a] = [Idle EXCEPT !.pc = "items", !.auto = TRUE,
                               !.items = ItemsOf(a), !.mark = nextPos]]
            /\ outbox' = outbox
        BY <1>4, <3>2 DEF ReplayCheck
      <4>2. flight'[a].items = ItemsOf(a) /\ flight'[a].ops = {}
        BY <4>1 DEF Idle
      <4>3. \A b \in Accounts \ {a} : flight'[b] = flight[b]
        BY <4>1
      <4> QED BY <4>1, <4>2, <4>3 DEF CopiesMove
    <3> QED BY <3>1, <3>2
  <2> QED BY <2>1, <2>2 DEF Shape
<1>5. ASSUME ItemDone(a) PROVE Shape
  <2>1. Growing /\ SendsMove /\ PendingMove
    BY <1>5 DEF ItemDone, Growing, SendsMove, PendingMove, frame
  <2>2. OutboxMove
    <3>1. accounts' = accounts /\
          \/ outbox' \subseteq outbox
          \/ outbox' = {FailedRow(First(flight[a].items), q) : q \in outbox}
      BY <1>5 DEF ItemDone, Failed, FailedRow
    <3> QED BY <1>5, <3>1 DEF OutboxMove
  <2>3. CopiesMove
    <3>1. CASE EndFlight(a)
      BY <3>1, EndCopies
    <3>2. CASE ~EndFlight(a)
      <4> DEFINE f == [flight[a] EXCEPT !.pc = "items", !.items = @ \ {First(flight[a].items)}]
      <4>1. flight' = [flight EXCEPT ![a] = f]
        BY <1>5, <3>2 DEF ItemDone
      <4>2. f.items \subseteq flight[a].items /\ f.ops = flight[a].ops
        BY DEF FlightTypes
      <4> HIDE DEF f
      <4> QED BY <4>1, <4>2, FewerCopies
    <3> QED BY <3>1, <3>2
  <2> QED BY <2>1, <2>2, <2>3 DEF Shape
<1>6. ASSUME ReplayEnd(a) PROVE Shape
  <2>1. CopiesMove
    BY <1>6, EndCopies DEF ReplayEnd
  <2> QED BY <1>6, <2>1 DEF ReplayEnd, Shape, Growing, SendsMove, OutboxMove, PendingMove, frame
<1> QED BY <1>1, <1>2, <1>3, <1>4, <1>5, <1>6 DEF FlightStep

LEMMA StepShape ==
    ASSUME TypeOK, [Next]_vars
    PROVE  Shape
<1> USE Counters
<1>1. ASSUME NEW a \in Accounts, SyncList(a) PROVE Shape
  <2>1. Growing
    BY <1>1 DEF SyncList, Growing, persisted, counters
  <2> QED BY <1>1, <2>1, QuietShape DEF SyncList, persisted, counters
<1>2. ASSUME NEW a \in Accounts, ServerReset(a) PROVE Shape
  <2>1. Growing
    BY <1>2 DEF ServerReset, Growing, persisted, counters
  <2> QED BY <1>2, <2>1, QuietShape DEF ServerReset, persisted, counters
<1>3. ASSUME NEW e \in edits, EditFinish(e) PROVE Shape
  <2>1. Growing /\ SendsMove /\ OutboxMove /\ CopiesMove
    BY <1>3 DEF EditFinish, Growing, SendsMove, OutboxMove, CopiesMove
  <2>2. PendingMove
    <3>1. /\ accounts' = accounts
          /\ \/ pending' = pending
             \/ pending' = pending \cup {QueuedOp(e)} /\ e.acct \in accounts
                /\ nextPos' = nextPos + 1
      BY <1>3 DEF EditFinish, QueuedOp
    <3> QED BY <3>1 DEF PendingMove
  <2> QED BY <2>1, <2>2 DEF Shape
<1>4. ASSUME NEW l \in listed, SyncStore(l) PROVE Shape
  <2>1. Growing
    BY <1>4 DEF SyncStore, Growing, counters
  <2> QED BY <1>4, <2>1, QuietShape DEF SyncStore, counters
<1>5. ASSUME Crash PROVE Shape
  BY <1>5 DEF Crash, Shape, Growing, SendsMove, OutboxMove, PendingMove, CopiesMove, Idle,
              persisted
<1>6. ASSUME NEW s \in sends, SendFinish(s) PROVE Shape
  <2>1. Growing
    BY <1>6 DEF SendFinish, Growing
  <2>2. SendsMove /\ PendingMove /\ CopiesMove
    BY <1>6 DEF SendFinish, SendsMove, PendingMove, CopiesMove
  <2>3. OutboxMove
    <3>1. /\ sends' = sends \ {s} /\ accounts' = accounts
          /\ \/ outbox' = outbox
             \/ outbox' = outbox \cup {QueuedRow(s)} /\ s.acct \in accounts
                /\ s.res = "error" /\ nextPos' = nextPos + 1
      BY <1>6 DEF SendFinish, QueuedRow
    <3> QED BY <3>1 DEF OutboxMove
  <2> QED BY <2>1, <2>2, <2>3 DEF Shape
<1>7. CASE UNCHANGED vars
  <2>1. Growing
    BY <1>7 DEF vars, Growing, persisted, counters
  <2> QED BY <1>7, <2>1, QuietShape DEF vars, persisted, counters
<1> QED BY <1>1, <1>2, <1>3, <1>4, <1>5, <1>6, <1>7, UserShape, FlightShape DEF Next

(* Steps that leave alone everything the invariant is about.               *)
Quiet == UNCHANGED <<accounts, drafts, outbox, pending, sends, flight, delivered, doubts,
                     ever, excused, sent, nextSid, nextId, nextPos, crashes>>

(* Steps that start a flight, and steps on the state of a queue or a draft. *)
Start(a) ==
    \/ SyncStart(a)
    \/ \E p \in pending : RetryPending(a, p)
    \/ \E o \in outbox : RetryOutbox(a, o)
    \/ ReplayCheck(a)
DraftStep(a) ==
    \/ \E id, txt, i : SaveDraft(a, id, txt, i)
    \/ \E id : DeleteDraft(a, id)
    \/ \E o \in outbox : CancelOutbox(a, o)
    \/ RemoveAccount(a)
SendStep(a) ==
    \E id \in 0..(MaxIds + MaxSends), txt \in 1..MaxTexts, i \in Idents, res \in Outcomes :
        SendStart(a, id, txt, i, res)

LEMMA StepCases ==
    ASSUME [Next]_vars
    PROVE  \/ Quiet
           \/ \E a \in Accounts :
                 \/ DraftStep(a) \/ SendStep(a) \/ Start(a) \/ OpDone(a) \/ ItemDone(a)
                 \/ ReplayEnd(a) \/ \E p \in pending : DiscardPending(a, p)
                 \/ \E res \in Outcomes : PerformOp(a, res) \/ DeliverItem(a, res)
           \/ \E s \in sends : SendFinish(s)
           \/ \E e \in edits : EditFinish(e)
           \/ Crash
<1>1. ASSUME NEW a \in Accounts, NEW k, NEW res, EditStart(a, k, res) PROVE Quiet
  BY <1>1 DEF EditStart, Quiet, persisted, history
<1>2. ASSUME NEW a \in Accounts, SyncList(a) PROVE Quiet
  BY <1>2 DEF SyncList, Quiet, persisted, history, server, counters
<1>3. ASSUME NEW a \in Accounts, ServerReset(a) PROVE Quiet
  BY <1>3 DEF ServerReset, Quiet, persisted, history, counters
<1>4. ASSUME NEW l, SyncStore(l) PROVE Quiet
  BY <1>4 DEF SyncStore, Quiet, server, history, counters
<1>5. CASE UNCHANGED vars
  BY <1>5 DEF vars, Quiet, persisted, history, server, counters
<1>6. ASSUME NEW a \in Accounts, UserStep(a)
      PROVE  \/ Quiet \/ DraftStep(a) \/ SendStep(a) \/ Start(a)
             \/ \E p \in pending : DiscardPending(a, p)
  BY <1>1, <1>6 DEF UserStep, DraftStep, Start, SendStep
<1>7. ASSUME NEW a \in Accounts, FlightStep(a)
      PROVE  \/ Start(a) \/ OpDone(a) \/ ItemDone(a) \/ ReplayEnd(a)
             \/ \E res \in Outcomes : PerformOp(a, res) \/ DeliverItem(a, res)
  BY <1>7 DEF FlightStep, Start
<1>8. CASE Next
  BY <1>2, <1>3, <1>4, <1>6, <1>7, <1>8 DEF Next
<1> QED BY <1>5, <1>8

(* What the steps on drafts and sends leave alone.                         *)
LEMMA DraftFrame ==
    ASSUME NEW a, DraftStep(a)
    PROVE  UNCHANGED <<sends, flight, seen, delivered, doubts, crashes>>
<1>1. ASSUME NEW id, NEW txt, NEW i, SaveDraft(a, id, txt, i)
      PROVE  UNCHANGED <<sends, flight, seen, delivered, doubts, crashes>>
  BY <1>1 DEF SaveDraft, server
<1>2. ASSUME NEW id, DeleteDraft(a, id)
      PROVE  UNCHANGED <<sends, flight, seen, delivered, doubts, crashes>>
  BY <1>2 DEF DeleteDraft, server, counters
<1>3. ASSUME NEW o, CancelOutbox(a, o)
      PROVE  UNCHANGED <<sends, flight, seen, delivered, doubts, crashes>>
  BY <1>3 DEF CancelOutbox, frame
<1>4. ASSUME RemoveAccount(a)
      PROVE  UNCHANGED <<sends, flight, seen, delivered, doubts, crashes>>
  BY <1>4 DEF RemoveAccount, server, counters
<1> QED BY <1>1, <1>2, <1>3, <1>4 DEF DraftStep

LEMMA SendFrame ==
    ASSUME NEW a, SendStep(a)
    PROVE  /\ UNCHANGED <<flight, seen, crashes, excused, drafts, outbox, ever>>
           /\ sends \subseteq sends'
<1>1. PICK id \in 0..(MaxIds + MaxSends), txt \in 1..MaxTexts, i \in Idents, res \in Outcomes :
          SendStart(a, id, txt, i, res)
  BY DEF SendStep
<1>2. UNCHANGED <<flight, seen, crashes, excused, ever, persisted>>
  BY <1>1 DEF SendStart
<1>3. sends \subseteq sends'
  BY <1>1 DEF SendStart
<1> QED BY <1>2, <1>3 DEF persisted

LEMMA FlightFrame ==
    ASSUME NEW a,
           \/ Start(a) \/ ReplayEnd(a) \/ OpDone(a)
           \/ \E p \in pending : DiscardPending(a, p)
           \/ \E res \in Outcomes : PerformOp(a, res)
    PROVE  UNCHANGED <<sends, delivered, doubts, sent, excused, drafts, outbox, ever>>
<1>1. Start(a) => UNCHANGED <<sends, delivered, history, drafts, outbox>>
  BY DEF Start, SyncStart, RetryPending, RetryOutbox, ReplayCheck
<1>2. ReplayEnd(a) \/ OpDone(a) => UNCHANGED <<sends, delivered, history, drafts, outbox>>
  BY DEF ReplayEnd, OpDone
<1>3. (\E p \in pending : DiscardPending(a, p)) =>
          UNCHANGED <<sends, delivered, history, drafts, outbox>>
  BY DEF DiscardPending
<1>4. (\E res \in Outcomes : PerformOp(a, res)) =>
          UNCHANGED <<sends, delivered, history, drafts, outbox>>
  BY DEF PerformOp
<1> QED BY <1>1, <1>2, <1>3, <1>4 DEF history

(* A draft's identifier stays below the next new one (saveDraft).          *)
DraftsMove ==
    \/ drafts' \subseteq drafts
    \/ \E d : drafts' = PutDraft(d) /\ d.id < nextId'

LEMMA DraftsStep ==
    ASSUME TypeOK, Keys, Order, [Next]_vars
    PROVE  DraftsMove
<1> USE Counters
<1>1. CASE Quiet
  BY <1>1 DEF Quiet, DraftsMove
<1>2. ASSUME NEW a \in Accounts, DraftStep(a) PROVE DraftsMove
  <2>1. ASSUME NEW id, NEW txt, NEW i, SaveDraft(a, id, txt, i) PROVE DraftsMove
    <3> DEFINE d == [id |-> IF id = NoId THEN nextId ELSE id, acct |-> a,
                     body |-> [txt |-> txt, ident |-> i]]
    <3>1. drafts' = PutDraft(d) /\ d.id < nextId'
      BY <2>1 DEF SaveDraft
    <3> HIDE DEF d
    <3> QED BY <3>1 DEF DraftsMove
  <2>2. ASSUME NEW id, DeleteDraft(a, id) PROVE DraftsMove
    BY <2>2 DEF DeleteDraft, DraftsMove
  <2>3. ASSUME NEW o \in outbox, CancelOutbox(a, o) PROVE DraftsMove
    <3> DEFINE d == [id |-> o.id, acct |-> a, body |-> o.body]
    <3>1. drafts' = PutDraft(d) /\ nextId' = nextId /\ d.id = o.id
      BY <2>3 DEF CancelOutbox, frame
    <3>2. o.id < nextId
      BY DEF Keys, RowKeys, Counted
    <3> HIDE DEF d
    <3> QED BY <3>1, <3>2 DEF DraftsMove
  <2>4. ASSUME RemoveAccount(a) PROVE DraftsMove
    BY <2>4 DEF RemoveAccount, DraftsMove
  <2> QED BY <1>2, <2>1, <2>2, <2>3, <2>4 DEF DraftStep
<1>3. ASSUME NEW a \in Accounts,
             \/ SendStep(a) \/ Start(a) \/ OpDone(a) \/ ReplayEnd(a)
             \/ \E p \in pending : DiscardPending(a, p)
             \/ \E res \in Outcomes : PerformOp(a, res) \/ DeliverItem(a, res)
      PROVE  drafts' = drafts
  BY <1>3 DEF SendStep, SendStart, Start, SyncStart, RetryPending, RetryOutbox, ReplayCheck,
              OpDone, ReplayEnd, DiscardPending, PerformOp, DeliverItem, persisted
<1>4. ASSUME NEW a \in Accounts, ItemDone(a) PROVE DraftsMove
  <2> DEFINE item == First(flight[a].items)
  <2> DEFINE Kept(id) == [id |-> id, acct |-> a, body |-> item.body]
  <2>1. item \in flight[a].items
    BY <1>4, HeadItem DEF ItemDone, Order, InOrder
  <2>2. item.id < nextId
    BY <2>1 DEF Keys, CopyKeys, Counted
  <2>3. \/ drafts' = drafts
        \/ drafts' = PutDraft(Kept(item.id)) /\ nextId' = nextId
        \/ drafts' = PutDraft(Kept(nextId)) /\ nextId' = nextId + 1
    BY <1>4 DEF ItemDone
  <2>4. \A id : Kept(id).id = id
    OBVIOUS
  <2> HIDE DEF Kept
  <2> QED BY <2>2, <2>3, <2>4 DEF DraftsMove
<1>5. ASSUME NEW s \in sends, SendFinish(s) PROVE DraftsMove
  <2> DEFINE Kept(id) == [id |-> id, acct |-> s.acct, body |-> s.body]
  <2>1. s.id < nextId
    BY DEF Keys, SendKeys
  <2>2. \/ drafts' \subseteq drafts
        \/ drafts' = PutDraft(Kept(s.id)) /\ nextId' = nextId
        \/ drafts' = PutDraft(Kept(nextId)) /\ nextId' = nextId + 1
    BY <1>5 DEF SendFinish
  <2>3. \A id : Kept(id).id = id
    OBVIOUS
  <2> HIDE DEF Kept
  <2> QED BY <2>1, <2>2, <2>3 DEF DraftsMove
<1>6. ASSUME NEW e \in edits, EditFinish(e) PROVE drafts' = drafts
  BY <1>6 DEF EditFinish
<1>7. CASE Crash
  BY <1>7 DEF Crash, persisted, DraftsMove
<1>8. drafts' = drafts => DraftsMove
  BY DEF DraftsMove
<1> QED BY <1>1, <1>2, <1>3, <1>4, <1>5, <1>6, <1>7, <1>8, StepCases

-----------------------------------------------------------------------------
(***************************************************************************)
(* Identifiers and positions.                                              *)
(***************************************************************************)
(* Where a queued row comes from.                                          *)
LEMMA RowOrigin ==
    ASSUME TypeOK, Shape, NEW o \in outbox'
    PROVE  \/ \E q \in outbox : SameItem(o, q)
           \/ \E s \in sends : /\ o = QueuedRow(s) /\ sends' = sends \ {s}
                               /\ nextPos < nextPos' /\ s.acct \in accounts' /\ s.res = "error"
<1>0. \A q \in outbox : q \in Items
  BY DEF TypeOK
<1>1. CASE outbox' \subseteq outbox
  BY <1>1 DEF SameItem
<1>2. ASSUME NEW a, NEW row, outbox' = {TriedRow(a, row, q) : q \in outbox}
      PROVE  \E q \in outbox : SameItem(o, q)
  <2>1. \A q \in outbox : SameItem(TriedRow(a, row, q), q)
    BY <1>0, ItemOutcome
  <2> QED BY <1>2, <2>1
<1>3. ASSUME NEW row, outbox' = {FailedRow(row, q) : q \in outbox}
      PROVE  \E q \in outbox : SameItem(o, q)
  <2>1. \A q \in outbox : SameItem(FailedRow(row, q), q)
    BY <1>0, ItemOutcome
  <2> QED BY <1>3, <2>1
<1>4. ASSUME NEW s \in sends, outbox' = outbox \cup {QueuedRow(s)}
      PROVE  o = QueuedRow(s) \/ \E q \in outbox : SameItem(o, q)
  BY <1>4 DEF SameItem
<1> QED BY <1>1, <1>2, <1>3, <1>4 DEF Shape, OutboxMove

LEMMA SendKeysStep ==
    ASSUME TypeOK, Keys, Shape, TypeOK'
    PROVE  SendKeys'
<1> USE Counters DEF Keys, SendKeys
<1>0. nextSid' \in Nat /\ nextId' \in Nat /\ nextSid' >= nextSid /\ nextId' >= nextId
  BY DEF TypeOK, Shape, Growing
<1>00. \A s \in sends : s.sid \in Nat /\ s.id \in Nat
  BY DEF TypeOK
<1>1. CASE sends' \subseteq sends
  BY <1>0, <1>00, <1>1
<1>2. ASSUME NEW new, sends' = sends \cup {new}, new.sid = nextSid, nextSid <= MaxSends,
             nextSid < nextSid', new.id < nextId,
             new.snap # NoDraft => new.snap.id = new.id /\ new.id # NoId
      PROVE  SendKeys'
  <2>0. new.id \in Nat
    BY <1>2 DEF TypeOK
  <2>1. new.sid \in 1..MaxSends
    BY <1>2, QueueAssumption
  <2>2. \A s \in sends : s.sid # new.sid
    BY <1>00, <1>2
  <2> QED BY <1>0, <1>00, <1>2, <2>0, <2>1, <2>2
<1> QED BY <1>1, <1>2 DEF Shape, SendsMove

LEMMA DraftKeysStep ==
    ASSUME TypeOK, Keys, Shape, DraftsMove, TypeOK'
    PROVE  DraftKeys'
<1> USE Counters DEF Keys, DraftKeys
<1>0. nextId' \in Nat /\ nextId' >= nextId /\ \A d \in drafts : d.id \in Nat
  BY DEF TypeOK, Shape, Growing, Drafts
<1>1. CASE drafts' \subseteq drafts
  BY <1>0, <1>1
<1>2. ASSUME NEW d, drafts' = PutDraft(d), d.id < nextId' PROVE DraftKeys'
  BY <1>0, <1>2 DEF PutDraft, DraftsWith
<1> QED BY <1>1, <1>2 DEF DraftsMove

LEMMA RowKeysStep ==
    ASSUME TypeOK, Keys, Shape, TypeOK'
    PROVE  RowKeys'
<1> USE Counters
<1>0. /\ nextSid' \in Nat /\ nextSid' >= nextSid /\ nextId' \in Nat /\ nextId' >= nextId
      /\ nextPos' \in Nat /\ nextPos' >= nextPos
  BY DEF TypeOK, Shape, Growing
<1>00. \A o \in outbox : o \in Items /\ o.sid \in Nat /\ o.id \in Nat /\ o.pos \in Nat
  BY DEF TypeOK, Items
<1>1. \A o \in outbox' : Counted(o)' /\ \A s \in sends' : s.sid # o.sid
  <2> TAKE o \in outbox'
  <2>1. ASSUME NEW q \in outbox, SameItem(o, q)
        PROVE  Counted(o)' /\ \A s \in sends' : s.sid # o.sid
    BY <1>0, <1>00, <2>1 DEF SameItem, Keys, RowKeys, Counted, Shape, SendsMove
  <2>2. ASSUME NEW s \in sends, o = QueuedRow(s), sends' = sends \ {s}, nextPos < nextPos'
        PROVE  Counted(o)' /\ \A t \in sends' : t.sid # o.sid
    <3>1. o.sid = s.sid /\ o.pos = nextPos /\ o.id = s.id /\ s.sid \in Nat /\ s.id \in Nat
      BY <2>2 DEF QueuedRow, TypeOK
    <3>2. s.sid \in 1..MaxSends /\ s.sid < nextSid /\ s.id < nextId
      BY DEF Keys, SendKeys
    <3>3. \A t \in sends' : t.sid # o.sid
      BY <2>2, <3>1 DEF Keys, SendKeys
    <3> QED BY <1>0, <2>2, <3>1, <3>2, <3>3 DEF Counted
  <2> QED BY <2>1, <2>2, RowOrigin
<1>2. \A o \in outbox' : o.acct \in accounts'
  <2>0. \A q \in outbox : q.acct \in accounts
    BY DEF Keys, RowKeys
  <2>1. CASE outbox' \subseteq {o \in outbox : o.acct \in accounts => o.acct \in accounts'}
    BY <2>0, <2>1
  <2>2. CASE accounts' = accounts
    <3> TAKE o \in outbox'
    <3>1. ASSUME NEW s \in sends, o = QueuedRow(s), s.acct \in accounts'
          PROVE  o.acct \in accounts'
      BY <3>1 DEF QueuedRow
    <3> QED BY <2>0, <2>2, <3>1, RowOrigin DEF SameItem
  <2> QED BY <2>1, <2>2 DEF Shape, OutboxMove
<1>3. \A o, q \in outbox' : o.sid = q.sid \/ o.pos = q.pos => o = q
  <2>0. \A o, q \in outbox : o.sid = q.sid \/ o.pos = q.pos => o = q
    BY DEF Keys, RowKeys
  <2>1. CASE outbox' \subseteq outbox
    BY <2>0, <2>1
  <2>2. ASSUME NEW a, NEW row, outbox' = {TriedRow(a, row, q) : q \in outbox}
        PROVE  \A o, q \in outbox' : o.sid = q.sid \/ o.pos = q.pos => o = q
    <3>0. \A q \in outbox : SameItem(TriedRow(a, row, q), q)
      BY <1>00, ItemOutcome
    <3>1. \A q \in outbox : /\ TriedRow(a, row, q).sid = q.sid
                            /\ TriedRow(a, row, q).pos = q.pos
      BY <3>0 DEF SameItem
    <3> QED BY <2>0, <2>2, <3>1
  <2>3. ASSUME NEW row, outbox' = {FailedRow(row, q) : q \in outbox}
        PROVE  \A o, q \in outbox' : o.sid = q.sid \/ o.pos = q.pos => o = q
    <3>0. \A q \in outbox : SameItem(FailedRow(row, q), q)
      BY <1>00, ItemOutcome
    <3>1. \A q \in outbox : /\ FailedRow(row, q).sid = q.sid
                            /\ FailedRow(row, q).pos = q.pos
      BY <3>0 DEF SameItem
    <3> QED BY <2>0, <2>3, <3>1
  <2>4. ASSUME NEW s \in sends, outbox' = outbox \cup {QueuedRow(s)}
        PROVE  \A o, q \in outbox' : o.sid = q.sid \/ o.pos = q.pos => o = q
    <3>1. \A q \in outbox : q.sid # s.sid /\ q.pos # nextPos
      BY <1>00 DEF Keys, RowKeys, Counted
    <3>2. QueuedRow(s).sid = s.sid /\ QueuedRow(s).pos = nextPos
      BY DEF QueuedRow
    <3> QED BY <2>0, <2>4, <3>1, <3>2
  <2> QED BY <2>1, <2>2, <2>3, <2>4 DEF Shape, OutboxMove
<1> QED BY <1>1, <1>2, <1>3 DEF RowKeys


LEMMA CopyOrigin ==
    ASSUME TypeOK, Keys, Shape, NEW b \in Accounts, NEW i \in flight'[b].items
    PROVE  /\ Counted(i) /\ i.acct = b /\ i \in Items
           /\ \A s \in sends : s.sid # i.sid
           /\ \A o \in outbox : o.sid = i.sid \/ o.pos = i.pos => SameItem(o, i)
<1>1. CASE i \in flight[b].items
  BY <1>1 DEF Keys, CopyKeys, TypeOK
<1>2. CASE i \in ItemsOf(b)
  BY <1>2 DEF Keys, RowKeys, ItemsOf, SameItem, TypeOK
<1> QED BY <1>1, <1>2 DEF Shape, CopiesMove

LEMMA CopyKeysStep ==
    ASSUME TypeOK, Keys, Shape, TypeOK'
    PROVE  CopyKeys'
<1> USE Counters
<1>0. /\ nextSid' \in Nat /\ nextSid' >= nextSid /\ nextId' \in Nat /\ nextId' >= nextId
      /\ nextPos' \in Nat /\ nextPos' >= nextPos
  BY DEF TypeOK, Shape, Growing
<1> SUFFICES ASSUME NEW a \in Accounts, NEW i \in flight'[a].items
             PROVE  /\ Counted(i)' /\ i.acct = a /\ \A s \in sends' : s.sid # i.sid
                    /\ \A o \in outbox' : o.sid = i.sid \/ o.pos = i.pos => SameItem(o, i)
                    /\ \A b \in Accounts : \A j \in flight'[b].items :
                          i.sid = j.sid \/ i.pos = j.pos => i = j
  BY DEF CopyKeys
<1>1. /\ Counted(i) /\ i.acct = a /\ i \in Items /\ i.sid \in Nat /\ i.pos \in Nat
      /\ i.id \in Nat
      /\ \A s \in sends : s.sid # i.sid
      /\ \A o \in outbox : o.sid = i.sid \/ o.pos = i.pos => SameItem(o, i)
  BY CopyOrigin DEF Items
<1>2. Counted(i)' /\ i.acct = a
  BY <1>0, <1>1 DEF Counted
<1>3. \A s \in sends' : s.sid # i.sid
  BY <1>1 DEF Shape, SendsMove, Counted
<1>4. \A o \in outbox' : o.sid = i.sid \/ o.pos = i.pos => SameItem(o, i)
  <2> SUFFICES ASSUME NEW o \in outbox', o.sid = i.sid \/ o.pos = i.pos
               PROVE  SameItem(o, i)
    OBVIOUS
  <2>1. ASSUME NEW q \in outbox, SameItem(o, q) PROVE SameItem(o, i)
    BY <1>1, <2>1 DEF SameItem
  <2>2. ASSUME NEW s \in sends, o = QueuedRow(s) PROVE FALSE
    <3>1. o.sid = s.sid /\ o.pos = nextPos
      BY <2>2 DEF QueuedRow
    <3> QED BY <1>1, <3>1 DEF Counted
  <2> QED BY <2>1, <2>2, RowOrigin
<1>5. \A b \in Accounts : \A j \in flight'[b].items : i.sid = j.sid \/ i.pos = j.pos => i = j
  <2> SUFFICES ASSUME NEW b \in Accounts, NEW j \in flight'[b].items,
                      i.sid = j.sid \/ i.pos = j.pos
               PROVE  i = j
    OBVIOUS
  <2>1. /\ j.acct = b
        /\ \A o \in outbox : o.sid = j.sid \/ o.pos = j.pos => SameItem(o, j)
    BY CopyOrigin
  <2>2. CASE i \in flight[a].items /\ j \in flight[b].items
    BY <2>2 DEF Keys, CopyKeys
  <2>3. CASE i \in ItemsOf(a)
    <3>1. SameItem(i, j)
      BY <2>1, <2>3 DEF ItemsOf
    <3>2. a = b
      BY <1>1, <2>1, <3>1 DEF SameItem
    <3>3. CASE j \in ItemsOf(b)
      BY <2>3, <3>3 DEF ItemsOf, Keys, RowKeys
    <3>4. CASE i \in flight[a].items /\ j \in flight[b].items
      BY <3>4 DEF Keys, CopyKeys
    <3> QED BY <3>2, <3>3, <3>4, <2>3 DEF Shape, CopiesMove
  <2>4. CASE j \in ItemsOf(b)
    <3>1. SameItem(j, i)
      BY <1>1, <2>4 DEF ItemsOf
    <3>2. a = b
      BY <1>1, <2>1, <3>1 DEF SameItem
    <3>3. CASE i \in ItemsOf(a)
      BY <2>4, <3>3 DEF ItemsOf, Keys, RowKeys
    <3>4. CASE i \in flight[a].items /\ j \in flight[b].items
      BY <3>4 DEF Keys, CopyKeys
    <3> QED BY <3>2, <3>3, <3>4, <2>4 DEF Shape, CopiesMove
  <2> QED BY <2>2, <2>3, <2>4 DEF Shape, CopiesMove
<1> QED BY <1>2, <1>3, <1>4, <1>5

(* Where a pending change comes from.                                      *)
LEMMA OpOrigin ==
    ASSUME TypeOK, Shape, NEW p \in pending'
    PROVE  \/ \E q \in pending : p.pos = q.pos /\ p.n = q.n /\ p.acct = q.acct
           \/ /\ \E e \in edits : p = QueuedOp(e) /\ e.acct \in accounts
              /\ nextPos < nextPos' /\ accounts' = accounts
<1>0. \A q \in pending : q \in Ops
  BY DEF TypeOK
<1>1. CASE pending' \subseteq pending
  BY <1>1
<1>2. ASSUME NEW a, NEW row, pending' = {TriedRow(a, row, q) : q \in pending}
      PROVE  \E q \in pending : p.pos = q.pos /\ p.n = q.n /\ p.acct = q.acct
  <2>1. ASSUME NEW q \in pending
        PROVE  LET t == TriedRow(a, row, q) IN t.pos = q.pos /\ t.n = q.n /\ t.acct = q.acct
    <3>1. q \in Ops
      BY <1>0
    <3> QED BY <3>1 DEF TriedRow, Ops
  <2> QED BY <1>2, <2>1
<1>3. ASSUME NEW row, pending' = {FailedRow(row, q) : q \in pending}
      PROVE  \E q \in pending : p.pos = q.pos /\ p.n = q.n /\ p.acct = q.acct
  <2>1. ASSUME NEW q \in pending
        PROVE  LET t == FailedRow(row, q) IN t.pos = q.pos /\ t.n = q.n /\ t.acct = q.acct
    <3>1. q \in Ops
      BY <1>0
    <3> QED BY <3>1, OpOutcome
  <2> QED BY <1>3, <2>1
<1>4. ASSUME NEW e \in edits, pending' = pending \cup {QueuedOp(e)}
      PROVE  p = QueuedOp(e) \/ \E q \in pending : p = q
  BY <1>4
<1> QED BY <1>1, <1>2, <1>3, <1>4 DEF Shape, PendingMove

LEMMA OpKeysStep ==
    ASSUME TypeOK, Keys, Shape, TypeOK'
    PROVE  OpKeys'
<1> USE Counters
<1>0. /\ nextPos' \in Nat /\ nextPos' >= nextPos
      /\ \A p \in pending : p \in Ops /\ p.pos \in Nat
  BY DEF TypeOK, Shape, Growing, Ops
<1>1. \A p \in pending' : p.pos < nextPos' /\ p.acct \in accounts'
  <2>0. \A q \in pending : q.pos < nextPos /\ q.acct \in accounts
    BY DEF Keys, OpKeys
  <2>1. ASSUME NEW p \in pending' PROVE p.pos < nextPos'
    <3>1. ASSUME NEW e, p = QueuedOp(e) PROVE p.pos = nextPos
      BY <3>1 DEF QueuedOp
    <3> QED BY <1>0, <2>0, <3>1, OpOrigin
  <2>2. CASE pending' \subseteq {p \in pending : p.acct \in accounts => p.acct \in accounts'}
    BY <2>0, <2>1, <2>2
  <2>3. CASE accounts' = accounts
    <3>1. ASSUME NEW p \in pending' PROVE p.acct \in accounts'
      <4>1. ASSUME NEW e, p = QueuedOp(e) PROVE p.acct = e.acct
        BY <4>1 DEF QueuedOp
      <4> QED BY <2>0, <2>3, <4>1, OpOrigin
    <3> QED BY <2>1, <3>1
  <2> QED BY <2>2, <2>3 DEF Shape, PendingMove
<1>2. \A p, q \in pending' : p.pos = q.pos => p = q
  <2>0. \A p, q \in pending : p.pos = q.pos => p = q
    BY DEF Keys, OpKeys
  <2>1. CASE pending' \subseteq pending
    BY <2>0, <2>1
  <2>2. ASSUME NEW a, NEW row, pending' = {TriedRow(a, row, q) : q \in pending}
        PROVE  \A p, q \in pending' : p.pos = q.pos => p = q
    <3>1. ASSUME NEW q \in pending PROVE TriedRow(a, row, q).pos = q.pos
      <4>1. q \in Ops
        BY <1>0
      <4> QED BY <4>1 DEF TriedRow, Ops
    <3> QED BY <2>0, <2>2, <3>1
  <2>3. ASSUME NEW row, pending' = {FailedRow(row, q) : q \in pending}
        PROVE  \A p, q \in pending' : p.pos = q.pos => p = q
    <3>1. ASSUME NEW q \in pending PROVE FailedRow(row, q).pos = q.pos
      <4>1. q \in Ops
        BY <1>0
      <4> QED BY <4>1 DEF FailedRow, Ops
    <3> QED BY <2>0, <2>3, <3>1
  <2>4. ASSUME NEW e \in edits, pending' = pending \cup {QueuedOp(e)}
        PROVE  \A p, q \in pending' : p.pos = q.pos => p = q
    <3>1. \A q \in pending : q.pos # nextPos
      BY <1>0 DEF Keys, OpKeys
    <3>2. QueuedOp(e).pos = nextPos
      BY DEF QueuedOp
    <3> QED BY <2>0, <2>4, <3>1, <3>2
  <2> QED BY <2>1, <2>2, <2>3, <2>4 DEF Shape, PendingMove
<1>3. ASSUME NEW a \in Accounts, NEW i \in flight'[a].ops
      PROVE  /\ i.acct = a /\ i.pos < nextPos'
             /\ \A p \in pending' : p.pos = i.pos => p.n = i.n /\ p.acct = i.acct
             /\ \A j \in flight'[a].ops : i.pos = j.pos => i = j
  <2>1. /\ i.acct = a /\ i.pos < nextPos /\ i.pos \in Nat
        /\ \A p \in pending : p.pos = i.pos => p.n = i.n /\ p.acct = i.acct
    <3>1. CASE i \in flight[a].ops
      <4>1. i \in Ops
        BY <3>1 DEF TypeOK
      <4>2. i.pos \in Nat
        BY <4>1 DEF Ops
      <4> QED BY <3>1, <4>2 DEF Keys, OpKeys
    <3>2. CASE i \in OpsOf(a)
      BY <3>2, <1>0 DEF Keys, OpKeys, OpsOf
    <3> QED BY <3>1, <3>2 DEF Shape, CopiesMove
  <2>2. ASSUME NEW p \in pending', p.pos = i.pos PROVE p.n = i.n /\ p.acct = i.acct
    <3>1. ASSUME NEW e, p = QueuedOp(e) PROVE p.pos = nextPos
      BY <3>1 DEF QueuedOp
    <3> QED BY <1>0, <2>1, <2>2, <3>1, OpOrigin
  <2>3. \A j \in flight'[a].ops : i.pos = j.pos => i = j
    BY DEF Shape, CopiesMove, Keys, OpKeys, OpsOf
  <2> QED BY <1>0, <2>1, <2>2, <2>3
<1> QED BY <1>1, <1>2, <1>3 DEF OpKeys

LEMMA KeysStep ==
    ASSUME TypeOK, Keys, Order, [Next]_vars
    PROVE  Keys'
<1>1. TypeOK' /\ Shape /\ DraftsMove
  BY TypeStep, StepShape, DraftsStep
<1> QED BY <1>1, SendKeysStep, DraftKeysStep, RowKeysStep, CopyKeysStep, OpKeysStep DEF Keys

-----------------------------------------------------------------------------
(***************************************************************************)
(* The order of the queues.                                                *)
(***************************************************************************)
(* Rows keep their positions, and a new one comes last.                    *)
LEMMA RowsLater ==
    ASSUME TypeOK, Shape, NEW b \in Accounts
    PROVE  /\ \A p \in OpsOf(b)' : p.pos = nextPos \/ \E q \in OpsOf(b) : q.pos = p.pos
           /\ \A o \in ItemsOf(b)' : o.pos = nextPos \/ \E q \in ItemsOf(b) : q.pos = o.pos
<1>1. ASSUME NEW p \in OpsOf(b)' PROVE p.pos = nextPos \/ \E q \in OpsOf(b) : q.pos = p.pos
  <2>1. p \in pending' /\ p.acct = b
    BY DEF OpsOf
  <2>2. ASSUME NEW e, p = QueuedOp(e) PROVE p.pos = nextPos
    BY <2>2 DEF QueuedOp
  <2> QED BY <2>1, <2>2, OpOrigin DEF OpsOf
<1>2. ASSUME NEW o \in ItemsOf(b)' PROVE o.pos = nextPos \/ \E q \in ItemsOf(b) : q.pos = o.pos
  <2>1. o \in outbox' /\ o.acct = b
    BY DEF ItemsOf
  <2>2. ASSUME NEW s, o = QueuedRow(s) PROVE o.pos = nextPos
    BY <2>2 DEF QueuedRow
  <2> QED BY <2>1, <2>2, RowOrigin DEF ItemsOf, SameItem
<1> QED BY <1>1, <1>2

(* Positions are numbers, and those of copies are taken.                   *)
LEMMA Positions ==
    ASSUME TypeOK, Keys, NEW b \in Accounts
    PROVE  /\ nextPos \in Nat /\ flight[b].mark \in Nat
           /\ \A i \in flight[b].ops : i \in Ops /\ i.pos \in Nat /\ i.pos < nextPos
           /\ \A i \in flight[b].items : i \in Items /\ i.pos \in Nat /\ i.pos < nextPos
           /\ \A p \in OpsOf(b) : p \in Ops /\ p.pos \in Nat /\ p.pos < nextPos
           /\ \A o \in ItemsOf(b) : o \in Items /\ o.pos \in Nat /\ o.pos < nextPos
<1>1. flight[b] \in FlightTypes /\ nextPos \in Nat /\ pending \subseteq Ops
      /\ outbox \subseteq Items
  BY DEF TypeOK, FlightTypes
<1>2. flight[b].mark \in Nat /\ flight[b].ops \subseteq Ops /\ flight[b].items \subseteq Items
  BY <1>1 DEF FlightTypes
<1>3. (\A p \in Ops : p.pos \in Nat) /\ \A o \in Items : o.pos \in Nat
  BY DEF Ops, Items
<1>4. (\A i \in flight[b].ops : i.pos < nextPos) /\ \A p \in OpsOf(b) : p.pos < nextPos
  BY DEF Keys, OpKeys, OpsOf
<1>5. (\A i \in flight[b].items : i.pos < nextPos) /\ \A o \in ItemsOf(b) : o.pos < nextPos
  BY DEF Keys, CopyKeys, RowKeys, Counted, ItemsOf
<1> QED BY <1>1, <1>2, <1>3, <1>4, <1>5 DEF OpsOf, ItemsOf

(* A flight that keeps its copies keeps its order.                         *)
LEMMA OrderKept ==
    ASSUME TypeOK, Keys, Order, Shape, TypeOK', NEW b \in Accounts,
           flight'[b].ops = flight[b].ops, flight'[b].items = flight[b].items,
           flight'[b].mark = flight[b].mark,
           flight'[b].pc \in {"ops", "opDone"} => flight[b].pc \in {"ops", "opDone"},
           flight'[b].pc \in {"items", "itemDone"} => flight[b].pc \in {"items", "itemDone"},
           flight'[b].pc = "opDone" => flight[b].ops # {},
           flight'[b].pc = "itemDone" => flight[b].items # {}
    PROVE  InOrder(b)'
<1>1. nextPos' \in Nat /\ nextPos' >= nextPos /\ (b \in accounts' => b \in accounts)
  BY DEF TypeOK, Shape, Growing
<1>2. InOrder(b)
  BY DEF Order
<1>3. b \in accounts' /\ flight'[b].pc \in {"ops", "opDone"} => Ahead(flight[b].ops, OpsOf(b)')
  BY <1>1, <1>2, RowsLater, Positions DEF InOrder, Ahead
<1>4. b \in accounts' /\ flight'[b].pc \in {"items", "itemDone"} =>
          /\ Ahead(flight[b].items, ItemsOf(b)')
          /\ \A p \in OpsOf(b)' : p.pos >= flight[b].mark
  BY <1>1, <1>2, RowsLater, Positions DEF InOrder, Ahead
<1> QED BY <1>1, <1>2, <1>3, <1>4, Positions DEF InOrder, Ahead

(* A flight that starts holds the oldest rows.                             *)
LEMMA StartOrder ==
    ASSUME TypeOK, Keys, Order, NEW a \in Accounts, Start(a)
    PROVE  InOrder(a)'
<1> USE Positions
<1>0. flight \in [Accounts -> FlightTypes]
  BY Counters
<1>1. CASE SyncStart(a)
  <2>1. /\ flight'[a].pc = "ops" /\ flight'[a].ops = OpsOf(a) /\ flight'[a].mark = 0
        /\ pending' = pending /\ nextPos' = nextPos
    BY <1>0, <1>1 DEF SyncStart, Idle, frame
  <2> QED BY <2>1 DEF InOrder, Ahead, OpsOf
<1>2. ASSUME NEW p \in pending, RetryPending(a, p) PROVE InOrder(a)'
  <2>1. /\ flight'[a].pc = "ops" /\ flight'[a].ops = {p} /\ flight'[a].mark = 0
        /\ pending' = pending /\ nextPos' = nextPos /\ p \in OpsOf(a)
        /\ p = First(OpsOf(a))
    BY <1>0, <1>2 DEF RetryPending, Idle, frame, OpHead
  <2>2. \A r \in OpsOf(a) : p.pos <= r.pos
    BY <2>1, FirstLeast
  <2>3. OpsOf(a)' = OpsOf(a)
    BY <2>1 DEF OpsOf
  <2>4. Ahead({p}, OpsOf(a))
    BY <2>1, <2>2 DEF Ahead
  <2> QED BY <2>1, <2>3, <2>4 DEF InOrder
<1>3. ASSUME NEW o \in outbox, RetryOutbox(a, o) PROVE InOrder(a)'
  <2>1. /\ flight'[a].pc = "items" /\ flight'[a].items = {o} /\ flight'[a].mark = nextPos
        /\ pending' = pending /\ outbox' = outbox /\ nextPos' = nextPos /\ o \in ItemsOf(a)
        /\ o = First(ItemsOf(a)) /\ OpsOf(a) = {}
    BY <1>0, <1>3 DEF RetryOutbox, Idle, frame, ItemHead
  <2>2. \A r \in ItemsOf(a) : o.pos <= r.pos
    BY <2>1, FirstLeast
  <2> QED BY <2>1, <2>2 DEF InOrder, Ahead, OpsOf, ItemsOf
<1>4. CASE ReplayCheck(a)
  <2>1. CASE EndFlight(a)
    BY <1>0, <1>4, <2>1 DEF ReplayCheck, EndFlight, Idle, InOrder, frame
  <2>2. CASE ~EndFlight(a)
    <3>1. /\ flight' = [flight EXCEPT ![a] = [Idle EXCEPT !.pc = "items", !.auto = TRUE,
                             !.items = ItemsOf(a), !.mark = nextPos]]
          /\ pending' = pending /\ outbox' = outbox /\ nextPos' = nextPos /\ OpsOf(a) = {}
      BY <1>4, <2>2 DEF ReplayCheck, frame
    <3>2. flight'[a].pc = "items" /\ flight'[a].items = ItemsOf(a) /\ flight'[a].mark = nextPos
      BY <1>0, <3>1 DEF Idle
    <3> QED BY <3>1, <3>2 DEF InOrder, Ahead, OpsOf, ItemsOf
  <2> QED BY <2>1, <2>2
<1> QED BY <1>1, <1>2, <1>3, <1>4 DEF Start

(* A flight that has dealt with its head goes on with the rows behind it.  *)
LEMMA OpDoneOrder ==
    ASSUME TypeOK, Keys, Order, NEW a \in Accounts, OpDone(a)
    PROVE  InOrder(a)'
<1> USE Positions
<1>0. flight \in [Accounts -> FlightTypes] /\ flight[a] \in FlightTypes
  BY Counters
<1>1. CASE EndFlight(a)
  BY <1>0, <1>1 DEF OpDone, EndFlight, Idle, InOrder, frame
<1>2. CASE ~EndFlight(a)
  <2> DEFINE op == First(flight[a].ops)
  <2>0. flight[a].ops # {} /\ flight[a].pc = "opDone" /\ InOrder(a)
    BY DEF OpDone, Order, InOrder
  <2>1. op \in flight[a].ops
    BY <2>0, HeadOp
  <2>2. /\ nextPos' = nextPos /\ accounts' = accounts
        /\ \/ /\ flight' = [flight EXCEPT ![a] = [flight[a] EXCEPT !.pc = "ops",
                                                             !.ops = @ \ {op}]]
              /\ pending' = {p \in pending : p.n # op.n}
           \/ flight' = [flight EXCEPT ![a] = [flight[a] EXCEPT !.pc = "check",
                                                              !.ops = @ \ {op}]]
    BY <1>2 DEF OpDone, frame
  <2>3. CASE /\ flight' = [flight EXCEPT ![a] = [flight[a] EXCEPT !.pc = "ops",
                                                             !.ops = @ \ {op}]]
             /\ pending' = {p \in pending : p.n # op.n}
    <3>1. /\ flight'[a].pc = "ops" /\ flight'[a].ops = flight[a].ops \ {op}
          /\ flight'[a].mark = flight[a].mark
      BY <1>0, <2>3 DEF FlightTypes
    <3>2. ASSUME a \in accounts PROVE Ahead(flight[a].ops \ {op}, OpsOf(a)')
      <4>1. Ahead(flight[a].ops, OpsOf(a))
        BY <2>0, <3>2 DEF InOrder
      <4>2. \A p \in OpsOf(a)' : p \in OpsOf(a) /\ p.n # op.n
        BY <2>3 DEF OpsOf
      <4>3. \A p \in OpsOf(a) : p.pos = op.pos => p.n = op.n
        BY <2>1 DEF Keys, OpKeys, OpsOf
      <4> HIDE DEF op
      <4> QED BY <4>1, <4>2, <4>3 DEF Ahead
    <3> QED BY <2>0, <2>2, <3>1, <3>2 DEF InOrder
  <2>4. CASE flight' = [flight EXCEPT ![a] = [flight[a] EXCEPT !.pc = "check", !.ops = @ \ {op}]]
    <3>1. flight'[a].pc = "check" /\ flight'[a].mark = flight[a].mark
      BY <1>0, <2>4 DEF FlightTypes
    <3> QED BY <2>0, <2>2, <3>1 DEF InOrder
  <2> QED BY <2>2, <2>3, <2>4
<1> QED BY <1>1, <1>2

LEMMA ItemDoneOrder ==
    ASSUME TypeOK, Keys, Order, NEW a \in Accounts, ItemDone(a)
    PROVE  InOrder(a)'
<1> USE Positions
<1>0. flight \in [Accounts -> FlightTypes] /\ flight[a] \in FlightTypes
  BY Counters
<1>1. CASE EndFlight(a)
  BY <1>0, <1>1 DEF ItemDone, EndFlight, Idle, InOrder, frame
<1>2. CASE ~EndFlight(a)
  <2> DEFINE item == First(flight[a].items)
  <2>0. flight[a].items # {} /\ flight[a].pc = "itemDone" /\ InOrder(a)
    BY DEF ItemDone, Order, InOrder
  <2>1. item \in flight[a].items
    BY <2>0, HeadItem
  <2>2. /\ nextPos' = nextPos /\ accounts' = accounts /\ pending' = pending
        /\ flight' = [flight EXCEPT ![a] = [flight[a] EXCEPT !.pc = "items",
                                                           !.items = @ \ {item}]]
        /\ outbox' = outbox \ Queued(a, item) /\ Queued(a, item) # {}
    BY <1>2 DEF ItemDone, frame
  <2>3. /\ flight'[a].pc = "items" /\ flight'[a].items = flight[a].items \ {item}
        /\ flight'[a].mark = flight[a].mark
    BY <1>0, <2>2 DEF FlightTypes
  <2>4. ASSUME a \in accounts
        PROVE  /\ Ahead(flight[a].items \ {item}, ItemsOf(a)')
               /\ \A p \in OpsOf(a)' : p.pos >= flight[a].mark
    <3>1. Ahead(flight[a].items, ItemsOf(a)) /\ \A p \in OpsOf(a) : p.pos >= flight[a].mark
      BY <2>0, <2>4 DEF InOrder
    <3>2. \A o \in ItemsOf(a)' : o \in ItemsOf(a) /\ o.sid # item.sid
      BY <2>2, <2>4 DEF ItemsOf, Queued
    <3>3. \A o \in ItemsOf(a) : o.pos = item.pos => o.sid = item.sid
      BY <2>1 DEF Keys, CopyKeys, ItemsOf, SameItem
    <3>4. OpsOf(a)' = OpsOf(a)
      BY <2>2 DEF OpsOf
    <3> HIDE DEF item
    <3> QED BY <3>1, <3>2, <3>3, <3>4 DEF Ahead
  <2> QED BY <2>0, <2>2, <2>3, <2>4 DEF InOrder
<1> QED BY <1>1, <1>2

(* Only the flight of the step's account changes, and only in these ways.  *)
LEMMA OtherFlights ==
    ASSUME TypeOK, NEW a \in Accounts,
           \/ Start(a) \/ OpDone(a) \/ ItemDone(a) \/ ReplayEnd(a)
           \/ \E res \in Outcomes : PerformOp(a, res) \/ DeliverItem(a, res)
    PROVE  \A b \in Accounts : b # a => flight'[b] = flight[b]
<1> USE Counters
<1>1. Start(a) => \A b \in Accounts : b # a => flight'[b] = flight[b]
  BY DEF Start, SyncStart, RetryPending, RetryOutbox, ReplayCheck, EndFlight
<1>2. OpDone(a) => \A b \in Accounts : b # a => flight'[b] = flight[b]
  BY DEF OpDone, EndFlight
<1>3. ItemDone(a) => \A b \in Accounts : b # a => flight'[b] = flight[b]
  BY DEF ItemDone, EndFlight
<1>4. ReplayEnd(a) => \A b \in Accounts : b # a => flight'[b] = flight[b]
  BY DEF ReplayEnd, EndFlight
<1>5. ASSUME NEW res, PerformOp(a, res) \/ DeliverItem(a, res)
      PROVE  \A b \in Accounts : b # a => flight'[b] = flight[b]
  BY <1>5 DEF PerformOp, DeliverItem
<1> QED BY <1>1, <1>2, <1>3, <1>4, <1>5

LEMMA OrderStep ==
    ASSUME TypeOK, Keys, Order, [Next]_vars
    PROVE  Order'
<1> USE Counters
<1>0. TypeOK' /\ Shape
  BY TypeStep, StepShape
<1>1. ASSUME flight' = flight PROVE Order'
  <2>1. ASSUME NEW b \in Accounts PROVE InOrder(b)'
    <3>1. InOrder(b)
      BY DEF Order
    <3> QED BY <1>0, <1>1, <3>1, OrderKept DEF InOrder
  <2> QED BY <2>1 DEF Order
<1>2. ASSUME NEW b \in Accounts, flight'[b] = flight[b] PROVE InOrder(b)'
  <2>1. InOrder(b)
    BY DEF Order
  <2> QED BY <1>0, <1>2, <2>1, OrderKept DEF InOrder
<1>3. ASSUME NEW a \in Accounts, Start(a) \/ OpDone(a) \/ ItemDone(a) PROVE Order'
  <2>1. InOrder(a)'
    BY <1>3, StartOrder, OpDoneOrder, ItemDoneOrder
  <2> QED BY <1>2, <1>3, <2>1, OtherFlights DEF Order
<1>4. ASSUME NEW a \in Accounts, ReplayEnd(a) PROVE Order'
  <2>1. InOrder(a)'
    BY <1>4 DEF ReplayEnd, EndFlight, Idle, InOrder, frame
  <2> QED BY <1>2, <1>4, <2>1, OtherFlights DEF Order
<1>5. ASSUME NEW a \in Accounts, NEW res \in Outcomes, PerformOp(a, res) PROVE Order'
  <2>1. /\ flight'[a].ops = flight[a].ops /\ flight'[a].items = flight[a].items
        /\ flight'[a].mark = flight[a].mark /\ flight'[a].pc = "opDone"
        /\ flight[a].pc = "ops" /\ flight[a].ops # {}
    BY <1>5, NotBlocked DEF PerformOp, FlightTypes
  <2>2. InOrder(a)'
    BY <1>0, <2>1, OrderKept
  <2> QED BY <1>2, <1>5, <2>2, OtherFlights DEF Order
<1>6. ASSUME NEW a \in Accounts, NEW res \in Outcomes, DeliverItem(a, res) PROVE Order'
  <2>1. /\ flight'[a].ops = flight[a].ops /\ flight'[a].items = flight[a].items
        /\ flight'[a].mark = flight[a].mark /\ flight'[a].pc = "itemDone"
        /\ flight[a].pc = "items" /\ flight[a].items # {}
    BY <1>6, NotBlocked DEF DeliverItem, FlightTypes
  <2>2. InOrder(a)'
    BY <1>0, <2>1, OrderKept
  <2> QED BY <1>2, <1>6, <2>2, OtherFlights DEF Order
<1>7. CASE Crash
  <2>1. \A b \in Accounts : flight'[b] = Idle
    BY <1>7 DEF Crash
  <2>2. nextPos' \in Nat
    BY <1>0 DEF TypeOK
  <2>3. \A b \in Accounts : flight'[b].pc = "idle" /\ flight'[b].mark = 0
    BY <2>1 DEF Idle
  <2> QED BY <2>2, <2>3 DEF Order, InOrder
<1>8. ASSUME NEW a \in Accounts, DraftStep(a) \/ SendStep(a) \/
                 \E p \in pending : DiscardPending(a, p)
      PROVE  flight' = flight
  BY <1>8, DraftFrame, SendFrame DEF DiscardPending
<1>9. ASSUME (\E s \in sends : SendFinish(s)) \/ (\E e \in edits : EditFinish(e)) \/ Quiet
      PROVE  flight' = flight
  BY <1>9 DEF SendFinish, EditFinish, Quiet
<1> QED BY <1>1, <1>3, <1>4, <1>5, <1>6, <1>7, <1>8, <1>9, StepCases

-----------------------------------------------------------------------------
(***************************************************************************)
(* Attempts and their ceiling.                                             *)
(***************************************************************************)
(* The rows of the account whose outcome is being recorded change their    *)
(* attempts, and no others do (#recordPendingFailure,                      *)
(* #recordOutboxFailure).                                                  *)
SameAttempts(b) ==
    /\ \A p \in pending' : p.acct = b =>
          p.pos = nextPos \/ \E q \in pending : q.pos = p.pos /\ q.attempts = p.attempts
    /\ \A o \in outbox' : o.acct = b =>
          o.pos = nextPos \/ \E q \in outbox : q.pos = o.pos /\ q.attempts = o.attempts

LEMMA AttemptsKept ==
    ASSUME TypeOK, Keys, Order, Shape, NEW b \in Accounts, ~OpDone(b), ~ItemDone(b)
    PROVE  SameAttempts(b)
<1>0. (\A q \in pending : q \in Ops) /\ \A q \in outbox : q \in Items
  BY DEF TypeOK
<1>1. ASSUME NEW p \in pending', p.acct = b
      PROVE  p.pos = nextPos \/ \E q \in pending : q.pos = p.pos /\ q.attempts = p.attempts
  <2>1. CASE pending' \subseteq pending
    BY <2>1
  <2>2. ASSUME NEW a, NEW row, pending' = {TriedRow(a, row, q) : q \in pending}
        PROVE  \E q \in pending : q.pos = p.pos /\ q.attempts = p.attempts
    <3>1. PICK q \in pending : p = TriedRow(a, row, q)
      BY <2>2
    <3> QED BY <1>0, <3>1 DEF TriedRow, Ops
  <2>3. ASSUME NEW a \in Accounts, OpDone(a),
               pending' = {FailedRow(First(flight[a].ops), q) : q \in pending}
        PROVE  \E q \in pending : q.pos = p.pos /\ q.attempts = p.attempts
    <3>1. PICK q \in pending : p = FailedRow(First(flight[a].ops), q)
      BY <2>3
    <3>2. q.acct = b
      BY <1>0, <1>1, <3>1 DEF FailedRow, Ops
    <3>3. First(flight[a].ops) \in flight[a].ops
      BY <2>3, HeadOp DEF OpDone, Order, InOrder
    <3>4. q.pos # First(flight[a].ops).pos
      BY <2>3, <3>2, <3>3 DEF Keys, OpKeys
    <3> QED BY <3>1, <3>4 DEF FailedRow
  <2>4. ASSUME NEW e \in edits, pending' = pending \cup {QueuedOp(e)}
        PROVE  p.pos = nextPos \/ p \in pending
    BY <2>4 DEF QueuedOp
  <2> QED BY <2>1, <2>2, <2>3, <2>4 DEF Shape, PendingMove
<1>2. ASSUME NEW o \in outbox', o.acct = b
      PROVE  o.pos = nextPos \/ \E q \in outbox : q.pos = o.pos /\ q.attempts = o.attempts
  <2>1. CASE outbox' \subseteq outbox
    BY <2>1
  <2>2. ASSUME NEW a, NEW row, outbox' = {TriedRow(a, row, q) : q \in outbox}
        PROVE  \E q \in outbox : q.pos = o.pos /\ q.attempts = o.attempts
    <3>1. PICK q \in outbox : o = TriedRow(a, row, q)
      BY <2>2
    <3> QED BY <1>0, <3>1 DEF TriedRow, Items
  <2>3. ASSUME NEW a \in Accounts, ItemDone(a),
               outbox' = {FailedRow(First(flight[a].items), q) : q \in outbox}
        PROVE  \E q \in outbox : q.pos = o.pos /\ q.attempts = o.attempts
    <3>1. PICK q \in outbox : o = FailedRow(First(flight[a].items), q)
      BY <2>3
    <3>2. q.acct = b
      BY <1>0, <1>2, <3>1 DEF FailedRow, Items
    <3>3. First(flight[a].items) \in flight[a].items
      BY <2>3, HeadItem DEF ItemDone, Order, InOrder
    <3>4. q.pos # First(flight[a].items).pos
      BY <2>3, <3>2, <3>3 DEF Keys, CopyKeys, SameItem
    <3> QED BY <3>1, <3>4 DEF FailedRow
  <2>4. ASSUME NEW s \in sends, outbox' = outbox \cup {QueuedRow(s)}
        PROVE  o.pos = nextPos \/ o \in outbox
    BY <2>4 DEF QueuedRow
  <2> QED BY <2>1, <2>2, <2>3, <2>4 DEF Shape, OutboxMove
<1> QED BY <1>1, <1>2 DEF SameAttempts

(* A flight that takes no new copies keeps them fresh.                     *)
LEMMA FreshKept ==
    ASSUME TypeOK, Keys, Fresh, Keys', NEW b \in Accounts, SameAttempts(b),
           flight'[b].ops \subseteq flight[b].ops, flight'[b].items \subseteq flight[b].items,
           flight'[b].pc \in {"ops", "opDone"} => flight[b].pc \in {"ops", "opDone"},
           flight'[b].pc \in {"items", "itemDone"} => flight[b].pc \in {"items", "itemDone"}
    PROVE  FreshCopies(b)'
<1> USE Positions
<1>1. ASSUME flight'[b].pc \in {"ops", "opDone"}, NEW i \in flight'[b].ops,
             NEW p \in pending', p.pos = i.pos
      PROVE  p.attempts = i.attempts
  <2>1. p.acct = b
    BY <1>1 DEF Keys, OpKeys
  <2>2. i \in flight[b].ops /\ i.pos < nextPos /\ i.pos \in Nat
    OBVIOUS
  <2>3. \E q \in pending : q.pos = p.pos /\ q.attempts = p.attempts
    BY <1>1, <2>1, <2>2 DEF SameAttempts
  <2> QED BY <1>1, <2>2, <2>3 DEF Fresh, FreshCopies
<1>2. ASSUME flight'[b].pc \in {"items", "itemDone"}, NEW i \in flight'[b].items,
             NEW o \in outbox', o.pos = i.pos
      PROVE  o.attempts = i.attempts
  <2>1. o.acct = b
    BY <1>2 DEF Keys, CopyKeys, SameItem
  <2>2. i \in flight[b].items /\ i.pos < nextPos /\ i.pos \in Nat
    OBVIOUS
  <2>3. \E q \in outbox : q.pos = o.pos /\ q.attempts = o.attempts
    BY <1>2, <2>1, <2>2 DEF SameAttempts
  <2> QED BY <1>2, <2>2, <2>3 DEF Fresh, FreshCopies
<1> QED BY <1>1, <1>2 DEF FreshCopies

(* A flight that starts copies the rows as they are.                       *)
LEMMA FreshStart ==
    ASSUME TypeOK, Keys, NEW a \in Accounts, Start(a)
    PROVE  FreshCopies(a)'
<1>0. flight \in [Accounts -> FlightTypes]
  BY Counters
<1>1. \/ flight'[a].pc = "idle"
      \/ flight'[a].pc = "ops" /\ flight'[a].ops \subseteq pending /\ pending' = pending
      \/ flight'[a].pc = "items" /\ flight'[a].items \subseteq outbox /\ outbox' = outbox
  <2>1. CASE SyncStart(a)
    BY <1>0, <2>1 DEF SyncStart, Idle, OpsOf
  <2>2. CASE \E p \in pending : RetryPending(a, p)
    BY <1>0, <2>2 DEF RetryPending, Idle
  <2>3. CASE \E o \in outbox : RetryOutbox(a, o)
    BY <1>0, <2>3 DEF RetryOutbox, Idle
  <2>4. CASE ReplayCheck(a)
    <3>1. CASE EndFlight(a)
      BY <1>0, <3>1 DEF EndFlight, Idle
    <3>2. CASE ~EndFlight(a)
      <4>1. /\ flight' = [flight EXCEPT ![a] = [Idle EXCEPT !.pc = "items", !.auto = TRUE,
                               !.items = ItemsOf(a), !.mark = nextPos]]
            /\ outbox' = outbox
        BY <2>4, <3>2 DEF ReplayCheck
      <4>2. flight'[a].pc = "items" /\ flight'[a].items = ItemsOf(a)
        BY <1>0, <4>1 DEF Idle
      <4> QED BY <4>1, <4>2 DEF ItemsOf
    <3> QED BY <3>1, <3>2
  <2> QED BY <2>1, <2>2, <2>3, <2>4 DEF Start
<1> QED BY <1>1 DEF FreshCopies, Keys, OpKeys, RowKeys

LEMMA FreshStep ==
    ASSUME TypeOK, Keys, Order, Fresh, [Next]_vars
    PROVE  Fresh'
<1>0. /\ TypeOK' /\ Shape /\ Keys' /\ flight \in [Accounts -> FlightTypes]
      /\ \A b \in Accounts : flight[b] \in FlightTypes
  BY TypeStep, StepShape, KeysStep, Counters
<1>1. ASSUME NEW b \in Accounts, flight'[b] = flight[b] PROVE FreshCopies(b)'
  <2>1. ~OpDone(b)
    BY <1>0, <1>1 DEF OpDone, EndFlight, Idle, FlightTypes
  <2>2. ~ItemDone(b)
    BY <1>0, <1>1 DEF ItemDone, EndFlight, Idle, FlightTypes
  <2> QED BY <1>0, <1>1, <2>1, <2>2, AttemptsKept, FreshKept
<1>2. ASSUME flight' = flight PROVE Fresh'
  BY <1>1, <1>2 DEF Fresh
<1>3. ASSUME NEW a \in Accounts, Start(a) PROVE Fresh'
  BY <1>1, <1>3, FreshStart, OtherFlights DEF Fresh
<1>4. ASSUME NEW a \in Accounts, OpDone(a) PROVE Fresh'
  <2> DEFINE op == First(flight[a].ops)
  <2>1. \/ flight'[a].pc \in {"idle", "check"}
        \/ /\ flight' = [flight EXCEPT ![a] = [flight[a] EXCEPT !.pc = "ops",
                                                             !.ops = @ \ {op}]]
           /\ pending' = {p \in pending : p.n # op.n} /\ outbox' = outbox
    <3>1. CASE EndFlight(a)
      BY <1>0, <3>1 DEF EndFlight, Idle
    <3>2. CASE ~EndFlight(a)
      <4>1. \/ /\ flight' = [flight EXCEPT ![a] = [flight[a] EXCEPT !.pc = "ops",
                                                                !.ops = @ \ {op}]]
               /\ pending' = {p \in pending : p.n # op.n} /\ outbox' = outbox
            \/ flight' = [flight EXCEPT ![a] = [flight[a] EXCEPT !.pc = "check",
                                                               !.ops = @ \ {op}]]
        BY <1>4, <3>2 DEF OpDone
      <4>2. ASSUME flight' = [flight EXCEPT ![a] = [flight[a] EXCEPT !.pc = "check",
                                                               !.ops = @ \ {op}]]
            PROVE  flight'[a].pc = "check"
        BY <1>0, <4>2 DEF FlightTypes
      <4> QED BY <4>1, <4>2
    <3> QED BY <3>1, <3>2
  <2>2. CASE flight'[a].pc \in {"idle", "check"}
    BY <1>1, <1>4, <2>2, OtherFlights DEF Fresh, FreshCopies
  <2>3. CASE /\ flight' = [flight EXCEPT ![a] = [flight[a] EXCEPT !.pc = "ops",
                                                             !.ops = @ \ {op}]]
             /\ pending' = {p \in pending : p.n # op.n} /\ outbox' = outbox
    <3>1. SameAttempts(a)
      BY <2>3 DEF SameAttempts
    <3>2. /\ flight'[a].pc = "ops" /\ flight'[a].ops \subseteq flight[a].ops
          /\ flight'[a].items = flight[a].items
      BY <1>0, <2>3 DEF FlightTypes
    <3>3. flight[a].pc = "opDone"
      BY <1>4 DEF OpDone
    <3>4. FreshCopies(a)'
      BY <1>0, <3>1, <3>2, <3>3, FreshKept
    <3> QED BY <1>1, <1>4, <3>4, OtherFlights DEF Fresh
  <2> QED BY <2>1, <2>2, <2>3
<1>5. ASSUME NEW a \in Accounts, ItemDone(a) PROVE Fresh'
  <2> DEFINE item == First(flight[a].items)
  <2>1. CASE EndFlight(a)
    <3>1. flight'[a].pc = "idle"
      BY <1>0, <2>1 DEF EndFlight, Idle
    <3> QED BY <1>1, <1>5, <3>1, OtherFlights DEF Fresh, FreshCopies
  <2>2. CASE ~EndFlight(a)
    <3>1. /\ flight' = [flight EXCEPT ![a] = [flight[a] EXCEPT !.pc = "items",
                                                             !.items = @ \ {item}]]
          /\ pending' = pending /\ outbox' = outbox \ Queued(a, item)
      BY <1>5, <2>2 DEF ItemDone
    <3>2. SameAttempts(a)
      BY <3>1 DEF SameAttempts
    <3>3. /\ flight'[a].pc = "items" /\ flight'[a].items \subseteq flight[a].items
          /\ flight'[a].ops = flight[a].ops
      BY <1>0, <3>1 DEF FlightTypes
    <3>4. flight[a].pc = "itemDone"
      BY <1>5 DEF ItemDone
    <3>5. FreshCopies(a)'
      BY <1>0, <3>2, <3>3, <3>4, FreshKept
    <3> QED BY <1>1, <1>5, <3>5, OtherFlights DEF Fresh
  <2> QED BY <2>1, <2>2
<1>6. ASSUME NEW a \in Accounts, ReplayEnd(a) PROVE Fresh'
  <2>1. flight'[a].pc = "idle"
    BY <1>0, <1>6 DEF ReplayEnd, EndFlight, Idle
  <2> QED BY <1>1, <1>6, <2>1, OtherFlights DEF Fresh, FreshCopies
<1>7. ASSUME NEW a \in Accounts, NEW res \in Outcomes, PerformOp(a, res) \/ DeliverItem(a, res)
      PROVE  Fresh'
  <2>1. /\ flight'[a].ops = flight[a].ops /\ flight'[a].items = flight[a].items
        /\ \/ flight'[a].pc = "opDone" /\ flight[a].pc = "ops"
           \/ flight'[a].pc = "itemDone" /\ flight[a].pc = "items"
    BY <1>0, <1>7 DEF PerformOp, DeliverItem, FlightTypes
  <2>2. ~OpDone(a) /\ ~ItemDone(a)
    BY <1>7 DEF PerformOp, DeliverItem, OpDone, ItemDone
  <2>3. FreshCopies(a)'
    BY <1>0, <2>1, <2>2, AttemptsKept, FreshKept
  <2> QED BY <1>1, <1>7, <2>3, OtherFlights DEF Fresh
<1>8. CASE Crash
  <2>1. \A b \in Accounts : flight'[b].pc = "idle"
    BY <1>8 DEF Crash, Idle
  <2> QED BY <2>1 DEF Fresh, FreshCopies
<1>9. ASSUME NEW a \in Accounts, DraftStep(a) \/ SendStep(a) \/
                 \E p \in pending : DiscardPending(a, p)
      PROVE  flight' = flight
  BY <1>9, DraftFrame, SendFrame DEF DiscardPending
<1>10. ASSUME (\E s \in sends : SendFinish(s)) \/ (\E e \in edits : EditFinish(e)) \/ Quiet
       PROVE  flight' = flight
  BY <1>10 DEF SendFinish, EditFinish, Quiet
<1> QED BY <1>2, <1>3, <1>4, <1>5, <1>6, <1>7, <1>8, <1>9, <1>10, StepCases

(* A row that a flight is about to have an outcome for is of its account.  *)
LEMMA TriedRows ==
    ASSUME TypeOK, Keys, Order, NEW a \in Accounts
    PROVE  /\ \A p \in pending : TryingOp(a, p) => p.acct = a
           /\ \A o \in outbox : TryingItem(a, o) => o.acct = a
<1>1. flight[a].pc = "opDone" => First(flight[a].ops) \in flight[a].ops
  BY HeadOp DEF Order, InOrder
<1>2. flight[a].pc = "itemDone" => First(flight[a].items) \in flight[a].items
  BY HeadItem DEF Order, InOrder
<1> QED BY <1>1, <1>2 DEF TryingOp, TryingItem, Keys, OpKeys, CopyKeys, SameItem

(* A flight waits for its server until the answer is recorded.             *)
LEMMA Awaiting ==
    ASSUME TypeOK, [Next]_vars, NEW b \in Accounts, ~Crash
    PROVE  \/ flight'[b] = flight[b]
           \/ (OpDone(b) /\ flight[b].pc = "opDone")
           \/ (ItemDone(b) /\ flight[b].pc = "itemDone")
           \/ flight[b].pc \notin {"opDone", "itemDone"}
<1>1. ASSUME NEW a \in Accounts,
             \/ Start(a) \/ OpDone(a) \/ ItemDone(a) \/ ReplayEnd(a)
             \/ \E res \in Outcomes : PerformOp(a, res) \/ DeliverItem(a, res)
      PROVE  \/ flight'[b] = flight[b]
             \/ (OpDone(b) /\ flight[b].pc = "opDone")
             \/ (ItemDone(b) /\ flight[b].pc = "itemDone")
             \/ flight[b].pc \notin {"opDone", "itemDone"}
  <2>1. CASE b # a
    BY <1>1, <2>1, OtherFlights
  <2>2. Start(a) \/ ReplayEnd(a) => flight[a].pc \notin {"opDone", "itemDone"}
    BY DEF Start, SyncStart, RetryPending, RetryOutbox, ReplayCheck, ReplayEnd
  <2>3. (OpDone(a) => flight[a].pc = "opDone") /\ (ItemDone(a) => flight[a].pc = "itemDone")
    BY DEF OpDone, ItemDone
  <2>4. ASSUME NEW res, PerformOp(a, res) \/ DeliverItem(a, res)
        PROVE  flight[a].pc \notin {"opDone", "itemDone"}
    BY <2>4 DEF PerformOp, DeliverItem
  <2>5. CASE b = a
    <3>1. (OpDone(a) => OpDone(b)) /\ (ItemDone(a) => ItemDone(b))
      BY <2>5 DEF OpDone, ItemDone, EndFlight, Queued
    <3>2. flight[b].pc = flight[a].pc
      BY <2>5
    <3> QED BY <1>1, <2>2, <2>3, <2>4, <3>1, <3>2
  <2> QED BY <2>1, <2>5
<1>2. ASSUME NEW a \in Accounts, DraftStep(a) \/ SendStep(a) \/
                 \E p \in pending : DiscardPending(a, p)
      PROVE  flight' = flight
  BY <1>2, DraftFrame, SendFrame DEF DiscardPending
<1>3. ASSUME (\E s \in sends : SendFinish(s)) \/ (\E e \in edits : EditFinish(e)) \/ Quiet
      PROVE  flight' = flight
  BY <1>3 DEF SendFinish, EditFinish, Quiet
<1> QED BY <1>1, <1>2, <1>3, StepCases

LEMMA StillTrying ==
    ASSUME TypeOK, [Next]_vars, NEW b \in Accounts, ~Crash
    PROVE  /\ OpDone(b) \/ \A p : TryingOp(b, p) => TryingOp(b, p)'
           /\ ItemDone(b) \/ \A o : TryingItem(b, o) => TryingItem(b, o)'
<1>1. ASSUME flight'[b] = flight[b]
      PROVE  \A p : (TryingOp(b, p) => TryingOp(b, p)') /\ (TryingItem(b, p) => TryingItem(b, p)')
  BY <1>1 DEF TryingOp, TryingItem
<1> QED BY <1>1, Awaiting DEF TryingOp, TryingItem

(* The head a flight goes on to try is a row that no flight is trying.     *)
LEMMA OpTriedOnce ==
    ASSUME TypeOK, Keys, Order, Fresh, Tries, NEW a \in Accounts, NEW res, PerformOp(a, res),
           NEW q \in pending, q.pos = First(flight[a].ops).pos
    PROVE  q.tries <= q.attempts + crashes /\ q.attempts = First(flight[a].ops).attempts
<1>1. flight[a].pc = "ops" /\ First(flight[a].ops) \in flight[a].ops
  BY NotBlocked, HeadOp DEF PerformOp
<1>2. q.acct = a /\ q.attempts = First(flight[a].ops).attempts
  BY <1>1 DEF Keys, OpKeys, Fresh, FreshCopies
<1>3. \A b \in Accounts : ~TryingOp(b, q)
  BY <1>1, <1>2, TriedRows DEF TryingOp
<1>4. OpTries(q)
  BY DEF Tries
<1> QED BY <1>2, <1>3, <1>4 DEF OpTries

LEMMA ItemTriedOnce ==
    ASSUME TypeOK, Keys, Order, Fresh, Tries, NEW a \in Accounts, NEW res, DeliverItem(a, res),
           NEW o \in outbox, o.pos = First(flight[a].items).pos
    PROVE  o.tries <= o.attempts + crashes /\ o.attempts = First(flight[a].items).attempts
<1>1. flight[a].pc = "items" /\ First(flight[a].items) \in flight[a].items
  BY NotBlocked, HeadItem DEF DeliverItem
<1>2. o.acct = a /\ o.attempts = First(flight[a].items).attempts
  BY <1>1 DEF Keys, CopyKeys, SameItem, Fresh, FreshCopies
<1>3. \A b \in Accounts : ~TryingItem(b, o)
  BY <1>1, <1>2, TriedRows DEF TryingItem
<1>4. ItemTries(o)
  BY DEF Tries
<1> QED BY <1>2, <1>3, <1>4 DEF ItemTries

LEMMA OpTriesStep ==
    ASSUME TypeOK, Keys, Order, Fresh, Tries, [Next]_vars, Shape, NEW p \in pending',
           TypeOK'
    PROVE  OpTries(p)' /\ p.tries <= Limit + crashes'
<1> USE QueueAssumption, Counters
<1>0. /\ crashes' \in Nat /\ crashes' >= crashes
      /\ \A q \in pending : /\ q \in Ops /\ q.tries \in Nat /\ q.attempts \in Nat /\ OpTries(q)
                            /\ q.tries <= Limit + crashes
  BY DEF TypeOK, Shape, Growing, Ops, Tries, CeilingHolds
<1>1. CASE Crash
  <2>1. p \in pending /\ crashes' = crashes + 1
    BY <1>1 DEF Crash, persisted
  <2> QED BY <1>0, <2>1 DEF OpTries
<1>2. ASSUME ~Crash, p \in pending, \A b \in Accounts : TryingOp(b, p) => ~OpDone(b)
      PROVE  OpTries(p)' /\ p.tries <= Limit + crashes'
  <2>1. \A b \in Accounts : TryingOp(b, p) => TryingOp(b, p)'
    BY <1>2, StillTrying
  <2> QED BY <1>0, <1>2, <2>1 DEF OpTries
<1>3. ASSUME ~Crash, NEW a \in Accounts, OpDone(a), p \in pending, TryingOp(a, p)
      PROVE  FALSE
  <2> DEFINE op == First(flight[a].ops)
  <2>1. op \in flight[a].ops /\ p.pos = op.pos
    BY <1>3, HeadOp DEF TryingOp, OpDone, Order, InOrder
  <2>2. p.n = op.n
    BY <1>3, <2>1 DEF Keys, OpKeys
  <2>3. CASE pending' = {q \in pending : q.n # op.n}
    BY <2>2, <2>3
  <2>4. CASE pending' = Failed(pending, op)
    <3>1. PICK q \in pending : p = FailedRow(op, q)
      BY <2>4 DEF Failed, FailedRow
    <3>2. q.pos = p.pos
      BY <1>0, <3>1 DEF FailedRow, Ops
    <3>3. q = p
      BY <1>3, <3>2 DEF Keys, OpKeys
    <3>4. FailedRow(op, p).attempts = p.attempts + 1
      BY <1>0, <1>3, <2>1 DEF FailedRow, Ops
    <3> QED BY <1>0, <1>3, <3>1, <3>3, <3>4
  <2> QED BY <1>3, <2>3, <2>4 DEF OpDone
<1>4. CASE ~Crash /\ p \in pending
  BY <1>2, <1>3, <1>4
<1>5. ASSUME NEW a \in Accounts, NEW res \in Outcomes, PerformOp(a, res), p \notin pending,
             pending' = {TriedRow(a, First(flight[a].ops), q) : q \in pending}
      PROVE  OpTries(p)' /\ p.tries <= Limit + crashes'
  <2> DEFINE op == First(flight[a].ops)
  <2>1. PICK q \in pending : p = TriedRow(a, op, q)
    BY <1>5
  <2>2. q.pos = op.pos /\ flight[a].auto /\ p = [q EXCEPT !.tries = @ + 1]
    BY <1>5, <2>1 DEF TriedRow
  <2>3. p.pos = op.pos /\ p.tries = q.tries + 1 /\ p.attempts = q.attempts
    BY <1>0, <2>2 DEF Ops
  <2>4. q.tries <= q.attempts + crashes /\ q.attempts = op.attempts
    BY <1>5, <2>2, OpTriedOnce
  <2>5. ~(op.attempts >= Limit)
    BY <1>5, <2>2, NotBlocked DEF PerformOp
  <2>6. flight'[a].pc = "opDone" /\ flight'[a].ops = flight[a].ops
        /\ flight'[a].auto = flight[a].auto /\ crashes' = crashes
    BY <1>5 DEF PerformOp, FlightTypes, frame
  <2>7. TryingOp(a, p)'
    BY <2>2, <2>3, <2>6 DEF TryingOp
  <2> HIDE DEF op
  <2> QED BY <1>0, <2>3, <2>4, <2>5, <2>6, <2>7 DEF OpTries
<1>6. ASSUME NEW a \in Accounts, OpDone(a), p \notin pending,
             pending' = {FailedRow(First(flight[a].ops), q) : q \in pending}
      PROVE  OpTries(p)' /\ p.tries <= Limit + crashes'
  <2>1. PICK q \in pending : p = FailedRow(First(flight[a].ops), q)
    BY <1>6
  <2>2. p.tries = q.tries /\ p.attempts = q.attempts + 1
    BY <1>0, <1>6, <2>1 DEF FailedRow, Ops
  <2> QED BY <1>0, <2>1, <2>2 DEF OpTries
<1>7. ASSUME NEW e \in edits, p = QueuedOp(e)
      PROVE  OpTries(p)' /\ p.tries <= Limit + crashes'
  <2>1. p.tries = 0 /\ p.attempts = 0
    BY <1>7 DEF QueuedOp
  <2>2. crashes' \in Nat /\ Limit \in Nat
    BY <1>0
  <2>3. \A m, n \in Nat : 0 <= m + n
    OBVIOUS
  <2>4. p.tries <= p.attempts + crashes' /\ p.tries <= Limit + crashes'
    BY <2>1, <2>2, <2>3
  <2> QED BY <2>4 DEF OpTries
<1> QED BY <1>1, <1>4, <1>5, <1>6, <1>7 DEF Shape, PendingMove

LEMMA ItemTriesStep ==
    ASSUME TypeOK, Keys, Order, Fresh, Tries, [Next]_vars, Shape, NEW o \in outbox',
           TypeOK'
    PROVE  ItemTries(o)' /\ o.tries <= Limit + crashes'
<1> USE QueueAssumption, Counters
<1>0. /\ crashes' \in Nat /\ crashes' >= crashes
      /\ \A q \in outbox : /\ q \in Items /\ q.tries \in Nat /\ q.attempts \in Nat
                           /\ ItemTries(q) /\ q.tries <= Limit + crashes
  BY DEF TypeOK, Shape, Growing, Items, Tries, CeilingHolds
<1>1. CASE Crash
  <2>1. o \in outbox /\ crashes' = crashes + 1
    BY <1>1 DEF Crash, persisted
  <2> QED BY <1>0, <2>1 DEF ItemTries
<1>2. ASSUME ~Crash, o \in outbox, \A b \in Accounts : TryingItem(b, o) => ~ItemDone(b)
      PROVE  ItemTries(o)' /\ o.tries <= Limit + crashes'
  <2>1. \A b \in Accounts : TryingItem(b, o) => TryingItem(b, o)'
    BY <1>2, StillTrying
  <2> QED BY <1>0, <1>2, <2>1 DEF ItemTries
<1>3. ASSUME ~Crash, NEW a \in Accounts, ItemDone(a), o \in outbox, TryingItem(a, o)
      PROVE  FALSE
  <2> DEFINE item == First(flight[a].items)
  <2>1. item \in flight[a].items /\ o.pos = item.pos
    BY <1>3, HeadItem DEF TryingItem, ItemDone, Order, InOrder
  <2>2. o.sid = item.sid /\ o.acct = a
    BY <1>3, <2>1 DEF Keys, CopyKeys, SameItem
  <2>3. CASE outbox' = outbox \ Queued(a, item)
    BY <1>3, <2>2, <2>3 DEF Queued, Keys, RowKeys
  <2>4. CASE outbox' = Failed(outbox, item)
    <3>1. PICK q \in outbox : o = FailedRow(item, q)
      BY <2>4 DEF Failed, FailedRow
    <3>2. q.pos = o.pos
      BY <1>0, <3>1 DEF FailedRow, Items
    <3>3. q = o
      BY <1>3, <3>2 DEF Keys, RowKeys
    <3>4. FailedRow(item, o).attempts = o.attempts + 1
      BY <1>0, <1>3, <2>1 DEF FailedRow, Items
    <3> QED BY <1>0, <1>3, <3>1, <3>3, <3>4
  <2> QED BY <1>3, <2>3, <2>4 DEF ItemDone
<1>4. CASE ~Crash /\ o \in outbox
  BY <1>2, <1>3, <1>4
<1>5. ASSUME NEW a \in Accounts, NEW res \in Outcomes, DeliverItem(a, res), o \notin outbox,
             outbox' = {TriedRow(a, First(flight[a].items), q) : q \in outbox}
      PROVE  ItemTries(o)' /\ o.tries <= Limit + crashes'
  <2> DEFINE item == First(flight[a].items)
  <2>1. PICK q \in outbox : o = TriedRow(a, item, q)
    BY <1>5
  <2>2. q.pos = item.pos /\ flight[a].auto /\ o = [q EXCEPT !.tries = @ + 1]
    BY <1>5, <2>1 DEF TriedRow
  <2>3. o.pos = item.pos /\ o.tries = q.tries + 1 /\ o.attempts = q.attempts
    BY <1>0, <2>2 DEF Items
  <2>4. q.tries <= q.attempts + crashes /\ q.attempts = item.attempts
    BY <1>5, <2>2, ItemTriedOnce
  <2>5. ~(item.attempts >= Limit)
    BY <1>5, <2>2, NotBlocked DEF DeliverItem
  <2>6. flight'[a].pc = "itemDone" /\ flight'[a].items = flight[a].items
        /\ flight'[a].auto = flight[a].auto /\ crashes' = crashes
    BY <1>5 DEF DeliverItem, FlightTypes, frame
  <2>7. TryingItem(a, o)'
    BY <2>2, <2>3, <2>6 DEF TryingItem
  <2> HIDE DEF item
  <2> QED BY <1>0, <2>3, <2>4, <2>5, <2>6, <2>7 DEF ItemTries
<1>6. ASSUME NEW a \in Accounts, ItemDone(a), o \notin outbox,
             outbox' = {FailedRow(First(flight[a].items), q) : q \in outbox}
      PROVE  ItemTries(o)' /\ o.tries <= Limit + crashes'
  <2>1. PICK q \in outbox : o = FailedRow(First(flight[a].items), q)
    BY <1>6
  <2>2. o.tries = q.tries /\ o.attempts = q.attempts + 1
    BY <1>0, <1>6, <2>1 DEF FailedRow, Items
  <2> QED BY <1>0, <2>1, <2>2 DEF ItemTries
<1>7. ASSUME NEW s \in sends, o = QueuedRow(s)
      PROVE  ItemTries(o)' /\ o.tries <= Limit + crashes'
  <2>1. o.tries = 0 /\ o.attempts = 0
    BY <1>7 DEF QueuedRow
  <2>2. crashes' \in Nat /\ Limit \in Nat
    BY <1>0
  <2>3. \A m, n \in Nat : 0 <= m + n
    OBVIOUS
  <2>4. o.tries <= o.attempts + crashes' /\ o.tries <= Limit + crashes'
    BY <2>1, <2>2, <2>3
  <2> QED BY <2>4 DEF ItemTries
<1> QED BY <1>1, <1>4, <1>5, <1>6, <1>7 DEF Shape, OutboxMove

LEMMA TriesStep ==
    ASSUME TypeOK, Keys, Order, Fresh, Tries, [Next]_vars
    PROVE  Tries'
<1>1. TypeOK' /\ Shape
  BY TypeStep, StepShape
<1> QED BY <1>1, OpTriesStep, ItemTriesStep DEF Tries, CeilingHolds

-----------------------------------------------------------------------------
(***************************************************************************)
(* No message is sent twice.                                               *)
(***************************************************************************)
(* What a submission does to the counts of its own message, and that it    *)
(* does nothing to those of others.                                        *)
Submitted(sid, res) ==
    \/ delivered' = [delivered EXCEPT ![sid] = @ + 1] /\ doubts' = doubts /\ res = "accepted"
    \/ delivered' = delivered /\ doubts' = doubts /\ res # "accepted"
    \/ /\ delivered' = [delivered EXCEPT ![sid] = @ + 1]
       /\ doubts' = [doubts EXCEPT ![sid] = @ + 1] /\ res # "accepted"

LEMMA SubmitCounts ==
    ASSUME TypeOK, NEW sid \in 1..MaxSends, NEW res, Submitted(sid, res)
    PROVE  /\ \A s \in 1..MaxSends : s # sid =>
                 delivered'[s] = delivered[s] /\ doubts'[s] = doubts[s]
           /\ Clean(sid) => /\ res # "accepted" => Clean(sid)'
                            /\ delivered'[sid] <= 1 + doubts'[sid]
<1>1. delivered \in [1..MaxSends -> Nat] /\ doubts \in [1..MaxSends -> Nat]
  BY DEF TypeOK
<1>2. Submitted(sid, res)
  OBVIOUS
<1>3. \A s \in 1..MaxSends : s # sid => delivered'[s] = delivered[s] /\ doubts'[s] = doubts[s]
  BY <1>1, <1>2 DEF Submitted
<1>4. \/ delivered'[sid] = delivered[sid] + 1 /\ doubts'[sid] = doubts[sid] /\ res = "accepted"
      \/ delivered'[sid] = delivered[sid] /\ doubts'[sid] = doubts[sid]
      \/ delivered'[sid] = delivered[sid] + 1 /\ doubts'[sid] = doubts[sid] + 1
  BY <1>1, <1>2 DEF Submitted
<1>5. delivered[sid] \in Nat /\ doubts[sid] \in Nat
  BY <1>1
<1>6. Clean(sid) => /\ res # "accepted" => Clean(sid)'
                    /\ delivered'[sid] <= 1 + doubts'[sid]
  BY <1>4, <1>5 DEF Clean
<1> QED BY <1>3, <1>6

(* The submissions a step can be about are among those counted.            *)
LEMMA Sids ==
    ASSUME TypeOK, Keys
    PROVE  /\ \A s \in sends : s.sid \in 1..MaxSends /\ s.sid < nextSid
           /\ \A o \in outbox : o.sid \in 1..MaxSends /\ o.sid < nextSid
           /\ \A a \in Accounts : \A i \in flight[a].items :
                 i.sid \in 1..MaxSends /\ i.sid < nextSid
           /\ \A o \in outbox : o.acct \in accounts /\ o.acct \in Accounts
BY DEF Keys, SendKeys, RowKeys, CopyKeys, Counted, TypeOK

LEMMA DuplicatesSend ==
    ASSUME TypeOK, Keys, Duplicates, NEW a \in Accounts, SendStep(a), TypeOK'
    PROVE  Duplicates'
<1>1. PICK id \in 0..(MaxIds + MaxSends), txt \in 1..MaxTexts, i \in Idents, res \in Outcomes :
          SendStart(a, id, txt, i, res)
  BY DEF SendStep
<1> DEFINE body == [txt |-> txt, ident |-> i]
<1> DEFINE new == [sid |-> nextSid, acct |-> a, id |-> id, body |-> body,
                   snap |-> FindDraft(id), res |-> res]
<1>2. /\ Submit(nextSid, body, res) /\ sends' = sends \cup {new} /\ nextSid <= MaxSends
      /\ nextSid' = nextSid + 1 /\ outbox' = outbox /\ flight' = flight
  BY <1>1 DEF SendStart, persisted
<1>3. new.sid = nextSid /\ new.res = res
  OBVIOUS
<1>4. PICK sid \in 1..MaxSends : sid = nextSid
  BY <1>2, QueueAssumption DEF TypeOK, Keys, SendKeys
<1> HIDE DEF new, body
<1>5. delivered[sid] = 0 /\ doubts[sid] \in Nat
  <2>1. delivered[sid] = 0
    BY <1>4 DEF Duplicates
  <2>2. doubts[sid] \in Nat
    BY <1>4 DEF TypeOK
  <2> QED BY <2>1, <2>2
<1>6. Clean(sid)
  BY <1>5 DEF Clean
<1>7. /\ \A s \in 1..MaxSends : s # sid =>
            delivered'[s] = delivered[s] /\ doubts'[s] = doubts[s]
      /\ res # "accepted" => Clean(sid)'
      /\ delivered'[sid] <= 1 + doubts'[sid]
  <2>1. Submitted(sid, res)
    BY <1>2, <1>4 DEF Submit, Submitted
  <2> QED BY <1>4, <1>6, <2>1, SubmitCounts
<1>8. \A s \in 1..MaxSends : s # sid => (Clean(s) <=> Clean(s)')
  BY <1>7 DEF Clean
<1>9. DuplicatesNeedDoubt'
  BY <1>7 DEF Duplicates, DuplicatesNeedDoubt
<1>10. \A s \in 1..MaxSends : s >= nextSid' => delivered'[s] = 0
  BY <1>2, <1>4, <1>7 DEF Duplicates
<1>11. \A s \in sends' : s.res # "accepted" => Clean(s.sid)'
  <2>1. ASSUME NEW s \in sends, s.res # "accepted" PROVE Clean(s.sid)'
    <3>1. s.sid \in 1..MaxSends /\ s.sid # sid /\ Clean(s.sid)
      BY <1>4, <2>1, Sids DEF Duplicates
    <3> QED BY <1>8, <3>1
  <2> QED BY <1>2, <1>3, <1>4, <1>7, <2>1
<1>12. \A o \in outbox' : Clean(o.sid)' \/ Accepted(o.acct, o.sid)'
  BY <1>2, <1>4, <1>8, Sids DEF Duplicates, Accepted
<1>13. \A b \in Accounts : \A j \in flight'[b].items : Clean(j.sid)' \/ Accepted(b, j.sid)'
  BY <1>2, <1>4, <1>8, Sids DEF Duplicates, Accepted
<1> QED BY <1>9, <1>10, <1>11, <1>12, <1>13 DEF Duplicates

LEMMA DuplicatesDeliver ==
    ASSUME TypeOK, Keys, Duplicates, NEW a \in Accounts, NEW res \in Outcomes,
           DeliverItem(a, res), TypeOK'
    PROVE  Duplicates'
<1>0. flight \in [Accounts -> FlightTypes] /\ flight[a] \in FlightTypes /\ nextSid \in Nat
      /\ \A q \in outbox : q \in Items
  BY Counters DEF TypeOK
<1>1. PICK item : item = First(flight[a].items)
  OBVIOUS
<1>2. /\ flight[a].pc = "items" /\ Submit(item.sid, item.body, res)
      /\ outbox' = Tried(outbox, a, item)
      /\ flight' = [flight EXCEPT ![a] = [flight[a] EXCEPT !.pc = "itemDone", !.res = res]]
      /\ sends' = sends /\ nextSid' = nextSid
  BY <1>1 DEF DeliverItem, frame
<1>3. item \in flight[a].items
  BY <1>1, NotBlocked, HeadItem DEF DeliverItem
<1>4. item.sid \in 1..MaxSends /\ item.sid < nextSid
  BY <1>3, Sids
<1>5. Clean(item.sid)
  BY <1>2, <1>3 DEF Duplicates, Accepted
<1>6. /\ \A s \in 1..MaxSends : s # item.sid =>
            delivered'[s] = delivered[s] /\ doubts'[s] = doubts[s]
      /\ res # "accepted" => Clean(item.sid)'
      /\ delivered'[item.sid] <= 1 + doubts'[item.sid]
  <2>1. Submitted(item.sid, res)
    BY <1>2 DEF Submit, Submitted
  <2> QED BY <1>4, <1>5, <2>1, SubmitCounts
<1>7. \A s \in 1..MaxSends : s # item.sid => (Clean(s) <=> Clean(s)')
  BY <1>6 DEF Clean
<1>8. /\ flight'[a].pc = "itemDone" /\ flight'[a].res = res
      /\ flight'[a].items = flight[a].items
      /\ \A b \in Accounts : b # a => flight'[b] = flight[b]
  BY <1>0, <1>2 DEF FlightTypes
<1>9. Clean(item.sid)' \/ Accepted(a, item.sid)'
  BY <1>1, <1>6, <1>8 DEF Accepted
<1>10. \A b \in Accounts : \A s : Accepted(b, s) => Accepted(b, s)' /\ b # a
  BY <1>2, <1>8 DEF Accepted
<1>11. DuplicatesNeedDoubt'
  BY <1>6 DEF Duplicates, DuplicatesNeedDoubt
<1>12. \A s \in 1..MaxSends : s >= nextSid' => delivered'[s] = 0
  BY <1>0, <1>2, <1>4, <1>6 DEF Duplicates
<1>13. \A s \in sends' : s.res # "accepted" => Clean(s.sid)'
  <2>1. \A s \in sends : s.sid # item.sid
    BY <1>3 DEF Keys, CopyKeys
  <2> QED BY <1>2, <1>7, <2>1, Sids DEF Duplicates
<1>14. ASSUME NEW o \in outbox' PROVE Clean(o.sid)' \/ Accepted(o.acct, o.sid)'
  <2>1. PICK q \in outbox : SameItem(o, q)
    <3>1. PICK q \in outbox : o = TriedRow(a, item, q)
      BY <1>2 DEF Tried, TriedRow
    <3> QED BY <1>0, <3>1 DEF TriedRow, SameItem, Items
  <2>2. o.sid = q.sid /\ o.acct = q.acct
    BY <2>1 DEF SameItem
  <2>3. CASE q.sid = item.sid
    <3>1. q.acct = a
      BY <1>3, <2>3 DEF Keys, CopyKeys, SameItem
    <3> QED BY <1>9, <2>2, <2>3, <3>1
  <2>4. CASE q.sid # item.sid
    <3>1. q.sid \in 1..MaxSends /\ q.acct \in Accounts
      BY Sids
    <3>2. Clean(q.sid) \/ Accepted(q.acct, q.sid)
      BY DEF Duplicates
    <3>3. Clean(q.sid)' \/ Accepted(q.acct, q.sid)'
      BY <1>7, <1>10, <2>4, <3>1, <3>2
    <3> QED BY <2>2, <3>3
  <2> QED BY <2>3, <2>4
<1>15. ASSUME NEW b \in Accounts, NEW i \in flight'[b].items
       PROVE  Clean(i.sid)' \/ Accepted(b, i.sid)'
  <2>1. i \in flight[b].items
    BY <1>8
  <2>2. CASE i.sid = item.sid
    <3>1. b = a
      BY <1>3, <2>1, <2>2 DEF Keys, CopyKeys
    <3> QED BY <1>9, <2>2, <3>1
  <2>3. CASE i.sid # item.sid
    <3>1. i.sid \in 1..MaxSends
      BY <2>1, Sids
    <3>2. Clean(i.sid) \/ Accepted(b, i.sid)
      BY <2>1 DEF Duplicates
    <3> QED BY <1>7, <1>10, <2>3, <3>1, <3>2
  <2> QED BY <2>2, <2>3
<1> QED BY <1>11, <1>12, <1>13, <1>14, <1>15 DEF Duplicates

LEMMA DuplicatesCrash ==
    ASSUME TypeOK, Keys, Duplicates, Crash, TypeOK'
    PROVE  Duplicates'
<1>1. /\ delivered' = delivered /\ outbox' = outbox /\ sends' = {} /\ nextSid' = nextSid
      /\ \A b \in Accounts : flight'[b].items = {}
  BY DEF Crash, persisted, server, Idle
<1>2. ASSUME NEW s \in 1..MaxSends
      PROVE  /\ doubts'[s] \in {doubts[s], doubts[s] + 1}
             /\ (\E a \in Accounts : Accepted(a, s)) => doubts'[s] = doubts[s] + 1
             /\ delivered[s] \in Nat /\ doubts[s] \in Nat
  BY DEF Crash, Accepted, TypeOK
<1>3. ASSUME NEW s \in 1..MaxSends PROVE Clean(s) => Clean(s)'
  BY <1>1, <1>2 DEF Clean
<1>4. ASSUME NEW s \in 1..MaxSends, NEW a \in Accounts, Accepted(a, s) PROVE Clean(s)'
  <2>1. delivered[s] <= 1 + doubts[s]
    BY DEF Duplicates, DuplicatesNeedDoubt
  <2> QED BY <1>1, <1>2, <1>4, <2>1 DEF Clean
<1>5. ASSUME NEW s \in 1..MaxSends PROVE delivered'[s] <= 1 + doubts'[s]
  <2>1. delivered[s] <= 1 + doubts[s]
    BY DEF Duplicates, DuplicatesNeedDoubt
  <2> QED BY <1>1, <1>2, <2>1
<1>6. \A o \in outbox' : Clean(o.sid)'
  BY <1>1, <1>3, <1>4, Sids DEF Duplicates
<1> QED BY <1>1, <1>5, <1>6 DEF Duplicates, DuplicatesNeedDoubt

(* The record of a delivery removes the row it is about.                   *)
LEMMA DuplicatesDone ==
    ASSUME TypeOK, Keys, Order, Duplicates, NEW a \in Accounts, ItemDone(a), TypeOK', Shape
    PROVE  /\ \A o \in outbox' : Clean(o.sid) \/ Accepted(o.acct, o.sid)'
           /\ \A b \in Accounts : \A i \in flight'[b].items : Clean(i.sid) \/ Accepted(b, i.sid)'
<1>0. flight \in [Accounts -> FlightTypes] /\ flight[a] \in FlightTypes
      /\ \A q \in outbox : q \in Items
  BY Counters DEF TypeOK
<1>1. PICK item : item = First(flight[a].items)
  OBVIOUS
<1>2. item \in flight[a].items /\ flight[a].pc = "itemDone"
  BY <1>1, HeadItem DEF ItemDone, Order, InOrder
<1>3. \A b \in Accounts : b # a => flight'[b] = flight[b]
  BY OtherFlights
<1>4. \A b \in Accounts : \A s : b # a /\ Accepted(b, s) => Accepted(b, s)'
  BY <1>3 DEF Accepted
<1>5. ASSUME NEW o \in outbox' PROVE Clean(o.sid) \/ Accepted(o.acct, o.sid)'
  <2>1. CASE flight[a].res = "error"
    <3>1. PICK q \in outbox : o = FailedRow(item, q)
      BY <1>1, <2>1 DEF ItemDone, Failed, FailedRow
    <3>2. o.sid = q.sid /\ o.acct = q.acct
      BY <1>0, <3>1 DEF FailedRow, Items
    <3>3. Clean(q.sid) \/ Accepted(q.acct, q.sid)
      BY DEF Duplicates
    <3>4. ~Accepted(a, q.sid)
      BY <2>1 DEF Accepted
    <3>5. Clean(q.sid) \/ Accepted(q.acct, q.sid)'
      <4>1. CASE q.acct = a
        BY <3>3, <3>4, <4>1 DEF Accepted
      <4>2. CASE q.acct # a
        BY <1>4, <3>3, <4>2, Sids
      <4> QED BY <4>1, <4>2
    <3> QED BY <3>2, <3>5
  <2>2. CASE flight[a].res # "error"
    <3>1. o \in outbox /\ o \notin Queued(a, item)
      BY <1>1, <2>2 DEF ItemDone
    <3>2. Clean(o.sid) \/ Accepted(o.acct, o.sid)
      BY <3>1 DEF Duplicates
    <3>3. CASE o.acct = a
      <4>1. o.sid # item.sid
        BY <3>1, <3>3, Sids DEF Queued
      <4> QED BY <1>1, <3>2, <3>3, <4>1 DEF Accepted
    <3>4. CASE o.acct # a
      BY <1>4, <3>1, <3>2, <3>4, Sids
    <3> QED BY <3>3, <3>4
  <2> QED BY <2>1, <2>2
<1>6. ASSUME NEW b \in Accounts, NEW i \in flight'[b].items
      PROVE  Clean(i.sid) \/ Accepted(b, i.sid)'
  <2>1. CASE b # a
    BY <1>3, <1>4, <2>1 DEF Duplicates
  <2>2. CASE b = a
    <3>1. CASE EndFlight(a)
      BY <1>0, <2>2, <3>1 DEF EndFlight, Idle
    <3>2. CASE ~EndFlight(a)
      <4>1. flight' = [flight EXCEPT ![a] = [flight[a] EXCEPT !.pc = "items",
                                                              !.items = @ \ {item}]]
        BY <1>1, <3>2 DEF ItemDone
      <4>2. i \in flight[a].items /\ i # item
        BY <1>0, <2>2, <4>1 DEF FlightTypes
      <4>3. i.sid # item.sid
        BY <1>2, <4>2 DEF Keys, CopyKeys
      <4> QED BY <1>1, <4>2, <4>3 DEF Duplicates, Accepted
    <3> QED BY <3>1, <3>2
  <2> QED BY <2>1, <2>2
<1> QED BY <1>5, <1>6

(* Steps that submit nothing.                                              *)
LEMMA DuplicatesQuiet ==
    ASSUME TypeOK, Keys, Order, Duplicates, [Next]_vars, Shape, TypeOK',
           delivered' = delivered, doubts' = doubts, sends' \subseteq sends, ~Crash
    PROVE  Duplicates'
<1>0. nextSid' >= nextSid /\ nextSid' \in Nat /\ nextSid \in Nat
  BY DEF Shape, Growing, TypeOK
<1>1. \A s : Clean(s) <=> Clean(s)'
  BY DEF Clean
<1>2. DuplicatesNeedDoubt' /\ \A s \in 1..MaxSends : s >= nextSid' => delivered'[s] = 0
  BY <1>0 DEF Duplicates, DuplicatesNeedDoubt
<1>3. \A s \in sends' : s.res # "accepted" => Clean(s.sid)'
  BY <1>1 DEF Duplicates
<1>4. ASSUME NEW b \in Accounts, ~ItemDone(b)
      PROVE  flight'[b] = flight[b] \/ \A s : ~Accepted(b, s)
  BY <1>4, Awaiting DEF Accepted
<1>5. ASSUME NEW o \in outbox', ~ItemDone(o.acct)
      PROVE  Clean(o.sid) \/ Accepted(o.acct, o.sid)'
  <2>1. ASSUME NEW q \in outbox, SameItem(o, q) PROVE Clean(o.sid) \/ Accepted(o.acct, o.sid)'
    <3>1. o.sid = q.sid /\ o.acct = q.acct /\ q.acct \in Accounts
      BY <2>1, Sids DEF SameItem
    <3>2. Clean(o.sid) \/ Accepted(o.acct, o.sid)
      BY <3>1 DEF Duplicates
    <3>3. flight'[o.acct] = flight[o.acct] \/ ~Accepted(o.acct, o.sid)
      BY <1>4, <1>5, <3>1
    <3> QED BY <3>2, <3>3 DEF Accepted
  <2>2. ASSUME NEW s \in sends, o = QueuedRow(s), s.res = "error" PROVE Clean(o.sid)
    BY <2>2 DEF QueuedRow, Duplicates
  <2> QED BY <2>1, <2>2, RowOrigin
<1>6. ASSUME NEW b \in Accounts, NEW i \in flight'[b].items, ~ItemDone(b)
      PROVE  Clean(i.sid) \/ Accepted(b, i.sid)'
  <2>1. CASE flight'[b] = flight[b]
    BY <2>1 DEF Duplicates, Accepted
  <2>2. CASE \A s : ~Accepted(b, s)
    <3>1. i \in flight[b].items \/ i \in ItemsOf(b)
      BY DEF Shape, CopiesMove
    <3> QED BY <2>2, <3>1 DEF Duplicates, ItemsOf
  <2> QED BY <1>4, <1>6, <2>1, <2>2
<1>7. CASE \E a \in Accounts : ItemDone(a)
  BY <1>1, <1>2, <1>3, <1>7, DuplicatesDone DEF Duplicates
<1>8. CASE \A a \in Accounts : ~ItemDone(a)
  <2>1. \A o \in outbox' : o.acct \in Accounts
    BY DEF TypeOK, Items
  <2>2. \A o \in outbox' : Clean(o.sid) \/ Accepted(o.acct, o.sid)'
    BY <1>5, <1>8, <2>1
  <2>3. \A b \in Accounts : \A i \in flight'[b].items : Clean(i.sid) \/ Accepted(b, i.sid)'
    BY <1>6, <1>8
  <2> QED BY <1>1, <1>2, <1>3, <2>2, <2>3 DEF Duplicates
<1> QED BY <1>7, <1>8

LEMMA DuplicatesStep ==
    ASSUME TypeOK, Keys, Order, Duplicates, [Next]_vars
    PROVE  Duplicates'
<1>0. TypeOK' /\ Shape
  BY TypeStep, StepShape
<1>1. ASSUME NEW a \in Accounts, SendStep(a) PROVE Duplicates'
  BY <1>0, <1>1, DuplicatesSend
<1>2. ASSUME NEW a \in Accounts, NEW res \in Outcomes, DeliverItem(a, res) PROVE Duplicates'
  BY <1>0, <1>2, DuplicatesDeliver
<1>3. CASE Crash
  BY <1>0, <1>3, DuplicatesCrash
<1>4. ASSUME NEW a \in Accounts,
             \/ DraftStep(a) \/ Start(a) \/ ReplayEnd(a) \/ OpDone(a) \/ ItemDone(a)
             \/ \E p \in pending : DiscardPending(a, p)
             \/ \E res \in Outcomes : PerformOp(a, res)
      PROVE  delivered' = delivered /\ doubts' = doubts /\ sends' = sends
  BY <1>4, DraftFrame, FlightFrame DEF ItemDone, history
<1>5. ASSUME NEW s \in sends, SendFinish(s)
      PROVE  delivered' = delivered /\ doubts' = doubts /\ sends' \subseteq sends
  BY <1>5 DEF SendFinish, server
<1>6. ASSUME NEW e \in edits, EditFinish(e)
      PROVE  delivered' = delivered /\ doubts' = doubts /\ sends' = sends
  BY <1>6 DEF EditFinish, server, history
<1>7. Quiet => delivered' = delivered /\ doubts' = doubts /\ sends' = sends
  BY DEF Quiet
<1>8. CASE delivered' = delivered /\ doubts' = doubts /\ sends' \subseteq sends /\ ~Crash
  BY <1>0, <1>8, DuplicatesQuiet
<1> QED BY <1>1, <1>2, <1>3, <1>4, <1>5, <1>6, <1>7, <1>8, StepCases

-----------------------------------------------------------------------------
(***************************************************************************)
(* No text is lost.                                                        *)
(***************************************************************************)
(* A text that is somewhere: replaced, sent, a draft or queued.            *)
TextKept(t) ==
    \E k \in excused \cup sent \cup {d.body : d \in drafts} \cup {o.body : o \in outbox} :
        k.txt = t

LEMMA TextSources ==
    ASSUME NEW t
    PROVE  TextKept(t) <=> \/ \E k \in excused \cup sent : k.txt = t
                           \/ \E d \in drafts : d.body.txt = t
                           \/ \E o \in outbox : o.body.txt = t
BY DEF TextKept

(* What a step must do for every text: keep it where it was, or put it     *)
(* somewhere else.                                                         *)
TextsMove ==
    /\ sent \subseteq sent' /\ excused \subseteq excused'
    /\ \A d \in drafts : d \in drafts' \/ TextKept(d.body.txt)'
    /\ \A o \in outbox : (\E q \in outbox' : q.body = o.body) \/ TextKept(o.body.txt)'
    /\ \A c \in ever' : c \in ever \/ TextKept(c.txt)'

LEMMA TextsStay ==
    ASSUME sent \subseteq sent', UNCHANGED <<excused, drafts, outbox, ever>>
    PROVE  TextsMove
BY DEF TextsMove

LEMMA TextsUser ==
    ASSUME TypeOK, Keys, NEW a \in Accounts, DraftStep(a)
    PROVE  TextsMove
<1>1. ASSUME NEW id, NEW txt, NEW i, SaveDraft(a, id, txt, i) PROVE TextsMove
  <2> DEFINE saved == [id |-> IF id = NoId THEN nextId ELSE id, acct |-> a,
                       body |-> [txt |-> txt, ident |-> i]]
  <2>1. /\ drafts' = PutDraft(saved) /\ ever' = ever \cup {saved.body}
        /\ excused' = excused \cup {d.body : d \in DraftsWith(saved.id)}
        /\ outbox' = outbox /\ sent' = sent
    BY <1>1 DEF SaveDraft
  <2> HIDE DEF saved
  <2>2. \A d \in drafts : d \in drafts' \/ d.body \in excused'
    BY <2>1 DEF PutDraft
  <2>3. saved \in drafts'
    BY <2>1 DEF PutDraft
  <2> QED BY <2>1, <2>2, <2>3 DEF TextsMove, TextKept
<1>2. ASSUME NEW id, DeleteDraft(a, id) PROVE TextsMove
  <2>1. \A d \in drafts : d \in drafts' \/ d.body \in excused'
    BY <1>2 DEF DeleteDraft
  <2> QED BY <1>2, <2>1 DEF DeleteDraft, TextsMove, TextKept
<1>3. ASSUME NEW o \in outbox, CancelOutbox(a, o) PROVE TextsMove
  <2> DEFINE kept == [id |-> o.id, acct |-> a, body |-> o.body]
  <2>1. /\ drafts' = PutDraft(kept) /\ outbox' = {q \in outbox : q.sid # o.sid}
        /\ excused' = excused \cup {d.body : d \in DraftsWith(kept.id)}
        /\ ever' = ever /\ sent' = sent /\ kept.body = o.body
    BY <1>3 DEF CancelOutbox
  <2> HIDE DEF kept
  <2>2. \A d \in drafts : d \in drafts' \/ d.body \in excused'
    BY <2>1 DEF PutDraft
  <2>3. kept \in drafts'
    BY <2>1 DEF PutDraft
  <2>4. \A q \in outbox : q \in outbox' \/ q = o
    BY <2>1 DEF Keys, RowKeys
  <2> QED BY <2>1, <2>2, <2>3, <2>4 DEF TextsMove, TextKept
<1>4. ASSUME RemoveAccount(a) PROVE TextsMove
  <2>1. \A d \in drafts : d \in drafts' \/ d.body \in excused'
    BY <1>4 DEF RemoveAccount
  <2>2. \A o \in outbox : o \in outbox' \/ o.body \in excused'
    BY <1>4 DEF RemoveAccount
  <2> QED BY <1>4, <2>1, <2>2 DEF RemoveAccount, TextsMove, TextKept
<1> QED BY <1>1, <1>2, <1>3, <1>4 DEF DraftStep

(* Recording a send keeps the message and the draft it started from.       *)
LEMMA TextsSend ==
    ASSUME TypeOK, Keys, NEW s \in sends, SendFinish(s)
    PROVE  TextsMove
<1> DEFINE unchanged == SameSnapshot(FindDraft(s.id), s.snap)
<1> DEFINE known == IF unchanged /\ s.snap # NoDraft THEN {s.snap.body} ELSE {}
<1> DEFINE Kept(id) == [id |-> id, acct |-> s.acct, body |-> s.body]
<1>1. \A d \in DraftsWith(s.id) : d = FindDraft(s.id) /\ d # NoDraft
  <2> TAKE d \in DraftsWith(s.id)
  <2>1. FindDraft(s.id) \in DraftsWith(s.id)
    BY Found
  <2> QED BY <2>1, NoDraftIsNone DEF DraftsWith, Keys, DraftKeys, TypeOK
<1>2. ASSUME unchanged, NEW d \in DraftsWith(s.id)
      PROVE  \E k \in known : k.txt = d.body.txt
  BY <1>1, <1>2 DEF SameSnapshot
<1>3. DraftsWith(nextId) = {}
  BY Counters DEF DraftsWith, Keys, DraftKeys, TypeOK
<1>4. CASE s.acct \notin accounts
  BY <1>4, TextsStay DEF SendFinish
<1>5. CASE s.acct \in accounts /\ s.res = "rejected"
  <2>1. PICK id : /\ id = IF s.id # NoId /\ unchanged THEN s.id ELSE nextId
                  /\ drafts' = PutDraft(Kept(id))
    BY <1>5 DEF SendFinish
  <2>2. /\ ever' = ever \cup {s.body} /\ excused' = excused \cup known
        /\ outbox' = outbox /\ sent' = sent
    BY <1>5 DEF SendFinish
  <2>3. Kept(id).body = s.body /\ Kept(id).id = id
    OBVIOUS
  <2>4. \A d \in DraftsWith(id) : \E k \in known : k.txt = d.body.txt
    <3>1. CASE id = s.id /\ unchanged
      BY <1>2, <3>1
    <3>2. CASE id = nextId
      BY <1>3, <3>2
    <3> QED BY <2>1, <3>1, <3>2
  <2> HIDE DEF Kept, known
  <2>5. Kept(id) \in drafts' /\ \A d \in drafts : d \in drafts' \/ d \in DraftsWith(id)
    BY <2>1, <2>3 DEF PutDraft
  <2> QED BY <2>2, <2>3, <2>4, <2>5 DEF TextsMove, TextKept
<1>6. CASE s.acct \in accounts /\ s.res # "rejected"
  <2>1. /\ drafts' = IF unchanged THEN drafts \ DraftsWith(s.id) ELSE drafts
        /\ excused' = excused \cup known /\ sent' = sent
        /\ \/ outbox' = outbox \cup {QueuedRow(s)} /\ ever' = ever \cup {s.body}
           \/ outbox' = outbox /\ ever' = ever
    BY <1>6 DEF SendFinish, QueuedRow
  <2>2. QueuedRow(s).body = s.body
    BY DEF QueuedRow
  <2>3. \A d \in drafts : d \in drafts' \/ \E k \in known : k.txt = d.body.txt
    BY <1>2, <2>1
  <2> HIDE DEF known
  <2> QED BY <2>1, <2>2, <2>3 DEF TextsMove, TextKept
<1> QED BY <1>4, <1>5, <1>6

(* Recording a delivery keeps a message that no server took.               *)
LEMMA TextsDone ==
    ASSUME TypeOK, Keys, Order, Contents, NEW a \in Accounts, ItemDone(a)
    PROVE  TextsMove
<1>0. \A q \in outbox : q \in Items
  BY DEF TypeOK
<1>1. PICK item : item = First(flight[a].items)
  OBVIOUS
<1>2. item \in flight[a].items /\ flight[a].pc = "itemDone" /\ item.acct = a
      /\ sent' = sent /\ excused' = excused /\ ever' = ever
  BY <1>1, HeadItem DEF ItemDone, Order, InOrder, Keys, CopyKeys, history
<1>3. \A q \in Queued(a, item) : q \in outbox /\ q.body = item.body
  BY <1>2 DEF Queued, Keys, CopyKeys, SameItem
<1>4. CASE flight[a].res = "error"
  <2>1. drafts' = drafts /\ outbox' = {FailedRow(item, q) : q \in outbox}
    BY <1>1, <1>4 DEF ItemDone, Failed, FailedRow
  <2>2. \A q \in outbox : FailedRow(item, q).body = q.body
    BY <1>0 DEF FailedRow, Items
  <2> QED BY <1>2, <2>1, <2>2 DEF TextsMove
<1>5. CASE flight[a].res # "error" /\ Queued(a, item) = {}
  <2>1. drafts' = drafts /\ outbox' = outbox
    BY <1>1, <1>5 DEF ItemDone
  <2> QED BY <1>2, <2>1, TextsStay
<1>6. CASE flight[a].res = "accepted"
  <2>1. drafts' = drafts /\ outbox' = outbox \ Queued(a, item)
    BY <1>1, <1>6 DEF ItemDone
  <2>2. item.body \in sent
    BY <1>1, <1>2, <1>6 DEF Contents
  <2> QED BY <1>2, <1>3, <2>1, <2>2 DEF TextsMove, TextKept
<1>7. CASE flight[a].res = "rejected" /\ Queued(a, item) # {}
  <2> DEFINE cur == FindDraft(item.id)
  <2> DEFINE Kept(id) == [id |-> id, acct |-> a, body |-> item.body]
  <2> DEFINE keepId == item.id # NoId /\ (cur = NoDraft \/ SameSnapshot(cur, Kept(item.id)))
  <2>1. PICK id : /\ id = IF keepId THEN item.id ELSE nextId
                  /\ drafts' = PutDraft(Kept(id)) /\ outbox' = outbox \ Queued(a, item)
    BY <1>1, <1>7 DEF ItemDone
  <2>2. Kept(id).body = item.body /\ Kept(id).id = id
    OBVIOUS
  <2>3. ASSUME NEW d \in DraftsWith(id) PROVE d.body.txt = item.body.txt
    <3>1. CASE keepId
      <4>1. d \in DraftsWith(item.id)
        BY <2>1, <3>1
      <4>2. cur \in DraftsWith(item.id)
        BY <4>1, Found
      <4>3. d = cur /\ d # NoDraft
        BY <4>1, <4>2, NoDraftIsNone DEF DraftsWith, Keys, DraftKeys, TypeOK
      <4>4. SameSnapshot(d, Kept(item.id))
        BY <3>1, <4>3
      <4> QED BY <4>3, <4>4 DEF SameSnapshot
    <3>2. CASE ~keepId
      BY <2>1, <3>2, Counters DEF DraftsWith, Keys, DraftKeys, TypeOK
    <3> QED BY <3>1, <3>2
  <2> HIDE DEF Kept
  <2>4. Kept(id) \in drafts' /\ \A d \in drafts : d \in drafts' \/ d \in DraftsWith(id)
    BY <2>1, <2>2 DEF PutDraft
  <2> QED BY <1>2, <1>3, <2>1, <2>2, <2>3, <2>4 DEF TextsMove, TextKept
<1>8. flight[a].res \in Outcomes
  BY Counters DEF FlightTypes
<1> QED BY <1>4, <1>5, <1>6, <1>7, <1>8 DEF Outcomes

LEMMA TextsStep ==
    ASSUME TypeOK, Keys, Order, Contents, [Next]_vars
    PROVE  TextsMove
<1>1. ASSUME NEW a \in Accounts, NEW res \in Outcomes, DeliverItem(a, res) PROVE TextsMove
  <2>1. /\ outbox' = {TriedRow(a, First(flight[a].items), q) : q \in outbox}
        /\ sent \subseteq sent' /\ UNCHANGED <<drafts, excused, ever>>
    BY <1>1 DEF DeliverItem, Submit, Tried, TriedRow
  <2>2. \A q \in outbox : TriedRow(a, First(flight[a].items), q).body = q.body
    BY DEF TypeOK, TriedRow, Items
  <2> QED BY <2>1, <2>2 DEF TextsMove
<1>2. ASSUME NEW a \in Accounts, SendStep(a) PROVE TextsMove
  <2>1. sent \subseteq sent' /\ UNCHANGED <<excused, drafts, outbox, ever>>
    BY <1>2 DEF SendStep, SendStart, Submit, persisted
  <2> QED BY <2>1, TextsStay
<1>3. ASSUME NEW a \in Accounts,
             \/ Start(a) \/ ReplayEnd(a) \/ OpDone(a)
             \/ \E p \in pending : DiscardPending(a, p)
             \/ \E res \in Outcomes : PerformOp(a, res)
      PROVE  UNCHANGED <<sent, excused, drafts, outbox, ever>>
  BY <1>3, FlightFrame
<1>4. ASSUME NEW e \in edits, EditFinish(e)
      PROVE  UNCHANGED <<sent, excused, drafts, outbox, ever>>
  BY <1>4 DEF EditFinish, history
<1>5. Crash \/ Quiet => UNCHANGED <<sent, excused, drafts, outbox, ever>>
  BY DEF Crash, Quiet, persisted
<1>6. CASE UNCHANGED <<sent, excused, drafts, outbox, ever>>
  BY <1>6, TextsStay
<1> QED BY <1>1, <1>2, <1>3, <1>4, <1>5, <1>6, TextsUser, TextsSend, TextsDone, StepCases

LEMMA ContentsStep ==
    ASSUME TypeOK, Keys, Order, Contents, [Next]_vars
    PROVE  Contents'
<1>1. TextsMove
  BY TextsStep
<1>2. ASSUME NEW t, TextKept(t) PROVE TextKept(t)'
  <2>1. CASE \E k \in excused \cup sent : k.txt = t
    BY <1>1, <2>1 DEF TextsMove, TextKept
  <2>2. CASE \E d \in drafts : d.body.txt = t
    BY <1>1, <2>2 DEF TextsMove, TextKept
  <2>3. CASE \E o \in outbox : o.body.txt = t
    BY <1>1, <2>3 DEF TextsMove, TextKept
  <2> QED BY <1>2, <2>1, <2>2, <2>3, TextSources
<1>3. \A c \in ever : TextKept(c.txt)
  BY DEF Contents, ContentKept, TextKept
<1>4. \A c \in ever' : TextKept(c.txt)'
  BY <1>1, <1>2, <1>3 DEF TextsMove
<1>5. ContentKept'
  BY <1>4 DEF ContentKept, TextKept
<1>6. ASSUME NEW b \in Accounts, flight'[b].pc = "itemDone", flight'[b].res = "accepted"
      PROVE  First(flight'[b].items).body \in sent'
  <2>1. CASE flight'[b] = flight[b]
    BY <1>1, <1>6, <2>1 DEF Contents, TextsMove
  <2>2. ASSUME NEW res \in Outcomes, DeliverItem(b, res)
        PROVE  First(flight'[b].items).body \in sent'
    <3>1. flight'[b].res = res /\ flight'[b].items = flight[b].items
      BY <2>2, Counters DEF DeliverItem, FlightTypes
    <3> QED BY <1>6, <2>2, <3>1 DEF DeliverItem, Submit
  <2>3. ASSUME NEW a \in Accounts,
               \/ Start(a) \/ OpDone(a) \/ ItemDone(a) \/ ReplayEnd(a)
               \/ \E res \in Outcomes : PerformOp(a, res)
        PROVE  flight'[b] = flight[b] \/ flight'[b].pc # "itemDone"
    <3>1. CASE b # a
      BY <2>3, <3>1, OtherFlights
    <3>2. CASE b = a
      <4> USE Counters
      <4>1. EndFlight(a) => flight'[a].pc # "itemDone"
        BY DEF EndFlight, Idle
      <4>2. Start(a) => flight'[a].pc # "itemDone"
        BY <4>1 DEF Start, SyncStart, RetryPending, RetryOutbox, ReplayCheck, Idle
      <4>3. OpDone(a) => flight'[a].pc # "itemDone"
        BY <4>1 DEF OpDone, FlightTypes
      <4>4. ItemDone(a) => flight'[a].pc # "itemDone"
        BY <4>1 DEF ItemDone, FlightTypes
      <4>5. ReplayEnd(a) => flight'[a].pc # "itemDone"
        BY <4>1 DEF ReplayEnd
      <4>6. ASSUME NEW res, PerformOp(a, res) PROVE flight'[a].pc # "itemDone"
        BY <4>6 DEF PerformOp, FlightTypes
      <4> QED BY <2>3, <3>2, <4>2, <4>3, <4>4, <4>5, <4>6
    <3> QED BY <3>1, <3>2
  <2>4. ASSUME NEW a \in Accounts, NEW res \in Outcomes, DeliverItem(a, res), b # a
        PROVE  flight'[b] = flight[b]
    BY <2>4, OtherFlights
  <2>5. ASSUME NEW a \in Accounts, DraftStep(a) \/ SendStep(a) \/
                   \E p \in pending : DiscardPending(a, p)
        PROVE  flight' = flight
    BY <2>5, DraftFrame, SendFrame DEF DiscardPending
  <2>6. ASSUME (\E s \in sends : SendFinish(s)) \/ (\E e \in edits : EditFinish(e)) \/ Quiet
        PROVE  flight' = flight
    BY <2>6 DEF SendFinish, EditFinish, Quiet
  <2>7. Crash => flight'[b].pc # "itemDone"
    BY DEF Crash, Idle
  <2>8. flight'[b] = flight[b] \/ \E res \in Outcomes : DeliverItem(b, res)
    BY <1>6, <2>3, <2>4, <2>5, <2>6, <2>7, StepCases
  <2> QED BY <2>1, <2>2, <2>8
<1> QED BY <1>5, <1>6 DEF Contents

-----------------------------------------------------------------------------
(***************************************************************************)
(* What a step may do.                                                     *)
(***************************************************************************)
(* Only the record of a send's outcome takes drafts away, and then the one *)
(* with the send's identifier, with the text that the send started from.   *)
LEMMA SendTakesItsDraft ==
    ASSUME TypeOK, Keys, NEW s \in sends, SendFinish(s), NEW d \in drafts \ drafts'
    PROVE  s.snap # NoDraft /\ s.snap.id = d.id /\ s.snap.body.txt = d.body.txt
<1> DEFINE unchanged == SameSnapshot(FindDraft(s.id), s.snap)
<1> DEFINE Kept(id) == [id |-> id, acct |-> s.acct, body |-> s.body]
<1>1. \A id : Kept(id).id = id
  OBVIOUS
<1>2. \/ drafts' = drafts
      \/ unchanged /\ drafts' = drafts \ DraftsWith(s.id)
      \/ unchanged /\ drafts' = PutDraft(Kept(s.id))
      \/ drafts' = PutDraft(Kept(nextId))
  BY DEF SendFinish
<1> HIDE DEF Kept
<1>3. DraftsWith(nextId) = {}
  BY Counters DEF DraftsWith, Keys, DraftKeys, TypeOK
<1>4. unchanged /\ d \in DraftsWith(s.id)
  BY <1>1, <1>2, <1>3 DEF PutDraft
<1>5. FindDraft(s.id) \in DraftsWith(s.id)
  BY <1>4, Found
<1>6. d = FindDraft(s.id) /\ d # NoDraft
  BY <1>4, <1>5, NoDraftIsNone DEF DraftsWith, Keys, DraftKeys, TypeOK
<1> QED BY <1>4, <1>6 DEF SameSnapshot

LEMMA SendsLeave ==
    ASSUME TypeOK, Keys, Order, [Next]_vars, NEW s \in sends \ sends', crashes' = crashes
    PROVE  SendFinish(s)
<1>1. ASSUME NEW t \in sends, SendFinish(t) PROVE SendFinish(s)
  BY <1>1 DEF SendFinish
<1>2. ~Crash
  BY Counters DEF Crash
<1>3. ASSUME NEW a \in Accounts,
             \/ DraftStep(a) \/ SendStep(a) \/ Start(a) \/ OpDone(a) \/ ItemDone(a)
             \/ ReplayEnd(a) \/ \E p \in pending : DiscardPending(a, p)
             \/ \E res \in Outcomes : PerformOp(a, res) \/ DeliverItem(a, res)
      PROVE  sends \subseteq sends'
  BY <1>3, DraftFrame, SendFrame, FlightFrame DEF ItemDone, DeliverItem
<1>4. ASSUME NEW e \in edits, EditFinish(e) PROVE sends' = sends
  BY <1>4 DEF EditFinish
<1>5. Quiet => sends' = sends
  BY DEF Quiet
<1> QED BY <1>1, <1>2, <1>3, <1>4, <1>5, StepCases

(* A server applies the change that a call or a flight is making.          *)
FlagsSource(a) ==
    \E op \in edits' \cup flight[a].ops :
        op.n = seen'[a] /\ op.acct = a /\ op.gen = serverGen[a]

LEMMA SeenEdit ==
    ASSUME TypeOK, NEW a \in Accounts, NEW b \in Accounts, NEW k, NEW res,
           EditStart(b, k, res), seen'[a] # seen[a]
    PROVE  FlagsSource(a)
<1> DEFINE op == [n |-> nextOp, kind |-> k, gen |-> cachedGen[b]]
<1> DEFINE new == [n |-> nextOp, acct |-> b, kind |-> k, gen |-> cachedGen[b], res |-> res]
<1>1. Apply(b, op, res) /\ new \in edits'
  BY DEF EditStart
<1>2. MailboxGeneration(b, op) /\ seen' = [seen EXCEPT ![b] = op.n]
  BY <1>1 DEF Apply, SetFlags, MoveMessage
<1>3. a = b /\ seen'[a] = op.n
  BY <1>2 DEF TypeOK
<1>4. new.n = seen'[a] /\ new.acct = a /\ new.gen = serverGen[a]
  BY <1>2, <1>3 DEF MailboxGeneration
<1> QED BY <1>1, <1>4 DEF FlagsSource

LEMMA SeenPerform ==
    ASSUME TypeOK, Keys, NEW a \in Accounts, NEW b \in Accounts, NEW res,
           PerformOp(b, res), seen'[a] # seen[a]
    PROVE  FlagsSource(a)
<1>1. PICK op : op = First(flight[b].ops)
  OBVIOUS
<1>2. Apply(b, op, res) /\ op \in flight[b].ops
  BY <1>1, NotBlocked, HeadOp DEF PerformOp
<1>3. MailboxGeneration(b, op) /\ seen' = [seen EXCEPT ![b] = op.n]
  BY <1>2 DEF Apply, SetFlags, MoveMessage
<1>4. a = b /\ seen'[a] = op.n
  BY <1>3 DEF TypeOK
<1> QED BY <1>2, <1>3, <1>4 DEF FlagsSource, MailboxGeneration, Keys, OpKeys

LEMMA SeenStep ==
    ASSUME TypeOK, Keys, [Next]_vars, NEW a \in Accounts, seen'[a] # seen[a]
    PROVE  FlagsSource(a)
<1>1. ASSUME NEW b \in Accounts, UserStep(b)
      PROVE  (\E k \in Kinds, res \in Outcomes : EditStart(b, k, res)) \/ seen' = seen
  <2>1. DraftStep(b) \/ SendStep(b) => seen' = seen
    BY DraftFrame, SendFrame
  <2>2. Start(b) \/ (\E p \in pending : DiscardPending(b, p)) => seen' = seen
    BY DEF Start, SyncStart, RetryPending, RetryOutbox, ReplayCheck, DiscardPending
  <2> QED BY <1>1, <2>1, <2>2 DEF UserStep, DraftStep, SendStep, Start
<1>2. ASSUME NEW b \in Accounts, FlightStep(b)
      PROVE  (\E res \in Outcomes : PerformOp(b, res)) \/ seen' = seen
  BY <1>2 DEF FlightStep, DeliverItem, OpDone, ReplayCheck, ItemDone, ReplayEnd
<1>3. ASSUME NEW b \in Accounts, SyncList(b) \/ ServerReset(b) PROVE seen' = seen
  BY <1>3 DEF SyncList, ServerReset, server
<1>4. ASSUME (\E s \in sends : SendFinish(s)) \/ (\E e \in edits : EditFinish(e))
             \/ (\E l \in listed : SyncStore(l)) \/ Crash \/ UNCHANGED vars
      PROVE  seen' = seen
  BY <1>4 DEF SendFinish, EditFinish, SyncStore, Crash, server, vars
<1> QED BY <1>1, <1>2, <1>3, <1>4, SeenEdit, SeenPerform DEF Next

-----------------------------------------------------------------------------
(***************************************************************************)
(* The theorems.                                                           *)
(***************************************************************************)
LEMMA Inductive == Spec => []IInv
<1>1. IInv /\ [Next]_vars => IInv'
  BY TypeStep, KeysStep, OrderStep, FreshStep, TriesStep, DuplicatesStep, ContentsStep
     DEF IInv
<1> QED BY InitInv, <1>1, PTL DEF Spec

(* SMTP accepts a submission once, and again only for an acceptance whose  *)
(* answer or record was lost, however sends, syncs, retries, cancels,      *)
(* account removals and deaths interleave (sendMessage, #deliverOutboxItem *)
(* and cancelOutbox in app-service.ts).                                    *)
THEOREM SentOnce == Spec => []DuplicatesNeedDoubt
<1>1. IInv => DuplicatesNeedDoubt
  BY DEF IInv, Duplicates
<1> QED BY <1>1, Inductive, PTL

(* Every text that was ever a draft or queued is a draft, queued, accepted *)
(* by a server, or replaced or deleted by the user: recording an outcome   *)
(* never drops one (sendMessage's and #deliverOutboxItem's updates).       *)
THEOREM NothingLost == Spec => []ContentKept
<1>1. IInv => ContentKept
  BY DEF IInv, Contents
<1> QED BY <1>1, Inductive, PTL

(* A flight works on its account's oldest change, on its oldest message,   *)
(* and on no message while a change from before its check waits; and no    *)
(* row is tried automatically past the limit but for deaths (#queueHead,   *)
(* #replayPending and the replay loops of app-service.ts).                 *)
THEOREM QueuesKeepOrder == Spec => []QueuesInOrder
<1>1. ASSUME IInv, NEW a \in accounts, flight[a].pc = "opDone", NEW p \in OpsOf(a)
      PROVE  First(flight[a].ops).pos <= p.pos
  <2>1. TypeOK /\ a \in Accounts
    BY <1>1 DEF IInv, TypeOK
  <2>2. flight[a].ops # {} /\ Ahead(flight[a].ops, OpsOf(a))
    BY <1>1, <2>1 DEF IInv, Order, InOrder
  <2>3. /\ First(flight[a].ops) \in flight[a].ops /\ First(flight[a].ops).pos \in Nat
        /\ \A i \in flight[a].ops : First(flight[a].ops).pos <= i.pos
    BY <2>1, <2>2, HeadOp DEF Ops
  <2>4. p.pos \in Nat
    BY <2>1 DEF OpsOf, TypeOK, Ops
  <2>5. ASSUME p.pos < First(flight[a].ops).pos PROVE FALSE
    BY <2>2, <2>3, <2>4, <2>5 DEF Ahead
  <2> QED BY <2>3, <2>4, <2>5
<1>2. ASSUME IInv, NEW a \in accounts, flight[a].pc = "itemDone", NEW o \in ItemsOf(a)
      PROVE  First(flight[a].items).pos <= o.pos
  <2>1. TypeOK /\ a \in Accounts
    BY <1>2 DEF IInv, TypeOK
  <2>2. flight[a].items # {} /\ Ahead(flight[a].items, ItemsOf(a))
    BY <1>2, <2>1 DEF IInv, Order, InOrder
  <2>3. /\ First(flight[a].items) \in flight[a].items /\ First(flight[a].items).pos \in Nat
        /\ \A i \in flight[a].items : First(flight[a].items).pos <= i.pos
    BY <2>1, <2>2, HeadItem DEF Items
  <2>4. o.pos \in Nat
    BY <2>1 DEF ItemsOf, TypeOK, Items
  <2>5. ASSUME o.pos < First(flight[a].items).pos PROVE FALSE
    BY <2>2, <2>3, <2>4, <2>5 DEF Ahead
  <2> QED BY <2>3, <2>4, <2>5
<1>3. ASSUME IInv, NEW a \in accounts, flight[a].pc = "itemDone", NEW p \in OpsOf(a)
      PROVE  p.pos >= flight[a].mark
  BY <1>3 DEF IInv, Order, InOrder, TypeOK
<1>4. IInv => QueueDiscipline
  BY <1>1, <1>2, <1>3 DEF QueueDiscipline
<1>5. IInv => QueuesInOrder
  BY <1>4 DEF IInv, Tries, QueuesInOrder
<1> QED BY <1>5, Inductive, PTL

(* Recording the outcome of a send removes a draft only if its text is the *)
(* one that the send started from: a newer save under the same identifier  *)
(* stays (sendMessage's sameDraftSnapshot).                                *)
THEOREM NewerSavesStay == Spec => NewerSaveSurvives
<1>1. ASSUME IInv, [Next]_vars, NEW s \in sends \ sends', NEW d \in drafts \ drafts',
             crashes' = crashes
      PROVE  /\ s.snap # NoDraft /\ s.snap.id = d.id
             /\ s.snap.body.txt = d.body.txt
  BY <1>1, SendsLeave, SendTakesItsDraft DEF IInv
<1>2. IInv /\ [Next]_vars =>
        [ \A s \in sends \ sends', d \in drafts \ drafts' :
            crashes' = crashes /\ d.id = s.id =>
                /\ s.snap # NoDraft /\ s.snap.id = d.id
                /\ s.snap.body.txt = d.body.txt ]_vars
  BY <1>1
<1> QED BY <1>2, Inductive, PTL DEF Spec, NewerSaveSurvives

(* A server applies a flag change only in the mailbox generation that the  *)
(* change was made for, whenever it is performed: at once, by a sync's     *)
(* replay or by a manual retry (#assertMailboxGeneration).                 *)
THEOREM GenerationsMatch == Spec => NoRetryAcrossGenerations
<1>1. IInv /\ [Next]_vars =>
        [ \A a \in Accounts : seen'[a] # seen[a] =>
            \E op \in edits' \cup flight[a].ops :
                op.n = seen'[a] /\ op.acct = a /\ op.gen = serverGen[a] ]_vars
  BY SeenStep DEF IInv, FlagsSource
<1> QED BY <1>1, Inductive, PTL DEF Spec, NoRetryAcrossGenerations
=============================================================================
