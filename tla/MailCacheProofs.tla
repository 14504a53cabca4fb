-------------------------- MODULE MailCacheProofs --------------------------
(***************************************************************************)
(* Proofs about MailCache, for every number of folders, messages, uids,    *)
(* calls in flight and changes the server makes: what is cached belongs to *)
(* the message it is shown with, nothing of a removed account comes back,  *)
(* and the filter takes an identity once.                                  *)
(*                                                                         *)
(* The argument: an identity (folder, generation, uid) names one message   *)
(* for ever, because a generation is never given twice and a uid is never  *)
(* handed out twice within one.  There is a set of such facts that agrees  *)
(* with the server, the rows, the bodies, the tags and everything a call   *)
(* in flight carries; a step adds to it only identities nobody has seen.   *)
(***************************************************************************)
EXTENDS MailCache, FiniteSetTheorems, TLAPS

Detail == [f : Folders, uid : Uids, gen : Gens, msg : Msgs]
Lists == [Folders -> Gens \union {0}]

(* The rows of a folder: at most one under each uid. *)
Tables == {R \in SUBSET Row : \A r, q \in R : r.uid = q.uid => r = q}

ServerTypes ==
  /\ calls \in 0..MaxCalls /\ events \in 0..MaxEvents
  /\ gen \in [Folders -> 0..(1 + calls + events)]
  /\ box \in [Folders -> [Uids -> Msgs \union {NoMsg}]]
  /\ last \in [Folders -> Nat]
  /\ kw \subseteq Msgs

StoreTypes ==
  /\ list \in Lists /\ account \in BOOLEAN
  /\ cached \subseteq Folders /\ selected \in Folders
  /\ rows \in [Folders -> Tables]
  /\ \A f \in Folders : f \notin cached => rows[f] = {}
  /\ details \subseteq Detail
  /\ \A d, e \in details : d.f = e.f /\ d.uid = e.uid => d = e
  /\ tags \subseteq Folders \X Gens \X Uids
  /\ marked \subseteq Msgs

(* What a call in flight carries. *)
Plans == SUBSET [f : Folders, uid : Uids, msg : Msgs]
Back == {Idle} \union [pc : {"filter"}, plan : Plans]
Batches == UNION {[F -> Tables] : F \in SUBSET Folders}
Identity == [uid : Uids, gen : Gens] \union {NoIdentity}

Shaped(o) ==
  /\ o.pc = "filter" => o \in [pc : {"filter"}, plan : Plans]
  /\ o.pc = "listed" => o \in [pc : {"listed"}, f : Folders, got : Tables]
  /\ o.pc = "fetched" => o \in [pc : {"fetched"}, d : Detail]
  /\ o.pc = "sync" => o \in [pc : {"sync"}, got : Lists, todo : SUBSET Folders, batch : Batches]
  /\ o.pc = "arrived" => o \in [pc : {"arrived"}, got : SUBSET (Folders \X Row)]
  /\ o.pc \in {"tagged", "move"} =>
        o \in [pc : {"tagged", "move"}, f : Folders, uid : Uids, msg : Msgs, then : Back]
  /\ o.pc = "moved" =>
        o \in [pc : {"moved"}, f : Folders, uid : Uids, gen : Gens, to : Identity, then : Back]
  /\ o.pc \in {"move", "moved"} => o.f # Destination
  /\ o.pc = "gone" => o \in [pc : {"gone"}, f : Folders, new : Folders]
  /\ o.pc = "refreshed" => o \in [pc : {"refreshed"}, got : Lists]
  /\ o.pc = "read" => o \in [pc : {"read"}, f : Folders]

OpTypes == DOMAIN op = Slots /\ \A s \in Slots : Shaped(op[s])

Types == ServerTypes /\ StoreTypes /\ OpTypes

----------------------------------------------------------------------------
(* What an identity names. *)

Fact(f, g, u, m) == [f |-> f, uid |-> u, gen |-> g, msg |-> m]

(* One message for each identity. *)
OneName(T) ==
  \A x, y \in T : x.f = y.f /\ x.gen = y.gen /\ x.uid = y.uid => x.msg = y.msg

(* Only identities the server has handed out already. *)
Past(T) ==
  \A x \in T : /\ x.gen <= 1 + calls + events
               /\ x.gen = gen[x.f] => x.uid <= last[x.f]

BoxTold(T) ==
  \A f \in Folders, u \in Uids : box[f][u] # NoMsg =>
    /\ gen[f] # 0 /\ u <= last[f]
    /\ Fact(f, gen[f], u, box[f][u]) \in T

TableTold(T, f, R) == \A r \in R : Fact(f, r.gen, r.uid, r.msg) \in T

TagsTold(T) == \A k \in tags : \E m \in marked : Fact(k[1], k[2], k[3], m) \in T

(* A call that moved a message knows where it went. *)
CallTold(T, o) ==
  /\ o.pc = "listed" => TableTold(T, o.f, o.got)
  /\ o.pc = "fetched" => o.d \in T
  /\ o.pc = "sync" => \A f \in DOMAIN o.batch : TableTold(T, f, o.batch[f])
  /\ o.pc = "moved" /\ o.to.uid # 0 =>
        \E m \in Msgs : /\ Fact(o.f, o.gen, o.uid, m) \in T
                        /\ Fact(Destination, o.to.gen, o.to.uid, m) \in T

Told(T) ==
  /\ T \subseteq Detail /\ OneName(T) /\ Past(T)
  /\ BoxTold(T)
  /\ \A f \in Folders : TableTold(T, f, rows[f])
  /\ details \subseteq T
  /\ TagsTold(T)
  /\ \A s \in Slots : CallTold(T, op[s])

IInv == Types /\ NothingReturns /\ \E T \in SUBSET Detail : Told(T)

----------------------------------------------------------------------------
(* What the operators return. *)

LEMMA HeldIsNat == ASSUME NEW b PROVE Held(b) \in Nat
<1>1. IsFiniteSet({u \in Uids : b[u] # NoMsg})
  BY CacheAssumption, FS_Subset
<1> QED BY <1>1, FS_CardinalityType DEF Held

LEMMA ListingIsTable ==
  ASSUME ServerTypes, NEW f \in Folders, gen[f] # 0
  PROVE Listing(f) \in Tables
<1>1. gen[f] \in Gens
  BY CacheAssumption DEF ServerTypes, Gens
<1>2. \A u \in Uids : box[f][u] \in Msgs \union {NoMsg}
  BY DEF ServerTypes
<1>3. Listing(f) \subseteq Row
  BY <1>1, <1>2 DEF Listing, Row
<1>4. \A r, q \in Listing(f) : r.uid = q.uid => r = q
  BY DEF Listing
<1> QED BY <1>3, <1>4 DEF Tables

LEMMA ListsFolders == ASSUME ServerTypes PROVE gen \in Lists
<1>1. \A f \in Folders : gen[f] \in Gens \union {0}
  BY CacheAssumption DEF ServerTypes, Gens
<1> QED BY <1>1 DEF ServerTypes, Lists

LEMMA EmptyIsTable == {} \in Tables
BY DEF Tables

LEMMA IdleShaped == Shaped(Idle) /\ \A T : CallTold(T, Idle)
BY DEF Shaped, Idle, CallTold

(* Whoever a call goes back to. *)
LEMMA BackShaped ==
  ASSUME NEW b \in Back
  PROVE Shaped(b) /\ \A T : CallTold(T, b)
<1>1. CASE b = Idle
  BY <1>1, IdleShaped
<1>2. CASE b \in [pc : {"filter"}, plan : Plans]
  BY <1>2 DEF Shaped, CallTold
<1> QED BY <1>1, <1>2 DEF Back

LEMMA AfterIsBack ==
  ASSUME NEW o, Shaped(o)
  PROVE After(o) \in Back
<1>1. CASE o.pc = "tagged"
  <2>1. o.then \in Back
    BY <1>1 DEF Shaped
  <2> QED BY <1>1, <2>1 DEF After
<1>2. CASE o.pc = "moved"
  <2>1. o.then \in Back
    BY <1>2 DEF Shaped
  <2> QED BY <1>2, <2>1 DEF After
<1>3. CASE o.pc \notin {"tagged", "moved"}
  BY <1>3 DEF After, Back
<1> QED BY <1>1, <1>2, <1>3

(* A call takes its next shape; the others keep theirs. *)
LEMMA NextShape ==
  ASSUME OpTypes, NEW s \in Slots, NEW o, Shaped(o), op' = [op EXCEPT ![s] = o]
  PROVE OpTypes'
<1>1. DOMAIN op' = Slots
  BY DEF OpTypes
<1>2. ASSUME NEW t \in Slots PROVE Shaped(op'[t])
  <2>1. CASE t = s
    BY <2>1 DEF OpTypes
  <2>2. CASE t # s
    <3>1. op'[t] = op[t]
      BY <2>2 DEF OpTypes
    <3> QED BY <3>1 DEF OpTypes
  <2> QED BY <2>1, <2>2
<1> QED BY <1>1, <1>2 DEF OpTypes, Shaped

LEMMA NextTold ==
  ASSUME OpTypes, NEW T, NEW U, T \subseteq U, \A s \in Slots : CallTold(T, op[s]),
         NEW s \in Slots, NEW o, CallTold(U, o), op' = [op EXCEPT ![s] = o]
  PROVE \A t \in Slots : CallTold(U, op'[t])
<1> SUFFICES ASSUME NEW t \in Slots PROVE CallTold(U, op'[t])
  OBVIOUS
<1>1. CASE t = s
  BY <1>1 DEF OpTypes
<1>2. CASE t # s
  <2>1. op'[t] = op[t]
    BY <1>2 DEF OpTypes
  <2>2. CallTold(U, op[t])
    BY DEF CallTold, TableTold
  <2> QED BY <2>1, <2>2
<1> QED BY <1>1, <1>2

LEMMA GoesBack ==
  ASSUME Types, NEW s \in Slots, Return(s)
  PROVE OpTypes' /\ \A T : (\A t \in Slots : CallTold(T, op[t])) => \A t \in Slots : CallTold(T, op'[t])
<1>1. After(op[s]) \in Back
  BY AfterIsBack DEF Types, OpTypes
<1>2. Shaped(After(op[s])) /\ \A T : CallTold(T, After(op[s]))
  BY <1>1, BackShaped
<1>3. op' = [op EXCEPT ![s] = After(op[s])]
  BY DEF Return, Wait
<1>4. OpTypes'
  BY <1>2, <1>3, NextShape DEF Types
<1>5. ASSUME NEW T, \A t \in Slots : CallTold(T, op[t])
      PROVE \A t \in Slots : CallTold(T, op'[t])
  BY <1>2, <1>3, <1>5, NextTold DEF Types
<1> QED BY <1>4, <1>5

----------------------------------------------------------------------------
(* The types of the server and of the cache. *)

LEMMA MoreGenerations ==
  ASSUME ServerTypes, UNCHANGED events,
         calls' = calls \/ (calls < MaxCalls /\ calls' = calls + 1)
  PROVE 0..(1 + calls + events) \subseteq 0..(1 + calls' + events')
<1>1. calls \in Nat /\ events \in Nat /\ events' = events
  BY CacheAssumption DEF ServerTypes
<1>2. CASE calls' = calls
  BY <1>1, <1>2
<1>3. CASE calls' = calls + 1
  BY <1>1, <1>3
<1> QED BY <1>2, <1>3

LEMMA ServerSame ==
  ASSUME ServerTypes, UNCHANGED server, UNCHANGED events,
         calls' = calls \/ (calls < MaxCalls /\ calls' = calls + 1)
  PROVE ServerTypes'
<1>1. calls' \in 0..MaxCalls /\ calls' \in Nat /\ (calls' = calls \/ calls' = calls + 1) /\ events \in Nat /\ calls \in Nat
  BY CacheAssumption DEF ServerTypes
<1>2. 0..(1 + calls + events) \subseteq 0..(1 + calls' + events')
  BY MoreGenerations
<1>3. gen \in [Folders -> 0..(1 + calls' + events')]
  BY <1>2 DEF ServerTypes
<1> QED BY <1>1, <1>3 DEF ServerTypes, server

LEMMA StoreSame ==
  ASSUME StoreTypes, UNCHANGED store, UNCHANGED marked
  PROVE StoreTypes'
BY DEF StoreTypes, store

LEMMA DeliverServer ==
  ASSUME ServerTypes, NEW f \in Folders, NEW m \in Msgs, Deliver(f, m)
  PROVE ServerTypes'
<1>1. events' \in 0..MaxEvents /\ events' = events + 1 /\ calls' = calls /\ calls \in Nat /\ events \in Nat
  BY CacheAssumption DEF ServerTypes, Deliver
<1>2. gen' \in [Folders -> 0..(1 + calls' + events')]
  <2>1. 0..(1 + calls + events) \subseteq 0..(1 + calls' + events')
    BY <1>1
  <2> QED BY <2>1 DEF ServerTypes, Deliver
<1>3. box' \in [Folders -> [Uids -> Msgs \union {NoMsg}]]
  BY DEF ServerTypes, Deliver
<1>4. last' \in [Folders -> Nat]
  BY DEF ServerTypes, Deliver, NextUid
<1> QED BY <1>1, <1>2, <1>3, <1>4 DEF ServerTypes, Deliver

LEMMA RenumberServer ==
  ASSUME ServerTypes, NEW f \in Folders, Renumber(f)
  PROVE ServerTypes'
<1>1. events' \in 0..MaxEvents /\ events' = events + 1 /\ calls' = calls /\ calls \in Nat /\ events \in Nat
  BY CacheAssumption DEF ServerTypes, Renumber
<1>2. gen' \in [Folders -> 0..(1 + calls' + events')]
  <2>1. 0..(1 + calls + events) \subseteq 0..(1 + calls' + events')
    BY <1>1
  <2>2. FreshGen \in 0..(1 + calls' + events')
    BY <1>1 DEF FreshGen
  <2> QED BY <2>1, <2>2 DEF ServerTypes, Renumber
<1>3. PICK b \in [Uids -> Msgs \union {NoMsg}] :
         box' = [box EXCEPT ![f] = b] /\ last' = [last EXCEPT ![f] = Held(b)]
  BY DEF Renumber
<1>4. box' \in [Folders -> [Uids -> Msgs \union {NoMsg}]]
  BY <1>3 DEF ServerTypes
<1>5. last' \in [Folders -> Nat]
  BY <1>3, HeldIsNat DEF ServerTypes
<1> QED BY <1>1, <1>2, <1>4, <1>5 DEF ServerTypes, Renumber

LEMMA StoredServer ==
  ASSUME ServerTypes, NEW f \in Folders, NEW u \in Uids, NEW g, KeywordsStored(f, u, g),
         UNCHANGED events, calls' = calls \/ (calls < MaxCalls /\ calls' = calls + 1)
  PROVE ServerTypes'
<1>1. calls' \in 0..MaxCalls /\ calls' \in Nat /\ (calls' = calls \/ calls' = calls + 1) /\ events \in Nat /\ calls \in Nat
  BY CacheAssumption DEF ServerTypes
<1>2. gen' \in [Folders -> 0..(1 + calls' + events')]
  <2>1. 0..(1 + calls + events) \subseteq 0..(1 + calls' + events')
    BY MoreGenerations
  <2> QED BY <2>1 DEF ServerTypes, KeywordsStored
<1>3. box[f][u] \in Msgs
  BY DEF ServerTypes, KeywordsStored
<1> QED BY <1>1, <1>2, <1>3 DEF ServerTypes, KeywordsStored

LEMMA MovedServer ==
  ASSUME ServerTypes, NEW f \in Folders, NEW u \in Uids, NEW g, Moved(f, u, g),
         UNCHANGED events, calls' = calls \/ (calls < MaxCalls /\ calls' = calls + 1)
  PROVE ServerTypes'
<1>1. calls' \in 0..MaxCalls /\ calls' \in Nat /\ (calls' = calls \/ calls' = calls + 1) /\ events \in Nat /\ calls \in Nat
  BY CacheAssumption DEF ServerTypes
<1>2. gen' \in [Folders -> 0..(1 + calls' + events')]
  <2>1. 0..(1 + calls + events) \subseteq 0..(1 + calls' + events')
    BY MoreGenerations
  <2> QED BY <2>1 DEF ServerTypes, Moved
<1>3. box[f][u] \in Msgs \union {NoMsg}
  BY DEF ServerTypes
<1>4. box' \in [Folders -> [Uids -> Msgs \union {NoMsg}]]
  BY <1>3, CacheAssumption DEF ServerTypes, Moved
<1>5. last' \in [Folders -> Nat]
  BY CacheAssumption DEF ServerTypes, Moved, NextUid
<1> QED BY <1>1, <1>2, <1>4, <1>5 DEF ServerTypes, Moved

(* A mailbox is created, takes the place of another, or goes. *)
LEMMA FoldersServer ==
  ASSUME ServerTypes, NEW f \in Folders, NEW g \in Folders,
         FolderCreated(f) \/ FolderRenamed(f, g) \/ FolderDeleted(f),
         UNCHANGED events, calls < MaxCalls, calls' = calls + 1
  PROVE ServerTypes'
<1>1. calls' \in 0..MaxCalls /\ events \in Nat /\ calls \in Nat
  BY CacheAssumption DEF ServerTypes
<1>2. /\ 0..(1 + calls + events) \subseteq 0..(1 + calls' + events)
      /\ FreshGen \in 0..(1 + calls' + events) /\ 0 \in 0..(1 + calls' + events)
  BY <1>1 DEF FreshGen
<1>3. gen \in [Folders -> 0..(1 + calls' + events')]
  BY <1>2 DEF ServerTypes
<1>4. Empty \in [Uids -> Msgs \union {NoMsg}]
  BY DEF Empty
<1>5. CASE FolderCreated(f)
  BY <1>1, <1>2, <1>3, <1>5 DEF ServerTypes, FolderCreated
<1>6. CASE FolderRenamed(f, g)
  <2>1. gen' \in [Folders -> 0..(1 + calls' + events')]
    BY <1>2, <1>3, <1>6 DEF FolderRenamed
  <2>2. box' \in [Folders -> [Uids -> Msgs \union {NoMsg}]]
    BY <1>4, <1>6 DEF ServerTypes, FolderRenamed
  <2>3. last' \in [Folders -> Nat]
    BY <1>6 DEF ServerTypes, FolderRenamed
  <2> QED BY <1>1, <1>6, <2>1, <2>2, <2>3 DEF ServerTypes, FolderRenamed
<1>7. CASE FolderDeleted(f)
  <2>1. gen' \in [Folders -> 0..(1 + calls' + events')]
    BY <1>2, <1>3, <1>7 DEF FolderDeleted
  <2>2. box' \in [Folders -> [Uids -> Msgs \union {NoMsg}]]
    BY <1>4, <1>7 DEF ServerTypes, FolderDeleted
  <2>3. last' \in [Folders -> Nat]
    BY <1>7 DEF ServerTypes, FolderDeleted
  <2> QED BY <1>1, <1>7, <2>1, <2>2, <2>3 DEF ServerTypes, FolderDeleted
<1> QED BY <1>5, <1>6, <1>7

(* A row that answers for a uid is one of the folder's, and there is only one. *)
LEMMA RowOfTable ==
  ASSUME StoreTypes, NEW f \in Folders, NEW r \in rows[f]
  PROVE /\ r \in Row /\ r.uid \in Uids /\ r.gen \in Gens /\ r.msg \in Msgs
        /\ r = [uid |-> r.uid, gen |-> r.gen, msg |-> r.msg]
<1>1. rows[f] \in Tables
  BY DEF StoreTypes
<1>2. r \in Row
  BY <1>1 DEF Tables
<1> QED BY <1>2 DEF Row

LEMMA SubTable ==
  ASSUME NEW R \in Tables, NEW S, S \subseteq R
  PROVE S \in Tables
BY DEF Tables

----------------------------------------------------------------------------
(* The two kinds of step: the cache and its calls move on under the same   *)
(* facts, or the server hands out identities and the facts grow.           *)

LEMMA CacheStep ==
  ASSUME Types, NEW T, Told(T), UNCHANGED server, UNCHANGED events,
         calls' = calls \/ (calls < MaxCalls /\ calls' = calls + 1),
         StoreTypes', OpTypes',
         \A f \in Folders : TableTold(T, f, rows'[f]),
         details' \subseteq T, TagsTold(T)',
         \A s \in Slots : CallTold(T, op'[s])
  PROVE Types' /\ Told(T)'
<1>1. ServerTypes'
  BY ServerSame DEF Types
<1>2. calls \in Nat /\ events \in Nat
  BY CacheAssumption DEF Types, ServerTypes
<1>3. Past(T)'
  <2> SUFFICES ASSUME NEW x \in T
               PROVE x.gen <= 1 + calls' + events' /\ (x.gen = gen'[x.f] => x.uid <= last'[x.f])
    BY DEF Past
  <2>1. x.gen <= 1 + calls + events /\ (x.gen = gen[x.f] => x.uid <= last[x.f]) /\ x.gen \in Nat
    BY DEF Told, Past, Detail, Gens
  <2>2. x.gen <= 1 + calls' + events'
    <3>1. CASE calls' = calls
      BY <2>1, <3>1
    <3>2. CASE calls' = calls + 1
      BY <1>2, <2>1, <3>2
    <3> QED BY <3>1, <3>2
  <2> QED BY <2>1, <2>2 DEF server
<1>4. BoxTold(T)'
  BY DEF Told, BoxTold, server
<1>5. \A f \in Folders : TableTold(T, f, rows[f])'
  BY DEF TableTold
<1>6. \A s \in Slots : CallTold(T, op[s])'
  BY DEF CallTold, TableTold
<1>7. Told(T)'
  BY <1>3, <1>4, <1>5, <1>6 DEF Told
<1> QED BY <1>1, <1>7 DEF Types

(* A call goes on, and the cache stays. *)
LEMMA CallStep ==
  ASSUME Types, NEW T, Told(T), UNCHANGED server, UNCHANGED store, UNCHANGED events, UNCHANGED marked,
         calls' = calls \/ (calls < MaxCalls /\ calls' = calls + 1),
         NEW s \in Slots, NEW o, Shaped(o), CallTold(T, o), op' = [op EXCEPT ![s] = o]
  PROVE Types' /\ Told(T)'
<1>1. StoreTypes'
  BY StoreSame DEF Types
<1>2. OpTypes'
  BY NextShape DEF Types
<1>3. \A t \in Slots : CallTold(T, op'[t])
  BY NextTold DEF Types, Told
<1>4. /\ \A f \in Folders : TableTold(T, f, rows'[f])
      /\ details' \subseteq T /\ TagsTold(T)'
  BY DEF Told, TagsTold, store
<1> QED BY <1>1, <1>2, <1>3, <1>4, CacheStep

(* An update that is refused. *)
LEMMA RefusedStep ==
  ASSUME Types, NEW T, Told(T), NEW s \in Slots, Refused(s),
         UNCHANGED server, UNCHANGED events, UNCHANGED calls
  PROVE Types' /\ Told(T)'
<1>1. After(op[s]) \in Back
  BY AfterIsBack DEF Types, OpTypes
<1>2. Shaped(After(op[s])) /\ CallTold(T, After(op[s]))
  BY <1>1, BackShaped
<1> QED BY <1>2, CallStep DEF Refused, Return, Wait, history

(* The server's facts after a step that hands out identities. *)
Learnt(T, U) ==
  /\ U \subseteq Detail /\ T \subseteq U
  /\ OneName(U) /\ Past(U)' /\ BoxTold(U)'

LEMMA ServerStep ==
  ASSUME Types, NEW T, Told(T), NEW U, Learnt(T, U),
         ServerTypes', UNCHANGED store, UNCHANGED marked, OpTypes',
         \A s \in Slots : CallTold(U, op'[s])
  PROVE Types' /\ Told(U)'
<1>1. StoreTypes'
  BY StoreSame DEF Types
<1>2. \A f \in Folders : TableTold(U, f, rows[f])'
  BY DEF Told, TableTold, Learnt, store
<1>3. (details \subseteq U)'
  BY DEF Told, Learnt, store
<1>4. TagsTold(U)'
  BY DEF Told, TagsTold, Learnt, store
<1>5. \A s \in Slots : CallTold(U, op[s])'
  BY DEF CallTold, TableTold
<1>6. Told(U)'
  BY <1>2, <1>3, <1>4, <1>5 DEF Told, Learnt
<1> QED BY <1>1, <1>6 DEF Types

(* Facts about a generation nobody has had, or about a uid above the last. *)
LEMMA Unseen ==
  ASSUME Types, NEW T, Told(T), NEW f \in Folders
  PROVE /\ \A x \in T : x.gen # FreshGen
        /\ \A x \in T : x.f = f /\ x.gen = gen[f] => x.uid < NextUid(f)
<1>1. calls \in Nat /\ events \in Nat /\ last[f] \in Nat
  BY CacheAssumption DEF Types, ServerTypes
<1>2. ASSUME NEW x \in T PROVE x.gen # FreshGen
  <2>1. x.gen <= 1 + calls + events /\ x.gen \in Nat
    BY DEF Told, Past, Detail, Gens
  <2> QED BY <1>1, <2>1 DEF FreshGen
<1>3. ASSUME NEW x \in T, x.f = f, x.gen = gen[f] PROVE x.uid < NextUid(f)
  <2>1. x.uid <= last[f] /\ x.uid \in Nat
    BY <1>3, CacheAssumption DEF Told, Past, Detail
  <2> QED BY <1>1, <2>1 DEF NextUid
<1> QED BY <1>2, <1>3

----------------------------------------------------------------------------
(* Reads and conversations that leave the server as it is. *)

LEMMA ListingTold ==
  ASSUME Types, NEW T, Told(T), NEW f \in Folders, gen[f] # 0
  PROVE Listing(f) \in Tables /\ TableTold(T, f, Listing(f))
<1>1. Listing(f) \in Tables
  BY ListingIsTable DEF Types
<1>2. ASSUME NEW r \in Listing(f) PROVE Fact(f, r.gen, r.uid, r.msg) \in T
  <2>1. PICK u \in Uids : box[f][u] # NoMsg /\ r = [uid |-> u, gen |-> gen[f], msg |-> box[f][u]]
    BY DEF Listing
  <2>2. Fact(f, gen[f], u, box[f][u]) \in T
    BY <2>1 DEF Told, BoxTold
  <2> QED BY <2>1, <2>2
<1> QED BY <1>1, <1>2 DEF TableTold

LEMMA ListMessagesStep ==
  ASSUME Types, NEW T, Told(T), NEW s \in Slots, NEW f \in Folders, ListMessages(s, f)
  PROVE Types' /\ Told(T)'
<1>1. calls < MaxCalls /\ calls' = calls + 1
  BY DEF ListMessages, Begin
<1>2. UNCHANGED server /\ UNCHANGED store /\ UNCHANGED events /\ UNCHANGED marked
  BY DEF ListMessages, history
<1>3. CASE gen[f] # 0
  <2> DEFINE o == [pc |-> "listed", f |-> f, got |-> Listing(f)]
  <2>1. Listing(f) \in Tables /\ TableTold(T, f, Listing(f))
    BY <1>3, ListingTold
  <2>2. Shaped(o)
    BY <2>1 DEF Shaped
  <2>3. CallTold(T, o)
    BY <2>1 DEF CallTold
  <2>4. op' = [op EXCEPT ![s] = o]
    BY <1>3 DEF ListMessages, Wait
  <2> HIDE DEF o
  <2> QED BY <1>1, <1>2, <2>2, <2>3, <2>4, CallStep
<1>4. CASE gen[f] = 0
  <2>1. op' = [op EXCEPT ![s] = Idle]
    BY <1>4 DEF ListMessages, Wait
  <2> QED BY <1>1, <1>2, <2>1, CallStep, IdleShaped
<1> QED BY <1>3, <1>4

LEMMA GetMessageStep ==
  ASSUME Types, NEW T, Told(T), NEW s \in Slots, NEW f \in Folders, NEW u \in Uids, GetMessage(s, f, u)
  PROVE Types' /\ Told(T)'
<1>1. calls < MaxCalls /\ calls' = calls + 1
  BY DEF GetMessage, Begin
<1>2. UNCHANGED server /\ UNCHANGED store /\ UNCHANGED events /\ UNCHANGED marked
  BY DEF GetMessage, history
<1>3. PICK r \in rows[f] :
         op' = [op EXCEPT ![s] = IF Fetchable(f, u, r.gen)
                  THEN [pc |-> "fetched", d |-> [f |-> f, uid |-> u, gen |-> r.gen, msg |-> box[f][u]]]
                  ELSE Idle]
  BY DEF GetMessage, Wait
<1>4. CASE Fetchable(f, u, r.gen)
  <2> DEFINE d == [f |-> f, uid |-> u, gen |-> r.gen, msg |-> box[f][u]]
             o == [pc |-> "fetched", d |-> d]
  <2>1. gen[f] = r.gen /\ box[f][u] # NoMsg
    BY <1>4 DEF Fetchable, AssertGeneration
  <2>2. d = Fact(f, gen[f], u, box[f][u])
    BY <2>1 DEF Fact
  <2>3. d \in T
    BY <2>1, <2>2 DEF Told, BoxTold
  <2>4. d \in Detail
    BY <2>3 DEF Told
  <2>5. Shaped(o)
    BY <2>4 DEF Shaped
  <2>6. CallTold(T, o)
    BY <2>3 DEF CallTold
  <2>7. op' = [op EXCEPT ![s] = o]
    BY <1>3, <1>4
  <2> HIDE DEF o
  <2> QED BY <1>1, <1>2, <2>5, <2>6, <2>7, CallStep
<1>5. CASE ~Fetchable(f, u, r.gen)
  <2>1. op' = [op EXCEPT ![s] = Idle]
    BY <1>3, <1>5
  <2> QED BY <1>1, <1>2, <2>1, CallStep, IdleShaped
<1> QED BY <1>4, <1>5

LEMMA SyncAccountStep ==
  ASSUME Types, NEW T, Told(T), NEW s \in Slots, SyncAccount(s)
  PROVE Types' /\ Told(T)'
<1> DEFINE targets == {f \in {Inbox, selected} : gen[f] # 0}
           o == [pc |-> "sync", got |-> ListFolders, todo |-> targets, batch |-> [f \in {} |-> {}]]
<1>1. calls < MaxCalls /\ calls' = calls + 1
  BY DEF SyncAccount, Begin
<1>2. UNCHANGED server /\ UNCHANGED store /\ UNCHANGED events /\ UNCHANGED marked
  BY DEF SyncAccount, history
<1>3. targets \subseteq Folders
  BY CacheAssumption DEF Types, StoreTypes
<1>4. ListFolders \in Lists
  BY ListsFolders DEF Types, ListFolders
<1>5. [f \in {} |-> {}] \in Batches
  BY DEF Batches
<1>6. Shaped(o)
  BY <1>3, <1>4, <1>5 DEF Shaped
<1>7. CallTold(T, o)
  BY DEF CallTold
<1>8. op' = [op EXCEPT ![s] = o]
  BY DEF SyncAccount, Wait
<1> HIDE DEF o
<1> QED BY <1>1, <1>2, <1>6, <1>7, <1>8, CallStep

LEMMA BatchGrows ==
  ASSUME NEW b \in Batches, NEW f \in Folders, NEW R \in Tables
  PROVE [g \in DOMAIN b \union {f} |-> IF g = f THEN R ELSE b[g]] \in Batches
<1>1. PICK F \in SUBSET Folders : b \in [F -> Tables]
  BY DEF Batches
<1>2. DOMAIN b = F
  BY <1>1
<1>3. F \union {f} \in SUBSET Folders
  OBVIOUS
<1>4. [g \in DOMAIN b \union {f} |-> IF g = f THEN R ELSE b[g]] \in [F \union {f} -> Tables]
  BY <1>1, <1>2
<1> QED BY <1>3, <1>4 DEF Batches

LEMMA SyncListStep ==
  ASSUME Types, NEW T, Told(T), NEW s \in Slots, NEW f \in Folders, SyncList(s, f)
  PROVE Types' /\ Told(T)'
<1>1. UNCHANGED server /\ UNCHANGED store /\ UNCHANGED events /\ UNCHANGED marked /\ UNCHANGED calls
  BY DEF SyncList, history
<1>2. CASE gen[f] = 0
  <2>1. op' = [op EXCEPT ![s] = Idle]
    BY <1>2 DEF SyncList, Wait
  <2> QED BY <1>1, <2>1, CallStep, IdleShaped
<1>3. CASE gen[f] # 0
  <2> DEFINE b == [g \in DOMAIN op[s].batch \union {f} |->
                     IF g = f THEN Listing(f) ELSE op[s].batch[g]]
             o == [op[s] EXCEPT !.todo = @ \ {f}, !.batch = b]
  <2>1. Listing(f) \in Tables /\ TableTold(T, f, Listing(f))
    BY <1>3, ListingTold
  <2>2. op[s].pc = "sync"
    BY DEF SyncList
  <2>3. op[s] \in [pc : {"sync"}, got : Lists, todo : SUBSET Folders, batch : Batches]
    BY <2>2 DEF Types, OpTypes, Shaped
  <2>4. b \in Batches
    BY <2>1, <2>3, BatchGrows
  <2>5. \A g \in DOMAIN b : TableTold(T, g, b[g])
    <3>1. \A g \in DOMAIN op[s].batch : TableTold(T, g, op[s].batch[g])
      BY <2>2 DEF Told, CallTold
    <3> QED BY <2>1, <3>1
  <2> HIDE DEF b
  <2>6. o \in [pc : {"sync"}, got : Lists, todo : SUBSET Folders, batch : Batches] /\ o.pc = "sync" /\ o.batch = b
    BY <2>3, <2>4
  <2>7. Shaped(o)
    BY <2>6 DEF Shaped
  <2>8. CallTold(T, o)
    BY <2>5, <2>6 DEF CallTold
  <2>9. op' = [op EXCEPT ![s] = o]
    BY <1>3 DEF SyncList, Wait, b
  <2> HIDE DEF o
  <2> QED BY <1>1, <2>7, <2>8, <2>9, CallStep
<1> QED BY <1>2, <1>3

LEMMA PlanFiltersStep ==
  ASSUME Types, NEW T, Told(T), NEW s \in Slots, PlanFilters(s)
  PROVE Types' /\ Told(T)'
<1> DEFINE fresh == {p \in op[s].got : NotYetRun(LedgerKey(p[1], p[2]))}
           plan == UNION {{[f |-> p[1], uid |-> r.uid, msg |-> r.msg] :
                             r \in {q \in RowsAt(p[1], p[2].uid) : Judged(p[1], q) \in Matching}} :
                             p \in fresh}
           o == [pc |-> "filter", plan |-> plan]
<1>1. UNCHANGED server /\ UNCHANGED store /\ UNCHANGED events /\ UNCHANGED marked /\ UNCHANGED calls
  BY DEF PlanFilters
<1>2. op[s].got \in SUBSET (Folders \X Row)
  BY DEF PlanFilters, Types, OpTypes, Shaped
<1>3. plan \in Plans
  <2> SUFFICES ASSUME NEW e \in plan PROVE e \in [f : Folders, uid : Uids, msg : Msgs]
    BY DEF Plans
  <2>1. PICK p \in fresh : \E r \in RowsAt(p[1], p[2].uid) : e = [f |-> p[1], uid |-> r.uid, msg |-> r.msg]
    OBVIOUS
  <2>2. p[1] \in Folders
    BY <1>2
  <2>3. PICK r \in rows[p[1]] : e = [f |-> p[1], uid |-> r.uid, msg |-> r.msg]
    BY <2>1 DEF RowsAt
  <2>4. r.uid \in Uids /\ r.msg \in Msgs
    BY <2>2, RowOfTable DEF Types
  <2> QED BY <2>2, <2>3, <2>4
<1>4. op' = [op EXCEPT ![s] = IF account THEN o ELSE Idle]
  BY DEF PlanFilters, Wait
<1> HIDE DEF plan
<1>5. Shaped(o) /\ CallTold(T, o)
  BY <1>3 DEF Shaped, CallTold
<1> HIDE DEF o
<1>6. CASE account
  BY <1>1, <1>4, <1>5, <1>6, CallStep
<1>7. CASE ~account
  BY <1>1, <1>4, <1>7, CallStep, IdleShaped
<1> QED BY <1>6, <1>7

LEMMA FiltersDoneStep ==
  ASSUME Types, NEW T, Told(T), NEW s \in Slots, FiltersDone(s)
  PROVE Types' /\ Told(T)'
BY CallStep, IdleShaped DEF FiltersDone, Wait, history

LEMMA RefreshCallStep ==
  ASSUME Types, NEW T, Told(T), NEW s \in Slots, RefreshCall(s)
  PROVE Types' /\ Told(T)'
<1> DEFINE o == [pc |-> "refreshed", got |-> ListFolders]
<1>1. UNCHANGED server /\ UNCHANGED store /\ UNCHANGED events /\ UNCHANGED marked /\ UNCHANGED calls
  BY DEF RefreshCall, history
<1>2. op' = [op EXCEPT ![s] = IF account THEN o ELSE Idle]
  BY DEF RefreshCall, Wait
<1>3. Shaped(o) /\ CallTold(T, o)
  BY ListsFolders DEF Types, ListFolders, Shaped, CallTold
<1> HIDE DEF o
<1>4. CASE account
  BY <1>1, <1>2, <1>3, <1>4, CallStep
<1>5. CASE ~account
  BY <1>1, <1>2, <1>5, CallStep, IdleShaped
<1> QED BY <1>4, <1>5

LEMMA MarkFolderReadStep ==
  ASSUME Types, NEW T, Told(T), NEW s \in Slots, NEW f \in Folders, MarkFolderRead(s, f)
  PROVE Types' /\ Told(T)'
<1> DEFINE o == [pc |-> "read", f |-> f]
<1>1. UNCHANGED server /\ UNCHANGED store /\ UNCHANGED events /\ UNCHANGED marked
  BY DEF MarkFolderRead, history
<1>2. calls < MaxCalls /\ calls' = calls + 1
  BY DEF MarkFolderRead, Begin
<1>3. op' = [op EXCEPT ![s] = IF MarkedRead(f, list[f]) THEN o ELSE Idle]
  BY DEF MarkFolderRead, Wait
<1>4. Shaped(o) /\ CallTold(T, o)
  BY DEF Shaped, CallTold
<1> HIDE DEF o
<1>5. CASE MarkedRead(f, list[f])
  BY <1>1, <1>2, <1>3, <1>4, <1>5, CallStep
<1>6. CASE ~MarkedRead(f, list[f])
  BY <1>1, <1>2, <1>3, <1>6, CallStep, IdleShaped
<1> QED BY <1>5, <1>6

----------------------------------------------------------------------------
(* Updates of the cache. *)

(* The calls stay, and the cache changes. *)
LEMMA SameCalls ==
  ASSUME Types, NEW T, Told(T), UNCHANGED op
  PROVE OpTypes' /\ \A s \in Slots : CallTold(T, op'[s])
BY DEF Types, OpTypes, Shaped, Told

LEMMA RemoveAccountStep ==
  ASSUME Types, NEW T, Told(T), RemoveAccount
  PROVE Types' /\ Told(T)'
<1>1. /\ UNCHANGED server /\ UNCHANGED events /\ UNCHANGED op
      /\ calls < MaxCalls /\ calls' = calls + 1
  BY DEF RemoveAccount
<1>2. rows' = [f \in Folders |-> {}]
  BY DEF RemoveAccount
<1>3. StoreTypes'
  <2>1. list' \in Lists
    BY DEF RemoveAccount, Lists
  <2>2. rows' \in [Folders -> Tables]
    BY <1>2, EmptyIsTable
  <2> QED BY <1>2, <2>1, <2>2 DEF RemoveAccount, Types, StoreTypes, history
<1>4. \A f \in Folders : TableTold(T, f, rows'[f])
  BY <1>2 DEF TableTold
<1>5. details' \subseteq T /\ TagsTold(T)'
  BY DEF RemoveAccount, TagsTold
<1> QED BY <1>1, <1>3, <1>4, <1>5, SameCalls, CacheStep

LEMMA SelectStep ==
  ASSUME Types, NEW T, Told(T), NEW f \in Folders, Select(f)
  PROVE Types' /\ Told(T)'
<1>1. /\ UNCHANGED server /\ UNCHANGED events /\ UNCHANGED op
      /\ calls < MaxCalls /\ calls' = calls + 1
  BY DEF Select
<1>2. StoreTypes'
  BY DEF Select, Types, StoreTypes, history
<1>3. /\ \A g \in Folders : TableTold(T, g, rows'[g])
      /\ details' \subseteq T /\ TagsTold(T)'
  BY DEF Select, Told, TagsTold, history
<1> QED BY <1>1, <1>2, <1>3, SameCalls, CacheStep

LEMMA DeleteTagStep ==
  ASSUME Types, NEW T, Told(T), DeleteTag
  PROVE Types' /\ Told(T)'
<1>1. /\ UNCHANGED server /\ UNCHANGED events /\ UNCHANGED op
      /\ calls < MaxCalls /\ calls' = calls + 1
  BY DEF DeleteTag
<1>2. StoreTypes'
  BY DEF DeleteTag, Types, StoreTypes, history
<1>3. /\ \A g \in Folders : TableTold(T, g, rows'[g])
      /\ details' \subseteq T /\ TagsTold(T)'
  BY DEF DeleteTag, Told, TagsTold, history
<1> QED BY <1>1, <1>2, <1>3, SameCalls, CacheStep

LEMMA StoreListingStep ==
  ASSUME Types, NEW T, Told(T), NEW s \in Slots, StoreListing(s)
  PROVE Types' /\ Told(T)'
<1>1. UNCHANGED server /\ UNCHANGED events /\ UNCHANGED calls
  BY DEF StoreListing
<1>2. CASE Refused(s)
  BY <1>1, <1>2, RefusedStep
<1>3. CASE /\ cached' = cached \union {op[s].f}
           /\ rows' = [rows EXCEPT ![op[s].f] = op[s].got]
           /\ Wait(s, Idle)
           /\ UNCHANGED <<account, list, details, tags, selected, history>>
  <2>1. op[s].f \in Folders /\ op[s].got \in Tables
    BY DEF StoreListing, Types, OpTypes, Shaped
  <2>2. TableTold(T, op[s].f, op[s].got)
    BY DEF StoreListing, Told, CallTold
  <2>3. rows' \in [Folders -> Tables]
    BY <1>3, <2>1 DEF Types, StoreTypes
  <2>4. \A f \in Folders : f \notin cached' => rows'[f] = {}
    BY <1>3, <2>1 DEF Types, StoreTypes
  <2>5. StoreTypes'
    BY <1>3, <2>1, <2>3, <2>4 DEF Types, StoreTypes, history
  <2>6. \A f \in Folders : TableTold(T, f, rows'[f])
    BY <1>3, <2>1, <2>2 DEF Types, StoreTypes, Told
  <2>7. details' \subseteq T /\ TagsTold(T)'
    BY <1>3 DEF Told, TagsTold, history
  <2>8. OpTypes' /\ \A t \in Slots : CallTold(T, op'[t])
    BY <1>3, IdleShaped, NextShape, NextTold DEF Types, Told, Wait
  <2> QED BY <1>1, <2>5, <2>6, <2>7, <2>8, CacheStep
<1> QED BY <1>2, <1>3 DEF StoreListing

LEMMA StoreDetailStep ==
  ASSUME Types, NEW T, Told(T), NEW s \in Slots, StoreDetail(s)
  PROVE Types' /\ Told(T)'
<1> DEFINE d == op[s].d
<1>1. UNCHANGED server /\ UNCHANGED events /\ UNCHANGED calls
  BY DEF StoreDetail
<1>2. CASE Refused(s)
  BY <1>1, <1>2, RefusedStep
<1>3. CASE /\ details' = {e \in details : e.f # d.f \/ e.uid # d.uid} \union {d}
           /\ Wait(s, Idle)
           /\ UNCHANGED <<account, list, cached, rows, tags, selected, history>>
  <2>1. d \in Detail /\ d \in T
    BY DEF StoreDetail, Types, OpTypes, Shaped, Told, CallTold
  <2>2. details' \subseteq Detail
    BY <1>3, <2>1 DEF Types, StoreTypes
  <2>3. \A x, y \in details' : x.f = y.f /\ x.uid = y.uid => x = y
    BY <1>3 DEF Types, StoreTypes
  <2>4. StoreTypes'
    BY <1>3, <2>2, <2>3 DEF Types, StoreTypes, history
  <2>5. /\ \A f \in Folders : TableTold(T, f, rows'[f])
        /\ details' \subseteq T /\ TagsTold(T)'
    BY <1>3, <2>1 DEF Told, TagsTold, history
  <2>6. OpTypes' /\ \A t \in Slots : CallTold(T, op'[t])
    BY <1>3, IdleShaped, NextShape, NextTold DEF Types, Told, Wait
  <2> QED BY <1>1, <2>4, <2>5, <2>6, CacheStep
<1> QED BY <1>2, <1>3 DEF StoreDetail

LEMMA StoreSyncStep ==
  ASSUME Types, NEW T, Told(T), NEW s \in Slots, StoreSync(s)
  PROVE Types' /\ Told(T)'
<1> DEFINE got == op[s].got
           batch == op[s].batch
           reset == {f \in Folders : list[f] # 0 /\ got[f] # 0 /\ list[f] # got[f]}
           kept == [f \in Folders |-> IF f \in reset THEN {} ELSE rows[f]]
           known(f) == {LedgerKey(f, r) : r \in kept[f]}
           arrived == UNION {{<<f, r>> : r \in {q \in batch[f] : LedgerKey(f, q) \notin known(f)}} :
                               f \in DOMAIN batch}
           o == [pc |-> "arrived", got |-> arrived]
<1>1. UNCHANGED server /\ UNCHANGED events /\ UNCHANGED calls
  BY DEF StoreSync
<1>2. CASE Refused(s)
  BY <1>1, <1>2, RefusedStep
<1>3. CASE /\ list' = got
           /\ cached' = (cached \ reset) \union DOMAIN batch
           /\ rows' = [f \in Folders |-> IF f \in DOMAIN batch THEN batch[f] ELSE kept[f]]
           /\ details' = {d \in details : d.f \notin reset}
           /\ Wait(s, o)
           /\ UNCHANGED <<account, tags, selected, history>>
  <2>1. op[s].pc = "sync"
    BY DEF StoreSync
  <2>2. got \in Lists /\ batch \in Batches
    BY <2>1 DEF Types, OpTypes, Shaped
  <2>3. DOMAIN batch \subseteq Folders /\ \A f \in DOMAIN batch : batch[f] \in Tables
    BY <2>2 DEF Batches
  <2>4. \A f \in DOMAIN batch : TableTold(T, f, batch[f])
    BY <2>1 DEF Told, CallTold
  <2>5. \A f \in Folders : kept[f] \in Tables /\ TableTold(T, f, kept[f])
    BY EmptyIsTable DEF Types, StoreTypes, Told, TableTold
  <2>6. \A f \in Folders : f \notin cached' => f \notin DOMAIN batch /\ kept[f] = {}
    BY <1>3 DEF Types, StoreTypes
  <2>7. arrived \in SUBSET (Folders \X Row)
    BY <2>3 DEF Tables
  <2> HIDE DEF arrived, kept, batch
  <2>8. rows' \in [Folders -> Tables]
    BY <1>3, <2>3, <2>5
  <2>9. \A f \in Folders : f \notin cached' => rows'[f] = {}
    BY <1>3, <2>6
  <2>10. StoreTypes'
    BY <1>3, <2>2, <2>3, <2>8, <2>9 DEF Types, StoreTypes, history
  <2>11. \A f \in Folders : TableTold(T, f, rows'[f])
    BY <1>3, <2>4, <2>5
  <2>12. details' \subseteq T /\ TagsTold(T)'
    BY <1>3 DEF Told, TagsTold, history
  <2>13. Shaped(o) /\ CallTold(T, o)
    BY <2>7 DEF Shaped, CallTold
  <2> HIDE DEF o
  <2>14. OpTypes' /\ \A t \in Slots : CallTold(T, op'[t])
    BY <1>3, <2>13, NextShape, NextTold DEF Types, Told, Wait
  <2> QED BY <1>1, <2>10, <2>11, <2>12, <2>14, CacheStep
<1> QED BY <1>2, <1>3 DEF StoreSync

LEMMA StoreFolderGoneStep ==
  ASSUME Types, NEW T, Told(T), NEW s \in Slots, StoreFolderGone(s)
  PROVE Types' /\ Told(T)'
<1> DEFINE f == op[s].f
<1>1. UNCHANGED server /\ UNCHANGED events /\ UNCHANGED calls
  BY DEF StoreFolderGone
<1>2. CASE Refused(s)
  BY <1>1, <1>2, RefusedStep
<1>3. CASE /\ Forget(f)
           /\ tags' \subseteq tags
           /\ selected' \in {selected, Inbox, op[s].new}
           /\ Wait(s, [pc |-> "refresh"])
           /\ UNCHANGED <<account, list, history>>
  <2>1. f \in Folders /\ op[s].new \in Folders
    BY DEF StoreFolderGone, Types, OpTypes, Shaped
  <2>2. selected' \in Folders
    BY <1>3, <2>1, CacheAssumption DEF Types, StoreTypes
  <2>3. /\ cached' = cached \ {f} /\ rows' = [rows EXCEPT ![f] = {}]
        /\ details' = {d \in details : d.f # f}
    BY <1>3 DEF Forget
  <2>4. rows' \in [Folders -> Tables]
    BY <2>1, <2>3, EmptyIsTable DEF Types, StoreTypes
  <2>5. \A g \in Folders : g \notin cached' => rows'[g] = {}
    BY <2>1, <2>3 DEF Types, StoreTypes
  <2>6. StoreTypes'
    BY <1>3, <2>2, <2>3, <2>4, <2>5 DEF Types, StoreTypes, history
  <2>7. \A g \in Folders : TableTold(T, g, rows'[g])
    BY <2>1, <2>3 DEF Types, StoreTypes, Told, TableTold
  <2>8. details' \subseteq T /\ TagsTold(T)'
    BY <1>3, <2>3 DEF Told, TagsTold, history
  <2>9. Shaped([pc |-> "refresh"]) /\ CallTold(T, [pc |-> "refresh"])
    BY DEF Shaped, CallTold
  <2>10. OpTypes' /\ \A t \in Slots : CallTold(T, op'[t])
    BY <1>3, <2>9, NextShape, NextTold DEF Types, Told, Wait
  <2> QED BY <1>1, <2>6, <2>7, <2>8, <2>10, CacheStep
<1> QED BY <1>2, <1>3 DEF StoreFolderGone

LEMMA StoreFoldersStep ==
  ASSUME Types, NEW T, Told(T), NEW s \in Slots, StoreFolders(s)
  PROVE Types' /\ Told(T)'
<1>1. UNCHANGED server /\ UNCHANGED events /\ UNCHANGED calls
  BY DEF StoreFolders
<1>2. CASE Refused(s)
  BY <1>1, <1>2, RefusedStep
<1>3. CASE /\ list' = op[s].got
           /\ Wait(s, Idle)
           /\ UNCHANGED <<account, cached, rows, details, tags, selected, history>>
  <2>1. op[s].got \in Lists
    BY DEF StoreFolders, Types, OpTypes, Shaped
  <2>2. StoreTypes'
    BY <1>3, <2>1 DEF Types, StoreTypes, history
  <2>3. /\ \A f \in Folders : TableTold(T, f, rows'[f])
        /\ details' \subseteq T /\ TagsTold(T)'
    BY <1>3 DEF Told, TagsTold, history
  <2>4. OpTypes' /\ \A t \in Slots : CallTold(T, op'[t])
    BY <1>3, IdleShaped, NextShape, NextTold DEF Types, Told, Wait
  <2> QED BY <1>1, <2>2, <2>3, <2>4, CacheStep
<1> QED BY <1>2, <1>3 DEF StoreFolders

LEMMA StoreReadStep ==
  ASSUME Types, NEW T, Told(T), NEW s \in Slots, StoreRead(s)
  PROVE Types' /\ Told(T)'
<1>1. UNCHANGED server /\ UNCHANGED events /\ UNCHANGED calls
  BY DEF StoreRead
<1>2. CASE Refused(s)
  BY <1>1, <1>2, RefusedStep
<1>3. CASE /\ cached' = cached \union {op[s].f}
           /\ Wait(s, Idle)
           /\ UNCHANGED <<account, list, rows, details, tags, selected, history>>
  <2>1. op[s].f \in Folders
    BY DEF StoreRead, Types, OpTypes, Shaped
  <2>2. StoreTypes'
    BY <1>3, <2>1 DEF Types, StoreTypes, history
  <2>3. /\ \A f \in Folders : TableTold(T, f, rows'[f])
        /\ details' \subseteq T /\ TagsTold(T)'
    BY <1>3 DEF Told, TagsTold, history
  <2>4. OpTypes' /\ \A t \in Slots : CallTold(T, op'[t])
    BY <1>3, IdleShaped, NextShape, NextTold DEF Types, Told, Wait
  <2> QED BY <1>1, <2>2, <2>3, <2>4, CacheStep
<1> QED BY <1>2, <1>3 DEF StoreRead

(* The tag goes on the row under the uid, whatever message it is now. *)
LEMMA StoreTagStep ==
  ASSUME Types, NEW T, Told(T), NEW s \in Slots, StoreTag(s)
  PROVE Types' /\ Told(T)'
<1> DEFINE o == op[s]
<1>1. UNCHANGED server /\ UNCHANGED events /\ UNCHANGED calls
  BY DEF StoreTag
<1>2. CASE Refused(s)
  BY <1>1, <1>2, RefusedStep
<1>3. ASSUME NEW r \in RowsAt(o.f, o.uid),
             tags' = tags \union {TagKey(o.f, r)},
             marked' = marked \union {r.msg},
             Wait(s, IF o.then.pc = "filter" /\ o.f # Destination
                     THEN [o EXCEPT !.pc = "move"] ELSE o.then),
             UNCHANGED <<account, list, cached, rows, details, selected, twice>>
      PROVE Types' /\ Told(T)'
  <2>1. o.pc = "tagged"
    BY DEF StoreTag
  <2>2. o \in [pc : {"tagged", "move"}, f : Folders, uid : Uids, msg : Msgs, then : Back]
    BY <2>1 DEF Types, OpTypes, Shaped
  <2>3. r \in rows[o.f] /\ o.f \in Folders
    BY <1>3, <2>2 DEF RowsAt
  <2>4. r.uid \in Uids /\ r.gen \in Gens /\ r.msg \in Msgs
    BY <2>3, RowOfTable DEF Types
  <2>5. Fact(o.f, r.gen, r.uid, r.msg) \in T
    BY <2>3 DEF Told, TableTold
  <2>6. tags' \subseteq Folders \X Gens \X Uids
    BY <1>3, <2>3, <2>4 DEF Types, StoreTypes, TagKey
  <2>7. marked' \subseteq Msgs
    BY <1>3, <2>4 DEF Types, StoreTypes
  <2>8. StoreTypes'
    BY <1>3, <2>6, <2>7 DEF Types, StoreTypes
  <2>9. TagsTold(T)'
    <3>1. \A k \in tags : \E m \in marked' : Fact(k[1], k[2], k[3], m) \in T
      BY <1>3 DEF Told, TagsTold
    <3>2. r.msg \in marked'
      BY <1>3
    <3>3. \A k \in tags' : k \in tags \/ k = <<o.f, r.gen, r.uid>>
      BY <1>3 DEF TagKey
    <3>4. ASSUME NEW k \in tags' PROVE \E m \in marked' : Fact(k[1], k[2], k[3], m) \in T
      BY <2>5, <3>1, <3>2, <3>3
    <3> QED BY <3>4 DEF TagsTold
  <2>10. /\ \A f \in Folders : TableTold(T, f, rows'[f])
         /\ details' \subseteq T
    BY <1>3 DEF Told
  <2> DEFINE next == IF o.then.pc = "filter" /\ o.f # Destination
                     THEN [o EXCEPT !.pc = "move"] ELSE o.then
  <2>11. Shaped(next) /\ CallTold(T, next)
    <3>1. ASSUME o.f # Destination
          PROVE Shaped([o EXCEPT !.pc = "move"]) /\ CallTold(T, [o EXCEPT !.pc = "move"])
      <4> DEFINE n == [o EXCEPT !.pc = "move"]
      <4>1. /\ n \in [pc : {"tagged", "move"}, f : Folders, uid : Uids, msg : Msgs, then : Back]
            /\ n.pc = "move" /\ n.f # Destination
        BY <2>2, <3>1
      <4> HIDE DEF n
      <4>2. Shaped(n) /\ CallTold(T, n)
        BY <4>1 DEF Shaped, CallTold
      <4> QED BY <4>2 DEF n
    <3>2. Shaped(o.then) /\ CallTold(T, o.then)
      BY <2>2, BackShaped
    <3> QED BY <3>1, <3>2
  <2>12. op' = [op EXCEPT ![s] = next]
    BY <1>3 DEF Wait
  <2> HIDE DEF next
  <2>13. OpTypes' /\ \A t \in Slots : CallTold(T, op'[t])
    BY <2>11, <2>12, NextShape, NextTold DEF Types, Told
  <2> QED BY <1>1, <2>8, <2>9, <2>10, <2>13, CacheStep
<1> QED BY <1>2, <1>3 DEF StoreTag

(* The row goes to where the server said the message went. *)
LEMMA StoreMoveStep ==
  ASSUME Types, NEW T, Told(T), NEW s \in Slots, StoreMove(s)
  PROVE Types' /\ Told(T)'
<1> DEFINE o == op[s]
           current == {r \in rows[o.f] : Current(o.f, o.uid, r) /\ r.gen = o.gen}
           moved(r) == IF o.to.uid = 0 THEN {}
                       ELSE {[uid |-> o.to.uid, gen |-> o.to.gen, msg |-> r.msg]}
<1>1. UNCHANGED server /\ UNCHANGED events /\ UNCHANGED calls
  BY DEF StoreMove
<1>2. CASE Refused(s)
  BY <1>1, <1>2, RefusedStep
<1>3. ASSUME NEW r \in current,
             rows' = [rows EXCEPT
                        ![o.f] = @ \ {r},
                        ![Destination] = IF moved(r) = {} THEN @
                                         ELSE {q \in @ : q.uid # o.to.uid} \union moved(r)],
             cached' = cached \union {o.f} \union (IF o.to.uid = 0 THEN {} ELSE {Destination}),
             details' = {d \in details : d.f # o.f \/ d.uid # o.uid},
             tags' = Retagged(o.f, r, o.to),
             Return(s),
             UNCHANGED <<account, list, selected, history>>
      PROVE Types' /\ Told(T)'
  <2>1. o.pc = "moved"
    BY DEF StoreMove
  <2>2. o \in [pc : {"moved"}, f : Folders, uid : Uids, gen : Gens, to : Identity, then : Back]
    BY <2>1 DEF Types, OpTypes, Shaped
  <2>3. r \in rows[o.f] /\ o.f \in Folders /\ r.uid = o.uid /\ r.gen = o.gen
    BY <1>3, <2>2 DEF Current, RowsAt
  <2>4. r.uid \in Uids /\ r.gen \in Gens /\ r.msg \in Msgs
    BY <2>3, RowOfTable DEF Types
  <2>5. Fact(o.f, o.gen, o.uid, r.msg) \in T
    BY <2>3 DEF Told, TableTold
  <2>6. o.to.uid # 0 => o.to.uid \in Uids /\ o.to.gen \in Gens
    BY <2>2 DEF Identity, NoIdentity
  <2>7. o.to.uid # 0 => Fact(Destination, o.to.gen, o.to.uid, r.msg) \in T
    <3>1. SUFFICES ASSUME o.to.uid # 0 PROVE Fact(Destination, o.to.gen, o.to.uid, r.msg) \in T
      OBVIOUS
    <3>2. PICK m \in Msgs : /\ Fact(o.f, o.gen, o.uid, m) \in T
                            /\ Fact(Destination, o.to.gen, o.to.uid, m) \in T
      BY <2>1, <3>1 DEF Told, CallTold
    <3>3. m = r.msg
      BY <2>5, <3>2 DEF Told, OneName, Fact
    <3> QED BY <3>2, <3>3
  <2> DEFINE left == rows[o.f] \ {r}
             there == IF o.f = Destination THEN left ELSE rows[Destination]
             grown == IF o.to.uid = 0 THEN there
                      ELSE {q \in there : q.uid # o.to.uid} \union moved(r)
  <2>8. left \in Tables /\ TableTold(T, o.f, left)
    BY <2>3, SubTable DEF Types, StoreTypes, Told, TableTold
  <2>9. there \in Tables /\ TableTold(T, Destination, there)
    BY <2>8, CacheAssumption DEF Types, StoreTypes, Told
  <2>10. grown \in Tables /\ TableTold(T, Destination, grown)
    <3>1. CASE o.to.uid = 0
      BY <2>9, <3>1
    <3>2. CASE o.to.uid # 0
      <4> DEFINE n == [uid |-> o.to.uid, gen |-> o.to.gen, msg |-> r.msg]
      <4>1. grown = {q \in there : q.uid # o.to.uid} \union {n}
        BY <3>2
      <4>2. n \in Row
        BY <2>4, <2>6, <3>2 DEF Row
      <4>3. grown \in Tables
        BY <2>9, <4>1, <4>2 DEF Tables
      <4>4. TableTold(T, Destination, grown)
        BY <2>7, <2>9, <3>2, <4>1 DEF TableTold
      <4> QED BY <4>3, <4>4
    <3> QED BY <3>1, <3>2
  <2>11. /\ DOMAIN rows' = Folders
         /\ \A f \in Folders : rows'[f] = IF f = Destination THEN grown
                                          ELSE IF f = o.f THEN left ELSE rows[f]
    <3>1. rows \in [Folders -> Tables] /\ Destination \in Folders /\ o.f \in Folders
      BY <2>3, CacheAssumption DEF Types, StoreTypes
    <3>2. o.f # Destination
      BY <2>1 DEF Types, OpTypes, Shaped
    <3>3. moved(r) = {} <=> o.to.uid = 0
      OBVIOUS
    <3> HIDE DEF moved
    <3>4. rows'[Destination] = grown
      BY <1>3, <3>1, <3>2, <3>3
    <3>5. rows'[o.f] = left
      BY <1>3, <3>1, <3>2
    <3>6. DOMAIN rows' = Folders /\ \A f \in Folders : f # Destination /\ f # o.f => rows'[f] = rows[f]
      BY <1>3, <3>1
    <3> QED BY <3>4, <3>5, <3>6
  <2> HIDE DEF left, there, grown
  <2>12. rows' \in [Folders -> Tables]
    <3>1. \A f \in Folders : rows'[f] \in Tables
      BY <2>8, <2>10, <2>11 DEF Types, StoreTypes
    <3>2. rows' = [f \in Folders |-> rows'[f]]
      BY <1>3 DEF Types, StoreTypes
    <3> QED BY <3>1, <3>2
  <2>13. \A f \in Folders : TableTold(T, f, rows'[f])
    BY <2>8, <2>10, <2>11 DEF Told
  <2>14. \A f \in Folders : f \notin cached' => rows'[f] = {}
    <3> SUFFICES ASSUME NEW f \in Folders, f \notin cached' PROVE rows'[f] = {}
      OBVIOUS
    <3>1. f \notin cached /\ f # o.f /\ rows[f] = {}
      BY <1>3 DEF Types, StoreTypes
    <3>2. CASE f # Destination
      BY <2>11, <3>1, <3>2
    <3>3. CASE f = Destination
      <4>1. o.to.uid = 0
        BY <1>3, <3>3
      <4> QED BY <2>11, <3>1, <3>3, <4>1 DEF grown, there
    <3> QED BY <3>2, <3>3
  <2>15. tags' \subseteq Folders \X Gens \X Uids
    BY <1>3, <2>6, CacheAssumption DEF Types, StoreTypes, Retagged, TagKey
  <2>16. StoreTypes'
    <3>1. cached' \subseteq Folders
      BY <1>3, <2>3, CacheAssumption DEF Types, StoreTypes
    <3>2. /\ details' \subseteq Detail
          /\ \A d, e \in details' : d.f = e.f /\ d.uid = e.uid => d = e
      BY <1>3 DEF Types, StoreTypes
    <3> QED BY <1>3, <2>12, <2>14, <2>15, <3>1, <3>2 DEF Types, StoreTypes, history
  <2>17. TagsTold(T)'
    <3> SUFFICES ASSUME NEW k \in tags' PROVE \E m \in marked' : Fact(k[1], k[2], k[3], m) \in T
      BY DEF TagsTold
    <3>1. marked' = marked
      BY <1>3 DEF history
    <3>2. CASE k \in tags
      BY <3>1, <3>2 DEF Told, TagsTold
    <3>3. CASE k \notin tags
      <4>1. TagKey(o.f, r) \in tags /\ o.to.uid # 0 /\ k = <<Destination, o.to.gen, o.to.uid>>
        BY <1>3, <3>3 DEF Retagged, TagKey
      <4>2. PICK m \in marked : Fact(o.f, r.gen, r.uid, m) \in T
        BY <4>1 DEF Told, TagsTold, TagKey
      <4>3. m = r.msg
        BY <2>3, <2>5, <4>2 DEF Told, OneName, Fact
      <4> QED BY <2>7, <3>1, <4>1, <4>2, <4>3
    <3> QED BY <3>2, <3>3
  <2>18. details' \subseteq T
    BY <1>3 DEF Told
  <2>19. OpTypes' /\ \A t \in Slots : CallTold(T, op'[t])
    BY <1>3, GoesBack DEF Told
  <2> QED BY <1>1, <2>13, <2>16, <2>17, <2>18, <2>19, CacheStep
<1> QED BY <1>2, <1>3 DEF StoreMove

----------------------------------------------------------------------------
(* Steps that change the server. *)

(* What was handed out stays handed out: a mailbox keeps its generation and *)
(* goes on from its last uid, or goes, or takes a generation nobody had.    *)
LEMMA PastGrows ==
  ASSUME Types, ServerTypes', NEW T, Told(T),
         calls' = calls \/ calls' = calls + 1, events' = events \/ events' = events + 1,
         \A f \in Folders : /\ gen'[f] \in {gen[f], 0, FreshGen}
                            /\ gen'[f] = gen[f] /\ gen[f] # 0 => last'[f] >= last[f]
  PROVE Past(T)'
<1> SUFFICES ASSUME NEW x \in T
             PROVE x.gen <= 1 + calls' + events' /\ (x.gen = gen'[x.f] => x.uid <= last'[x.f])
  BY DEF Past
<1>1. calls \in Nat /\ events \in Nat
  BY CacheAssumption DEF Types, ServerTypes
<1>2. /\ x.gen <= 1 + calls + events /\ x.gen \in Nat /\ x.gen # 0
      /\ x.f \in Folders /\ x.uid \in Nat
  <2>1. x \in Detail /\ x.gen <= 1 + calls + events
    BY DEF Told, Past
  <2>2. x.f \in Folders /\ x.uid \in Uids /\ x.gen \in Gens
    BY <2>1 DEF Detail
  <2>3. x.gen \in Nat /\ x.gen # 0
    BY <2>2, CacheAssumption DEF Gens
  <2>4. x.uid \in Nat
    BY <2>2, CacheAssumption
  <2> QED BY <2>1, <2>2, <2>3, <2>4
<1>3. x.gen <= 1 + calls' + events'
  <2>1. CASE calls' = calls
    BY <1>1, <1>2, <2>1
  <2>2. CASE calls' = calls + 1
    BY <1>1, <1>2, <2>2
  <2> QED BY <2>1, <2>2
<1>4. ASSUME x.gen = gen'[x.f] PROVE x.uid <= last'[x.f]
  <2>1. x.gen # FreshGen
    BY <1>2, Unseen
  <2>2. gen'[x.f] = gen[x.f] /\ gen[x.f] # 0
    BY <1>2, <1>4, <2>1
  <2>3. x.uid <= last[x.f]
    BY <1>4, <2>2 DEF Told, Past
  <2>4. last'[x.f] >= last[x.f]
    BY <1>2, <2>2
  <2>5. last[x.f] \in Nat /\ last'[x.f] \in Nat
    BY <1>2 DEF Types, ServerTypes
  <2> QED BY <1>2, <2>3, <2>4, <2>5
<1> QED BY <1>3, <1>4

(* The facts of a step: the old ones and those about new identities. *)
LEMMA Learning ==
  ASSUME Types, NEW T, Told(T), Past(T)', NEW N, N \subseteq Detail, OneName(N), Past(N)',
         \A x \in T, y \in N : ~(x.f = y.f /\ x.gen = y.gen /\ x.uid = y.uid),
         NEW U, U = T \union N, BoxTold(U)'
  PROVE Learnt(T, U)
<1>1. OneName(U)
  BY DEF Told, OneName
<1>2. Past(U)'
  BY DEF Past
<1> QED BY <1>1, <1>2 DEF Told, Learnt

(* When the mailboxes stay as they are, or only lose something. *)
LEMMA NothingNew ==
  ASSUME Types, NEW T, Told(T), Past(T)', BoxTold(T)'
  PROVE Learnt(T, T)
BY DEF Learnt, Told

LEMMA FreshIsNew ==
  ASSUME ServerTypes
  PROVE FreshGen \in Nat \ {0} /\ \A f \in Folders : gen[f] # FreshGen
<1>1. calls \in Nat /\ events \in Nat
  BY CacheAssumption DEF ServerTypes
<1>2. ASSUME NEW f \in Folders PROVE gen[f] # FreshGen
  BY <1>1 DEF ServerTypes, FreshGen
<1> QED BY <1>1, <1>2 DEF FreshGen

LEMMA DeliverStep ==
  ASSUME Types, NEW T, Told(T), NEW f \in Folders, NEW m \in Msgs, Deliver(f, m)
  PROVE Types' /\ \E U \in SUBSET Detail : Told(U)'
<1>1. /\ gen[f] # 0 /\ NextUid(f) \in Uids /\ gen' = gen
      /\ box' = [box EXCEPT ![f][NextUid(f)] = m]
      /\ last' = [last EXCEPT ![f] = NextUid(f)]
      /\ events' = events + 1 /\ calls' = calls
  BY DEF Deliver
<1>2. UNCHANGED store /\ UNCHANGED marked /\ UNCHANGED op
  BY DEF Deliver, history
<1>3. ServerTypes'
  BY DeliverServer DEF Types
<1>4. calls \in Nat /\ events \in Nat /\ \A g \in Folders : last[g] \in Nat
  BY CacheAssumption DEF Types, ServerTypes
<1>5. Past(T)'
  <2>1. \A g \in Folders : gen'[g] = gen[g] /\ last'[g] >= last[g]
    BY <1>1, <1>4 DEF Types, ServerTypes, NextUid
  <2> QED BY <1>1, <1>3, <2>1, PastGrows
<1>6. gen[f] \in Gens /\ gen[f] <= 1 + calls + events /\ gen[f] \in Nat
  BY <1>1, CacheAssumption DEF Types, ServerTypes, Gens
<1>7. PICK N : N = {Fact(f, gen[f], NextUid(f), m)}
  OBVIOUS
<1>8. N \subseteq Detail /\ OneName(N)
  BY <1>1, <1>6, <1>7 DEF Fact, Detail, OneName
<1>9. Past(N)'
  <2>1. gen[f] <= 1 + calls' + events'
    BY <1>1, <1>4, <1>6
  <2>2. last'[f] = NextUid(f) /\ NextUid(f) \in Nat
    BY <1>1, <1>4 DEF Types, ServerTypes, NextUid
  <2>3. NextUid(f) <= last'[f]
    BY <2>2
  <2> QED BY <1>7, <2>1, <2>3 DEF Past, Fact
<1>10. \A x \in T, y \in N : ~(x.f = y.f /\ x.gen = y.gen /\ x.uid = y.uid)
  <2>1. \A x \in T : x.f = f /\ x.gen = gen[f] => x.uid < NextUid(f)
    BY Unseen
  <2>2. NextUid(f) \in Nat
    BY <1>4 DEF NextUid
  <2> QED BY <1>7, <2>1, <2>2 DEF Fact
<1>11. PICK U : U = T \union N
  OBVIOUS
<1>12. BoxTold(U)'
  <2> SUFFICES ASSUME NEW g \in Folders, NEW u \in Uids, box'[g][u] # NoMsg
               PROVE gen'[g] # 0 /\ u <= last'[g] /\ Fact(g, gen'[g], u, box'[g][u]) \in U
    BY DEF BoxTold
  <2>1. CASE g = f /\ u = NextUid(f)
    <3>1. box'[g][u] = m /\ last'[g] = u /\ u \in Nat
      BY <1>1, <1>4, <2>1 DEF Types, ServerTypes, NextUid
    <3>2. Fact(g, gen'[g], u, box'[g][u]) \in N
      BY <1>1, <1>7, <2>1, <3>1
    <3>3. u <= last'[g]
      BY <3>1
    <3> QED BY <1>1, <1>11, <2>1, <3>2, <3>3
  <2>2. CASE ~(g = f /\ u = NextUid(f))
    <3>1. box'[g][u] = box[g][u]
      BY <1>1, <2>2 DEF Types, ServerTypes
    <3>2. gen[g] # 0 /\ u <= last[g] /\ Fact(g, gen[g], u, box[g][u]) \in T
      BY <3>1 DEF Told, BoxTold
    <3>3. u \in Nat /\ last[g] \in Nat
      BY <1>4, CacheAssumption
    <3>4. last'[g] = last[g] \/ last'[g] = last[g] + 1
      BY <1>1 DEF Types, ServerTypes, NextUid
    <3>5. u <= last'[g]
      BY <3>2, <3>3, <3>4
    <3> QED BY <1>1, <1>11, <3>1, <3>2, <3>5
  <2> QED BY <2>1, <2>2
<1>13. Learnt(T, U)
  BY <1>5, <1>8, <1>9, <1>10, <1>11, <1>12, Learning
<1>14. OpTypes' /\ \A s \in Slots : CallTold(U, op'[s])
  <2>1. OpTypes' /\ \A s \in Slots : CallTold(T, op'[s])
    BY <1>2, SameCalls
  <2> QED BY <1>11, <2>1 DEF CallTold, TableTold
<1>15. Types' /\ Told(U)'
  BY <1>2, <1>3, <1>13, <1>14, ServerStep
<1> QED BY <1>13, <1>15 DEF Learnt

LEMMA RenumberStep ==
  ASSUME Types, NEW T, Told(T), NEW f \in Folders, Renumber(f)
  PROVE Types' /\ \E U \in SUBSET Detail : Told(U)'
<1>1. /\ gen[f] # 0 /\ events < MaxEvents /\ gen' = [gen EXCEPT ![f] = FreshGen]
      /\ events' = events + 1 /\ calls' = calls
  BY DEF Renumber
<1>2. PICK b \in [Uids -> Msgs \union {NoMsg}] :
         /\ Numbered(b)
         /\ box' = [box EXCEPT ![f] = b] /\ last' = [last EXCEPT ![f] = Held(b)]
  BY DEF Renumber
<1>3. UNCHANGED store /\ UNCHANGED marked /\ UNCHANGED op
  BY DEF Renumber, history
<1>4. ServerTypes'
  BY RenumberServer DEF Types
<1>5. /\ calls \in 0..MaxCalls /\ events \in 0..MaxEvents /\ calls \in Nat /\ events \in Nat
      /\ \A g \in Folders : last[g] \in Nat
  BY CacheAssumption DEF Types, ServerTypes
<1>6. FreshGen # 0 /\ \A g \in Folders : gen[g] # FreshGen
  BY FreshIsNew DEF Types
<1>7. /\ gen'[f] = FreshGen /\ box'[f] = b /\ last'[f] = Held(b)
      /\ \A g \in Folders : g # f => gen'[g] = gen[g] /\ box'[g] = box[g] /\ last'[g] = last[g]
  BY <1>1, <1>2 DEF Types, ServerTypes
<1>8. Past(T)'
  <2>1. \A g \in Folders : /\ gen'[g] \in {gen[g], 0, FreshGen}
                           /\ gen'[g] = gen[g] /\ gen[g] # 0 => last'[g] >= last[g]
    BY <1>5, <1>6, <1>7
  <2> QED BY <1>1, <1>4, <2>1, PastGrows
<1>9. FreshGen \in Gens /\ FreshGen <= 1 + calls' + events'
  BY <1>1, <1>5, CacheAssumption DEF FreshGen, Gens
<1>10. PICK N : N = {Fact(f, FreshGen, u, b[u]) : u \in {v \in Uids : b[v] # NoMsg}}
  OBVIOUS
<1>11. N \subseteq Detail /\ OneName(N)
  BY <1>2, <1>9, <1>10 DEF Fact, Detail, OneName
<1>12. Past(N)'
  <2> SUFFICES ASSUME NEW x \in N
               PROVE x.gen <= 1 + calls' + events' /\ (x.gen = gen'[x.f] => x.uid <= last'[x.f])
    BY DEF Past
  <2>1. PICK u \in Uids : b[u] # NoMsg /\ x = Fact(f, FreshGen, u, b[u])
    BY <1>10
  <2>2. u <= Held(b)
    BY <1>2, <2>1 DEF Numbered
  <2> QED BY <1>7, <1>9, <2>1, <2>2 DEF Fact
<1>13. \A x \in T, y \in N : ~(x.f = y.f /\ x.gen = y.gen /\ x.uid = y.uid)
  <2>1. \A x \in T : x.gen # FreshGen
    BY Unseen
  <2> QED BY <1>10, <2>1 DEF Fact
<1>14. PICK U : U = T \union N
  OBVIOUS
<1>15. BoxTold(U)'
  <2> SUFFICES ASSUME NEW g \in Folders, NEW u \in Uids, box'[g][u] # NoMsg
               PROVE gen'[g] # 0 /\ u <= last'[g] /\ Fact(g, gen'[g], u, box'[g][u]) \in U
    BY DEF BoxTold
  <2>1. CASE g = f
    <3>1. b[u] # NoMsg /\ u <= Held(b)
      BY <1>2, <1>7, <2>1 DEF Numbered
    <3>2. Fact(f, FreshGen, u, b[u]) \in N
      BY <1>10, <3>1
    <3> QED BY <1>6, <1>7, <1>14, <2>1, <3>1, <3>2
  <2>2. CASE g # f
    <3>1. gen[g] # 0 /\ u <= last[g] /\ Fact(g, gen[g], u, box[g][u]) \in T
      BY <1>7, <2>2 DEF Told, BoxTold
    <3> QED BY <1>7, <1>14, <2>2, <3>1
  <2> QED BY <2>1, <2>2
<1>16. Learnt(T, U)
  BY <1>8, <1>11, <1>12, <1>13, <1>14, <1>15, Learning
<1>17. OpTypes' /\ \A s \in Slots : CallTold(U, op'[s])
  <2>1. OpTypes' /\ \A s \in Slots : CallTold(T, op'[s])
    BY <1>3, SameCalls
  <2> QED BY <1>14, <2>1 DEF CallTold, TableTold
<1>18. Types' /\ Told(U)'
  BY <1>3, <1>4, <1>16, <1>17, ServerStep
<1> QED BY <1>16, <1>18 DEF Learnt

(* setMessageTags stores a keyword, or throws. *)
LEMMA TagCallStep ==
  ASSUME Types, NEW T, Told(T), NEW s \in Slots, NEW then \in Back,
         NEW f \in Folders, NEW u \in Uids, NEW msg \in Msgs, TagCall(s, then, f, u, msg),
         UNCHANGED store, UNCHANGED marked, UNCHANGED events,
         calls' = calls \/ (calls < MaxCalls /\ calls' = calls + 1)
  PROVE Types' /\ Told(T)'
<1>1. CASE Wait(s, then) /\ UNCHANGED server
  BY <1>1, BackShaped, CallStep DEF Wait
<1>2. ASSUME NEW r \in rows[f], KeywordsStored(f, u, r.gen),
             Wait(s, [pc |-> "tagged", f |-> f, uid |-> u, msg |-> msg, then |-> then])
      PROVE Types' /\ Told(T)'
  <2> DEFINE o == [pc |-> "tagged", f |-> f, uid |-> u, msg |-> msg, then |-> then]
  <2>1. UNCHANGED <<gen, box, last>>
    BY <1>2 DEF KeywordsStored
  <2>2. ServerTypes'
    BY <1>2, StoredServer DEF Types
  <2>3. Past(T)'
    <3>1. \A g \in Folders : gen'[g] = gen[g] /\ last'[g] >= last[g]
      BY <2>1 DEF Types, ServerTypes
    <3>2. events' = events \/ events' = events + 1
      OBVIOUS
    <3>3. calls' = calls \/ calls' = calls + 1
      OBVIOUS
    <3> QED BY <2>2, <3>1, <3>2, <3>3, PastGrows
  <2>4. BoxTold(T)'
    BY <2>1 DEF Told, BoxTold
  <2>5. Learnt(T, T)
    BY <2>3, <2>4, NothingNew
  <2>6. Shaped(o) /\ CallTold(T, o)
    BY DEF Shaped, CallTold
  <2>7. op' = [op EXCEPT ![s] = o]
    BY <1>2 DEF Wait
  <2> HIDE DEF o
  <2>8. OpTypes' /\ \A t \in Slots : CallTold(T, op'[t])
    BY <2>6, <2>7, NextShape, NextTold DEF Types, Told
  <2> QED BY <2>2, <2>5, <2>8, ServerStep
<1> QED BY <1>1, <1>2 DEF TagCall

LEMMA SetMessageTagsStep ==
  ASSUME Types, NEW T, Told(T), NEW s \in Slots, NEW f \in Folders, SetMessageTags(s, f)
  PROVE Types' /\ Told(T)'
<1>1. PICK r \in rows[f] : TagCall(s, Idle, f, r.uid, r.msg)
  BY DEF SetMessageTags
<1>2. r.uid \in Uids /\ r.msg \in Msgs
  BY RowOfTable DEF Types
<1>3. UNCHANGED store /\ UNCHANGED marked /\ UNCHANGED events /\ calls < MaxCalls /\ calls' = calls + 1
  BY DEF SetMessageTags, Begin
<1>4. Idle \in Back
  BY DEF Back
<1> QED BY <1>1, <1>2, <1>3, <1>4, TagCallStep

LEMMA FilterTagsStep ==
  ASSUME Types, NEW T, Told(T), NEW s \in Slots, FilterTags(s)
  PROVE Types' /\ Told(T)'
<1>1. op[s] \in [pc : {"filter"}, plan : Plans]
  BY DEF FilterTags, Types, OpTypes, Shaped
<1>2. PICK e \in op[s].plan : TagCall(s, [op[s] EXCEPT !.plan = @ \ {e}], e.f, e.uid, e.msg)
  BY DEF FilterTags
<1>3. e \in [f : Folders, uid : Uids, msg : Msgs]
  BY <1>1 DEF Plans
<1>4. [op[s] EXCEPT !.plan = @ \ {e}] \in Back
  BY <1>1 DEF Back, Plans
<1>5. UNCHANGED store /\ UNCHANGED marked /\ UNCHANGED events /\ UNCHANGED calls
  BY DEF FilterTags
<1> QED BY <1>2, <1>3, <1>4, <1>5, TagCallStep

(* A message moves: it gets the next uid of the destination. *)
LEMMA MovedLearns ==
  ASSUME Types, NEW T, Told(T), NEW f \in Folders, NEW u \in Uids, NEW g, f # Destination,
         Moved(f, u, g), UNCHANGED events, calls' = calls \/ (calls < MaxCalls /\ calls' = calls + 1)
  PROVE \E U \in SUBSET Detail :
          /\ Learnt(T, U)
          /\ Fact(f, gen[f], u, box[f][u]) \in U
          /\ Fact(Destination, gen[Destination], NextUid(Destination), box[f][u]) \in U
<1> DEFINE D == Destination
           n == NextUid(D)
<1>1. /\ gen[f] = g /\ box[f][u] # NoMsg /\ gen[D] # 0 /\ n \in Uids /\ gen' = gen
      /\ box' = [box EXCEPT ![f][u] = NoMsg, ![D][n] = box[f][u]]
      /\ last' = [last EXCEPT ![D] = n]
  BY DEF Moved, AssertGeneration
<1>2. ServerTypes'
  BY MovedServer DEF Types
<1>3. /\ calls \in Nat /\ events \in Nat /\ D \in Folders
      /\ \A h \in Folders : last[h] \in Nat
      /\ box \in [Folders -> [Uids -> Msgs \union {NoMsg}]]
  BY CacheAssumption DEF Types, ServerTypes
<1>4. last'[D] = n /\ n = last[D] + 1 /\ \A h \in Folders : h # D => last'[h] = last[h]
  BY <1>1, <1>3 DEF Types, ServerTypes, NextUid
<1>5. Past(T)'
  <2>1. \A h \in Folders : gen'[h] = gen[h] /\ last'[h] >= last[h]
    BY <1>1, <1>3, <1>4
  <2>2. events' = events \/ events' = events + 1
    OBVIOUS
  <2>3. calls' = calls \/ calls' = calls + 1
    OBVIOUS
  <2> QED BY <1>2, <2>1, <2>2, <2>3, PastGrows
<1>6. gen[D] \in Gens /\ gen[D] <= 1 + calls + events /\ gen[D] \in Nat
  BY <1>1, CacheAssumption DEF Types, ServerTypes, Gens
<1>7. box[f][u] \in Msgs
  BY <1>1, <1>3
<1>8. PICK N : N = {Fact(D, gen[D], n, box[f][u])}
  OBVIOUS
<1>9. N \subseteq Detail /\ OneName(N)
  BY <1>1, <1>3, <1>6, <1>7, <1>8 DEF Fact, Detail, OneName
<1>10. Past(N)'
  <2>1. gen[D] <= 1 + calls' + events'
    <3>1. CASE calls' = calls
      BY <1>6, <3>1
    <3>2. CASE calls' = calls + 1
      BY <1>3, <1>6, <3>2
    <3> QED BY <3>1, <3>2
  <2>2. n <= last'[D]
    BY <1>3, <1>4
  <2> QED BY <1>8, <2>1, <2>2 DEF Past, Fact
<1>11. \A x \in T, y \in N : ~(x.f = y.f /\ x.gen = y.gen /\ x.uid = y.uid)
  <2>1. \A x \in T : x.f = D /\ x.gen = gen[D] => x.uid < n
    BY <1>3, Unseen
  <2>2. n \in Nat
    BY <1>3, <1>4
  <2> HIDE DEF n
  <2> QED BY <1>8, <2>1, <2>2 DEF Fact
<1>12. PICK U : U = T \union N
  OBVIOUS
<1>13. BoxTold(U)'
  <2> SUFFICES ASSUME NEW h \in Folders, NEW v \in Uids, box'[h][v] # NoMsg
               PROVE gen'[h] # 0 /\ v <= last'[h] /\ Fact(h, gen'[h], v, box'[h][v]) \in U
    BY DEF BoxTold
  <2>1. CASE h = D /\ v = n
    <3>1. box'[h][v] = box[f][u]
      BY <1>1, <1>3, <2>1
    <3>2. Fact(h, gen'[h], v, box'[h][v]) \in N
      BY <1>1, <1>8, <2>1, <3>1
    <3>3. v <= last'[h]
      BY <1>3, <1>4, <2>1
    <3> QED BY <1>1, <1>12, <2>1, <3>2, <3>3
  <2>2. CASE ~(h = D /\ v = n)
    <3>1. box'[h][v] = box[h][v]
      <4>1. CASE h = f
        BY <1>1, <1>3, <2>2, <4>1
      <4>2. CASE h # f
        BY <1>1, <1>3, <2>2, <4>2
      <4> QED BY <4>1, <4>2
    <3>2. gen[h] # 0 /\ v <= last[h] /\ Fact(h, gen[h], v, box[h][v]) \in T
      BY <3>1 DEF Told, BoxTold
    <3>3. v \in Nat /\ last[h] \in Nat
      BY <1>3, CacheAssumption
    <3>4. v <= last'[h]
      <4>1. CASE h = D
        BY <1>4, <3>2, <3>3, <4>1
      <4>2. CASE h # D
        BY <1>4, <3>2, <4>2
      <4> QED BY <4>1, <4>2
    <3> QED BY <1>1, <1>12, <3>1, <3>2, <3>4
  <2> QED BY <2>1, <2>2
<1>14. Learnt(T, U)
  BY <1>5, <1>9, <1>10, <1>11, <1>12, <1>13, Learning
<1>15. Fact(f, gen[f], u, box[f][u]) \in U
  BY <1>1, <1>12 DEF Told, BoxTold
<1>16. Fact(D, gen[D], n, box[f][u]) \in U
  BY <1>8, <1>12
<1> QED BY <1>14, <1>15, <1>16 DEF Learnt

(* moveMessage moves on the server, keeps the move for later, or throws. *)
LEMMA MoveCallStep ==
  ASSUME Types, NEW T, Told(T), NEW s \in Slots, NEW then \in Back,
         NEW f \in Folders, NEW u \in Uids, NEW msg \in Msgs, f # Destination,
         MoveCall(s, then, f, u, msg),
         UNCHANGED store, UNCHANGED marked, UNCHANGED events,
         calls' = calls \/ (calls < MaxCalls /\ calls' = calls + 1)
  PROVE Types' /\ \E U \in SUBSET Detail : Told(U)'
<1>1. CASE Wait(s, then) /\ UNCHANGED server
  <2>1. Types' /\ Told(T)'
    BY <1>1, BackShaped, CallStep DEF Wait
  <2> QED BY <2>1 DEF Told
<1>2. ASSUME NEW r \in rows[f],
             Wait(s, [pc |-> "moved", f |-> f, uid |-> u, gen |-> r.gen,
                      to |-> NoIdentity, then |-> then]),
             UNCHANGED server
      PROVE Types' /\ \E U \in SUBSET Detail : Told(U)'
  <2> DEFINE o == [pc |-> "moved", f |-> f, uid |-> u, gen |-> r.gen,
                   to |-> NoIdentity, then |-> then]
  <2>1. r.gen \in Gens
    BY RowOfTable DEF Types
  <2>2. Shaped(o)
    BY <2>1 DEF Shaped, Identity
  <2>3. CallTold(T, o)
    BY DEF CallTold, NoIdentity
  <2>4. op' = [op EXCEPT ![s] = o]
    BY <1>2 DEF Wait
  <2> HIDE DEF o
  <2>5. Types' /\ Told(T)'
    BY <1>2, <2>2, <2>3, <2>4, CallStep
  <2> QED BY <2>5 DEF Told
<1>3. ASSUME NEW r \in rows[f], Moved(f, u, r.gen),
             NEW to \in {NoIdentity, [uid |-> NextUid(Destination), gen |-> gen[Destination]]},
             Wait(s, [pc |-> "moved", f |-> f, uid |-> u, gen |-> gen[f], to |-> to, then |-> then])
      PROVE Types' /\ \E U \in SUBSET Detail : Told(U)'
  <2> DEFINE o == [pc |-> "moved", f |-> f, uid |-> u, gen |-> gen[f], to |-> to, then |-> then]
  <2>1. ServerTypes'
    BY <1>3, MovedServer DEF Types
  <2>2. /\ gen[f] = r.gen /\ box[f][u] # NoMsg
        /\ gen[Destination] # 0 /\ NextUid(Destination) \in Uids
    BY <1>3 DEF Moved, AssertGeneration
  <2>3. PICK U \in SUBSET Detail :
          /\ Learnt(T, U)
          /\ Fact(f, gen[f], u, box[f][u]) \in U
          /\ Fact(Destination, gen[Destination], NextUid(Destination), box[f][u]) \in U
    BY <1>3, MovedLearns
  <2>4. gen[f] \in Gens
    BY <2>2, RowOfTable DEF Types
  <2>5. gen[Destination] \in Gens
    BY <2>2, CacheAssumption DEF Types, ServerTypes, Gens
  <2>6. to \in Identity
    BY <2>2, <2>5 DEF Identity
  <2>7. Shaped(o)
    BY <2>4, <2>6 DEF Shaped
  <2>8. box[f][u] \in Msgs
    BY <2>2 DEF Types, ServerTypes
  <2>9. CallTold(U, o)
    <3>1. to.uid # 0 => to = [uid |-> NextUid(Destination), gen |-> gen[Destination]]
      BY <1>3 DEF NoIdentity
    <3> QED BY <2>3, <2>8, <3>1 DEF CallTold
  <2>10. op' = [op EXCEPT ![s] = o]
    BY <1>3 DEF Wait
  <2> HIDE DEF o
  <2>11. OpTypes'
    BY <2>7, <2>10, NextShape DEF Types
  <2>12. \A t \in Slots : CallTold(U, op'[t])
    BY <2>3, <2>9, <2>10, NextTold DEF Types, Told, Learnt
  <2>13. Types' /\ Told(U)'
    BY <2>1, <2>3, <2>11, <2>12, ServerStep
  <2> QED BY <2>13
<1> QED BY <1>1, <1>2, <1>3 DEF MoveCall

LEMMA MoveMessageStep ==
  ASSUME Types, NEW T, Told(T), NEW s \in Slots, NEW f \in Folders, MoveMessage(s, f)
  PROVE Types' /\ \E U \in SUBSET Detail : Told(U)'
<1>1. PICK r \in rows[f] : MoveCall(s, Idle, f, r.uid, r.msg)
  BY DEF MoveMessage
<1>2. r.uid \in Uids /\ r.msg \in Msgs
  BY RowOfTable DEF Types
<1>3. /\ UNCHANGED store /\ UNCHANGED marked /\ UNCHANGED events
      /\ calls < MaxCalls /\ calls' = calls + 1 /\ f # Destination
  BY DEF MoveMessage, Begin
<1>4. Idle \in Back
  BY DEF Back
<1> QED BY <1>1, <1>2, <1>3, <1>4, MoveCallStep

LEMMA FilterMovesStep ==
  ASSUME Types, NEW T, Told(T), NEW s \in Slots, FilterMoves(s)
  PROVE Types' /\ \E U \in SUBSET Detail : Told(U)'
<1>1. op[s].pc = "move"
  BY DEF FilterMoves
<1>2. op[s] \in [pc : {"tagged", "move"}, f : Folders, uid : Uids, msg : Msgs, then : Back]
  BY <1>1 DEF Types, OpTypes, Shaped
<1>3. op[s].f # Destination
  BY <1>1 DEF Types, OpTypes, Shaped
<1>4. MoveCall(s, op[s].then, op[s].f, op[s].uid, op[s].msg)
  BY DEF FilterMoves
<1>5. UNCHANGED store /\ UNCHANGED marked /\ UNCHANGED events /\ UNCHANGED calls
  BY DEF FilterMoves
<1> QED BY <1>2, <1>3, <1>4, <1>5, MoveCallStep

(* A mailbox appears, empty and under a generation of its own. *)
LEMMA CreateFolderStep ==
  ASSUME Types, NEW T, Told(T), NEW s \in Slots, NEW f \in Folders, CreateFolder(s, f)
  PROVE Types' /\ Told(T)'
<1> DEFINE o == [pc |-> "refresh"]
<1>1. /\ gen[f] = 0 /\ gen' = [gen EXCEPT ![f] = FreshGen] /\ UNCHANGED <<box, last, kw>>
      /\ calls < MaxCalls /\ calls' = calls + 1 /\ UNCHANGED events
  BY DEF CreateFolder, Begin, FolderCreated
<1>2. UNCHANGED store /\ UNCHANGED marked
  BY DEF CreateFolder, history
<1>3. ServerTypes'
  BY <1>1, FoldersServer DEF Types, CreateFolder
<1>4. Past(T)'
  <2>1. \A g \in Folders : /\ gen'[g] \in {gen[g], 0, FreshGen}
                           /\ gen'[g] = gen[g] /\ gen[g] # 0 => last'[g] >= last[g]
    BY <1>1 DEF Types, ServerTypes
  <2>2. events' = events \/ events' = events + 1
    BY <1>1
  <2> QED BY <1>1, <1>3, <2>1, <2>2, PastGrows
<1>5. BoxTold(T)'
  <2>1. \A g \in Folders, u \in Uids : box'[g][u] # NoMsg => g # f /\ gen'[g] = gen[g]
    BY <1>1 DEF Told, BoxTold, Types, ServerTypes
  <2> QED BY <1>1, <2>1 DEF Told, BoxTold
<1>6. Learnt(T, T)
  BY <1>4, <1>5, NothingNew
<1>7. Shaped(o) /\ CallTold(T, o)
  BY DEF Shaped, CallTold
<1>8. op' = [op EXCEPT ![s] = o]
  BY DEF CreateFolder, Wait
<1> HIDE DEF o
<1>9. OpTypes' /\ \A t \in Slots : CallTold(T, op'[t])
  BY <1>7, <1>8, NextShape, NextTold DEF Types, Told
<1> QED BY <1>2, <1>3, <1>6, <1>9, ServerStep

LEMMA DeleteFolderStep ==
  ASSUME Types, NEW T, Told(T), NEW s \in Slots, NEW f \in Folders, DeleteFolder(s, f)
  PROVE Types' /\ Told(T)'
<1> DEFINE o == [pc |-> "gone", f |-> f, new |-> f]
<1>1. /\ gen' = [gen EXCEPT ![f] = 0] /\ box' = [box EXCEPT ![f] = Empty]
      /\ last' = [last EXCEPT ![f] = 0] /\ gen[f] # 0
      /\ calls < MaxCalls /\ calls' = calls + 1 /\ UNCHANGED events
  BY DEF DeleteFolder, Begin, FolderDeleted
<1>2. UNCHANGED store /\ UNCHANGED marked
  BY DEF DeleteFolder, history
<1>3. ServerTypes'
  BY <1>1, FoldersServer DEF Types, DeleteFolder
<1>4. Past(T)'
  <2>1. \A g \in Folders : /\ gen'[g] \in {gen[g], 0, FreshGen}
                           /\ gen'[g] = gen[g] /\ gen[g] # 0 => last'[g] >= last[g]
    BY <1>1 DEF Types, ServerTypes
  <2>2. events' = events \/ events' = events + 1
    BY <1>1
  <2> QED BY <1>1, <1>3, <2>1, <2>2, PastGrows
<1>5. BoxTold(T)'
  <2>1. \A g \in Folders, u \in Uids : box'[g][u] # NoMsg =>
          g # f /\ gen'[g] = gen[g] /\ box'[g] = box[g] /\ last'[g] = last[g]
    BY <1>1 DEF Types, ServerTypes, Empty
  <2> QED BY <2>1 DEF Told, BoxTold
<1>6. Learnt(T, T)
  BY <1>4, <1>5, NothingNew
<1>7. Shaped(o) /\ CallTold(T, o)
  BY DEF Shaped, CallTold
<1>8. op' = [op EXCEPT ![s] = o]
  BY DEF DeleteFolder, Wait
<1> HIDE DEF o
<1>9. OpTypes' /\ \A t \in Slots : CallTold(T, op'[t])
  BY <1>7, <1>8, NextShape, NextTold DEF Types, Told
<1> QED BY <1>2, <1>3, <1>6, <1>9, ServerStep

(* A renamed mailbox takes its messages along, under a generation of its own. *)
LEMMA RenameFolderStep ==
  ASSUME Types, NEW T, Told(T), NEW s \in Slots, NEW f \in Folders, NEW g \in Folders,
         RenameFolder(s, f, g)
  PROVE Types' /\ \E U \in SUBSET Detail : Told(U)'
<1> DEFINE o == [pc |-> "gone", f |-> f, new |-> g]
<1>1. /\ gen[f] # 0 /\ gen[g] = 0
      /\ gen' = [gen EXCEPT ![f] = 0, ![g] = FreshGen]
      /\ box' = [box EXCEPT ![f] = Empty, ![g] = box[f]]
      /\ last' = [last EXCEPT ![f] = 0, ![g] = last[f]]
      /\ calls < MaxCalls /\ calls' = calls + 1 /\ events' = events
  BY DEF RenameFolder, Begin, FolderRenamed
<1>2. UNCHANGED store /\ UNCHANGED marked
  BY DEF RenameFolder, history
<1>3. ServerTypes'
  BY <1>1, FoldersServer DEF Types, RenameFolder
<1>4. /\ calls \in 0..MaxCalls /\ events \in 0..MaxEvents /\ calls \in Nat /\ events \in Nat
      /\ box \in [Folders -> [Uids -> Msgs \union {NoMsg}]]
      /\ f # g
  BY <1>1, CacheAssumption DEF Types, ServerTypes
<1>5. FreshGen # 0 /\ \A h \in Folders : gen[h] # FreshGen
  BY FreshIsNew DEF Types
<1>6. /\ gen'[f] = 0 /\ gen'[g] = FreshGen /\ box'[f] = Empty /\ box'[g] = box[f]
      /\ last'[g] = last[f]
      /\ \A h \in Folders : h # f /\ h # g =>
            gen'[h] = gen[h] /\ box'[h] = box[h] /\ last'[h] = last[h]
  BY <1>1, <1>4 DEF Types, ServerTypes
<1>7. Past(T)'
  <2>1. \A h \in Folders : last[h] \in Nat
    BY DEF Types, ServerTypes
  <2>2. ASSUME NEW h \in Folders
        PROVE /\ gen'[h] \in {gen[h], 0, FreshGen}
              /\ gen'[h] = gen[h] /\ gen[h] # 0 => last'[h] >= last[h]
    <3>1. CASE h = f
      BY <1>1, <1>6, <3>1
    <3>2. CASE h = g
      BY <1>1, <1>6, <3>2
    <3>3. CASE h # f /\ h # g
      BY <1>6, <2>1, <3>3
    <3> QED BY <3>1, <3>2, <3>3
  <2>3. (calls' = calls \/ calls' = calls + 1) /\ (events' = events \/ events' = events + 1)
    BY <1>1
  <2> QED BY <1>3, <2>2, <2>3, PastGrows
<1>8. FreshGen \in Gens /\ FreshGen <= 1 + calls' + events'
  BY <1>1, <1>4, CacheAssumption DEF FreshGen, Gens
<1>9. PICK N : N = {Fact(g, FreshGen, u, box[f][u]) : u \in {v \in Uids : box[f][v] # NoMsg}}
  OBVIOUS
<1>10. N \subseteq Detail /\ OneName(N)
  BY <1>4, <1>8, <1>9 DEF Fact, Detail, OneName
<1>11. Past(N)'
  <2> SUFFICES ASSUME NEW x \in N
               PROVE x.gen <= 1 + calls' + events' /\ (x.gen = gen'[x.f] => x.uid <= last'[x.f])
    BY DEF Past
  <2>1. PICK u \in Uids : box[f][u] # NoMsg /\ x = Fact(g, FreshGen, u, box[f][u])
    BY <1>9
  <2>2. u <= last[f]
    BY <2>1 DEF Told, BoxTold
  <2> QED BY <1>6, <1>8, <2>1, <2>2 DEF Fact
<1>12. \A x \in T, y \in N : ~(x.f = y.f /\ x.gen = y.gen /\ x.uid = y.uid)
  <2>1. \A x \in T : x.gen # FreshGen
    BY Unseen
  <2> QED BY <1>9, <2>1 DEF Fact
<1>13. PICK U : U = T \union N
  OBVIOUS
<1>14. BoxTold(U)'
  <2> SUFFICES ASSUME NEW h \in Folders, NEW u \in Uids, box'[h][u] # NoMsg
               PROVE gen'[h] # 0 /\ u <= last'[h] /\ Fact(h, gen'[h], u, box'[h][u]) \in U
    BY DEF BoxTold
  <2>1. h # f
    BY <1>6 DEF Empty
  <2>2. CASE h = g
    <3>1. box[f][u] # NoMsg /\ u <= last[f]
      BY <1>6, <2>2 DEF Told, BoxTold
    <3>2. Fact(g, FreshGen, u, box[f][u]) \in N
      BY <1>9, <3>1
    <3> QED BY <1>5, <1>6, <1>13, <2>2, <3>1, <3>2
  <2>3. CASE h # g
    <3>1. gen[h] # 0 /\ u <= last[h] /\ Fact(h, gen[h], u, box[h][u]) \in T
      BY <1>6, <2>1, <2>3 DEF Told, BoxTold
    <3> QED BY <1>6, <1>13, <2>1, <2>3, <3>1
  <2> QED BY <2>2, <2>3
<1>15. Learnt(T, U)
  BY <1>7, <1>10, <1>11, <1>12, <1>13, <1>14, Learning
<1>16. Shaped(o) /\ CallTold(U, o)
  BY DEF Shaped, CallTold
<1>17. op' = [op EXCEPT ![s] = o]
  BY DEF RenameFolder, Wait
<1> HIDE DEF o
<1>18. OpTypes'
  BY <1>16, <1>17, NextShape DEF Types
<1>19. \A t \in Slots : CallTold(U, op'[t])
  BY <1>13, <1>16, <1>17, NextTold DEF Types, Told
<1>20. Types' /\ Told(U)'
  BY <1>2, <1>3, <1>15, <1>18, <1>19, ServerStep
<1> QED BY <1>15, <1>20 DEF Learnt

----------------------------------------------------------------------------
(* The invariant. *)

LEMMA Initially == Init => IInv
<1> SUFFICES ASSUME Init PROVE IInv
  OBVIOUS
<1>1. PICK full \in [Uids -> Msgs \union {NoMsg}] :
         /\ Numbered(full)
         /\ box = [f \in Folders |-> IF f = Inbox THEN full ELSE Empty]
         /\ last = [f \in Folders |-> IF f = Inbox THEN Held(full) ELSE 0]
  BY DEF Init
<1>2. ServerTypes
  <2>1. Empty \in [Uids -> Msgs \union {NoMsg}] /\ Held(full) \in Nat
    BY HeldIsNat DEF Empty
  <2>2. gen \in [Folders -> 0..1]
    BY DEF Init
  <2>3. 0..1 = 0..(1 + calls + events) /\ calls \in 0..MaxCalls /\ events \in 0..MaxEvents
    BY CacheAssumption DEF Init
  <2>4. box \in [Folders -> [Uids -> Msgs \union {NoMsg}]] /\ last \in [Folders -> Nat]
    BY <1>1, <2>1
  <2> QED BY <2>2, <2>3, <2>4 DEF Init, ServerTypes
<1>3. \A f \in Folders : gen[f] = 0 => Listing(f) = {}
  BY <1>1, CacheAssumption DEF Init, Listing, Empty
<1>4. \A f \in Folders : f # Inbox => Listing(f) = {}
  BY <1>1 DEF Listing, Empty
<1>5. \A f \in Folders : Listing(f) \in Tables
  BY <1>2, <1>3, ListingIsTable, EmptyIsTable
<1>6. StoreTypes
  <2>1. list \in Lists
    BY <1>2, ListsFolders DEF Init
  <2>2. rows \in [Folders -> Tables] /\ \A f \in Folders : f \notin cached => rows[f] = {}
    BY <1>4, <1>5 DEF Init
  <2> QED BY <2>1, <2>2, CacheAssumption DEF Init, StoreTypes
<1>7. OpTypes
  BY IdleShaped DEF Init, OpTypes
<1>8. NothingReturns
  BY DEF Init, NothingReturns
<1>9. PICK T : T = {Fact(Inbox, 1, u, full[u]) : u \in {v \in Uids : full[v] # NoMsg}}
  OBVIOUS
<1>10. gen[Inbox] = 1 /\ 1 \in Gens
  BY CacheAssumption DEF Init, Gens
<1>11. T \subseteq Detail /\ OneName(T)
  BY <1>9, <1>10, CacheAssumption DEF Fact, Detail, OneName
<1>12. Past(T)
  <2> SUFFICES ASSUME NEW x \in T
               PROVE x.gen <= 1 + calls + events /\ (x.gen = gen[x.f] => x.uid <= last[x.f])
    BY DEF Past
  <2>1. PICK u \in Uids : full[u] # NoMsg /\ x = Fact(Inbox, 1, u, full[u])
    BY <1>9
  <2>2. u <= Held(full) /\ last[Inbox] = Held(full)
    BY <1>1, <2>1, CacheAssumption DEF Numbered
  <2>3. calls = 0 /\ events = 0
    BY DEF Init
  <2> QED BY <2>1, <2>2, <2>3 DEF Fact
<1>13. BoxTold(T)
  <2> SUFFICES ASSUME NEW f \in Folders, NEW u \in Uids, box[f][u] # NoMsg
               PROVE gen[f] # 0 /\ u <= last[f] /\ Fact(f, gen[f], u, box[f][u]) \in T
    BY DEF BoxTold
  <2>1. f = Inbox /\ box[f][u] = full[u] /\ last[f] = Held(full)
    BY <1>1 DEF Empty
  <2>2. u <= Held(full)
    BY <1>1, <2>1 DEF Numbered
  <2>3. Fact(Inbox, 1, u, full[u]) \in T
    BY <1>9, <2>1
  <2> QED BY <1>10, <2>1, <2>2, <2>3
<1>14. ASSUME NEW f \in Folders PROVE TableTold(T, f, rows[f])
  <2> SUFFICES ASSUME NEW r \in Listing(f) PROVE Fact(f, r.gen, r.uid, r.msg) \in T
    BY DEF Init, TableTold
  <2>1. PICK u \in Uids : box[f][u] # NoMsg /\ r = [uid |-> u, gen |-> gen[f], msg |-> box[f][u]]
    BY DEF Listing
  <2> QED BY <1>13, <2>1 DEF BoxTold
<1>15. details \subseteq T /\ TagsTold(T)
  BY DEF Init, TagsTold
<1>16. \A s \in Slots : CallTold(T, op[s])
  BY IdleShaped DEF Init
<1>17. Told(T)
  BY <1>11, <1>12, <1>13, <1>14, <1>15, <1>16 DEF Told
<1> QED BY <1>2, <1>6, <1>7, <1>8, <1>11, <1>17 DEF IInv, Types

(* Every step keeps the types, and the facts or more of them. *)
LEMMA EveryStep ==
  ASSUME Types, NEW T, Told(T), Next
  PROVE Types' /\ \E U \in SUBSET Detail : Told(U)'
<1>1. Told(T)' => \E U \in SUBSET Detail : Told(U)'
  BY DEF Told
<1>2. ASSUME NEW f \in Folders, Renumber(f) \/ Select(f) \/ \E m \in Msgs : Deliver(f, m)
      PROVE Types' /\ \E U \in SUBSET Detail : Told(U)'
  <2>1. CASE Renumber(f)
    BY <2>1, RenumberStep
  <2>2. CASE Select(f)
    BY <1>1, <2>2, SelectStep
  <2>3. CASE \E m \in Msgs : Deliver(f, m)
    BY <2>3, DeliverStep
  <2> QED BY <1>2, <2>1, <2>2, <2>3
<1>3. CASE RemoveAccount \/ DeleteTag
  BY <1>1, <1>3, RemoveAccountStep, DeleteTagStep
<1>4. ASSUME NEW s \in Slots,
             \/ SyncAccount(s) \/ StoreSync(s) \/ PlanFilters(s) \/ FiltersDone(s)
             \/ StoreListing(s) \/ StoreDetail(s) \/ StoreTag(s) \/ StoreMove(s)
             \/ FilterTags(s) \/ FilterMoves(s)
             \/ StoreFolderGone(s) \/ RefreshCall(s) \/ StoreFolders(s) \/ StoreRead(s)
      PROVE Types' /\ \E U \in SUBSET Detail : Told(U)'
  <2>1. CASE SyncAccount(s)      BY <1>1, <2>1, SyncAccountStep
  <2>2. CASE StoreSync(s)        BY <1>1, <2>2, StoreSyncStep
  <2>3. CASE PlanFilters(s)      BY <1>1, <2>3, PlanFiltersStep
  <2>4. CASE FiltersDone(s)      BY <1>1, <2>4, FiltersDoneStep
  <2>5. CASE StoreListing(s)     BY <1>1, <2>5, StoreListingStep
  <2>6. CASE StoreDetail(s)      BY <1>1, <2>6, StoreDetailStep
  <2>7. CASE StoreTag(s)         BY <1>1, <2>7, StoreTagStep
  <2>8. CASE StoreMove(s)        BY <1>1, <2>8, StoreMoveStep
  <2>9. CASE FilterTags(s)       BY <1>1, <2>9, FilterTagsStep
  <2>10. CASE FilterMoves(s)     BY <2>10, FilterMovesStep
  <2>11. CASE StoreFolderGone(s) BY <1>1, <2>11, StoreFolderGoneStep
  <2>12. CASE RefreshCall(s)     BY <1>1, <2>12, RefreshCallStep
  <2>13. CASE StoreFolders(s)    BY <1>1, <2>13, StoreFoldersStep
  <2>14. CASE StoreRead(s)       BY <1>1, <2>14, StoreReadStep
  <2> QED BY <1>4, <2>1, <2>2, <2>3, <2>4, <2>5, <2>6, <2>7, <2>8, <2>9, <2>10, <2>11,
             <2>12, <2>13, <2>14
<1>5. ASSUME NEW s \in Slots, NEW f \in Folders,
             \/ SyncList(s, f) \/ ListMessages(s, f)
             \/ SetMessageTags(s, f) \/ MoveMessage(s, f)
             \/ CreateFolder(s, f) \/ DeleteFolder(s, f) \/ MarkFolderRead(s, f)
             \/ \E g \in Folders : RenameFolder(s, f, g)
             \/ \E u \in Uids : GetMessage(s, f, u)
      PROVE Types' /\ \E U \in SUBSET Detail : Told(U)'
  <2>1. CASE SyncList(s, f)       BY <1>1, <2>1, SyncListStep
  <2>2. CASE ListMessages(s, f)   BY <1>1, <2>2, ListMessagesStep
  <2>3. CASE SetMessageTags(s, f) BY <1>1, <2>3, SetMessageTagsStep
  <2>4. CASE MoveMessage(s, f)    BY <2>4, MoveMessageStep
  <2>5. CASE CreateFolder(s, f)   BY <1>1, <2>5, CreateFolderStep
  <2>6. CASE DeleteFolder(s, f)   BY <1>1, <2>6, DeleteFolderStep
  <2>7. CASE MarkFolderRead(s, f) BY <1>1, <2>7, MarkFolderReadStep
  <2>8. CASE \E g \in Folders : RenameFolder(s, f, g)
    BY <2>8, RenameFolderStep
  <2>9. CASE \E u \in Uids : GetMessage(s, f, u)
    BY <1>1, <2>9, GetMessageStep
  <2> QED BY <1>5, <2>1, <2>2, <2>3, <2>4, <2>5, <2>6, <2>7, <2>8, <2>9
<1> QED BY <1>2, <1>3, <1>4, <1>5 DEF Next

(* After a removal no update goes through any more (#requireAccount). *)
LEMMA GoneStays ==
  ASSUME Types, NothingReturns, Next
  PROVE NothingReturns'
<1>1. CASE UNCHANGED store
  BY <1>1 DEF NothingReturns, store
<1>2. CASE account' = TRUE
  BY <1>2 DEF NothingReturns
<1>3. CASE RemoveAccount
  BY <1>3 DEF RemoveAccount, NothingReturns
<1>4. CASE account /\ UNCHANGED account
  BY <1>4 DEF NothingReturns
<1>5. CASE DeleteTag
  BY <1>5 DEF DeleteTag, NothingReturns
<1>6. ASSUME NEW f \in Folders, Select(f) PROVE account /\ UNCHANGED account
  BY <1>6 DEF Select
<1>7. ASSUME NEW f \in Folders, Renumber(f) \/ \E m \in Msgs : Deliver(f, m)
      PROVE UNCHANGED store
  BY <1>7 DEF Renumber, Deliver
<1>8. ASSUME NEW s \in Slots,
             \/ StoreSync(s) \/ StoreListing(s) \/ StoreDetail(s) \/ StoreTag(s) \/ StoreMove(s)
             \/ StoreFolderGone(s) \/ StoreFolders(s) \/ StoreRead(s)
      PROVE UNCHANGED store \/ (account /\ UNCHANGED account)
  BY <1>8 DEF StoreSync, StoreListing, StoreDetail, StoreTag, StoreMove, StoreFolderGone,
              StoreFolders, StoreRead, Refused, RequireAccount
<1>9. ASSUME NEW s \in Slots,
             \/ SyncAccount(s) \/ PlanFilters(s) \/ FiltersDone(s) \/ FilterTags(s)
             \/ FilterMoves(s) \/ RefreshCall(s)
      PROVE UNCHANGED store
  BY <1>9 DEF SyncAccount, PlanFilters, FiltersDone, FilterTags, FilterMoves, RefreshCall
<1>10. ASSUME NEW s \in Slots, NEW f \in Folders,
              \/ SyncList(s, f) \/ ListMessages(s, f)
              \/ SetMessageTags(s, f) \/ MoveMessage(s, f)
              \/ CreateFolder(s, f) \/ DeleteFolder(s, f) \/ MarkFolderRead(s, f)
              \/ \E g \in Folders : RenameFolder(s, f, g)
              \/ \E u \in Uids : GetMessage(s, f, u)
       PROVE UNCHANGED store
  BY <1>10 DEF SyncList, ListMessages, SetMessageTags, MoveMessage, CreateFolder,
               DeleteFolder, MarkFolderRead, RenameFolder, GetMessage
<1> QED BY <1>1, <1>3, <1>4, <1>5, <1>6, <1>7, <1>8, <1>9, <1>10 DEF Next

LEMMA Stuttering == IInv /\ UNCHANGED vars => IInv'
<1> SUFFICES ASSUME IInv, UNCHANGED vars PROVE IInv'
  OBVIOUS
<1>1. Types'
  BY DEF IInv, Types, ServerTypes, StoreTypes, OpTypes, Shaped, vars
<1>2. NothingReturns'
  BY DEF IInv, NothingReturns, vars
<1>3. PICK T \in SUBSET Detail : Told(T)
  BY DEF IInv
<1>4. Told(T)'
  BY <1>3 DEF Told, Past, BoxTold, TagsTold, vars
<1> QED BY <1>1, <1>2, <1>4 DEF IInv

LEMMA Invariance == Spec => []IInv
<1>1. Init => IInv
  BY Initially
<1>2. IInv /\ [Next]_vars => IInv'
  <2>1. CASE UNCHANGED vars
    BY <2>1, Stuttering
  <2>2. CASE Next
    <3> SUFFICES ASSUME IInv PROVE IInv'
      BY <2>2
    <3>1. PICK T \in SUBSET Detail : Told(T)
      BY DEF IInv
    <3>2. Types' /\ \E U \in SUBSET Detail : Told(U)'
      BY <2>2, <3>1, EveryStep DEF IInv
    <3>3. NothingReturns'
      BY <2>2, GoneStays DEF IInv
    <3> QED BY <3>2, <3>3 DEF IInv
  <2> QED BY <2>1, <2>2
<1> QED BY <1>1, <1>2, PTL DEF Spec

----------------------------------------------------------------------------
LEMMA TypesOfTheCache == ASSUME IInv PROVE TypeOK
<1>1. \A f \in Folders : gen[f] \in Gens \union {0} /\ list[f] \in Gens \union {0}
  BY ListsFolders DEF IInv, Types, StoreTypes, Lists
<1>2. \A f \in Folders : /\ rows[f] \subseteq Row
                         /\ \A r, q \in rows[f] : r.uid = q.uid => r = q
  BY DEF IInv, Types, StoreTypes, Tables
<1>3. gen \in [Folders -> Gens \union {0}] /\ list \in [Folders -> Gens \union {0}]
  BY ListsFolders DEF IInv, Types, StoreTypes, Lists
<1> QED BY <1>2, <1>3 DEF IInv, Types, ServerTypes, StoreTypes, OpTypes, Detail, TypeOK

(* What is cached belongs to the message and account it is shown with: a   *)
(* body is its row's own, a tag shows only on a message that was given one,*)
(* and nothing of a removed account comes back, whatever renumbering,      *)
(* moves, folder changes and calls in flight do (getMessage,               *)
(* setMessageTags, moveMessage, removeAccount).                            *)
THEOREM CacheIsItsOwn == Spec => []OwnMessage
<1>1. IInv => OwnMessage
  <2> SUFFICES ASSUME IInv PROVE OwnMessage
    OBVIOUS
  <2>1. PICK T \in SUBSET Detail : Told(T)
    BY DEF IInv
  <2>2. BodiesOwn
    <3> SUFFICES ASSUME NEW d \in details, NEW r \in RowsAt(d.f, d.uid), r.gen = d.gen
                 PROVE r.msg = d.msg
      BY DEF BodiesOwn
    <3>1. d \in T /\ d.f \in Folders
      BY <2>1 DEF Told, IInv, Types, StoreTypes, Detail
    <3>2. Fact(d.f, r.gen, r.uid, r.msg) \in T /\ r.uid = d.uid
      BY <2>1, <3>1 DEF Told, TableTold, RowsAt
    <3> QED BY <2>1, <3>1, <3>2 DEF Told, OneName, Fact
  <2>3. TagsStay
    <3> SUFFICES ASSUME NEW f \in Folders, NEW r \in rows[f], TagKey(f, r) \in tags
                 PROVE r.msg \in marked
      BY DEF TagsStay
    <3>1. PICK m \in marked : Fact(f, r.gen, r.uid, m) \in T
      BY <2>1 DEF Told, TagsTold, TagKey
    <3>2. Fact(f, r.gen, r.uid, r.msg) \in T
      BY <2>1 DEF Told, TableTold
    <3> QED BY <2>1, <3>1, <3>2 DEF Told, OneName, Fact
  <2> QED BY <2>2, <2>3, TypesOfTheCache DEF IInv, OwnMessage
<1> QED BY <1>1, Invariance, PTL

(* The filter takes a message identity at most once, even when two         *)
(* synchronizations overlap or a stale listing makes a known message look  *)
(* new (#syncFilteredMessages).                                            *)
THEOREM FilterRunsOnce == Spec => []FilteredOnce
<1>1. Init => FilteredOnce
  BY DEF Init, FilteredOnce
<1>2. FilteredOnce /\ [Next]_vars => FilteredOnce'
  <2>1. CASE UNCHANGED twice
    BY <2>1 DEF FilteredOnce
  <2>2. ASSUME NEW s \in Slots, PlanFilters(s), FilteredOnce PROVE FilteredOnce'
    <3> DEFINE fresh == {p \in op[s].got : NotYetRun(LedgerKey(p[1], p[2]))}
               keys == {LedgerKey(p[1], p[2]) : p \in fresh}
    <3>1. keys \intersect ledger = {}
      BY DEF NotYetRun
    <3>2. twice' = (twice \/ keys \intersect ledger # {})
      BY <2>2 DEF PlanFilters
    <3> QED BY <2>2, <3>1, <3>2 DEF FilteredOnce
  <2>3. CASE UNCHANGED vars
    BY <2>3 DEF FilteredOnce, vars
  <2>4. ASSUME NEW f \in Folders, Renumber(f) \/ Select(f) \/ \E m \in Msgs : Deliver(f, m)
        PROVE UNCHANGED twice
    BY <2>4 DEF Renumber, Select, Deliver, history
  <2>5. RemoveAccount \/ DeleteTag => UNCHANGED twice
    BY DEF RemoveAccount, DeleteTag, history
  <2>6. ASSUME NEW s \in Slots,
               \/ SyncAccount(s) \/ StoreSync(s) \/ FiltersDone(s)
               \/ StoreListing(s) \/ StoreDetail(s) \/ StoreTag(s) \/ StoreMove(s)
               \/ FilterTags(s) \/ FilterMoves(s)
               \/ StoreFolderGone(s) \/ RefreshCall(s) \/ StoreFolders(s) \/ StoreRead(s)
        PROVE UNCHANGED twice
    BY <2>6 DEF SyncAccount, StoreSync, FiltersDone, StoreListing, StoreDetail, StoreTag,
                StoreMove, FilterTags, FilterMoves, StoreFolderGone, RefreshCall,
                StoreFolders, StoreRead, Refused, history
  <2>7. ASSUME NEW s \in Slots, NEW f \in Folders,
               \/ SyncList(s, f) \/ ListMessages(s, f)
               \/ SetMessageTags(s, f) \/ MoveMessage(s, f)
               \/ CreateFolder(s, f) \/ DeleteFolder(s, f) \/ MarkFolderRead(s, f)
               \/ \E g \in Folders : RenameFolder(s, f, g)
               \/ \E u \in Uids : GetMessage(s, f, u)
        PROVE UNCHANGED twice
    BY <2>7 DEF SyncList, ListMessages, SetMessageTags, MoveMessage, CreateFolder,
                DeleteFolder, MarkFolderRead, RenameFolder, GetMessage, history
  <2> QED BY <2>1, <2>2, <2>3, <2>4, <2>5, <2>6, <2>7 DEF Next
<1> QED BY <1>1, <1>2, PTL DEF Spec

=============================================================================
