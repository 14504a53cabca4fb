----------------------------- MODULE Quarantine -----------------------------
(***************************************************************************)
(* Saving attachments (saveAttachment, saveAllAttachments) and the local   *)
(* quarantine of risky ones (#quarantineAttachments, release, delete) in   *)
(* app-service.ts.  The records are in the state file; each payload is a   *)
(* file of its own.  The calls are asynchronous and overlap.               *)
(***************************************************************************)
EXTENDS Naturals

CONSTANTS Sources,      \* risky attachments, by message, index, name, type and hash
          QuarantineCalls, \* the calls that may overlap
          MaxIds,       \* identifiers ever drawn
          Ordinary,     \* ordinary attachments of the message saved
          MaxSuffix     \* the last suffix #uniquePath tries

VARIABLES qRecords,     \* quarantinedAttachments: [id, source]
          qFiles,       \* payload file of each identifier: "none", "intact", "changed"
          qAside,       \* per call: the payload it renamed away, or "none"
          qCalls,       \* the calls in progress
          qNextId,      \* randomUUID
          qFolder,      \* saved ordinary files: suffix -> the call that wrote it, or "none"
          qOut,         \* history: contents copied out by a release
          qClobbered,   \* history: a saved file was written over
          qMishaps      \* history: "overlap" of two removals of a record, "died", "write"

quarantineVars == <<qRecords, qFiles, qAside, qCalls, qNextId, qFolder, qOut, qClobbered, qMishaps>>

Idle == [op |-> "idle", step |-> "idle", id |-> 0, todo |-> {}, made |-> {}, left |-> 0,
         name |-> 0, content |-> "none"]
Names == 0..MaxSuffix

QuarantineInit ==
    /\ qRecords = {} /\ qFiles = [i \in 1..MaxIds |-> "none"]
    /\ qAside = [c \in QuarantineCalls |-> "none"] /\ qCalls = [c \in QuarantineCalls |-> Idle]
    /\ qNextId = 1 /\ qFolder = [n \in Names |-> "none"]
    /\ qOut = {} /\ qClobbered = FALSE /\ qMishaps = {}

At(c, op, step) == qCalls[c].op = op /\ qCalls[c].step = step
Goes(c, step) == qCalls' = [qCalls EXCEPT ![c].step = step]
Returns(c) == qCalls' = [qCalls EXCEPT ![c] = Idle]
Held(source) == \E r \in qRecords : r.source = source

-----------------------------------------------------------------------------
(* saveAttachment and saveAllAttachments.  #quarantineAttachments reads the
   state once and skips what is held already. *)
BeginSave(c, risky, ordinary) ==
    /\ At(c, "idle", "idle") /\ (risky # {} \/ ordinary > 0)
    /\ qCalls' = [qCalls EXCEPT ![c] =
           [Idle EXCEPT !.op = "save", !.step = "write", !.left = ordinary,
                        !.todo = {s \in risky : ~Held(s)}]]
    /\ UNCHANGED <<qRecords, qFiles, qAside, qNextId, qFolder, qOut, qClobbered, qMishaps>>

(* writeFile with wx, one payload after the other *)
WritePayload(c, s) ==
    /\ At(c, "save", "write") /\ s \in qCalls[c].todo /\ qNextId <= MaxIds
    /\ qFiles' = [qFiles EXCEPT ![qNextId] = "intact"]
    /\ qCalls' = [qCalls EXCEPT ![c].todo = @ \ {s}, ![c].made = @ \cup {[id |-> qNextId, source |-> s]}]
    /\ qNextId' = qNextId + 1
    /\ UNCHANGED <<qRecords, qAside, qFolder, qOut, qClobbered, qMishaps>>

NoSecondLook(made) == made

(* The records the update adds: the duplicates are looked for again. *)
AcceptedIds(made) == {r \in made : ~Held(r.source)}

SaveUpdate(c) ==
    /\ At(c, "save", "write") /\ qCalls[c].todo = {} /\ qCalls[c].made # {}
    /\ LET accepted == AcceptedIds(qCalls[c].made)
       IN /\ qRecords' = qRecords \cup accepted
          /\ qCalls' = [qCalls EXCEPT ![c].step = "unused", ![c].made = @ \ accepted]
    /\ UNCHANGED <<qFiles, qAside, qNextId, qFolder, qOut, qClobbered, qMishaps>>

(* A payload cannot be written: the ones before it stay. *)
WriteFails(c) ==
    /\ At(c, "save", "write") /\ qCalls[c].todo # {}
    /\ qMishaps' = (IF qCalls[c].made # {} THEN qMishaps \cup {"write"} ELSE qMishaps)
    /\ Returns(c)
    /\ UNCHANGED <<qRecords, qFiles, qAside, qNextId, qFolder, qOut, qClobbered>>

(* The update fails: the payloads are removed. *)
SaveFails(c) ==
    /\ At(c, "save", "write")
    /\ qCalls[c].todo = {} /\ qCalls[c].made # {}
    /\ qFiles' = [i \in DOMAIN qFiles |-> IF \E r \in qCalls[c].made : r.id = i THEN "none" ELSE qFiles[i]]
    /\ Returns(c)
    /\ UNCHANGED <<qRecords, qAside, qNextId, qFolder, qOut, qClobbered, qMishaps>>

DuplicatesStay(c) == qFiles

(* The payloads whose records were not accepted are removed. *)
WithoutUnused(c) ==
    [i \in DOMAIN qFiles |-> IF \E r \in qCalls[c].made : r.id = i THEN "none" ELSE qFiles[i]]

SaveCleanup(c) ==
    /\ \/ At(c, "save", "unused")
       \/ At(c, "save", "write") /\ qCalls[c].todo = {} /\ qCalls[c].made = {}
    /\ qFiles' = WithoutUnused(c)
    /\ IF qCalls[c].left > 0
       THEN qCalls' = [qCalls EXCEPT ![c].step = "dialog", ![c].made = {}]
       ELSE Returns(c)
    /\ UNCHANGED <<qRecords, qAside, qNextId, qFolder, qOut, qClobbered, qMishaps>>

(* The destination dialog, and #uniquePath for the next ordinary file. *)
ChooseName(c) ==
    /\ At(c, "save", "dialog")
    /\ LET free == {n \in Names : qFolder[n] = "none"}
       IN IF free = {}
          THEN Returns(c)
          ELSE qCalls' = [qCalls EXCEPT ![c].step = "file",
                              ![c].name = CHOOSE n \in free : \A m \in free : n <= m]
    /\ UNCHANGED <<qRecords, qFiles, qAside, qNextId, qFolder, qOut, qClobbered, qMishaps>>

Overwrites(name) == FALSE

(* writeFile with wx refuses a name that was taken meanwhile. *)
Taken(name) == qFolder[name] # "none"

WriteFile(c) ==
    /\ At(c, "save", "file")
    /\ LET name == qCalls[c].name
       IN IF Taken(name)
          THEN Returns(c) /\ UNCHANGED <<qFolder, qClobbered>>
          ELSE /\ qClobbered' = (qClobbered \/ qFolder[name] # "none")
               /\ qFolder' = [qFolder EXCEPT ![name] = c]
               /\ IF qCalls[c].left > 1
                  THEN qCalls' = [qCalls EXCEPT ![c].step = "dialog", ![c].left = @ - 1]
                  ELSE Returns(c)
    /\ UNCHANGED <<qRecords, qFiles, qAside, qNextId, qOut, qMishaps>>

SaveCancelled(c) ==
    /\ At(c, "save", "dialog") /\ Returns(c)
    /\ UNCHANGED <<qRecords, qFiles, qAside, qNextId, qFolder, qOut, qClobbered, qMishaps>>

-----------------------------------------------------------------------------
(* releaseQuarantinedAttachment reads the payload and checks its size and
   hash before it asks where to. *)
BeginRelease(c, r) ==
    /\ At(c, "idle", "idle") /\ r \in qRecords /\ qFiles[r.id] = "intact"
    /\ qCalls' = [qCalls EXCEPT ![c] =
           [Idle EXCEPT !.op = "release", !.step = "dialog", !.id = r.id, !.content = "intact"]]
    /\ UNCHANGED <<qRecords, qFiles, qAside, qNextId, qFolder, qOut, qClobbered, qMishaps>>

RereadsFile(c) == qFiles[qCalls[c].id]

(* The bytes that are written are the ones that were checked. *)
Payload(c) == qCalls[c].content

CopyOut(c) ==
    /\ At(c, "release", "dialog")
    /\ qOut' = qOut \cup {Payload(c)} /\ Goes(c, "rename")
    /\ UNCHANGED <<qRecords, qFiles, qAside, qNextId, qFolder, qClobbered, qMishaps>>

ReleaseCancelled(c) ==
    /\ At(c, "release", "dialog") /\ Returns(c)
    /\ UNCHANGED <<qRecords, qFiles, qAside, qNextId, qFolder, qOut, qClobbered, qMishaps>>

BeginDelete(c, r) ==
    /\ At(c, "idle", "idle") /\ r \in qRecords
    /\ qCalls' = [qCalls EXCEPT ![c] = [Idle EXCEPT !.op = "delete", !.step = "rename", !.id = r.id]]
    /\ UNCHANGED <<qRecords, qFiles, qAside, qNextId, qFolder, qOut, qClobbered, qMishaps>>

Removing(c) == qCalls[c].op \in {"release", "delete"}
Overlaps(c) == \E d \in QuarantineCalls \ {c} : Removing(d) /\ qCalls[d].id = qCalls[c].id

(* The payload is renamed away.  Release fails without it, delete goes on. *)
MoveAside(c) ==
    /\ Removing(c) /\ qCalls[c].step = "rename"
    /\ LET id == qCalls[c].id
       IN /\ qAside' = [qAside EXCEPT ![c] = qFiles[id]]
          /\ qFiles' = [qFiles EXCEPT ![id] = "none"]
          /\ IF qFiles[id] = "none" /\ qCalls[c].op = "release" THEN Returns(c) ELSE Goes(c, "update")
    /\ qMishaps' = (IF Overlaps(c) THEN qMishaps \cup {"overlap"} ELSE qMishaps)
    /\ UNCHANGED <<qRecords, qNextId, qFolder, qOut, qClobbered>>

(* The record is removed, and then the payload. *)
RemoveRecord(c) ==
    /\ Removing(c) /\ qCalls[c].step = "update"
    /\ \E r \in qRecords : r.id = qCalls[c].id /\ qRecords' = qRecords \ {r}
    /\ Goes(c, "remove")
    /\ UNCHANGED <<qFiles, qAside, qNextId, qFolder, qOut, qClobbered, qMishaps>>

RemovePayload(c) ==
    /\ Removing(c) /\ qCalls[c].step = "remove"
    /\ qAside' = [qAside EXCEPT ![c] = "none"] /\ Returns(c)
    /\ UNCHANGED <<qRecords, qFiles, qNextId, qFolder, qOut, qClobbered, qMishaps>>

StaysAside(c) == qFiles

(* The payload is renamed back. *)
PutBack(c) ==
    IF qAside[c] = "none" THEN qFiles ELSE [qFiles EXCEPT ![qCalls[c].id] = qAside[c]]

(* The record is gone, or the state file could not be written. *)
RemovalFails(c) ==
    /\ Removing(c) /\ qCalls[c].step = "update"
    /\ qFiles' = PutBack(c) /\ qAside' = [qAside EXCEPT ![c] = "none"] /\ Returns(c)
    /\ UNCHANGED <<qRecords, qNextId, qFolder, qOut, qClobbered, qMishaps>>

-----------------------------------------------------------------------------
(* Something else changes a payload on disk; the process dies. *)
Changes(i) ==
    /\ qFiles[i] = "intact" /\ qFiles' = [qFiles EXCEPT ![i] = "changed"]
    /\ UNCHANGED <<qRecords, qAside, qCalls, qNextId, qFolder, qOut, qClobbered, qMishaps>>

Dies ==
    /\ \E c \in QuarantineCalls : qCalls[c] # Idle
    /\ qCalls' = [c \in QuarantineCalls |-> Idle] /\ qAside' = [c \in QuarantineCalls |-> "none"]
    /\ qMishaps' = qMishaps \cup {"died"}
    /\ UNCHANGED <<qRecords, qFiles, qNextId, qFolder, qOut, qClobbered>>

QuarantineNext ==
    \/ \E c \in QuarantineCalls :
         \/ \E risky \in SUBSET Sources, n \in {0, Ordinary} : BeginSave(c, risky, n)
         \/ \E s \in Sources : WritePayload(c, s)
         \/ SaveUpdate(c) \/ WriteFails(c) \/ SaveFails(c) \/ SaveCleanup(c)
         \/ ChooseName(c) \/ WriteFile(c) \/ SaveCancelled(c)
         \/ \E r \in qRecords : BeginRelease(c, r) \/ BeginDelete(c, r)
         \/ CopyOut(c) \/ ReleaseCancelled(c) \/ MoveAside(c) \/ RemoveRecord(c)
         \/ RemovePayload(c) \/ RemovalFails(c)
    \/ \E i \in 1..MaxIds : Changes(i)
    \/ Dies

-----------------------------------------------------------------------------
(* However saves overlap, an attachment is quarantined at most once. *)
SourcesOnce == \A r, s \in qRecords : r.source = s.source => r = s

(* Unless the process died half-way, a record always has its payload: on
   disk, or renamed away by a removal that is still running.  A removal that
   fails leaves the record releasable, also when removals overlap. *)
RecordsBacked ==
    "died" \notin qMishaps => \A r \in qRecords :
        \/ qFiles[r.id] # "none"
        \/ \E c \in QuarantineCalls : Removing(c) /\ qCalls[c].id = r.id /\ qAside[c] # "none"

(* A payload on disk belongs to a record, or to a call that is running: a
   duplicate, a refused update and a finished removal leave none behind.  A
   payload write that fails after another one, two removals of one record
   that overlap, and a death may. *)
OrphansExplained ==
    qMishaps = {} => \A i \in 1..MaxIds : qFiles[i] # "none" =>
        \/ \E r \in qRecords : r.id = i
        \/ \E c \in QuarantineCalls : \E r \in qCalls[c].made : r.id = i

(* What a release copies out is what was quarantined, whatever happens to the
   payload while the destination is asked for. *)
ReleasedIntact == qOut \subseteq {"intact"}

(* Saving all attachments never writes over a file. *)
NeverOverwrites == ~qClobbered
=============================================================================
