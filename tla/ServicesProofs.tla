--------------------------- MODULE ServicesProofs ---------------------------
(***************************************************************************)
(* Proofs about eight services of the main process, for every value of the *)
(* constants: the token vault implements DurableStore and never becomes    *)
(* unreadable, the attachment quarantine is sound, the POP3 test and the   *)
(* mock token lifecycle keep in step with their servers, the journal of    *)
(* the PIM service explains its records, the local history loses no        *)
(* revision, label or replaced state, a search looks into the mail it was  *)
(* asked about, and tags stay the ones that were given.                    *)
(*                                                                         *)
(* Of the vault's files: between two operations they alone tell what is    *)
(* stored.  Inside an operation it takes what the step before left: which  *)
(* of the three files holds the old document and which the new one.        *)
(***************************************************************************)
EXTENDS MCServices, Sequences, FiniteSetTheorems, WellFoundedInduction, TLAPS

Documents == [kind : {"document"}, has : SUBSET Updates]

Stages == {"idle", "primary", "previous", "write", "replace", "verify", "displace",
           "promote", "undo", "restore", "drop"}

(* Only the temporary file is ever torn. *)
Types ==
    /\ file \in Documents \cup {NoFile}
    /\ prev \in Documents \cup {NoFile}
    /\ tmp \in Documents \cup {NoFile, Torn}
    /\ pc \in Stages
    /\ doc \in SUBSET Updates
    /\ upd \in Updates \cup {Read}
    /\ known \in SUBSET Updates

(* The operation replaces what is stored by its document. *)
Replaces == doc = Stored \cup {upd}

(* What the running operation has in its files at each call. *)
Progress ==
    /\ pc = "previous" => IsDoc(file)
    /\ pc \in {"write", "replace", "displace"} => (file = NoFile => prev = NoFile)
    /\ pc \in {"write", "replace", "displace", "promote"} => upd \in Updates /\ Replaces
    /\ pc = "replace" => tmp = File(doc)
    /\ pc = "verify" => file = File(doc) /\ tmp = NoFile /\ upd \in doc
    /\ pc \in {"displace", "promote"} => tmp \in {File(doc), NoFile}
    /\ pc \in {"promote", "undo", "restore"} => IsDoc(prev) /\ known \subseteq prev.has
    /\ pc = "promote" => file = NoFile
    /\ pc \in {"undo", "restore"} =>
          file = NoFile \/ (file = File(doc) /\ prev.has \subseteq doc)
    /\ pc = "drop" => file = File(doc)

IInv == Types /\ Progress /\ known \subseteq Stored

-----------------------------------------------------------------------------
(* An empty vault satisfies the invariant. *)
LEMMA InitInv == Init => IInv
BY DEF Init, IInv, Types, Progress, Stored, IsDoc, NoFile, Stages

(* Every step of the vault keeps the invariant. *)
LEMMA NextInv == IInv /\ [Next]_vars => IInv'
<1> SUFFICES ASSUME IInv, [Next]_vars PROVE IInv'
    OBVIOUS
<1> USE DEF IInv, Types, Progress, Stages, Documents, Stored, Replaces, IsDoc, File, NoFile, Torn
<1>1. CASE ReadPrimary
    BY <1>1 DEF ReadPrimary, Loaded
<1>2. CASE ReadFails
    BY <1>2 DEF ReadFails, Throw
<1>3. CASE ReadPrevious
    BY <1>3 DEF ReadPrevious
<1>4. CASE ReadRecovered
    BY <1>4 DEF ReadRecovered, Loaded
<1>5. CASE ReadEmpty
    BY <1>5 DEF ReadEmpty, Loaded
<1>6. CASE WriteTemp
    BY <1>6 DEF WriteTemp, Throw
<1>7. CASE Replace
    BY <1>7 DEF Replace, Throw
<1>8. CASE Verify
    BY <1>8 DEF Verify, Acknowledge, Throw
<1>9. CASE Displace
    BY <1>9 DEF Displace, Throw
<1>10. CASE Promote
    BY <1>10 DEF Promote
<1>11. CASE Undo
    BY <1>11 DEF Undo
<1>12. CASE Restore
    BY <1>12 DEF Restore, Throw
<1>13. CASE DropPrevious
    BY <1>13 DEF DropPrevious, Acknowledge, Throw
<1>14. CASE Die
    BY <1>14 DEF Die, Throw
<1>15. ASSUME NEW u \in Updates \cup {Read}, Begin(u) PROVE IInv'
    BY <1>15 DEF Begin
<1>16. CASE UNCHANGED vars
    BY <1>16 DEF vars
<1> QED
    BY <1>1, <1>2, <1>3, <1>4, <1>5, <1>6, <1>7, <1>8, <1>9, <1>10, <1>11, <1>12, <1>13, <1>14, <1>15, <1>16 DEF Next, Step

-----------------------------------------------------------------------------
(* What a call may do to a durable store: nothing, let the update of the   *)
(* operation take effect, tell a caller what is stored, lose what nobody   *)
(* was told.                                                               *)
Unnoticed == Stored' = Stored /\ known' = known
Applied == upd \in Updates /\ Stored' = Stored \cup {upd} /\ known' = known
Told == Stored' = Stored /\ known' \in SUBSET Stored /\ known \subseteq known'
Lost == Stored' \in SUBSET Stored /\ known \subseteq Stored' /\ known' = known

Allowed == Unnoticed \/ Applied \/ Told \/ Lost

(* Each of them is a step of DurableStore, or none. *)
LEMMA AllowedStep == Allowed => [Durable!Next]_Durable!dvars
<1> SUFFICES ASSUME Allowed PROVE [Durable!Next]_Durable!dvars
    OBVIOUS
<1> USE DEF Durable!Next, Durable!dvars, Durable!Apply, Durable!Promise, Durable!Lose
<1>1. CASE Unnoticed
    BY <1>1 DEF Unnoticed
<1>2. CASE Applied
  <2>1. CASE upd \in Stored
    BY <1>2, <2>1 DEF Applied
  <2>2. CASE upd \notin Stored
    BY <1>2, <2>2 DEF Applied
  <2> QED
    BY <2>1, <2>2
<1>3. CASE Told
    BY <1>3 DEF Told
<1>4. CASE Lost
    BY <1>4 DEF Lost
<1> QED
    BY <1>1, <1>2, <1>3, <1>4 DEF Allowed

(* Every call of the vault does one of them. *)
LEMMA StepAllowed == IInv /\ [Next]_vars => Allowed
<1> SUFFICES ASSUME IInv, [Next]_vars PROVE Allowed
    OBVIOUS
<1> USE DEF IInv, Types, Progress, Stored, Documents, IsDoc, File, NoFile, Torn, Allowed
<1>1. CASE ReadPrimary
    BY <1>1 DEF ReadPrimary, Loaded, Unnoticed, Told
<1>2. CASE ReadFails
    BY <1>2 DEF ReadFails, Throw, Unnoticed
<1>3. CASE ReadPrevious
    BY <1>3 DEF ReadPrevious, Unnoticed
<1>4. CASE ReadRecovered
    BY <1>4 DEF ReadRecovered, Loaded, Unnoticed, Told
<1>5. CASE ReadEmpty
    BY <1>5 DEF ReadEmpty, Loaded, Unnoticed, Told
<1>6. CASE WriteTemp
    BY <1>6 DEF WriteTemp, Throw, Unnoticed
<1>7. CASE Replace
    BY <1>7 DEF Replace, Throw, Unnoticed, Applied, Replaces
<1>8. CASE Verify
    BY <1>8 DEF Verify, Acknowledge, Throw, Unnoticed, Told
<1>9. CASE Displace
    BY <1>9 DEF Displace, Throw, Unnoticed
<1>10. CASE Promote
    BY <1>10 DEF Promote, Unnoticed, Applied, Replaces
<1>11. CASE Undo
    BY <1>11 DEF Undo, Unnoticed, Lost
<1>12. CASE Restore
    BY <1>12 DEF Restore, Throw, Unnoticed, Lost
<1>13. CASE DropPrevious
    BY <1>13 DEF DropPrevious, Acknowledge, Throw, Unnoticed, Told
<1>14. CASE Die
    BY <1>14 DEF Die, Throw, Unnoticed
<1>15. ASSUME NEW u \in Updates \cup {Read}, Begin(u) PROVE Allowed
    BY <1>15 DEF Begin, Unnoticed
<1>16. CASE UNCHANGED vars
    BY <1>16 DEF vars, Unnoticed
<1> QED
    BY <1>1, <1>2, <1>3, <1>4, <1>5, <1>6, <1>7, <1>8, <1>9, <1>10, <1>11, <1>12, <1>13, <1>14, <1>15, <1>16 DEF Next, Step

-----------------------------------------------------------------------------
(* The invariant holds in every state. *)
LEMMA Invariance == Spec => []IInv
<1>1. Init => IInv
    BY InitInv
<1>2. IInv /\ [Next]_vars => IInv'
    BY NextInv
<1> QED
    BY <1>1, <1>2, PTL DEF Spec

(* However calls fail and the process dies, the file is never torn, nor    *)
(* its displaced copy when the file is gone, so that a start can read what *)
(* is stored; and the vault implements DurableStore: an update takes       *)
(* effect as a whole, and once a caller was told that it was stored, or a  *)
(* read returned it, nothing loses it (#readDocument and #writeDocument in *)
(* oauth-token-vault.ts).                                                  *)
THEOREM VaultKeepsTokens == Spec => TokensKept
<1>1. Init => Durable!Init
    BY DEF Init, Durable!Init, Stored, IsDoc, NoFile
<1>2. IInv /\ [Next]_vars => [Durable!Next]_Durable!dvars
    BY StepAllowed, AllowedStep
<1>3. IInv => NeverUnreadable
    BY DEF IInv, Types, Documents, NeverUnreadable, Torn, NoFile
<1> QED
    BY <1>1, <1>2, <1>3, Invariance, PTL DEF Spec, TokensKept, VaultDurable, Durable!Spec

-----------------------------------------------------------------------------
(***************************************************************************)
(* The quarantine, with the attachments of both of its focuses.            *)
(***************************************************************************)
Payloads == {"none", "intact", "changed"}
DrawnIds == {i \in 1..MaxIds : i < qNextId}
Removing(c) == qCalls[c].op \in {"release", "delete"}
Made(c) == qCalls[c].made

(* A call has the fields of an idle one, and only a save that has not ended *)
(* holds payloads without a record.                                         *)
CallFields == {"op", "step", "id", "todo", "made", "left", "name", "content"}
CallShaped(k) ==
    /\ DOMAIN k = CallFields
    /\ k.made # {} => k.op = "save" /\ k.step \in {"write", "unused"}
    /\ k.op \in {"release", "delete"} => /\ k.step \in {"dialog", "rename", "update", "remove"}
                                         /\ k.id \in DrawnIds
    /\ k.op = "release" /\ k.step = "dialog" => k.content = "intact"
QuarantineType ==
    /\ qNextId \in Nat \ {0}
    /\ qFiles \in [1..MaxIds -> Payloads]
    /\ qAside \in [QuarantineCalls -> Payloads]
    /\ qCalls = [c \in QuarantineCalls |-> qCalls[c]]
    /\ \A c \in QuarantineCalls :
          /\ CallShaped(qCalls[c])
          /\ \A r \in Made(c) : r.id \in DrawnIds
          /\ qAside[c] # "none" => Removing(c) /\ qCalls[c].step \in {"update", "remove"}
    /\ \A r \in qRecords : r.id \in DrawnIds

(* An identifier stands for one payload: of a record, or written by one     *)
(* save, or being removed.                                                  *)
IdsApart ==
    /\ \A r, s \in qRecords : r.id = s.id => r = s
    /\ \A c \in QuarantineCalls : \A r \in Made(c) :
          /\ \A s \in qRecords : r.id # s.id
          /\ \A d \in QuarantineCalls :
                /\ \A s \in Made(d) : r.id = s.id => c = d /\ r = s
                /\ Removing(d) => qCalls[d].id # r.id
    /\ \A c \in QuarantineCalls : Removing(c) /\ qCalls[c].step = "remove"
          => \A r \in qRecords : r.id # qCalls[c].id

(* A save writes each attachment once, and until its update its payloads    *)
(* stay where they are.                                                     *)
SavesSound ==
    \A c \in QuarantineCalls :
        /\ \A r, s \in Made(c) : r.source = s.source => r = s
        /\ \A r \in Made(c) : /\ r.source \notin qCalls[c].todo
                              /\ qCalls[c].step = "write" => qFiles[r.id] # "none"

(* Without a mishap a removal that has renamed its payload is the only one  *)
(* that has, and what it may rename back still has its record.              *)
RemovesAlone ==
    qMishaps = {} =>
        \A c \in QuarantineCalls : Removing(c) /\ qCalls[c].step \in {"update", "remove"} =>
            /\ qFiles[qCalls[c].id] = "none"
            /\ \A d \in QuarantineCalls \ {c} :
                  Removing(d) /\ qCalls[d].id = qCalls[c].id => qCalls[d].step \in {"dialog", "rename"}
            /\ qCalls[c].step = "update" /\ qAside[c] # "none"
                  => \E r \in qRecords : r.id = qCalls[c].id

QuarantineInv ==
    QuarantineType /\ IdsApart /\ SavesSound /\ RemovesAlone /\ QuarantineSound

(* The call that moves, the others, and what the state says of it.          *)
LEMMA CallGoes ==
    ASSUME QuarantineInv, NEW c \in QuarantineCalls, NEW k,
           qCalls' = [qCalls EXCEPT ![c] = k]
    PROVE  /\ qCalls'[c] = k /\ qCalls' = [d \in QuarantineCalls |-> qCalls'[d]]
           /\ \A d \in QuarantineCalls \ {c} : qCalls'[d] = qCalls[d]
BY DEF QuarantineInv, QuarantineType

LEMMA IdleShaped ==
    /\ CallShaped(Quarantined!Idle) /\ Quarantined!Idle.made = {}
    /\ Quarantined!Idle.op = "idle" /\ Quarantined!Idle.step = "idle"
BY DEF CallShaped, CallFields, Quarantined!Idle

(* A call that holds no payload and has renamed none goes on.               *)
LEMMA CallMoves ==
    ASSUME QuarantineInv, NEW c \in QuarantineCalls, NEW k,
           qCalls' = [qCalls EXCEPT ![c] = k],
           UNCHANGED <<qRecords, qFiles, qAside, qNextId, qMishaps>>,
           qOut' \subseteq {"intact"}, ~qClobbered',
           Made(c) = {}, qAside[c] = "none", k.made = {}, CallShaped(k),
           k.op \in {"release", "delete"} =>
              /\ k.step \in {"dialog", "rename"}
              /\ \A d \in QuarantineCalls : \A r \in Made(d) : r.id # k.id
    PROVE  QuarantineInv'
<1>1. /\ qCalls'[c] = k /\ qCalls' = [d \in QuarantineCalls |-> qCalls'[d]]
      /\ \A d \in QuarantineCalls \ {c} : qCalls'[d] = qCalls[d]
  BY CallGoes, Zenon
<1>2. \A d \in QuarantineCalls : Made(d)' = Made(d)
  BY <1>1 DEF Made
<1>3. QuarantineType'
  BY <1>1, <1>2 DEF QuarantineInv, QuarantineType, CallShaped, DrawnIds, Removing
<1>4. IdsApart'
  BY <1>1, <1>2 DEF QuarantineInv, IdsApart, Removing
<1>5. SavesSound'
  BY <1>1, <1>2 DEF QuarantineInv, SavesSound, Made
<1>6. RemovesAlone'
  BY <1>1 DEF QuarantineInv, RemovesAlone, Removing
<1>7. QuarantineSound'
  <2>1. Quarantined!RecordsBacked'
    <3> SUFFICES ASSUME "died" \notin qMishaps, NEW r \in qRecords, qFiles[r.id] = "none"
                 PROVE  \E d \in QuarantineCalls :
                           Quarantined!Removing(d)' /\ qCalls'[d].id = r.id /\ qAside[d] # "none"
      BY DEF Quarantined!RecordsBacked
    <3>1. PICK d \in QuarantineCalls :
             Quarantined!Removing(d) /\ qCalls[d].id = r.id /\ qAside[d] # "none"
      BY DEF QuarantineInv, QuarantineSound, Quarantined!RecordsBacked
    <3> QED BY <1>1, <3>1 DEF Quarantined!Removing
  <2>2. Quarantined!OrphansExplained'
    BY <1>2 DEF QuarantineInv, QuarantineSound, Quarantined!OrphansExplained, Made
  <2> QED BY <2>1, <2>2 DEF QuarantineInv, QuarantineSound, Quarantined!SourcesOnce,
                            Quarantined!ReleasedIntact, Quarantined!NeverOverwrites
<1> QED BY <1>3, <1>4, <1>5, <1>6, <1>7 DEF QuarantineInv

LEMMA BeginSaveSafe ==
    ASSUME QuarantineInv, NEW c \in QuarantineCalls, NEW risky, NEW n,
           Quarantined!BeginSave(c, risky, n)
    PROVE  QuarantineInv'
<1> DEFINE k == [Quarantined!Idle EXCEPT !.op = "save", !.step = "write", !.left = n,
                     !.todo = {s \in risky : ~Quarantined!Held(s)}]
<1>1. k.op = "save" /\ k.made = {} /\ DOMAIN k = CallFields
  BY DEF Quarantined!Idle, CallFields
<1>2. CallShaped(k)
  BY <1>1 DEF CallShaped
<1>3. Made(c) = {} /\ qAside[c] = "none"
  BY DEF Quarantined!BeginSave, Quarantined!At, QuarantineInv, QuarantineType, CallShaped,
         Made, Removing
<1>4. /\ qCalls' = [qCalls EXCEPT ![c] = k]
      /\ UNCHANGED <<qRecords, qFiles, qAside, qNextId, qFolder, qOut, qClobbered, qMishaps>>
  BY DEF Quarantined!BeginSave
<1> HIDE DEF k
<1>5. qOut' \subseteq {"intact"} /\ ~qClobbered'
  BY <1>4 DEF QuarantineInv, QuarantineSound, Quarantined!ReleasedIntact, Quarantined!NeverOverwrites
<1> QED BY <1>1, <1>2, <1>3, <1>4, <1>5, CallMoves, Zenon

(* The destination dialog and the ordinary files write no payload.          *)
LEMMA OrdinarySafe ==
    ASSUME QuarantineInv, NEW c \in QuarantineCalls,
           Quarantined!ChooseName(c) \/ Quarantined!WriteFile(c) \/ Quarantined!SaveCancelled(c)
    PROVE  QuarantineInv'
<1>1. /\ qCalls[c].op = "save" /\ qCalls[c].step \in {"dialog", "file"}
      /\ UNCHANGED <<qRecords, qFiles, qAside, qNextId, qOut, qMishaps>>
  BY DEF Quarantined!ChooseName, Quarantined!WriteFile, Quarantined!SaveCancelled, Quarantined!At
<1>2. CallShaped(qCalls[c]) /\ Made(c) = {} /\ qAside[c] = "none"
  BY <1>1 DEF QuarantineInv, QuarantineType, CallShaped, Made, Removing
<1>3. qOut' \subseteq {"intact"} /\ ~qClobbered'
  <2>1. ~qClobbered /\ qOut \subseteq {"intact"}
    BY DEF QuarantineInv, QuarantineSound, Quarantined!ReleasedIntact, Quarantined!NeverOverwrites
  <2>2. ~qClobbered'
    BY <2>1, Zenon DEF Quarantined!ChooseName, Quarantined!WriteFile, Quarantined!SaveCancelled,
                Quarantined!Taken
  <2> QED BY <1>1, <2>1, <2>2
<1> DEFINE old == qCalls[c]
           Fine(k) == CallShaped(k) /\ k.made = {} /\ k.op \notin {"release", "delete"}
<1>4. \E k : qCalls' = [qCalls EXCEPT ![c] = k] /\ Fine(k)
  <2>1. CASE Quarantined!Returns(c)
    BY <2>1, IdleShaped, Zenon DEF Quarantined!Returns
  <2>2. \A n : Fine([old EXCEPT !.step = "file", !.name = n])
    BY <1>1, <1>2 DEF CallShaped, CallFields, Made
  <2>3. ASSUME NEW n, qCalls' = [qCalls EXCEPT ![c].step = "file", ![c].name = n]
        PROVE  \E k : qCalls' = [qCalls EXCEPT ![c] = k] /\ Fine(k)
    <3>1. qCalls' = [qCalls EXCEPT ![c] = [old EXCEPT !.step = "file", !.name = n]]
      BY <2>3, Zenon
    <3> QED BY <2>2, <3>1, Zenon
  <2>4. \A n : Fine([old EXCEPT !.step = "dialog", !.left = n])
    BY <1>1, <1>2 DEF CallShaped, CallFields, Made
  <2>5. ASSUME qCalls' = [qCalls EXCEPT ![c].step = "dialog", ![c].left = @ - 1]
        PROVE  \E k : qCalls' = [qCalls EXCEPT ![c] = k] /\ Fine(k)
    <3>1. qCalls' = [qCalls EXCEPT ![c] = [old EXCEPT !.step = "dialog", !.left = @ - 1]]
      BY <2>5, Zenon
    <3> QED BY <2>4, <3>1, Zenon
  <2> QED BY <2>1, <2>3, <2>5
          DEF Quarantined!ChooseName, Quarantined!WriteFile, Quarantined!SaveCancelled
<1> HIDE DEF Fine
<1>5. PICK k : qCalls' = [qCalls EXCEPT ![c] = k] /\ Fine(k)
  BY <1>4, Zenon
<1> QED BY <1>1, <1>2, <1>3, <1>5, CallMoves, Zenon DEF Fine

(* Releases and removals begin with a record that no save still holds.      *)
LEMMA BeginReleaseSafe ==
    ASSUME QuarantineInv, NEW c \in QuarantineCalls, NEW r \in qRecords,
           Quarantined!BeginRelease(c, r)
    PROVE  QuarantineInv'
<1> DEFINE k == [Quarantined!Idle EXCEPT !.op = "release", !.step = "dialog", !.id = r.id,
                                         !.content = "intact"]
<1>1. /\ k.op = "release" /\ k.step = "dialog" /\ k.id = r.id /\ k.content = "intact"
      /\ k.made = {} /\ DOMAIN k = CallFields
  BY DEF Quarantined!Idle, CallFields
<1>2. /\ qCalls' = [qCalls EXCEPT ![c] = k]
      /\ UNCHANGED <<qRecords, qFiles, qAside, qNextId, qFolder, qOut, qClobbered, qMishaps>>
  BY DEF Quarantined!BeginRelease
<1> HIDE DEF k
<1>3. CallShaped(k)
  BY <1>1 DEF CallShaped, QuarantineInv, QuarantineType
<1>4. Made(c) = {} /\ qAside[c] = "none"
  BY DEF Quarantined!BeginRelease, Quarantined!At, QuarantineInv, QuarantineType, CallShaped,
         Made, Removing
<1>5. qOut' \subseteq {"intact"} /\ ~qClobbered'
  BY <1>2 DEF QuarantineInv, QuarantineSound, Quarantined!ReleasedIntact, Quarantined!NeverOverwrites
<1>6. \A d \in QuarantineCalls : \A s \in Made(d) : s.id # k.id
  BY <1>1 DEF QuarantineInv, IdsApart
<1> QED BY <1>1, <1>2, <1>3, <1>4, <1>5, <1>6, CallMoves, Zenon

LEMMA BeginDeleteSafe ==
    ASSUME QuarantineInv, NEW c \in QuarantineCalls, NEW r \in qRecords,
           Quarantined!BeginDelete(c, r)
    PROVE  QuarantineInv'
<1> DEFINE k == [Quarantined!Idle EXCEPT !.op = "delete", !.step = "rename", !.id = r.id]
<1>1. /\ k.op = "delete" /\ k.step = "rename" /\ k.id = r.id
      /\ k.made = {} /\ DOMAIN k = CallFields
  BY DEF Quarantined!Idle, CallFields
<1>2. /\ qCalls' = [qCalls EXCEPT ![c] = k]
      /\ UNCHANGED <<qRecords, qFiles, qAside, qNextId, qFolder, qOut, qClobbered, qMishaps>>
  BY DEF Quarantined!BeginDelete
<1> HIDE DEF k
<1>3. CallShaped(k)
  BY <1>1 DEF CallShaped, QuarantineInv, QuarantineType
<1>4. Made(c) = {} /\ qAside[c] = "none"
  BY DEF Quarantined!BeginDelete, Quarantined!At, QuarantineInv, QuarantineType, CallShaped,
         Made, Removing
<1>5. qOut' \subseteq {"intact"} /\ ~qClobbered'
  BY <1>2 DEF QuarantineInv, QuarantineSound, Quarantined!ReleasedIntact, Quarantined!NeverOverwrites
<1>6. \A d \in QuarantineCalls : \A s \in Made(d) : s.id # k.id
  BY <1>1 DEF QuarantineInv, IdsApart
<1> QED BY <1>1, <1>2, <1>3, <1>4, <1>5, <1>6, CallMoves, Zenon

(* What is copied out is what was checked when the release began.           *)
LEMMA DialogSafe ==
    ASSUME QuarantineInv, NEW c \in QuarantineCalls,
           Quarantined!CopyOut(c) \/ Quarantined!ReleaseCancelled(c)
    PROVE  QuarantineInv'
<1>1. /\ qCalls[c].op = "release" /\ qCalls[c].step = "dialog"
      /\ UNCHANGED <<qRecords, qFiles, qAside, qNextId, qClobbered, qMishaps>>
  BY DEF Quarantined!CopyOut, Quarantined!ReleaseCancelled, Quarantined!At
<1>2. /\ CallShaped(qCalls[c]) /\ Made(c) = {} /\ qAside[c] = "none"
      /\ qCalls[c].content = "intact" /\ Removing(c)
  BY <1>1 DEF QuarantineInv, QuarantineType, CallShaped, Made, Removing
<1>3. qOut' \subseteq {"intact"} /\ ~qClobbered'
  BY <1>1, <1>2, Zenon DEF QuarantineInv, QuarantineSound, Quarantined!ReleasedIntact,
     Quarantined!NeverOverwrites, Quarantined!CopyOut, Quarantined!ReleaseCancelled,
     Quarantined!Payload
<1>4. CASE Quarantined!ReleaseCancelled(c)
  BY <1>1, <1>2, <1>3, <1>4, IdleShaped, CallMoves, Zenon
  DEF Quarantined!ReleaseCancelled, Quarantined!Returns
<1>5. CASE Quarantined!CopyOut(c)
  <2> DEFINE k == [qCalls[c] EXCEPT !.step = "rename"]
  <2>1. qCalls' = [qCalls EXCEPT ![c] = k]
    BY <1>5 DEF Quarantined!CopyOut, Quarantined!Goes
  <2>2. CallShaped(k) /\ k.made = {} /\ k.step = "rename" /\ k.id = qCalls[c].id
    BY <1>1, <1>2 DEF CallShaped, CallFields, Made
  <2>3. \A d \in QuarantineCalls : \A s \in Made(d) : s.id # qCalls[c].id
    BY <1>2 DEF QuarantineInv, IdsApart
  <2> HIDE DEF k
  <2> QED BY <1>1, <1>2, <1>3, <2>1, <2>2, <2>3, CallMoves, Zenon
<1> QED BY <1>4, <1>5

(* A payload gets an identifier nothing has had.                            *)
LEMMA WritePayloadSafe ==
    ASSUME QuarantineInv, NEW c \in QuarantineCalls, NEW s, Quarantined!WritePayload(c, s)
    PROVE  QuarantineInv'
<1> DEFINE new == [id |-> qNextId, source |-> s]
           k == [qCalls[c] EXCEPT !.todo = @ \ {s}, !.made = @ \cup {new}]
<1>1. /\ qCalls[c].op = "save" /\ qCalls[c].step = "write" /\ s \in qCalls[c].todo
      /\ qNextId <= MaxIds /\ qNextId' = qNextId + 1
      /\ qFiles' = [qFiles EXCEPT ![qNextId] = "intact"]
      /\ UNCHANGED <<qRecords, qAside, qOut, qClobbered, qMishaps>>
  BY DEF Quarantined!WritePayload, Quarantined!At
<1>2. CallShaped(qCalls[c]) /\ qCalls[c].op \notin {"release", "delete"}
  BY <1>1 DEF QuarantineInv, QuarantineType
<1>3. /\ k.op = "save" /\ k.step = "write" /\ k.todo = qCalls[c].todo \ {s}
      /\ k.made = Made(c) \cup {new} /\ DOMAIN k = CallFields
  BY <1>1, <1>2 DEF CallShaped, CallFields, Made
<1>4. qCalls' = [qCalls EXCEPT ![c] = k]
  BY Zenon DEF Quarantined!WritePayload
<1>5. new.id = qNextId /\ new.source = s
  OBVIOUS
<1> HIDE DEF k, new
<1>6. /\ qCalls'[c] = k /\ qCalls' = [d \in QuarantineCalls |-> qCalls'[d]]
      /\ \A d \in QuarantineCalls \ {c} : qCalls'[d] = qCalls[d]
  BY <1>4, CallGoes, Zenon
<1>7. /\ Made(c)' = Made(c) \cup {new}
      /\ \A d \in QuarantineCalls \ {c} : Made(d)' = Made(d)
      /\ \A d \in QuarantineCalls : Removing(d)' <=> Removing(d)
      /\ \A d \in QuarantineCalls : Removing(d) => qCalls'[d] = qCalls[d]
      /\ \A d \in QuarantineCalls : qCalls'[d].step = qCalls[d].step
  BY <1>1, <1>2, <1>3, <1>6 DEF Made, Removing
<1>8. /\ qNextId \in 1..MaxIds /\ qNextId \notin DrawnIds
      /\ DrawnIds' = DrawnIds \cup {qNextId}
  BY <1>1, ServicesAssumption DEF QuarantineInv, QuarantineType, DrawnIds
<1>9. /\ qFiles' \in [1..MaxIds -> Payloads] /\ qFiles'[qNextId] = "intact"
      /\ \A i \in DrawnIds : qFiles'[i] = qFiles[i]
      /\ \A i \in 1..MaxIds : i # qNextId => qFiles'[i] = qFiles[i]
  BY <1>1, <1>8 DEF QuarantineInv, QuarantineType, Payloads, DrawnIds
<1>10. /\ \A r \in qRecords : r.id # qNextId
       /\ \A d \in QuarantineCalls : \A r \in Made(d) : r.id # qNextId
       /\ \A d \in QuarantineCalls : Removing(d) => qCalls[d].id # qNextId
  BY <1>8 DEF QuarantineInv, QuarantineType, CallShaped, Removing
<1>11. QuarantineType'
  <2>1. \A d \in QuarantineCalls : CallShaped(qCalls[d])'
    BY <1>2, <1>3, <1>6, <1>8 DEF QuarantineInv, QuarantineType, CallShaped
  <2>2. \A d \in QuarantineCalls : \A r \in Made(d)' : r.id \in DrawnIds'
    BY <1>5, <1>7, <1>8 DEF QuarantineInv, QuarantineType
  <2>3. \A d \in QuarantineCalls :
           qAside'[d] # "none" => Removing(d)' /\ qCalls'[d].step \in {"update", "remove"}
    BY <1>1, <1>7 DEF QuarantineInv, QuarantineType
  <2>4. \A r \in qRecords' : r.id \in DrawnIds'
    BY <1>1, <1>8 DEF QuarantineInv, QuarantineType
  <2>5. qNextId' \in Nat \ {0} /\ qAside' \in [QuarantineCalls -> Payloads]
    BY <1>1 DEF QuarantineInv, QuarantineType
  <2> QED BY <1>6, <1>9, <2>1, <2>2, <2>3, <2>4, <2>5 DEF QuarantineType
<1>12. IdsApart'
  <2>1. ASSUME NEW d \in QuarantineCalls, NEW r \in Made(d)'
        PROVE  /\ \A t \in qRecords : r.id # t.id
               /\ \A e \in QuarantineCalls :
                     /\ \A t \in Made(e)' : r.id = t.id => d = e /\ r = t
                     /\ Removing(e) => qCalls[e].id # r.id
    <3>1. CASE r \in Made(d)
      BY <3>1, <1>5, <1>7, <1>10 DEF QuarantineInv, IdsApart
    <3>2. CASE r \notin Made(d)
      <4>1. d = c /\ r = new
        BY <3>2, <1>7
      <4> QED BY <4>1, <1>5, <1>7, <1>10
    <3> QED BY <3>1, <3>2
  <2> QED BY <2>1, <1>1, <1>7 DEF QuarantineInv, IdsApart
<1>13. SavesSound'
  <2>1. ASSUME NEW d \in QuarantineCalls
        PROVE  /\ \A r, t \in Made(d)' : r.source = t.source => r = t
               /\ \A r \in Made(d)' : /\ r.source \notin qCalls'[d].todo
                                      /\ qCalls'[d].step = "write" => qFiles'[r.id] # "none"
    <3>1. CASE d = c
      <4>1. \A r \in Made(c) : r.source # s /\ r.source \notin qCalls[c].todo /\ qFiles'[r.id] # "none"
        BY <1>1, <1>9 DEF QuarantineInv, SavesSound, QuarantineType
      <4> QED BY <3>1, <4>1, <1>3, <1>5, <1>6, <1>7, <1>9 DEF QuarantineInv, SavesSound
    <3>2. CASE d # c
      BY <3>2, <1>6, <1>7, <1>9 DEF QuarantineInv, SavesSound, QuarantineType
    <3> QED BY <3>1, <3>2
  <2> QED BY <2>1 DEF SavesSound
<1>14. RemovesAlone'
  <2>1. \A d \in QuarantineCalls : Removing(d) => qFiles'[qCalls[d].id] = qFiles[qCalls[d].id]
    BY <1>9 DEF QuarantineInv, QuarantineType, CallShaped, Removing
  <2> QED BY <2>1, <1>1, <1>7 DEF QuarantineInv, RemovesAlone
<1>15. QuarantineSound'
  <2>1. Quarantined!RecordsBacked'
    <3> SUFFICES ASSUME "died" \notin qMishaps, NEW r \in qRecords, qFiles'[r.id] = "none"
                 PROVE  \E d \in QuarantineCalls :
                           Quarantined!Removing(d)' /\ qCalls'[d].id = r.id /\ qAside[d] # "none"
      BY <1>1 DEF Quarantined!RecordsBacked
    <3>1. PICK d \in QuarantineCalls :
             Quarantined!Removing(d) /\ qCalls[d].id = r.id /\ qAside[d] # "none"
      BY <1>9 DEF QuarantineInv, QuarantineSound, Quarantined!RecordsBacked, QuarantineType
    <3>2. Removing(d)
      BY <3>1 DEF Removing, Quarantined!Removing
    <3> QED BY <1>7, <3>1, <3>2 DEF Quarantined!Removing
  <2>2. Quarantined!OrphansExplained'
    <3> SUFFICES ASSUME qMishaps = {}, NEW i \in 1..MaxIds, qFiles'[i] # "none"
                 PROVE  \/ \E r \in qRecords : r.id = i
                        \/ \E d \in QuarantineCalls : \E r \in Made(d)' : r.id = i
      BY <1>1 DEF Quarantined!OrphansExplained, Made
    <3>1. CASE i = qNextId
      BY <3>1, <1>5, <1>7
    <3>2. CASE i # qNextId
      <4>1. \/ \E r \in qRecords : r.id = i
            \/ \E d \in QuarantineCalls : \E r \in Made(d) : r.id = i
        BY <3>2, <1>9 DEF QuarantineInv, QuarantineSound, Quarantined!OrphansExplained, Made
      <4> QED BY <4>1, <1>7
    <3> QED BY <3>1, <3>2
  <2> QED BY <2>1, <2>2, <1>1 DEF QuarantineInv, QuarantineSound, Quarantined!SourcesOnce,
                                  Quarantined!ReleasedIntact, Quarantined!NeverOverwrites
<1> QED BY <1>11, <1>12, <1>13, <1>14, <1>15 DEF QuarantineInv

(* The update adds what is still not held; each of its payloads is there.   *)
LEMMA SaveUpdateSafe ==
    ASSUME QuarantineInv, NEW c \in QuarantineCalls, Quarantined!SaveUpdate(c)
    PROVE  QuarantineInv'
<1> DEFINE accepted == Quarantined!AcceptedIds(Made(c))
           k == [qCalls[c] EXCEPT !.step = "unused", !.made = @ \ accepted]
<1>1. /\ qCalls[c].op = "save" /\ qCalls[c].step = "write"
      /\ qRecords' = qRecords \cup accepted
      /\ UNCHANGED <<qFiles, qNextId, qAside, qOut, qClobbered, qMishaps>>
  BY DEF Quarantined!SaveUpdate, Quarantined!At, Made
<1>2. CallShaped(qCalls[c]) /\ qCalls[c].op \notin {"release", "delete"}
  BY <1>1 DEF QuarantineInv, QuarantineType
<1>3. /\ accepted \subseteq Made(c)
      /\ \A r \in accepted : \A s \in qRecords : r.source # s.source
  BY DEF Quarantined!AcceptedIds, Quarantined!Held
<1>4. qCalls' = [qCalls EXCEPT ![c] = k]
  BY Zenon DEF Quarantined!SaveUpdate, Made
<1> HIDE DEF accepted
<1>5. /\ k.op = "save" /\ k.step = "unused" /\ k.todo = qCalls[c].todo
      /\ k.made = Made(c) \ accepted /\ DOMAIN k = CallFields
  BY <1>1, <1>2 DEF CallShaped, CallFields, Made
<1> HIDE DEF k
<1>6. /\ qCalls'[c] = k /\ qCalls' = [d \in QuarantineCalls |-> qCalls'[d]]
      /\ \A d \in QuarantineCalls \ {c} : qCalls'[d] = qCalls[d]
  BY <1>4, CallGoes, Zenon
<1>7. /\ Made(c)' = Made(c) \ accepted
      /\ \A d \in QuarantineCalls \ {c} : Made(d)' = Made(d)
      /\ \A d \in QuarantineCalls : Removing(d)' <=> Removing(d)
      /\ \A d \in QuarantineCalls : Removing(d) => qCalls'[d] = qCalls[d]
  BY <1>1, <1>2, <1>5, <1>6 DEF Made, Removing
<1>8. DrawnIds' = DrawnIds
  BY <1>1 DEF DrawnIds
<1>9. QuarantineType'
  <2>1. \A d \in QuarantineCalls : CallShaped(qCalls[d])'
    BY <1>2, <1>5, <1>6, <1>8 DEF QuarantineInv, QuarantineType, CallShaped
  <2>2. \A d \in QuarantineCalls : \A r \in Made(d)' : r.id \in DrawnIds'
    BY <1>7, <1>8 DEF QuarantineInv, QuarantineType
  <2>3. \A d \in QuarantineCalls :
           qAside'[d] # "none" => Removing(d)' /\ qCalls'[d].step \in {"update", "remove"}
    BY <1>1, <1>7 DEF QuarantineInv, QuarantineType
  <2>4. \A r \in qRecords' : r.id \in DrawnIds'
    BY <1>1, <1>3, <1>8 DEF QuarantineInv, QuarantineType
  <2>5. /\ qNextId' \in Nat \ {0} /\ qAside' \in [QuarantineCalls -> Payloads]
        /\ qFiles' \in [1..MaxIds -> Payloads]
    BY <1>1 DEF QuarantineInv, QuarantineType
  <2> QED BY <1>6, <2>1, <2>2, <2>3, <2>4, <2>5 DEF QuarantineType
<1>10. IdsApart'
  <2>1. \A r, s \in qRecords' : r.id = s.id => r = s
    BY <1>1, <1>3 DEF QuarantineInv, IdsApart
  <2>2. \A d \in QuarantineCalls : \A r \in Made(d)' : \A s \in qRecords' : r.id # s.id
    BY <1>1, <1>3, <1>7 DEF QuarantineInv, IdsApart
  <2>3. \A d, e \in QuarantineCalls : \A r \in Made(d)' :
           /\ \A s \in Made(e)' : r.id = s.id => d = e /\ r = s
           /\ Removing(e) => qCalls[e].id # r.id
    BY <1>7 DEF QuarantineInv, IdsApart
  <2>4. \A d \in QuarantineCalls : Removing(d) /\ qCalls[d].step = "remove"
           => \A r \in qRecords' : r.id # qCalls[d].id
    BY <1>1, <1>3 DEF QuarantineInv, IdsApart
  <2> QED BY <2>1, <2>2, <2>3, <2>4, <1>7 DEF IdsApart
<1>11. SavesSound'
  BY <1>1, <1>5, <1>6, <1>7 DEF QuarantineInv, SavesSound
<1>12. RemovesAlone'
  BY <1>1, <1>7 DEF QuarantineInv, RemovesAlone
<1>13. QuarantineSound'
  <2>1. Quarantined!SourcesOnce'
    BY <1>1, <1>3 DEF QuarantineInv, QuarantineSound, Quarantined!SourcesOnce, SavesSound
  <2>2. Quarantined!RecordsBacked'
    <3> SUFFICES ASSUME "died" \notin qMishaps, NEW r \in qRecords', qFiles[r.id] = "none"
                 PROVE  \E d \in QuarantineCalls :
                           Quarantined!Removing(d)' /\ qCalls'[d].id = r.id /\ qAside[d] # "none"
      BY <1>1 DEF Quarantined!RecordsBacked
    <3>1. r \in qRecords
      BY <1>1, <1>3 DEF QuarantineInv, SavesSound
    <3>2. PICK d \in QuarantineCalls :
             Quarantined!Removing(d) /\ qCalls[d].id = r.id /\ qAside[d] # "none"
      BY <3>1 DEF QuarantineInv, QuarantineSound, Quarantined!RecordsBacked
    <3>3. Removing(d)
      BY <3>2 DEF Removing, Quarantined!Removing
    <3> QED BY <1>7, <3>2, <3>3 DEF Quarantined!Removing
  <2>3. Quarantined!OrphansExplained'
    <3> SUFFICES ASSUME qMishaps = {}, NEW i \in 1..MaxIds, qFiles[i] # "none"
                 PROVE  \/ \E r \in qRecords' : r.id = i
                        \/ \E d \in QuarantineCalls : \E r \in Made(d)' : r.id = i
      BY <1>1 DEF Quarantined!OrphansExplained, Made
    <3>1. \/ \E r \in qRecords : r.id = i
          \/ \E d \in QuarantineCalls : \E r \in Made(d) : r.id = i
      BY DEF QuarantineInv, QuarantineSound, Quarantined!OrphansExplained, Made
    <3> QED BY <3>1, <1>1, <1>7
  <2> QED BY <2>1, <2>2, <2>3, <1>1 DEF QuarantineInv, QuarantineSound,
                                        Quarantined!ReleasedIntact, Quarantined!NeverOverwrites
<1> QED BY <1>9, <1>10, <1>11, <1>12, <1>13 DEF QuarantineInv

(* A save lets go of the payloads it holds: they are removed, or a mishap   *)
(* is noted.                                                                *)
LEMMA SaveLetsGo ==
    ASSUME QuarantineInv, NEW c \in QuarantineCalls, NEW k,
           qCalls' = [qCalls EXCEPT ![c] = k],
           CallShaped(k), k.made = {}, k.op \notin {"release", "delete"},
           qCalls[c].op = "save", qFiles' \in [1..MaxIds -> Payloads],
           \A i \in 1..MaxIds : (\A r \in Made(c) : r.id # i) => qFiles'[i] = qFiles[i],
           \A r \in Made(c) : qMishaps' = {} => qFiles'[r.id] = "none",
           qMishaps \subseteq qMishaps', UNCHANGED <<qRecords, qAside, qNextId, qOut, qClobbered>>
    PROVE  QuarantineInv'
<1>1. /\ qCalls'[c] = k /\ qCalls' = [d \in QuarantineCalls |-> qCalls'[d]]
      /\ \A d \in QuarantineCalls \ {c} : qCalls'[d] = qCalls[d]
  BY CallGoes, Zenon
<1>2. /\ Made(c)' = {}
      /\ \A d \in QuarantineCalls \ {c} : Made(d)' = Made(d)
      /\ \A d \in QuarantineCalls : Removing(d)' <=> Removing(d)
      /\ \A d \in QuarantineCalls : Removing(d) => qCalls'[d] = qCalls[d]
  BY <1>1 DEF Made, Removing
<1>3. DrawnIds' = DrawnIds
  BY DEF DrawnIds
<1>4. /\ \A r \in qRecords : qFiles'[r.id] = qFiles[r.id]
      /\ \A d \in QuarantineCalls \ {c} : \A r \in Made(d) : qFiles'[r.id] = qFiles[r.id]
      /\ \A d \in QuarantineCalls : Removing(d) => qFiles'[qCalls[d].id] = qFiles[qCalls[d].id]
  BY DEF QuarantineInv, QuarantineType, IdsApart, CallShaped, Removing, DrawnIds
<1>5. QuarantineType'
  <2>1. \A d \in QuarantineCalls : CallShaped(qCalls[d])'
    BY <1>1, <1>3 DEF QuarantineInv, QuarantineType, CallShaped
  <2>2. \A d \in QuarantineCalls : \A r \in Made(d)' : r.id \in DrawnIds'
    BY <1>2, <1>3 DEF QuarantineInv, QuarantineType
  <2>3. \A d \in QuarantineCalls :
           qAside'[d] # "none" => Removing(d)' /\ qCalls'[d].step \in {"update", "remove"}
    BY <1>2 DEF QuarantineInv, QuarantineType
  <2> QED BY <1>1, <1>3, <2>1, <2>2, <2>3 DEF QuarantineInv, QuarantineType
<1>6. IdsApart'
  BY <1>2 DEF QuarantineInv, IdsApart
<1>7. SavesSound'
  BY <1>1, <1>2, <1>4 DEF QuarantineInv, SavesSound
<1>8. RemovesAlone'
  BY <1>2, <1>4 DEF QuarantineInv, RemovesAlone
<1>9. QuarantineSound'
  <2>1. Quarantined!RecordsBacked'
    <3> SUFFICES ASSUME "died" \notin qMishaps', NEW r \in qRecords, qFiles'[r.id] = "none"
                 PROVE  \E d \in QuarantineCalls :
                           Quarantined!Removing(d)' /\ qCalls'[d].id = r.id /\ qAside[d] # "none"
      BY DEF Quarantined!RecordsBacked
    <3>1. PICK d \in QuarantineCalls :
             Quarantined!Removing(d) /\ qCalls[d].id = r.id /\ qAside[d] # "none"
      BY <1>4 DEF QuarantineInv, QuarantineSound, Quarantined!RecordsBacked
    <3>2. Removing(d)
      BY <3>1 DEF Removing, Quarantined!Removing
    <3> QED BY <1>2, <3>1, <3>2 DEF Quarantined!Removing
  <2>2. Quarantined!OrphansExplained'
    <3> SUFFICES ASSUME qMishaps' = {}, NEW i \in 1..MaxIds, qFiles'[i] # "none"
                 PROVE  \/ \E r \in qRecords : r.id = i
                        \/ \E d \in QuarantineCalls : \E r \in Made(d)' : r.id = i
      BY DEF Quarantined!OrphansExplained, Made
    <3>1. \A r \in Made(c) : r.id # i
      OBVIOUS
    <3>2. qMishaps = {} /\ qFiles[i] # "none"
      BY <3>1
    <3>3. \/ \E r \in qRecords : r.id = i
          \/ \E d \in QuarantineCalls : \E r \in Made(d) : r.id = i
      BY <3>2 DEF QuarantineInv, QuarantineSound, Quarantined!OrphansExplained, Made
    <3> QED BY <3>1, <3>3, <1>2
  <2> QED BY <2>1, <2>2 DEF QuarantineInv, QuarantineSound, Quarantined!SourcesOnce,
                            Quarantined!ReleasedIntact, Quarantined!NeverOverwrites
<1> QED BY <1>5, <1>6, <1>7, <1>8, <1>9 DEF QuarantineInv

LEMMA WriteFailsSafe ==
    ASSUME QuarantineInv, NEW c \in QuarantineCalls, Quarantined!WriteFails(c)
    PROVE  QuarantineInv'
<1>1. /\ qCalls[c].op = "save"
      /\ UNCHANGED <<qRecords, qFiles, qAside, qNextId, qFolder, qOut, qClobbered>>
      /\ qCalls' = [qCalls EXCEPT ![c] = Quarantined!Idle]
  BY DEF Quarantined!WriteFails, Quarantined!At, Quarantined!Returns
<1>2. qMishaps \subseteq qMishaps' /\ (Made(c) # {} => qMishaps' # {})
  BY DEF Quarantined!WriteFails, Made
<1>3. qFiles \in [1..MaxIds -> Payloads]
  BY DEF QuarantineInv, QuarantineType
<1> QED BY <1>1, <1>2, <1>3, IdleShaped, SaveLetsGo, Zenon

(* A refused update, and the duplicates of one that was accepted.           *)
LEMMA PayloadsRemovedSafe ==
    ASSUME QuarantineInv, NEW c \in QuarantineCalls,
           Quarantined!SaveFails(c) \/ Quarantined!SaveCleanup(c)
    PROVE  QuarantineInv'
<1>1. /\ qCalls[c].op = "save" /\ qCalls[c].step \in {"write", "unused"}
      /\ UNCHANGED <<qRecords, qAside, qNextId, qOut, qClobbered, qMishaps>>
      /\ qFiles' = [i \in DOMAIN qFiles |-> IF \E r \in Made(c) : r.id = i THEN "none" ELSE qFiles[i]]
  BY DEF Quarantined!SaveFails, Quarantined!SaveCleanup, Quarantined!At, Quarantined!WithoutUnused, Made
<1>2. /\ qFiles \in [1..MaxIds -> Payloads]
      /\ CallShaped(qCalls[c]) /\ \A r \in Made(c) : r.id \in 1..MaxIds
  BY DEF QuarantineInv, QuarantineType, DrawnIds
<1>3. /\ qFiles' \in [1..MaxIds -> Payloads]
      /\ \A i \in 1..MaxIds : (\A r \in Made(c) : r.id # i) => qFiles'[i] = qFiles[i]
      /\ \A r \in Made(c) : qFiles'[r.id] = "none"
  BY <1>1, <1>2 DEF Payloads
<1> DEFINE left == [qCalls[c] EXCEPT !.step = "dialog", !.made = {}]
<1>4. CallShaped(left) /\ left.made = {} /\ left.op = "save"
  BY <1>1, <1>2 DEF CallShaped, CallFields
<1>5. qCalls' = [qCalls EXCEPT ![c] = Quarantined!Idle] \/ qCalls' = [qCalls EXCEPT ![c] = left]
  BY Zenon DEF Quarantined!SaveFails, Quarantined!SaveCleanup, Quarantined!Returns
<1> HIDE DEF left
<1>6. CASE qCalls' = [qCalls EXCEPT ![c] = Quarantined!Idle]
  BY <1>1, <1>3, <1>6, IdleShaped, SaveLetsGo, Zenon
<1>7. CASE qCalls' = [qCalls EXCEPT ![c] = left]
  BY <1>1, <1>3, <1>4, <1>7, SaveLetsGo, Zenon
<1> QED BY <1>5, <1>6, <1>7

(* A removal that goes on without a save: which calls hold what.            *)
LEMMA RemovalGoes ==
    ASSUME QuarantineInv, NEW c \in QuarantineCalls, NEW k, Removing(c),
           qCalls' = [qCalls EXCEPT ![c] = k], CallShaped(k), k.made = {},
           UNCHANGED qNextId
    PROVE  /\ qCalls'[c] = k /\ qCalls' = [d \in QuarantineCalls |-> qCalls'[d]]
           /\ \A d \in QuarantineCalls \ {c} :
                 qCalls'[d] = qCalls[d] /\ (Removing(d)' <=> Removing(d))
           /\ \A d \in QuarantineCalls : Made(d)' = Made(d)
           /\ \A d \in QuarantineCalls : CallShaped(qCalls[d])'
           /\ DrawnIds' = DrawnIds
           /\ Made(c) = {}
<1>1. /\ qCalls'[c] = k /\ qCalls' = [d \in QuarantineCalls |-> qCalls'[d]]
      /\ \A d \in QuarantineCalls \ {c} : qCalls'[d] = qCalls[d]
  BY CallGoes, Zenon
<1>2. Made(c) = {} /\ Made(c)' = {}
  BY <1>1 DEF QuarantineInv, QuarantineType, CallShaped, Removing, Made
<1>3. DrawnIds' = DrawnIds
  BY DEF DrawnIds
<1>4. \A d \in QuarantineCalls : CallShaped(qCalls[d])'
  BY <1>1, <1>3 DEF QuarantineInv, QuarantineType, CallShaped
<1> QED BY <1>1, <1>2, <1>3, <1>4 DEF Made, Removing

LEMMA MoveAsideSafe ==
    ASSUME QuarantineInv, NEW c \in QuarantineCalls, Quarantined!MoveAside(c)
    PROVE  QuarantineInv'
<1> DEFINE id == qCalls[c].id
           k == IF qFiles[id] = "none" /\ qCalls[c].op = "release" THEN Quarantined!Idle
                ELSE [qCalls[c] EXCEPT !.step = "update"]
<1>1. /\ Removing(c) /\ qCalls[c].step = "rename"
      /\ qAside' = [qAside EXCEPT ![c] = qFiles[id]]
      /\ qFiles' = [qFiles EXCEPT ![id] = "none"]
      /\ qMishaps \subseteq qMishaps'
      /\ qMishaps' = {} => \A d \in QuarantineCalls \ {c} : Removing(d) => qCalls[d].id # id
      /\ UNCHANGED <<qRecords, qNextId, qOut, qClobbered>>
  BY DEF Quarantined!MoveAside, Quarantined!Removing, Quarantined!Overlaps, Removing
<1>2. qCalls' = [qCalls EXCEPT ![c] = k]
  BY DEF Quarantined!MoveAside, Quarantined!Returns, Quarantined!Goes
<1>3. CallShaped(qCalls[c]) /\ Made(c) = {} /\ id \in DrawnIds /\ id \in 1..MaxIds
  BY <1>1 DEF QuarantineInv, QuarantineType, CallShaped, Made, Removing, DrawnIds
<1>4. /\ CallShaped(k) /\ k.made = {}
      /\ k.op \in {"release", "delete"} => k.step = "update" /\ k.id = id
      /\ k.op \notin {"release", "delete"} => qFiles[id] = "none"
  <2>1. CASE qFiles[id] = "none" /\ qCalls[c].op = "release"
    BY <2>1, IdleShaped
  <2>2. CASE ~(qFiles[id] = "none" /\ qCalls[c].op = "release")
    BY <2>2, <1>1, <1>3 DEF CallShaped, CallFields, Made, Removing
  <2> QED BY <2>1, <2>2
<1> HIDE DEF k
<1>5. /\ qCalls'[c] = k /\ qCalls' = [d \in QuarantineCalls |-> qCalls'[d]]
      /\ \A d \in QuarantineCalls \ {c} :
            qCalls'[d] = qCalls[d] /\ (Removing(d)' <=> Removing(d))
      /\ \A d \in QuarantineCalls : Made(d)' = Made(d)
      /\ \A d \in QuarantineCalls : CallShaped(qCalls[d])'
      /\ DrawnIds' = DrawnIds
  BY <1>1, <1>2, <1>4, RemovalGoes, Zenon
<1>6. /\ qFiles' \in [1..MaxIds -> Payloads] /\ qFiles'[id] = "none"
      /\ \A i \in 1..MaxIds : i # id => qFiles'[i] = qFiles[i]
      /\ qAside' \in [QuarantineCalls -> Payloads] /\ qAside'[c] = qFiles[id]
      /\ \A d \in QuarantineCalls \ {c} : qAside'[d] = qAside[d]
      /\ qAside[c] = "none"
  BY <1>1, <1>3 DEF QuarantineInv, QuarantineType, Payloads
<1>7. Removing(c)' => qCalls'[c].id = id /\ qCalls'[c].step = "update"
  BY <1>4, <1>5 DEF Removing
<1>8. ~Removing(c)' => qAside'[c] = "none"
  BY <1>4, <1>5, <1>6 DEF Removing
<1> HIDE DEF id
<1>9. QuarantineType'
  <2>1. \A d \in QuarantineCalls :
           qAside'[d] # "none" => Removing(d)' /\ qCalls'[d].step \in {"update", "remove"}
    BY <1>5, <1>6, <1>7, <1>8 DEF QuarantineInv, QuarantineType
  <2>2. \A d \in QuarantineCalls : \A r \in Made(d)' : r.id \in DrawnIds'
    BY <1>5 DEF QuarantineInv, QuarantineType
  <2> QED BY <1>1, <1>5, <1>6, <2>1, <2>2 DEF QuarantineInv, QuarantineType
<1>10. IdsApart'
  <2>1. \A d \in QuarantineCalls : Removing(d)' => Removing(d) /\ qCalls'[d].id = qCalls[d].id
    BY <1>1, <1>5, <1>7 DEF id
  <2>2. \A d \in QuarantineCalls : Removing(d)' /\ qCalls'[d].step = "remove" => qCalls[d].step = "remove"
    BY <1>5, <1>7
  <2> QED BY <1>1, <1>5, <2>1, <2>2 DEF QuarantineInv, IdsApart
<1>11. SavesSound'
  <2>1. \A d \in QuarantineCalls : \A r \in Made(d) : d # c /\ r.id # id /\ r.id \in 1..MaxIds
    BY <1>1, <1>3 DEF QuarantineInv, QuarantineType, IdsApart, id, DrawnIds
  <2> QED BY <2>1, <1>3, <1>5, <1>6 DEF QuarantineInv, SavesSound
<1>12. RemovesAlone'
  <2> SUFFICES ASSUME qMishaps' = {}, NEW d \in QuarantineCalls, Removing(d)',
                      qCalls'[d].step \in {"update", "remove"}
               PROVE  /\ qFiles'[qCalls'[d].id] = "none"
                      /\ \A e \in QuarantineCalls \ {d} : Removing(e)' /\ qCalls'[e].id = qCalls'[d].id
                            => qCalls'[e].step \in {"dialog", "rename"}
                      /\ qCalls'[d].step = "update" /\ qAside'[d] # "none"
                            => \E r \in qRecords' : r.id = qCalls'[d].id
    BY DEF RemovesAlone
  <2>1. qMishaps = {} /\ \A e \in QuarantineCalls \ {c} : Removing(e) => qCalls[e].id # id
    BY <1>1
  <2>2. CASE d = c
    <3>1. qFiles[id] # "none" => \E r \in qRecords : r.id = id
      BY <1>1, <1>3, <2>1 DEF QuarantineInv, QuarantineSound, Quarantined!OrphansExplained,
                              IdsApart, Made, id
    <3> QED BY <2>1, <2>2, <3>1, <1>1, <1>5, <1>6, <1>7
  <2>3. CASE d # c
    <3>1. qCalls'[d] = qCalls[d] /\ Removing(d) /\ qCalls[d].id # id /\ qCalls[d].id \in 1..MaxIds
      BY <2>1, <2>3, <1>5 DEF QuarantineInv, QuarantineType, CallShaped, Removing, DrawnIds
    <3>2. \A e \in QuarantineCalls \ {d} : Removing(e)' /\ qCalls'[e].id = qCalls'[d].id
             => qCalls'[e].step \in {"dialog", "rename"}
      BY <2>1, <3>1, <1>5, <1>7 DEF QuarantineInv, RemovesAlone
    <3> QED BY <2>1, <2>3, <3>1, <3>2, <1>1, <1>6 DEF QuarantineInv, RemovesAlone
  <2> QED BY <2>2, <2>3
<1>13. QuarantineSound'
  <2>1. Quarantined!RecordsBacked'
    <3> SUFFICES ASSUME "died" \notin qMishaps, NEW r \in qRecords, qFiles'[r.id] = "none"
                 PROVE  \E d \in QuarantineCalls :
                           Removing(d)' /\ qCalls'[d].id = r.id /\ qAside'[d] # "none"
      BY <1>1 DEF Quarantined!RecordsBacked, Removing, Quarantined!Removing
    <3>1. CASE r.id = id /\ qFiles[id] # "none"
      BY <3>1, <1>6, <1>7, <1>8
    <3>2. CASE ~(r.id = id /\ qFiles[id] # "none")
      <4>1. qFiles[r.id] = "none"
        BY <3>2, <1>6 DEF QuarantineInv, QuarantineType, DrawnIds
      <4>2. PICK d \in QuarantineCalls : Removing(d) /\ qCalls[d].id = r.id /\ qAside[d] # "none"
        BY <4>1 DEF QuarantineInv, QuarantineSound, Quarantined!RecordsBacked, Removing,
                    Quarantined!Removing
      <4> QED BY <4>2, <1>5, <1>6
    <3> QED BY <3>1, <3>2
  <2>2. Quarantined!OrphansExplained'
    <3> SUFFICES ASSUME qMishaps' = {}, NEW i \in 1..MaxIds, qFiles'[i] # "none"
                 PROVE  \/ \E r \in qRecords : r.id = i
                        \/ \E d \in QuarantineCalls : \E r \in Made(d) : r.id = i
      BY <1>1, <1>5 DEF Quarantined!OrphansExplained, Made
    <3> QED BY <1>1, <1>6 DEF QuarantineInv, QuarantineSound, Quarantined!OrphansExplained, Made
  <2> QED BY <2>1, <2>2, <1>1 DEF QuarantineInv, QuarantineSound, Quarantined!SourcesOnce,
                                  Quarantined!ReleasedIntact, Quarantined!NeverOverwrites
<1> QED BY <1>9, <1>10, <1>11, <1>12, <1>13 DEF QuarantineInv

(* The record goes; what other removals have renamed is not its payload.    *)
LEMMA RemoveRecordSafe ==
    ASSUME QuarantineInv, NEW c \in QuarantineCalls, Quarantined!RemoveRecord(c)
    PROVE  QuarantineInv'
<1> DEFINE id == qCalls[c].id
           k == [qCalls[c] EXCEPT !.step = "remove"]
<1>1. /\ Removing(c) /\ qCalls[c].step = "update"
      /\ qCalls' = [qCalls EXCEPT ![c] = k]
      /\ UNCHANGED <<qFiles, qAside, qNextId, qOut, qClobbered, qMishaps>>
  BY DEF Quarantined!RemoveRecord, Quarantined!Removing, Quarantined!Goes, Removing
<1>2. PICK gone \in qRecords : gone.id = id /\ qRecords' = qRecords \ {gone}
  BY DEF Quarantined!RemoveRecord
<1>3. /\ CallShaped(k) /\ k.made = {} /\ k.step = "remove" /\ k.id = id /\ k.op = qCalls[c].op
      /\ id \in DrawnIds
  BY <1>1 DEF QuarantineInv, QuarantineType, CallShaped, CallFields, Removing
<1> HIDE DEF k
<1>4. /\ qCalls'[c] = k /\ qCalls' = [d \in QuarantineCalls |-> qCalls'[d]]
      /\ \A d \in QuarantineCalls \ {c} :
            qCalls'[d] = qCalls[d] /\ (Removing(d)' <=> Removing(d))
      /\ \A d \in QuarantineCalls : Made(d)' = Made(d)
      /\ \A d \in QuarantineCalls : CallShaped(qCalls[d])'
      /\ DrawnIds' = DrawnIds
      /\ Made(c) = {}
  BY <1>1, <1>3, RemovalGoes, Zenon
<1>5. \A d \in QuarantineCalls : (Removing(d)' <=> Removing(d)) /\ qCalls'[d].id = qCalls[d].id
  BY <1>3, <1>4 DEF Removing
<1>6. \A r \in qRecords' : r \in qRecords /\ r.id # id
  BY <1>2 DEF QuarantineInv, IdsApart
<1>7. \A r \in qRecords : r.id # id => r \in qRecords'
  BY <1>2
<1> HIDE DEF id
<1>8. QuarantineType'
  <2>1. \A d \in QuarantineCalls :
           qAside'[d] # "none" => Removing(d)' /\ qCalls'[d].step \in {"update", "remove"}
    BY <1>1, <1>3, <1>4, <1>5 DEF QuarantineInv, QuarantineType
  <2>2. \A d \in QuarantineCalls : \A r \in Made(d)' : r.id \in DrawnIds'
    BY <1>4 DEF QuarantineInv, QuarantineType
  <2> QED BY <1>1, <1>4, <1>6, <2>1, <2>2 DEF QuarantineInv, QuarantineType
<1>9. IdsApart'
  <2>1. \A d \in QuarantineCalls : Removing(d) /\ qCalls'[d].step = "remove"
           => \A r \in qRecords' : r.id # qCalls'[d].id
    <3>1. ASSUME NEW d \in QuarantineCalls \ {c}, Removing(d), qCalls'[d].step = "remove"
          PROVE  \A r \in qRecords' : r.id # qCalls'[d].id
      BY <3>1, <1>4, <1>6 DEF QuarantineInv, IdsApart
    <3> QED BY <3>1, <1>5, <1>6 DEF id
  <2> QED BY <2>1, <1>4, <1>5, <1>6 DEF QuarantineInv, IdsApart
<1>10. SavesSound'
  BY <1>1, <1>4 DEF QuarantineInv, SavesSound
<1>11. RemovesAlone'
  <2> SUFFICES ASSUME qMishaps = {}, NEW d \in QuarantineCalls, Removing(d),
                      qCalls'[d].step \in {"update", "remove"}
               PROVE  /\ qFiles[qCalls[d].id] = "none"
                      /\ \A e \in QuarantineCalls \ {d} : Removing(e) /\ qCalls[e].id = qCalls[d].id
                            => qCalls'[e].step \in {"dialog", "rename"}
                      /\ qCalls'[d].step = "update" /\ qAside[d] # "none"
                            => \E r \in qRecords' : r.id = qCalls[d].id
    BY <1>1, <1>5 DEF RemovesAlone
  <2>1. qCalls[d].step \in {"update", "remove"}
    BY <1>1, <1>4
  <2>2. /\ qFiles[qCalls[d].id] = "none"
        /\ \A e \in QuarantineCalls \ {d} : Removing(e) /\ qCalls[e].id = qCalls[d].id
              => qCalls[e].step \in {"dialog", "rename"} /\ e # c
    BY <2>1, <1>1 DEF QuarantineInv, RemovesAlone
  <2>3. d # c => qCalls[d].id # id
    BY <2>1, <2>2, <1>1 DEF id
  <2>4. qCalls'[d].step = "update" /\ qAside[d] # "none" => \E r \in qRecords' : r.id = qCalls[d].id
    BY <2>3, <1>3, <1>4, <1>7 DEF QuarantineInv, RemovesAlone
  <2> QED BY <2>2, <2>4, <1>4
<1>12. QuarantineSound'
  <2>1. Quarantined!RecordsBacked'
    <3> SUFFICES ASSUME "died" \notin qMishaps, NEW r \in qRecords', qFiles[r.id] = "none"
                 PROVE  \E d \in QuarantineCalls :
                           Removing(d)' /\ qCalls'[d].id = r.id /\ qAside[d] # "none"
      BY <1>1 DEF Quarantined!RecordsBacked, Removing, Quarantined!Removing
    <3>1. PICK d \in QuarantineCalls : Removing(d) /\ qCalls[d].id = r.id /\ qAside[d] # "none"
      BY <1>6 DEF QuarantineInv, QuarantineSound, Quarantined!RecordsBacked, Removing,
                  Quarantined!Removing
    <3> QED BY <3>1, <1>5
  <2>2. Quarantined!OrphansExplained'
    <3> SUFFICES ASSUME qMishaps = {}, NEW i \in 1..MaxIds, qFiles[i] # "none"
                 PROVE  \/ \E r \in qRecords' : r.id = i
                        \/ \E d \in QuarantineCalls : \E r \in Made(d) : r.id = i
      BY <1>1, <1>4 DEF Quarantined!OrphansExplained, Made
    <3>1. i # id
      BY <1>1 DEF QuarantineInv, RemovesAlone, id
    <3>2. \/ \E r \in qRecords : r.id = i
          \/ \E d \in QuarantineCalls : \E r \in Made(d) : r.id = i
      BY DEF QuarantineInv, QuarantineSound, Quarantined!OrphansExplained, Made
    <3> QED BY <3>1, <3>2, <1>7
  <2>3. Quarantined!SourcesOnce'
    BY <1>6 DEF QuarantineInv, QuarantineSound, Quarantined!SourcesOnce
  <2> QED BY <2>1, <2>2, <2>3, <1>1 DEF QuarantineInv, QuarantineSound,
                                        Quarantined!ReleasedIntact, Quarantined!NeverOverwrites
<1> QED BY <1>8, <1>9, <1>10, <1>11, <1>12 DEF QuarantineInv

(* A removal ends: with its payload removed, or put back where it was.      *)
LEMMA RemovalEnds ==
    ASSUME QuarantineInv, NEW c \in QuarantineCalls,
           Quarantined!RemovePayload(c) \/ Quarantined!RemovalFails(c)
    PROVE  QuarantineInv'
<1> DEFINE id == qCalls[c].id
<1>1. /\ Removing(c) /\ qCalls[c].step \in {"update", "remove"}
      /\ qCalls' = [qCalls EXCEPT ![c] = Quarantined!Idle]
      /\ qAside' = [qAside EXCEPT ![c] = "none"]
      /\ qFiles' = qFiles \/ (qAside[c] # "none" /\ qFiles' = [qFiles EXCEPT ![id] = qAside[c]])
      /\ UNCHANGED <<qRecords, qNextId, qOut, qClobbered, qMishaps>>
  BY DEF Quarantined!RemovePayload, Quarantined!RemovalFails, Quarantined!Removing,
         Quarantined!Returns, Quarantined!PutBack, Removing
<1>2. id \in DrawnIds /\ id \in 1..MaxIds /\ qAside[c] \in Payloads
  BY <1>1 DEF QuarantineInv, QuarantineType, CallShaped, Removing, DrawnIds
<1>3. /\ qFiles' \in [1..MaxIds -> Payloads]
      /\ \A i \in 1..MaxIds : i # id => qFiles'[i] = qFiles[i]
      /\ \A i \in 1..MaxIds : qFiles[i] # "none" => qFiles'[i] # "none"
      /\ qFiles' = qFiles \/ (qAside[c] # "none" /\ qFiles'[id] # "none")
      /\ qAside' \in [QuarantineCalls -> Payloads] /\ qAside'[c] = "none"
      /\ \A d \in QuarantineCalls \ {c} : qAside'[d] = qAside[d]
  BY <1>1, <1>2, Zenon DEF QuarantineInv, QuarantineType, Payloads
<1>4. /\ qCalls' = [d \in QuarantineCalls |-> qCalls'[d]] /\ ~Removing(c)'
      /\ \A d \in QuarantineCalls \ {c} :
            qCalls'[d] = qCalls[d] /\ (Removing(d)' <=> Removing(d))
      /\ \A d \in QuarantineCalls : Made(d)' = Made(d)
      /\ \A d \in QuarantineCalls : CallShaped(qCalls[d])'
      /\ DrawnIds' = DrawnIds
      /\ Made(c) = {}
  <2> DEFINE k == Quarantined!Idle
  <2>1. CallShaped(k) /\ k.made = {} /\ k.op = "idle" /\ qCalls' = [qCalls EXCEPT ![c] = k]
    BY <1>1, IdleShaped
  <2> HIDE DEF k
  <2>2. /\ qCalls'[c] = k /\ qCalls' = [d \in QuarantineCalls |-> qCalls'[d]]
        /\ \A d \in QuarantineCalls \ {c} :
              qCalls'[d] = qCalls[d] /\ (Removing(d)' <=> Removing(d))
        /\ \A d \in QuarantineCalls : Made(d)' = Made(d)
        /\ \A d \in QuarantineCalls : CallShaped(qCalls[d])'
        /\ DrawnIds' = DrawnIds
        /\ Made(c) = {}
    BY <2>1, <1>1, RemovalGoes, Zenon
  <2>3. ~Removing(c)'
    BY <2>1, <2>2 DEF Removing
  <2> QED BY <2>2, <2>3
<1>5. qFiles' # qFiles => qCalls[c].step = "update"
  BY <1>1 DEF Quarantined!RemovePayload, Quarantined!RemovalFails
<1>6. qCalls[c].step = "remove" \/ (qAside[c] # "none" => qFiles'[id] # "none")
  <2>1. CASE Quarantined!RemovePayload(c)
    BY <2>1 DEF Quarantined!RemovePayload
  <2>2. CASE Quarantined!RemovalFails(c)
    <3>1. qAside[c] # "none" => qFiles' = [qFiles EXCEPT ![id] = qAside[c]]
      BY <2>2 DEF Quarantined!RemovalFails, Quarantined!PutBack
    <3> QED BY <3>1, <1>2, Zenon DEF QuarantineInv, QuarantineType
  <2> QED BY <2>1, <2>2
<1> HIDE DEF id
<1>7. QuarantineType'
  <2>1. \A d \in QuarantineCalls :
           qAside'[d] # "none" => Removing(d)' /\ qCalls'[d].step \in {"update", "remove"}
    BY <1>3, <1>4 DEF QuarantineInv, QuarantineType
  <2>2. \A d \in QuarantineCalls : \A r \in Made(d)' : r.id \in DrawnIds'
    BY <1>4 DEF QuarantineInv, QuarantineType
  <2> QED BY <1>1, <1>3, <1>4, <2>1, <2>2 DEF QuarantineInv, QuarantineType
<1>8. IdsApart'
  BY <1>1, <1>4 DEF QuarantineInv, IdsApart
<1>9. SavesSound'
  <2>1. \A d \in QuarantineCalls : \A r \in Made(d) : d # c /\ r.id \in 1..MaxIds
    BY <1>4 DEF QuarantineInv, QuarantineType, DrawnIds
  <2> QED BY <2>1, <1>3, <1>4 DEF QuarantineInv, SavesSound
<1>10. RemovesAlone'
  <2> SUFFICES ASSUME qMishaps = {}, NEW d \in QuarantineCalls \ {c}, Removing(d),
                      qCalls[d].step \in {"update", "remove"}
               PROVE  /\ qFiles'[qCalls[d].id] = "none"
                      /\ \A e \in QuarantineCalls \ {d} : Removing(e)' /\ qCalls'[e].id = qCalls[d].id
                            => qCalls'[e].step \in {"dialog", "rename"}
                      /\ qCalls[d].step = "update" /\ qAside'[d] # "none"
                            => \E r \in qRecords : r.id = qCalls[d].id
    BY <1>1, <1>4 DEF RemovesAlone
  <2>1. qCalls[d].id # id /\ qFiles[qCalls[d].id] = "none" /\ qCalls[d].id \in 1..MaxIds
    BY <1>1 DEF QuarantineInv, RemovesAlone, QuarantineType, CallShaped, Removing, DrawnIds, id
  <2>2. \A e \in QuarantineCalls \ {d} : Removing(e)' /\ qCalls'[e].id = qCalls[d].id
           => qCalls'[e].step \in {"dialog", "rename"}
    BY <1>4 DEF QuarantineInv, RemovesAlone
  <2> QED BY <2>1, <2>2, <1>3 DEF QuarantineInv, RemovesAlone
<1>11. QuarantineSound'
  <2>1. Quarantined!RecordsBacked'
    <3> SUFFICES ASSUME "died" \notin qMishaps, NEW r \in qRecords, qFiles'[r.id] = "none"
                 PROVE  \E d \in QuarantineCalls :
                           Removing(d)' /\ qCalls'[d].id = r.id /\ qAside'[d] # "none"
      BY <1>1 DEF Quarantined!RecordsBacked, Removing, Quarantined!Removing
    <3>1. qFiles[r.id] = "none"
      BY <1>3 DEF QuarantineInv, QuarantineType, DrawnIds
    <3>2. PICK d \in QuarantineCalls : Removing(d) /\ qCalls[d].id = r.id /\ qAside[d] # "none"
      BY <3>1 DEF QuarantineInv, QuarantineSound, Quarantined!RecordsBacked, Removing,
                  Quarantined!Removing
    <3>3. d # c
      BY <3>2, <1>6 DEF QuarantineInv, IdsApart, id
    <3> QED BY <3>2, <3>3, <1>3, <1>4
  <2>2. Quarantined!OrphansExplained'
    <3> SUFFICES ASSUME qMishaps = {}, NEW i \in 1..MaxIds, qFiles'[i] # "none"
                 PROVE  \/ \E r \in qRecords : r.id = i
                        \/ \E d \in QuarantineCalls : \E r \in Made(d) : r.id = i
      BY <1>1, <1>4 DEF Quarantined!OrphansExplained, Made
    <3>1. CASE qFiles[i] # "none"
      BY <3>1 DEF QuarantineInv, QuarantineSound, Quarantined!OrphansExplained, Made
    <3>2. CASE qFiles[i] = "none"
      <4>1. i = id /\ qFiles' # qFiles
        BY <3>2, <1>3, Zenon
      <4> QED BY <4>1, <1>1, <1>3, <1>5 DEF QuarantineInv, RemovesAlone, id
    <3> QED BY <3>1, <3>2
  <2> QED BY <2>1, <2>2, <1>1 DEF QuarantineInv, QuarantineSound, Quarantined!SourcesOnce,
                                  Quarantined!ReleasedIntact, Quarantined!NeverOverwrites
<1> QED BY <1>7, <1>8, <1>9, <1>10, <1>11 DEF QuarantineInv

(* A payload that changes stays where it is.                                *)
LEMMA ChangesSafe ==
    ASSUME QuarantineInv, NEW i \in 1..MaxIds, Quarantined!Changes(i)
    PROVE  QuarantineInv'
<1>1. /\ qFiles[i] = "intact" /\ qFiles' = [qFiles EXCEPT ![i] = "changed"]
      /\ UNCHANGED <<qRecords, qAside, qCalls, qNextId, qFolder, qOut, qClobbered, qMishaps>>
  BY DEF Quarantined!Changes
<1>2. /\ qFiles' \in [1..MaxIds -> Payloads]
      /\ \A j \in 1..MaxIds : qFiles'[j] = "none" <=> qFiles[j] = "none"
  BY <1>1 DEF QuarantineInv, QuarantineType, Payloads
<1>3. QuarantineType'
  BY <1>1, <1>2 DEF QuarantineInv, QuarantineType, CallShaped, DrawnIds, Made, Removing
<1>4. IdsApart'
  BY <1>1 DEF QuarantineInv, IdsApart, Made, Removing
<1>5. SavesSound'
  BY <1>1, <1>2 DEF QuarantineInv, SavesSound, Made, QuarantineType, DrawnIds
<1>6. RemovesAlone'
  BY <1>1, <1>2 DEF QuarantineInv, RemovesAlone, Removing, QuarantineType, CallShaped, DrawnIds
<1>7. Quarantined!RecordsBacked'
  BY <1>1, <1>2 DEF QuarantineInv, QuarantineSound, QuarantineType, DrawnIds,
                    Quarantined!RecordsBacked, Quarantined!Removing
<1>8. Quarantined!OrphansExplained'
  BY <1>1, <1>2 DEF QuarantineInv, QuarantineSound, Quarantined!OrphansExplained
<1> QED BY <1>1, <1>3, <1>4, <1>5, <1>6, <1>7, <1>8
        DEF QuarantineInv, QuarantineSound, Quarantined!SourcesOnce, Quarantined!ReleasedIntact,
            Quarantined!NeverOverwrites

LEMMA DiesSafe ==
    ASSUME QuarantineInv, Quarantined!Dies
    PROVE  QuarantineInv'
<1>1. /\ qCalls' = [c \in QuarantineCalls |-> Quarantined!Idle]
      /\ qAside' = [c \in QuarantineCalls |-> "none"] /\ "died" \in qMishaps'
      /\ UNCHANGED <<qRecords, qFiles, qNextId, qFolder, qOut, qClobbered>>
  BY DEF Quarantined!Dies
<1>2. /\ \A c \in QuarantineCalls : Made(c)' = {} /\ ~Removing(c)' /\ CallShaped(qCalls[c])'
      /\ \A c \in QuarantineCalls : qCalls'[c] = Quarantined!Idle /\ qAside'[c] = "none"
  BY <1>1, IdleShaped DEF Made, Removing, CallShaped
<1>3. QuarantineType'
  <2>1. qCalls' = [c \in QuarantineCalls |-> qCalls'[c]]
    BY <1>1
  <2>2. qAside' \in [QuarantineCalls -> Payloads]
    BY <1>1 DEF Payloads
  <2>3. DrawnIds' = DrawnIds
    BY <1>1 DEF DrawnIds
  <2> QED BY <1>1, <1>2, <2>1, <2>2, <2>3 DEF QuarantineInv, QuarantineType
<1>4. IdsApart'
  BY <1>1, <1>2 DEF QuarantineInv, IdsApart
<1>5. SavesSound'
  BY <1>2 DEF SavesSound
<1>6. RemovesAlone'
  BY <1>1 DEF RemovesAlone
<1>7. QuarantineSound'
  BY <1>1 DEF QuarantineInv, QuarantineSound, Quarantined!SourcesOnce, Quarantined!RecordsBacked,
     Quarantined!OrphansExplained, Quarantined!ReleasedIntact, Quarantined!NeverOverwrites
<1> QED BY <1>3, <1>4, <1>5, <1>6, <1>7 DEF QuarantineInv

LEMMA QuarantineStarts == Quarantined!QuarantineInit => QuarantineInv
<1> SUFFICES ASSUME Quarantined!QuarantineInit PROVE QuarantineInv
  OBVIOUS
<1>1. /\ qRecords = {} /\ qFiles = [i \in 1..MaxIds |-> "none"] /\ qNextId = 1
      /\ qAside = [c \in QuarantineCalls |-> "none"]
      /\ qCalls = [c \in QuarantineCalls |-> Quarantined!Idle]
      /\ qOut = {} /\ qClobbered = FALSE
  BY DEF Quarantined!QuarantineInit
<1>2. \A c \in QuarantineCalls : /\ Made(c) = {} /\ ~Removing(c) /\ CallShaped(qCalls[c])
                                 /\ qAside[c] = "none"
  BY <1>1, IdleShaped DEF Made, Removing
<1>3. qCalls = [c \in QuarantineCalls |-> qCalls[c]]
  BY <1>1
<1>4. QuarantineType
  BY <1>1, <1>2, <1>3 DEF QuarantineType, Payloads
<1>5. IdsApart /\ SavesSound /\ RemovesAlone
  BY <1>1, <1>2 DEF IdsApart, SavesSound, RemovesAlone
<1>6. QuarantineSound
  BY <1>1 DEF QuarantineSound, Quarantined!SourcesOnce, Quarantined!RecordsBacked,
     Quarantined!OrphansExplained, Quarantined!ReleasedIntact, Quarantined!NeverOverwrites
<1> QED BY <1>4, <1>5, <1>6 DEF QuarantineInv

LEMMA QuarantineSafe ==
    ASSUME QuarantineInv, Quarantined!QuarantineNext
    PROVE  QuarantineInv'
<1>1. ASSUME NEW c \in QuarantineCalls,
             \/ \E risky \in SUBSET Sources, n \in {0, Ordinary} : Quarantined!BeginSave(c, risky, n)
             \/ \E s \in Sources : Quarantined!WritePayload(c, s)
             \/ Quarantined!SaveUpdate(c) \/ Quarantined!WriteFails(c)
             \/ Quarantined!SaveFails(c) \/ Quarantined!SaveCleanup(c)
             \/ Quarantined!ChooseName(c) \/ Quarantined!WriteFile(c) \/ Quarantined!SaveCancelled(c)
      PROVE  QuarantineInv'
  BY <1>1, BeginSaveSafe, WritePayloadSafe, SaveUpdateSafe, WriteFailsSafe, PayloadsRemovedSafe,
     OrdinarySafe
<1>2. ASSUME NEW c \in QuarantineCalls,
             \/ \E r \in qRecords : Quarantined!BeginRelease(c, r) \/ Quarantined!BeginDelete(c, r)
             \/ Quarantined!CopyOut(c) \/ Quarantined!ReleaseCancelled(c)
             \/ Quarantined!MoveAside(c) \/ Quarantined!RemoveRecord(c)
             \/ Quarantined!RemovePayload(c) \/ Quarantined!RemovalFails(c)
      PROVE  QuarantineInv'
  BY <1>2, BeginReleaseSafe, BeginDeleteSafe, DialogSafe, MoveAsideSafe, RemoveRecordSafe,
     RemovalEnds
<1>3. ASSUME NEW i \in 1..MaxIds, Quarantined!Changes(i) PROVE QuarantineInv'
  BY <1>3, ChangesSafe
<1> QED BY <1>1, <1>2, <1>3, DiesSafe DEF Quarantined!QuarantineNext

(* The other focus takes the same steps with its own attachments: one is    *)
(* risky and one ordinary.                                                  *)
LEMMA SavingSaves ==
    ASSUME NEW c \in QuarantineCalls
    PROVE  /\ \A risky, n : Saving!BeginSave(c, risky, n) => Quarantined!BeginSave(c, risky, n)
           /\ \A s : Saving!WritePayload(c, s) => Quarantined!WritePayload(c, s)
           /\ Saving!SaveUpdate(c) => Quarantined!SaveUpdate(c)
           /\ Saving!WriteFails(c) => Quarantined!WriteFails(c)
           /\ Saving!SaveFails(c) => Quarantined!SaveFails(c)
           /\ Saving!SaveCleanup(c) => Quarantined!SaveCleanup(c)
           /\ Saving!ChooseName(c) => Quarantined!ChooseName(c)
           /\ Saving!WriteFile(c) => Quarantined!WriteFile(c)
           /\ Saving!SaveCancelled(c) => Quarantined!SaveCancelled(c)
<1>1. \A s : Saving!Held(s) <=> Quarantined!Held(s)
  BY DEF Saving!Held, Quarantined!Held
<1>2. ASSUME NEW risky, NEW n, Saving!BeginSave(c, risky, n)
      PROVE  Quarantined!BeginSave(c, risky, n)
  <2>1. {s \in risky : ~Saving!Held(s)} = {s \in risky : ~Quarantined!Held(s)}
    BY <1>1
  <2> QED BY <1>2, <2>1, Zenon DEF Saving!BeginSave, Quarantined!BeginSave, Saving!At, Quarantined!At,
                            Saving!Idle, Quarantined!Idle
<1>3. \A s : Saving!WritePayload(c, s) => Quarantined!WritePayload(c, s)
  BY DEF Saving!WritePayload, Quarantined!WritePayload, Saving!At, Quarantined!At
<1>4. Saving!AcceptedIds(qCalls[c].made) = Quarantined!AcceptedIds(qCalls[c].made)
  BY <1>1 DEF Saving!AcceptedIds, Quarantined!AcceptedIds
<1>5. Saving!SaveUpdate(c) => Quarantined!SaveUpdate(c)
  BY <1>4 DEF Saving!SaveUpdate, Quarantined!SaveUpdate, Saving!At, Quarantined!At
<1>6. Saving!Returns(c) => Quarantined!Returns(c)
  BY DEF Saving!Returns, Quarantined!Returns, Saving!Idle, Quarantined!Idle
<1>7. /\ Saving!WriteFails(c) => Quarantined!WriteFails(c)
      /\ Saving!SaveFails(c) => Quarantined!SaveFails(c)
      /\ Saving!SaveCancelled(c) => Quarantined!SaveCancelled(c)
  BY <1>6 DEF Saving!WriteFails, Quarantined!WriteFails, Saving!SaveFails, Quarantined!SaveFails,
              Saving!SaveCancelled, Quarantined!SaveCancelled, Saving!At, Quarantined!At
<1>8. Saving!SaveCleanup(c) => Quarantined!SaveCleanup(c)
  BY <1>6 DEF Saving!SaveCleanup, Quarantined!SaveCleanup, Saving!At, Quarantined!At,
              Saving!WithoutUnused, Quarantined!WithoutUnused
<1>9. Saving!ChooseName(c) => Quarantined!ChooseName(c)
  BY <1>6 DEF Saving!ChooseName, Quarantined!ChooseName, Saving!At, Quarantined!At,
              Saving!Names, Quarantined!Names
<1>10. Saving!WriteFile(c) => Quarantined!WriteFile(c)
  BY <1>6 DEF Saving!WriteFile, Quarantined!WriteFile, Saving!At, Quarantined!At,
              Saving!Taken, Quarantined!Taken
<1> QED BY <1>2, <1>3, <1>5, <1>7, <1>8, <1>9, <1>10

LEMMA SavingRemoves ==
    ASSUME NEW c \in QuarantineCalls
    PROVE  /\ \A r : Saving!BeginRelease(c, r) => Quarantined!BeginRelease(c, r)
           /\ \A r : Saving!BeginDelete(c, r) => Quarantined!BeginDelete(c, r)
           /\ Saving!CopyOut(c) => Quarantined!CopyOut(c)
           /\ Saving!ReleaseCancelled(c) => Quarantined!ReleaseCancelled(c)
           /\ Saving!MoveAside(c) => Quarantined!MoveAside(c)
           /\ Saving!RemoveRecord(c) => Quarantined!RemoveRecord(c)
           /\ Saving!RemovePayload(c) => Quarantined!RemovePayload(c)
           /\ Saving!RemovalFails(c) => Quarantined!RemovalFails(c)
<1>1. \A r : /\ Saving!BeginRelease(c, r) => Quarantined!BeginRelease(c, r)
             /\ Saving!BeginDelete(c, r) => Quarantined!BeginDelete(c, r)
  BY DEF Saving!BeginRelease, Quarantined!BeginRelease, Saving!BeginDelete, Quarantined!BeginDelete,
         Saving!At, Quarantined!At, Saving!Idle, Quarantined!Idle
<1>2. Saving!Returns(c) => Quarantined!Returns(c)
  BY DEF Saving!Returns, Quarantined!Returns, Saving!Idle, Quarantined!Idle
<1>3. \A step : Saving!Goes(c, step) => Quarantined!Goes(c, step)
  BY DEF Saving!Goes, Quarantined!Goes
<1>4. /\ \A d : Saving!Removing(d) <=> Quarantined!Removing(d)
      /\ Saving!Overlaps(c) <=> Quarantined!Overlaps(c)
  BY DEF Saving!Removing, Quarantined!Removing, Saving!Overlaps, Quarantined!Overlaps
<1>5. /\ Saving!CopyOut(c) => Quarantined!CopyOut(c)
      /\ Saving!ReleaseCancelled(c) => Quarantined!ReleaseCancelled(c)
  BY <1>2, <1>3 DEF Saving!CopyOut, Quarantined!CopyOut, Saving!Payload, Quarantined!Payload,
     Saving!ReleaseCancelled, Quarantined!ReleaseCancelled, Saving!At, Quarantined!At
<1>6. Saving!MoveAside(c) => Quarantined!MoveAside(c)
  BY <1>2, <1>3, <1>4 DEF Saving!MoveAside, Quarantined!MoveAside
<1>7. /\ Saving!RemoveRecord(c) => Quarantined!RemoveRecord(c)
      /\ Saving!RemovePayload(c) => Quarantined!RemovePayload(c)
  BY <1>2, <1>3, <1>4 DEF Saving!RemoveRecord, Quarantined!RemoveRecord,
     Saving!RemovePayload, Quarantined!RemovePayload
<1>8. Saving!RemovalFails(c) => Quarantined!RemovalFails(c)
  BY <1>2, <1>4 DEF Saving!RemovalFails, Quarantined!RemovalFails, Saving!PutBack, Quarantined!PutBack
<1> QED BY <1>1, <1>5, <1>6, <1>7, <1>8

LEMMA SavingSafe ==
    ASSUME QuarantineInv, Saving!QuarantineNext
    PROVE  QuarantineInv'
<1>1. ASSUME NEW c \in QuarantineCalls,
             \/ \E risky, n : Saving!BeginSave(c, risky, n)
             \/ \E s : Saving!WritePayload(c, s)
             \/ Saving!SaveUpdate(c) \/ Saving!WriteFails(c)
             \/ Saving!SaveFails(c) \/ Saving!SaveCleanup(c)
             \/ Saving!ChooseName(c) \/ Saving!WriteFile(c) \/ Saving!SaveCancelled(c)
      PROVE  QuarantineInv'
  BY <1>1, SavingSaves, BeginSaveSafe, WritePayloadSafe, SaveUpdateSafe, WriteFailsSafe,
     PayloadsRemovedSafe, OrdinarySafe
<1>2. ASSUME NEW c \in QuarantineCalls,
             \/ \E r \in qRecords : Saving!BeginRelease(c, r) \/ Saving!BeginDelete(c, r)
             \/ Saving!CopyOut(c) \/ Saving!ReleaseCancelled(c)
             \/ Saving!MoveAside(c) \/ Saving!RemoveRecord(c)
             \/ Saving!RemovePayload(c) \/ Saving!RemovalFails(c)
      PROVE  QuarantineInv'
  BY <1>2, SavingRemoves, BeginReleaseSafe, BeginDeleteSafe, DialogSafe, MoveAsideSafe,
     RemoveRecordSafe, RemovalEnds
<1>3. ASSUME NEW i \in 1..MaxIds, Saving!Changes(i) PROVE QuarantineInv'
  <2>1. Quarantined!Changes(i)
    BY <1>3 DEF Saving!Changes, Quarantined!Changes
  <2> QED BY <2>1, ChangesSafe
<1>4. CASE Saving!Dies
  <2>1. Quarantined!Dies
    BY <1>4 DEF Saving!Dies, Quarantined!Dies, Saving!Idle, Quarantined!Idle
  <2> QED BY <2>1, DiesSafe
<1>5. \/ \E c \in QuarantineCalls :
            \/ \E risky \in SUBSET {"s1"}, n \in {0, 1} : Saving!BeginSave(c, risky, n)
            \/ \E s \in {"s1"} : Saving!WritePayload(c, s)
            \/ Saving!SaveUpdate(c) \/ Saving!WriteFails(c)
            \/ Saving!SaveFails(c) \/ Saving!SaveCleanup(c)
            \/ Saving!ChooseName(c) \/ Saving!WriteFile(c) \/ Saving!SaveCancelled(c)
            \/ \E r \in qRecords : Saving!BeginRelease(c, r) \/ Saving!BeginDelete(c, r)
            \/ Saving!CopyOut(c) \/ Saving!ReleaseCancelled(c)
            \/ Saving!MoveAside(c) \/ Saving!RemoveRecord(c)
            \/ Saving!RemovePayload(c) \/ Saving!RemovalFails(c)
      \/ \E i \in 1..MaxIds : Saving!Changes(i)
      \/ Saving!Dies
  BY DEF Saving!QuarantineNext
<1> QED BY <1>1, <1>2, <1>3, <1>4, <1>5

LEMMA QuarantineRests ==
    ASSUME QuarantineInv, UNCHANGED quarantineVars
    PROVE  QuarantineInv'
<1>1. UNCHANGED <<qRecords, qFiles, qAside, qCalls, qNextId, qFolder, qOut, qClobbered, qMishaps>>
  BY DEF quarantineVars
<1>2. QuarantineType'
  BY <1>1 DEF QuarantineInv, QuarantineType, CallShaped, DrawnIds, Made, Removing
<1>3. IdsApart' /\ SavesSound'
  BY <1>1 DEF QuarantineInv, IdsApart, SavesSound, Made, Removing
<1>4. RemovesAlone'
  BY <1>1 DEF QuarantineInv, RemovesAlone, Removing
<1>5. QuarantineSound'
  BY <1>1 DEF QuarantineInv, QuarantineSound, Quarantined!SourcesOnce, Quarantined!RecordsBacked,
     Quarantined!OrphansExplained, Quarantined!ReleasedIntact, Quarantined!NeverOverwrites,
     Quarantined!Removing
<1> QED BY <1>2, <1>3, <1>4, <1>5 DEF QuarantineInv

(* However many saves, releases and removals overlap, fail half-way or die, *)
(* an attachment is quarantined once, a record keeps its payload, a payload *)
(* its record or its excuse, a release copies what was quarantined, and a   *)
(* saved attachment writes over no file (#quarantineAttachments,            *)
(* releaseQuarantinedAttachment, deleteQuarantinedAttachment and            *)
(* saveAllAttachments in app-service.ts).                                   *)
THEOREM QuarantineStaysSound == ServicesSpec => []QuarantineSound
<1>1. ServicesInit => QuarantineInv
  BY QuarantineStarts DEF ServicesInit
<1>2. QuarantineInv /\ [ServicesNext]_servicesVars => QuarantineInv'
  <2>1. ASSUME QuarantineInv, ServicesNext PROVE QuarantineInv'
    <3>1. \/ Quarantined!QuarantineNext \/ Saving!QuarantineNext \/ UNCHANGED quarantineVars
      BY <2>1 DEF ServicesNext
    <3> QED BY <2>1, <3>1, QuarantineSafe, SavingSafe, QuarantineRests
  <2>2. ASSUME QuarantineInv, UNCHANGED servicesVars PROVE QuarantineInv'
    BY <2>2, QuarantineRests DEF servicesVars
  <2> QED BY <2>1, <2>2
<1>3. QuarantineInv => QuarantineSound
  BY DEF QuarantineInv
<1> QED BY <1>1, <1>2, <1>3, PTL DEF ServicesSpec
-----------------------------------------------------------------------------
(***************************************************************************)
(* The mock token lifecycle.                                               *)
(***************************************************************************)
Exchanging(c) == lCalls[c].kind \in {"exchange", "refresh"}
(* A revocation that is going to remove the record, or to report that it    *)
(* could not.                                                               *)
Revoking(c) ==
    /\ lCalls[c].kind = "revoke"
    /\ \/ lCalls[c].step \in {"load", "request", "remove"}
       \/ lCalls[c].step = "settle" /\ lCalls[c].failed

MockFields == {"kind", "step", "tokens", "failed"}
MockShaped(k) ==
    /\ DOMAIN k = MockFields /\ k.failed \in BOOLEAN
    /\ k.step \in {"clear", "save", "activate"} => k.kind \in {"exchange", "refresh"}
    /\ k.step \in {"remove", "settle"} => k.kind = "revoke"
    /\ k.step \in {"load", "request"} => k.kind \in {"exchange", "refresh", "revoke"}
    /\ k.step \in {"none", "dispose"} => k.kind \notin {"exchange", "refresh", "revoke"}

Phases == {"idle", "exchanging", "active", "refreshing", "expired", "revoking", "revoked", "error"}

MockType ==
    /\ lPhase \in Phases
    /\ lCalls = [c \in MockCalls |-> lCalls[c]] /\ \A c \in MockCalls : MockShaped(lCalls[c])

(* What a record may hold that is neither removed nor the present one's     *)
(* belongs to a call that still has to end, and no call can then end        *)
(* without leaving the phase.                                               *)
StoredOwn ==
    /\ lPhase \in {"exchanging", "refreshing"} => \A c \in MockCalls : lCalls[c].step = "activate" =>
          lStored \in {0, lCalls[c].tokens} \/ \E d \in MockCalls \ {c} : Exchanging(d)
    /\ lPhase = "active" => lStored \in {0, lActivated} \/ \E c \in MockCalls : Exchanging(c)
    /\ lPhase \in {"revoking", "revoked"} => lStored = 0 \/ \E c \in MockCalls : Exchanging(c) \/ Revoking(c)

MockInv == MockType /\ StoredOwn

LEMMA MockGoes ==
    ASSUME MockInv, NEW c \in MockCalls, NEW k, MockShaped(k),
           lCalls' = [lCalls EXCEPT ![c] = k]
    PROVE  /\ lCalls'[c] = k /\ lCalls' = [d \in MockCalls |-> lCalls'[d]]
           /\ \A d \in MockCalls \ {c} : lCalls'[d] = lCalls[d]
           /\ \A d \in MockCalls : MockShaped(lCalls'[d])
BY DEF MockInv, MockType

LEMMA WaitingShaped ==
    /\ MockShaped(Mock!Waiting) /\ Mock!Waiting.kind = "none" /\ Mock!Waiting.step = "none"
    /\ \A kind, step : /\ DOMAIN Mock!Call(kind, step) = MockFields
                       /\ Mock!Call(kind, step).kind = kind /\ Mock!Call(kind, step).step = step
                       /\ Mock!Call(kind, step).failed = FALSE
BY DEF MockShaped, MockFields, Mock!Waiting, Mock!Call

LEMMA PhaseMoves ==
    /\ \A from, to \in Phases : Mock!CanTransition(from, to) <=>
          \/ from \in {"idle", "revoked"} /\ to \in {"exchanging", "error"}
          \/ from \in {"exchanging", "refreshing"} /\ to \in {"active", "error"}
          \/ from = "active" /\ to \in {"refreshing", "expired", "revoking", "error"}
          \/ from = "expired" /\ to \in {"refreshing", "revoking", "error"}
          \/ from = "revoking" /\ to \in {"revoked", "error"}
          \/ from = "error" /\ to \in {"exchanging", "revoking", "error"}
<1>1. DOMAIN Mock!allowedTransitions = Phases
  BY DEF Mock!allowedTransitions, Phases
<1> QED BY DEF Mock!CanTransition, Mock!allowedTransitions, Phases

(* A call goes on and stays what it is; nothing is stored.                  *)
LEMMA CallContinues ==
    ASSUME MockInv, NEW c \in MockCalls, NEW k, MockShaped(k),
           lCalls' = [lCalls EXCEPT ![c] = k],
           lPhase' = lPhase, lActivated' = lActivated, lStored' \in {0, lStored},
           k.step # "activate",
           Exchanging(c) => k.kind \in {"exchange", "refresh"},
           Revoking(c) => /\ k.kind = "revoke"
                          /\ \/ k.step \in {"load", "request", "remove"}
                             \/ k.step = "settle" /\ k.failed
    PROVE  MockInv'
<1>1. /\ lCalls'[c] = k /\ lCalls' = [d \in MockCalls |-> lCalls'[d]]
      /\ \A d \in MockCalls \ {c} : lCalls'[d] = lCalls[d]
      /\ \A d \in MockCalls : MockShaped(lCalls'[d])
  BY MockGoes, Zenon
<1>2. MockType'
  BY <1>1 DEF MockInv, MockType, MockShaped
<1>3. \A d \in MockCalls : /\ Exchanging(d) => Exchanging(d)'
                           /\ Revoking(d) => Revoking(d)'
  BY <1>1 DEF Exchanging, Revoking
<1>4. \A d \in MockCalls : lCalls'[d].step = "activate" => lCalls'[d] = lCalls[d]
  BY <1>1
<1>5. StoredOwn'
  BY <1>3, <1>4 DEF MockInv, StoredOwn
<1> QED BY <1>2, <1>5 DEF MockInv

(* Nothing is claimed of the phase "error", nor of an empty record.         *)
LEMMA NothingClaimed ==
    ASSUME MockInv, NEW c \in MockCalls, NEW k, MockShaped(k),
           lCalls' = [lCalls EXCEPT ![c] = k], lPhase' \in Phases,
           lPhase' = "error" \/ lStored' = 0
    PROVE  MockInv'
<1>1. MockType'
  BY MockGoes, Zenon DEF MockType
<1>2. StoredOwn'
  BY DEF StoredOwn
<1> QED BY <1>1, <1>2 DEF MockInv

LEMMA CallFails ==
    ASSUME MockInv, NEW c \in MockCalls, Mock!Thrown(c), UNCHANGED <<lStored, lActivated>>,
           lCalls[c].kind = "revoke" => lCalls[c].step \in {"load", "request"}
    PROVE  MockInv'
<1>1. MockShaped(lCalls[c])
  BY DEF MockInv, MockType
<1>2. CASE lCalls[c].kind = "revoke"
  <2> DEFINE k == [lCalls[c] EXCEPT !.step = "remove", !.failed = TRUE]
  <2>1. MockShaped(k) /\ k.kind = "revoke" /\ k.step = "remove"
    BY <1>1, <1>2 DEF MockShaped, MockFields
  <2>2. lCalls' = [lCalls EXCEPT ![c] = k] /\ lPhase' = lPhase
    BY <1>2 DEF Mock!Thrown, Mock!Continue
  <2> HIDE DEF k
  <2> QED BY <1>2, <2>1, <2>2, CallContinues, Zenon DEF Exchanging
<1>3. CASE lCalls[c].kind # "revoke"
  <2>1. lCalls' = [lCalls EXCEPT ![c] = Mock!Waiting] /\ lPhase' = "error"
    BY <1>3 DEF Mock!Thrown, Mock!Continue
  <2> QED BY <2>1, WaitingShaped, NothingClaimed, Zenon DEF Phases
<1> QED BY <1>2, <1>3

LEMMA MockBegins ==
    ASSUME MockInv, NEW c \in MockCalls, NEW kind, NEW during, NEW first, Mock!Begin(c, kind, during, first),
           \/ kind = "exchange" /\ during = "exchanging" /\ first \in {"clear", "request"}
           \/ kind = "refresh" /\ during = "refreshing" /\ first = "load"
           \/ kind = "revoke" /\ during = "revoking" /\ first = "load"
    PROVE  MockInv'
<1> DEFINE k == Mock!Call(kind, first)
<1>1. lCalls[c] = Mock!Waiting /\ UNCHANGED <<lStored, lActivated>>
  BY DEF Mock!Begin
<1>2. \/ lPhase' = "error" /\ lCalls' = lCalls
      \/ lPhase' = during /\ lCalls' = [lCalls EXCEPT ![c] = k]
  BY DEF Mock!Begin, Mock!Continue
<1>3. k.kind = kind /\ k.step = first /\ MockShaped(k)
  <2>1. k.kind = kind /\ k.step = first /\ k.failed = FALSE /\ DOMAIN k = MockFields
    BY WaitingShaped
  <2> HIDE DEF k
  <2> QED BY <2>1, Zenon DEF MockShaped
<1> HIDE DEF k
<1>4. CASE lPhase' = "error" /\ lCalls' = lCalls
  BY <1>4 DEF MockInv, MockType, MockShaped, StoredOwn, Phases
<1>5. CASE lPhase' = during /\ lCalls' = [lCalls EXCEPT ![c] = k]
  <2>1. /\ lCalls'[c] = k /\ lCalls' = [d \in MockCalls |-> lCalls'[d]]
        /\ \A d \in MockCalls \ {c} : lCalls'[d] = lCalls[d]
        /\ \A d \in MockCalls : MockShaped(lCalls'[d])
    BY <1>3, <1>5, MockGoes, Zenon
  <2>2. MockType'
    BY <1>5, <2>1 DEF MockType, MockShaped, Phases
  <2>3. lCalls'[c].step # "activate"
    BY <1>3, <2>1
  <2>4. during # "revoking" => Exchanging(c)'
    BY <1>3, <2>1 DEF Exchanging
  <2>5. during = "revoking" => Revoking(c)'
    BY <1>3, <2>1 DEF Revoking
  <2>6. StoredOwn'
    BY <1>5, <2>3, <2>4, <2>5 DEF StoredOwn
  <2> QED BY <2>2, <2>6 DEF MockInv
<1> QED BY <1>2, <1>4, <1>5

LEMMA MockReads ==
    ASSUME MockInv, NEW c \in MockCalls,
           Mock!Clear(c) \/ Mock!Load(c) \/ Mock!Request(c) \/ Mock!Dispose(c)
    PROVE  MockInv'
<1>1. MockShaped(lCalls[c]) /\ lActivated' = lActivated
  BY DEF MockInv, MockType, Mock!Clear, Mock!Load, Mock!Request, Mock!Dispose
<1>2. CASE Mock!Thrown(c) /\ lStored' = lStored /\ lCalls[c].step \in {"clear", "load", "request"}
  BY <1>1, <1>2, CallFails DEF MockShaped
<1>3. ASSUME lCalls' = [lCalls EXCEPT ![c] = [lCalls[c] EXCEPT !.step = "request"]],
             lPhase' = lPhase, lStored' \in {0, lStored}, lCalls[c].step \in {"clear", "load"}
      PROVE  MockInv'
  <2> DEFINE k == [lCalls[c] EXCEPT !.step = "request"]
  <2>1. MockShaped(k) /\ k.kind = lCalls[c].kind /\ k.step = "request"
    BY <1>1, <1>3 DEF MockShaped, MockFields
  <2>2. lCalls' = [lCalls EXCEPT ![c] = k]
    BY <1>3
  <2> HIDE DEF k
  <2> QED BY <1>1, <1>3, <2>1, <2>2, CallContinues, Zenon DEF Exchanging, Revoking
<1>4. CASE Mock!Clear(c) \/ Mock!Load(c)
  BY <1>2, <1>3, <1>4 DEF Mock!Clear, Mock!Load, Mock!Continue
<1>5. ASSUME lCalls' = [lCalls EXCEPT ![c] = [lCalls[c] EXCEPT !.step = "remove"]],
             lPhase' = lPhase, lStored' = lStored, lCalls[c].kind = "revoke"
      PROVE  MockInv'
  <2> DEFINE k == [lCalls[c] EXCEPT !.step = "remove"]
  <2>1. MockShaped(k) /\ k.kind = "revoke" /\ k.step = "remove"
    BY <1>1, <1>5 DEF MockShaped, MockFields
  <2>2. lCalls' = [lCalls EXCEPT ![c] = k]
    BY <1>5
  <2> HIDE DEF k
  <2> QED BY <1>1, <1>5, <2>1, <2>2, CallContinues, Zenon DEF Exchanging
<1>6. ASSUME lCalls[c].kind # "revoke", lCalls[c].step = "request",
             lCalls' = [lCalls EXCEPT ![c] = [lCalls[c] EXCEPT !.step = "save", !.tokens = lIssued + 1]],
             lPhase' = lPhase, lStored' = lStored
      PROVE  MockInv'
  <2> DEFINE k == [lCalls[c] EXCEPT !.step = "save", !.tokens = lIssued + 1]
  <2>1. MockShaped(k) /\ k.kind = lCalls[c].kind /\ k.step = "save"
    BY <1>1, <1>6 DEF MockShaped, MockFields
  <2>2. lCalls' = [lCalls EXCEPT ![c] = k]
    BY <1>6
  <2> HIDE DEF k
  <2> QED BY <1>1, <1>6, <2>1, <2>2, CallContinues, Zenon DEF Exchanging, Revoking
<1>8. CASE Mock!Request(c)
  BY <1>2, <1>5, <1>6, <1>8 DEF Mock!Request, Mock!Continue
<1>7. CASE Mock!Dispose(c)
  <2> DEFINE k == Mock!Call("dispose", "dispose")
  <2>1. /\ lCalls' = [lCalls EXCEPT ![c] = k] /\ lPhase' = lPhase /\ lStored' \in {0, lStored}
        /\ lCalls[c] = Mock!Waiting
    BY <1>7 DEF Mock!Dispose, Mock!Continue
  <2>2. /\ k.kind = "dispose" /\ k.step = "dispose" /\ k.failed = FALSE
        /\ DOMAIN k = MockFields
    BY WaitingShaped
  <2> HIDE DEF k
  <2>3. MockShaped(k)
    BY <2>2, Zenon DEF MockShaped
  <2> QED BY <1>1, <2>1, <2>2, <2>3, WaitingShaped, CallContinues, Zenon DEF Exchanging, Revoking
<1> QED BY <1>4, <1>7, <1>8

LEMMA MockSaves ==
    ASSUME MockInv, NEW c \in MockCalls, Mock!Save(c)
    PROVE  MockInv'
<1>1. MockShaped(lCalls[c]) /\ lCalls[c].step = "save" /\ lActivated' = lActivated
  BY DEF MockInv, MockType, Mock!Save
<1>2. CASE Mock!Thrown(c) /\ lStored' = lStored
  BY <1>1, <1>2, CallFails DEF MockShaped
<1>3. CASE ~(Mock!Thrown(c) /\ lStored' = lStored)
  <2> DEFINE k == [lCalls[c] EXCEPT !.step = "activate"]
  <2>1. lCalls' = [lCalls EXCEPT ![c] = k] /\ lPhase' = lPhase /\ lStored' = lCalls[c].tokens
    BY <1>3 DEF Mock!Save, Mock!Continue
  <2>2. MockShaped(k) /\ k.kind \in {"exchange", "refresh"} /\ k.tokens = lCalls[c].tokens
    BY <1>1 DEF MockShaped, MockFields
  <2> HIDE DEF k
  <2>3. /\ lCalls'[c] = k /\ lCalls' = [d \in MockCalls |-> lCalls'[d]]
        /\ \A d \in MockCalls : MockShaped(lCalls'[d])
    BY <2>1, <2>2, MockGoes, Zenon
  <2>4. Exchanging(c)'
    BY <2>2, <2>3 DEF Exchanging
  <2>5. MockType'
    BY <2>1, <2>3 DEF MockInv, MockType, MockShaped
  <2>6. StoredOwn'
    BY <2>1, <2>2, <2>3, <2>4 DEF StoredOwn
  <2> QED BY <2>5, <2>6 DEF MockInv
<1> QED BY <1>2, <1>3

LEMMA MockActivates ==
    ASSUME MockInv, NEW c \in MockCalls, Mock!Activate(c)
    PROVE  MockInv'
<1>1. /\ MockShaped(lCalls[c]) /\ lCalls[c].step = "activate" /\ lStored' = lStored
      /\ lPhase \in Phases
  BY DEF MockInv, MockType, Mock!Activate
<1>2. CASE Mock!CanTransition(lPhase, "active")
  <2>1. lPhase \in {"exchanging", "refreshing"}
    BY <1>1, <1>2, PhaseMoves DEF Phases
  <2>2. /\ lPhase' = "active" /\ lActivated' = lCalls[c].tokens
        /\ lCalls' = [lCalls EXCEPT ![c] = Mock!Waiting]
    BY <1>2 DEF Mock!Activate, Mock!Activated, Mock!ActivatesAnyway, Mock!Continue
  <2>3. /\ lCalls' = [d \in MockCalls |-> lCalls'[d]]
        /\ \A d \in MockCalls \ {c} : lCalls'[d] = lCalls[d]
        /\ \A d \in MockCalls : MockShaped(lCalls'[d])
    BY <2>2, WaitingShaped, MockGoes, Zenon
  <2>4. MockType'
    BY <2>2, <2>3 DEF MockType, MockShaped, Phases
  <2>5. lStored \in {0, lCalls[c].tokens} \/ \E d \in MockCalls \ {c} : Exchanging(d)
    BY <1>1, <2>1 DEF MockInv, StoredOwn
  <2>6. lStored' \in {0, lActivated'} \/ \E d \in MockCalls : Exchanging(d)'
    BY <1>1, <2>2, <2>3, <2>5 DEF Exchanging
  <2> QED BY <2>2, <2>4, <2>6 DEF MockInv, StoredOwn
<1>3. CASE ~Mock!CanTransition(lPhase, "active")
  <2>1. Mock!Thrown(c) /\ lActivated' = lActivated
    BY <1>3 DEF Mock!Activate, Mock!Activated
  <2> QED BY <1>1, <2>1, CallFails DEF MockShaped
<1> QED BY <1>2, <1>3

LEMMA MockRemoves ==
    ASSUME MockInv, NEW c \in MockCalls, Mock!Remove(c) \/ Mock!Disposed(c)
    PROVE  MockInv'
<1>1. MockShaped(lCalls[c]) /\ lActivated' = lActivated /\ lPhase' = lPhase /\ lPhase \in Phases
  BY DEF MockInv, MockType, Mock!Remove, Mock!Disposed
<1>2. CASE Mock!Disposed(c)
  BY <1>1, <1>2, WaitingShaped, NothingClaimed, Zenon DEF Mock!Disposed, Mock!Continue
<1>3. CASE Mock!Remove(c)
  <2>1. lCalls[c].kind = "revoke" /\ lCalls[c].step = "remove"
    BY <1>1, <1>3 DEF Mock!Remove, MockShaped
  <2> DEFINE done == [lCalls[c] EXCEPT !.step = "settle"]
             failed == [lCalls[c] EXCEPT !.step = "settle", !.failed = TRUE]
  <2>2. /\ MockShaped(done) /\ MockShaped(failed) /\ failed.step = "settle" /\ failed.failed
        /\ failed.kind = "revoke"
    BY <1>1, <2>1 DEF MockShaped, MockFields
  <2>3. \/ lStored' = 0 /\ lCalls' = [lCalls EXCEPT ![c] = done]
        \/ lStored' = lStored /\ lCalls' = [lCalls EXCEPT ![c] = failed]
    BY <1>3 DEF Mock!Remove, Mock!Continue
  <2> HIDE DEF done, failed
  <2>4. CASE lStored' = 0 /\ lCalls' = [lCalls EXCEPT ![c] = done]
    BY <1>1, <2>2, <2>4, NothingClaimed, Zenon
  <2>5. CASE lStored' = lStored /\ lCalls' = [lCalls EXCEPT ![c] = failed]
    BY <1>1, <2>1, <2>2, <2>5, CallContinues, Zenon DEF Exchanging
  <2> QED BY <2>3, <2>4, <2>5
<1> QED BY <1>2, <1>3

(* A revocation reports success only if it has removed the record; another  *)
(* that is not done may still save or fail to remove.                       *)
LEMMA MockSettles ==
    ASSUME MockInv, NEW c \in MockCalls, Mock!Settle(c)
    PROVE  MockInv'
<1>1. /\ MockShaped(lCalls[c]) /\ lCalls[c].step = "settle" /\ lCalls[c].kind = "revoke"
      /\ UNCHANGED <<lStored, lActivated>> /\ lPhase \in Phases
      /\ lCalls' = [lCalls EXCEPT ![c] = Mock!Waiting]
  BY DEF MockInv, MockType, MockShaped, Mock!Settle, Mock!Continue
<1>2. CASE lCalls[c].failed
  <2>1. lPhase' = "error"
    BY <1>1, <1>2, PhaseMoves DEF Mock!Settle, Phases
  <2> QED BY <1>1, <2>1, WaitingShaped, NothingClaimed, Zenon DEF Phases
<1>3. CASE ~lCalls[c].failed
  <2>1. ~Exchanging(c) /\ ~Revoking(c)
    BY <1>1, <1>3 DEF Exchanging, Revoking
  <2>2. lPhase' = lPhase \/ (lPhase = "revoking" /\ lPhase' = "revoked")
    BY <1>1, <1>3, PhaseMoves DEF Mock!Settle, Phases
  <2>3. CASE lPhase' = lPhase
    BY <1>1, <2>1, <2>3, WaitingShaped, CallContinues, Zenon
  <2>4. CASE lPhase = "revoking" /\ lPhase' = "revoked"
    <3>1. /\ lCalls' = [d \in MockCalls |-> lCalls'[d]]
          /\ \A d \in MockCalls \ {c} : lCalls'[d] = lCalls[d]
          /\ \A d \in MockCalls : MockShaped(lCalls'[d])
      BY <1>1, WaitingShaped, MockGoes, Zenon
    <3>2. MockType'
      BY <2>4, <3>1 DEF MockType, MockShaped, Phases
    <3>3. lStored' = 0 \/ \E d \in MockCalls : Exchanging(d)' \/ Revoking(d)'
      BY <1>1, <2>1, <2>4, <3>1 DEF MockInv, StoredOwn, Exchanging, Revoking
    <3> QED BY <2>4, <3>2, <3>3 DEF MockInv, StoredOwn
  <2> QED BY <2>2, <2>3, <2>4
<1> QED BY <1>2, <1>3

LEMMA MockRests ==
    ASSUME MockInv, UNCHANGED <<lStored, lCalls, lActivated>>,
           lPhase' = lPhase \/ lPhase' = "expired"
    PROVE  MockInv'
<1>1. MockType'
  BY DEF MockInv, MockType, MockShaped, Phases
<1>2. StoredOwn'
  BY DEF MockInv, StoredOwn, Exchanging, Revoking
<1> QED BY <1>1, <1>2 DEF MockInv

LEMMA MockSafe ==
    ASSUME MockInv, Mock!LifecycleNext
    PROVE  MockInv'
<1>1. ASSUME NEW c \in MockCalls, Mock!Exchange(c) \/ Mock!Refresh(c) \/ Mock!Revoke(c)
      PROVE  MockInv'
  BY <1>1, MockBegins DEF Mock!Exchange, Mock!Refresh, Mock!Revoke
<1>2. ASSUME NEW c \in MockCalls, \/ Mock!Clear(c) \/ Mock!Load(c) \/ Mock!Request(c) \/ Mock!Save(c)
                                  \/ Mock!Activate(c) \/ Mock!Remove(c) \/ Mock!Settle(c)
                                  \/ Mock!Dispose(c) \/ Mock!Disposed(c)
      PROVE  MockInv'
  BY <1>2, MockReads, MockSaves, MockActivates, MockRemoves, MockSettles
<1>3. CASE Mock!ReadStatus \/ Mock!TokensExpire
  BY <1>3, MockRests DEF Mock!ReadStatus, Mock!TokensExpire, Mock!Status
<1> QED BY <1>1, <1>2, <1>3 DEF Mock!LifecycleNext

LEMMA MockStarts == Mock!LifecycleInit => MockInv
<1> SUFFICES ASSUME Mock!LifecycleInit PROVE MockInv
  OBVIOUS
<1>1. /\ lCalls = [c \in MockCalls |-> Mock!Waiting] /\ lPhase = "idle"
  BY DEF Mock!LifecycleInit
<1>2. MockType
  BY <1>1, WaitingShaped DEF MockType, MockShaped, Phases
<1> QED BY <1>1, <1>2 DEF MockInv, StoredOwn

LEMMA MockKept == MockInv => Mock!RevokedForgotten /\ Mock!ActiveOwn
<1> SUFFICES ASSUME MockInv, Mock!AtRest PROVE \A c \in MockCalls : ~Exchanging(c) /\ ~Revoking(c)
  BY DEF MockInv, StoredOwn, Mock!RevokedForgotten, Mock!ActiveOwn
<1> QED BY WaitingShaped DEF Mock!AtRest, Exchanging, Revoking

-----------------------------------------------------------------------------
(***************************************************************************)
(* The POP3 test.                                                          *)
(***************************************************************************)
Commands == {"greeting", "capa1", "stls", "capa2", "user", "pass", "stat", "uidl-all", "list-all",
             "uidl", "list", "quit"}
Lines == [for : Commands \cup {"nothing"}, kind : {"ok", "err", ".", "STLS", "UIDL", "TOP"}, n : Nat,
          secure : BOOLEAN]

PopType ==
    /\ nStage \in Commands \cup {"none", "connect", "tls"} /\ nInBody \in BOOLEAN
    /\ nSecure \in BOOLEAN /\ nStartTls \in BOOLEAN /\ nExtra \in BOOLEAN
    /\ nLines \in Seq(Lines) /\ nServer \in Seq(Lines)
    /\ nInBody => nStage \in Pop!MultiLine
    /\ nStage \in {"none", "connect", "tls"} => nLines = <<>>
    /\ nStage \in {"none", "connect"} => nServer = <<>>
    /\ nStage = "connect" => ~nSecure
    /\ nOutcome = "running" => nStage # "none"

(* What is still to be read of the present answer.                          *)
Pending == Len(nLines) + Len(nServer)
Coming(i) == IF i <= Len(nLines) THEN nLines[i] ELSE nServer[i - Len(nLines)]
(* It is what the present command was answered, and ends when the client    *)
(* takes it to end.                                                         *)
Aligned ==
    ~nExtra /\ nStage \in Commands =>
        /\ \A i \in 1..Pending : Coming(i).for = nStage
        /\ nStage \notin Pop!MultiLine => Pending <= 1
        /\ nInBody => \A i \in 1..Pending : Coming(i).kind = "." <=> i = Pending
        /\ nStage \in Pop!MultiLine /\ ~nInBody /\ Pending > 0 /\ Coming(1).kind = "ok"
              => \A i \in 2..Pending : Coming(i).kind = "." <=> i = Pending
Private ==
    nSecure => /\ \A i \in DOMAIN nLines : nLines[i].secure
               /\ \A i \in DOMAIN nServer : nServer[i].secure

PopInv ==
    PopType /\ Aligned /\ Private /\ Pop!InStep /\ Pop!NothingCrossesUpgrade /\ Pop!SocketsClosed

(* What a server answers: its lines are all of one command, and a body ends *)
(* with its only dot.                                                       *)
IsAnswer(a, command, secure) ==
    /\ a \in Seq(Lines) /\ Len(a) >= 1
    /\ \A i \in 1..Len(a) : a[i].for = command /\ a[i].secure = secure
    /\ command \notin Pop!MultiLine => Len(a) = 1
    /\ command \in Pop!MultiLine /\ a[1].kind = "ok" => \A i \in 2..Len(a) : a[i].kind = "." <=> i = Len(a)

Names == {"STLS", "UIDL", "TOP"}

LEMMA ItemsNamed ==
    ASSUME NEW s \in Pop!Items
    PROVE  s \in Seq(Names)
<1>1. <<>> \in Seq(Names)
  OBVIOUS
<1>2. <<"STLS">> \in Seq(Names) /\ <<"UIDL">> \in Seq(Names)
  BY DEF Names
<1>3. <<"STLS", "UIDL">> \in Seq(Names)
  BY DEF Names
<1>4. <<"STLS", "UIDL", "TOP">> \in Seq(Names)
  BY DEF Names
<1> QED BY <1>1, <1>2, <1>3, <1>4, Zenon DEF Pop!Items

LEMMA Enclosed ==
    ASSUME NEW S, NEW x \in S, NEW y \in S, NEW b \in Seq(S), NEW a, a = <<x>> \o b \o <<y>>
    PROVE  /\ a \in Seq(S) /\ Len(a) = Len(b) + 2
           /\ a[1] = x /\ a[Len(b) + 2] = y
           /\ \A i \in 2..(Len(b) + 1) : a[i] = b[i - 1]
<1>0. Len(b) \in Nat
  OBVIOUS
<1> DEFINE c == <<x>> \o b
<1>1. c \in Seq(S) /\ Len(c) = Len(b) + 1 /\ c[1] = x
  OBVIOUS
<1>2. \A i \in 2..(Len(b) + 1) : c[i] = b[i - 1]
  BY <1>0
<1> HIDE DEF c
<1>3. a = c \o <<y>>
  BY DEF c
<1>4. a \in Seq(S) /\ Len(a) = Len(c) + 1
  BY <1>1, <1>3
<1>5. \A i \in 1..Len(c) : a[i] = c[i]
  BY <1>1, <1>3
<1>6. a[Len(c) + 1] = y
  BY <1>1, <1>3, <1>0
<1> QED BY <1>0, <1>1, <1>2, <1>4, <1>5, <1>6

LEMMA LineShaped ==
    ASSUME NEW command \in Commands, NEW kind \in {"ok", "err", ".", "STLS", "UIDL", "TOP"},
           NEW n \in Nat, NEW secure \in BOOLEAN
    PROVE  /\ Pop!Line(command, kind, n, secure) \in Lines
           /\ Pop!Line(command, kind, n, secure).for = command
           /\ Pop!Line(command, kind, n, secure).kind = kind
           /\ Pop!Line(command, kind, n, secure).secure = secure
BY DEF Pop!Line, Lines

LEMMA AnswerShaped ==
    ASSUME NEW command \in Commands, NEW secure \in BOOLEAN, NEW a \in Pop!Answers(command, secure)
    PROVE  IsAnswer(a, command, secure)
<1> DEFINE Status(kind, n) == Pop!Line(command, kind, n, secure)
           Body(s) == [i \in DOMAIN s |-> Status(s[i], 0)]
           Whole(s) == <<Status("ok", 0)>> \o Body(s) \o <<Status(".", 0)>>
<1>1. ASSUME NEW kind \in {"ok", "err"}, NEW n \in Nat, a = <<Status(kind, n)>>,
             command \in Pop!MultiLine => kind = "err"
      PROVE  IsAnswer(a, command, secure)
  BY <1>1, LineShaped DEF IsAnswer
<1>2. ASSUME NEW s \in Pop!Items, a = Whole(s), command \in Pop!MultiLine
      PROVE  IsAnswer(a, command, secure)
  <2>1. s \in Seq(Names) /\ \A i \in 1..Len(s) : s[i] \in {"STLS", "UIDL", "TOP"}
    BY <1>2, ItemsNamed DEF Names
  <2> DEFINE b == Body(s)
             first == Status("ok", 0)
             dot == Status(".", 0)
  <2>2. /\ b \in Seq(Lines) /\ Len(b) = Len(s)
        /\ \A i \in 1..Len(b) : b[i].for = command /\ b[i].secure = secure /\ b[i].kind # "."
    <3>1. \A i \in 1..Len(s) : Status(s[i], 0) \in Lines /\ Status(s[i], 0).for = command
                               /\ Status(s[i], 0).secure = secure /\ Status(s[i], 0).kind # "."
      BY <2>1, LineShaped
    <3> HIDE DEF Status
    <3>2. b = [i \in 1..Len(s) |-> Status(s[i], 0)]
      BY <2>1
    <3>3. b \in Seq(Lines) /\ Len(b) = Len(s)
      BY <2>1, <3>1, <3>2
    <3> QED BY <3>1, <3>2, <3>3
  <2>3. /\ first \in Lines /\ first.for = command /\ first.secure = secure
        /\ dot \in Lines /\ dot.for = command /\ dot.secure = secure /\ dot.kind = "."
    BY LineShaped
  <2>4. a = <<first>> \o b \o <<dot>>
    BY <1>2
  <2> HIDE DEF b, first, dot, Whole
  <2>5. /\ a \in Seq(Lines) /\ Len(a) = Len(b) + 2
        /\ a[1] = first /\ a[Len(b) + 2] = dot
        /\ \A i \in 2..(Len(b) + 1) : a[i] = b[i - 1]
    BY <2>2, <2>3, <2>4, Enclosed
  <2>6. Len(b) \in Nat
    BY <2>2
  <2>7. \A i \in 1..Len(a) : i = 1 \/ i = Len(b) + 2 \/ (i \in 2..(Len(b) + 1) /\ i - 1 \in 1..Len(b))
    BY <2>5, <2>6
  <2>8. \A i \in 1..Len(a) : a[i].for = command /\ a[i].secure = secure
    BY <2>2, <2>3, <2>5, <2>7
  <2>9. \A i \in 2..Len(a) : a[i].kind = "." <=> i = Len(a)
    <3> TAKE i \in 2..Len(a)
    <3>1. i = Len(a) \/ (i \in 2..(Len(b) + 1) /\ i - 1 \in 1..Len(b) /\ i # Len(a))
      BY <2>5, <2>6, <2>7
    <3> QED BY <3>1, <2>2, <2>3, <2>5, Zenon
  <2> QED BY <1>2, <2>5, <2>6, <2>8, <2>9 DEF IsAnswer
<1> HIDE DEF Whole
<1>3. ASSUME NEW n \in Nat, a = <<Pop!Line(command, "err", n, secure)>>
      PROVE  IsAnswer(a, command, secure)
  BY <1>1, <1>3
<1>4. CASE command \in Pop!MultiLine
  <2>1. a = <<Status("err", 0)>> \/ \E s \in Pop!Items : a = Whole(s)
    <3>1. command \notin {"stat", "uidl"}
      BY <1>4 DEF Pop!MultiLine
    <3> QED BY <1>4, <3>1, Zenon DEF Pop!Answers, Whole
  <2> QED BY <1>2, <1>3, <1>4, <2>1
<1>5. CASE command \notin Pop!MultiLine /\ command \in {"stat", "uidl"}
  <2>1. a = <<Status("err", 0)>> \/ \E n \in 0..MaxMessages : a = <<Status("ok", n)>>
    BY <1>5 DEF Pop!Answers
  <2>2. 0..MaxMessages \subseteq Nat
    OBVIOUS
  <2> QED BY <1>1, <1>3, <1>5, <2>1, <2>2
<1>6. CASE command \notin Pop!MultiLine /\ command \notin {"stat", "uidl"}
  <2>1. a = <<Status("err", 0)>> \/ a = <<Status("ok", 0)>>
    BY <1>6 DEF Pop!Answers
  <2> QED BY <1>1, <1>3, <1>6, <2>1
<1> QED BY <1>4, <1>5, <1>6

(* What an arriving line and a line that was read do to what is pending.    *)
LEMMA LineRead ==
    ASSUME nLines \in Seq(Lines), nServer \in Seq(Lines), nLines # <<>>,
           nLines' = Tail(nLines), nServer' = nServer
    PROVE  /\ nLines' \in Seq(Lines) /\ Pending' = Pending - 1 /\ Pending \in Nat \ {0}
           /\ Head(nLines) = Coming(1)
           /\ \A i \in 1..Pending' : i + 1 \in 2..Pending /\ Coming(i)' = Coming(i + 1)
<1>1. /\ nLines' \in Seq(Lines) /\ Len(nLines') = Len(nLines) - 1 /\ Len(nLines) \in Nat \ {0}
      /\ Len(nServer) \in Nat /\ \A i \in 1..Len(nLines') : nLines'[i] = nLines[i + 1]
  OBVIOUS
<1>2. Pending' = Pending - 1 /\ Pending \in Nat \ {0} /\ Head(nLines) = Coming(1)
  BY <1>1 DEF Pending, Coming
<1>3. ASSUME NEW i \in 1..Pending'
      PROVE  i + 1 \in 2..Pending /\ Coming(i)' = Coming(i + 1)
  BY <1>1, <1>2, <1>3 DEF Pending, Coming
<1> QED BY <1>1, <1>2, <1>3

LEMMA LineArrives ==
    ASSUME nLines \in Seq(Lines), nServer \in Seq(Lines), nServer # <<>>,
           nLines' = Append(nLines, Head(nServer)), nServer' = Tail(nServer)
    PROVE  /\ nLines' \in Seq(Lines) /\ nServer' \in Seq(Lines) /\ Pending' = Pending
           /\ \A i \in 1..Pending : Coming(i)' = Coming(i)
<1>1. /\ nLines' \in Seq(Lines) /\ nServer' \in Seq(Lines)
      /\ Len(nLines') = Len(nLines) + 1 /\ Len(nServer') = Len(nServer) - 1
      /\ Len(nLines) \in Nat /\ Len(nServer) \in Nat \ {0}
      /\ \A i \in 1..Len(nLines) : nLines'[i] = nLines[i]
      /\ nLines'[Len(nLines) + 1] = nServer[1]
      /\ \A i \in 1..Len(nServer') : nServer'[i] = nServer[i + 1]
  OBVIOUS
<1>2. Pending' = Pending
  BY <1>1 DEF Pending
<1>3. ASSUME NEW i \in 1..Pending PROVE Coming(i)' = Coming(i)
  <2>1. CASE i <= Len(nLines)
    BY <1>1, <2>1 DEF Coming
  <2>2. CASE i = Len(nLines) + 1
    BY <1>1, <2>2 DEF Coming
  <2>3. CASE i > Len(nLines) + 1
    <3>1. i - Len(nLines') \in 1..Len(nServer') /\ (i - Len(nLines')) + 1 = i - Len(nLines)
      BY <1>1, <2>3 DEF Pending
    <3> QED BY <1>1, <2>3, <3>1 DEF Coming
  <2> QED BY <1>1, <2>1, <2>2, <2>3 DEF Pending
<1> QED BY <1>1, <1>2, <1>3

LEMMA TestEnds ==
    ASSUME PopInv, NEW outcome, outcome # "running", Pop!Ends(outcome), ~nMisread', ~nDropped',
           nExtra' \in BOOLEAN
    PROVE  PopInv'
<1>1. /\ nOutcome' = outcome /\ nStage' = "none" /\ nInBody' = FALSE /\ nSockets' = {}
      /\ nServer' = <<>> /\ nLines' = <<>> /\ UNCHANGED <<nStartTls, nSecure>>
  BY DEF Pop!Ends, Pop!Finished
<1>2. PopType'
  <2>1. /\ nSecure' \in BOOLEAN /\ nStartTls' \in BOOLEAN
    BY <1>1 DEF PopInv, PopType
  <2>2. nLines' \in Seq(Lines) /\ nServer' \in Seq(Lines)
    BY <1>1
  <2> QED BY <1>1, <2>1, <2>2, Zenon DEF PopType
<1>3. Aligned' /\ Private'
  BY <1>1 DEF Aligned, Private, Commands
<1> QED BY <1>1, <1>2, <1>3 DEF PopInv, Pop!InStep, Pop!NothingCrossesUpgrade, Pop!SocketsClosed,
                                Pop!Running

LEMMA TestSends ==
    ASSUME PopInv, nLines # <<>>, NEW command \in Commands, Pop!Sends(command),
           ~nExtra => Pending = 1, UNCHANGED <<nExtra, nDropped>>, ~nMisread'
    PROVE  PopInv'
<1>1. PICK answer \in Pop!Answers(command, nSecure) : nServer' = nServer \o answer
  BY DEF Pop!Sends
<1>2. /\ nStage' = command /\ nInBody' = FALSE /\ nLines' = Tail(nLines)
      /\ UNCHANGED <<nOutcome, nStartTls, nSecure, nSockets>>
  BY DEF Pop!Sends
<1>3. /\ nLines \in Seq(Lines) /\ nServer \in Seq(Lines) /\ nSecure \in BOOLEAN
      /\ IsAnswer(answer, command, nSecure)
  BY AnswerShaped DEF PopInv, PopType
<1>4. /\ answer \in Seq(Lines) /\ Len(answer) \in Nat \ {0}
      /\ \A i \in 1..Len(answer) : answer[i].for = command /\ answer[i].secure = nSecure
  BY <1>3 DEF IsAnswer
<1>5. /\ nLines' \in Seq(Lines) /\ nServer' \in Seq(Lines)
      /\ \A i \in 1..Len(nLines') : i + 1 \in 1..Len(nLines) /\ nLines'[i] = nLines[i + 1]
      /\ Len(nServer') = Len(nServer) + Len(answer) /\ Len(nServer) \in Nat
      /\ \A i \in 1..Len(nServer) : nServer'[i] = nServer[i]
      /\ \A i \in 1..Len(answer) : nServer'[Len(nServer) + i] = answer[i]
  BY <1>1, <1>2, <1>3, <1>4
<1>6. PopType'
  BY <1>2, <1>5, Zenon DEF PopInv, PopType, Commands
<1>7. Private'
  <2> SUFFICES ASSUME nSecure
               PROVE  /\ \A i \in 1..Len(nLines') : nLines'[i].secure
                      /\ \A i \in 1..Len(nServer') : nServer'[i].secure
    BY <1>2, <1>5 DEF Private
  <2>1. /\ \A i \in 1..Len(nLines) : nLines[i].secure
        /\ \A i \in 1..Len(nServer) : nServer[i].secure
    BY <1>3 DEF PopInv, Private
  <2>2. ASSUME NEW i \in 1..Len(nServer') PROVE nServer'[i].secure
    <3>1. CASE i \in 1..Len(nServer)
      BY <3>1, <2>1, <1>5
    <3>2. CASE i \notin 1..Len(nServer)
      <4>1. i - Len(nServer) \in 1..Len(answer) /\ Len(nServer) + (i - Len(nServer)) = i
        BY <3>2, <1>4, <1>5
      <4> QED BY <4>1, <1>4, <1>5, Zenon
    <3> QED BY <3>1, <3>2
  <2> QED BY <2>1, <2>2, <1>5
<1>8. Aligned'
  <2> SUFFICES ASSUME ~nExtra PROVE Aligned'
    BY DEF Aligned
  <2>1. Len(nLines) = 1 /\ Len(nServer) = 0
    <3> DEFINE m == Len(nLines)
               n == Len(nServer)
    <3>1. m \in Nat /\ m # 0 /\ n \in Nat
      BY <1>3
    <3>2. m + n = 1
      BY DEF Pending
    <3> HIDE DEF m, n
    <3>3. m = 1 /\ n = 0
      BY <3>1, <3>2
    <3> QED BY <3>3 DEF m, n
  <2>2. Len(nLines') = 0 /\ Len(nServer') = Len(answer)
    BY <2>1, <1>2, <1>3, <1>4, <1>5
  <2>3. Pending' = Len(answer) /\ \A i \in 1..Pending' : Coming(i)' = answer[i]
    BY <2>1, <2>2, <1>4, <1>5 DEF Pending, Coming
  <2>4. \A i \in 2..Pending' : Coming(i)' = answer[i]
    BY <2>3, <1>4
  <2> QED BY <1>2, <1>3, <1>4, <2>3, <2>4 DEF Aligned, IsAnswer
<1>9. Pop!NothingCrossesUpgrade'
  BY <1>5, <1>7 DEF PopInv, Pop!NothingCrossesUpgrade, Private
<1> QED BY <1>2, <1>6, <1>7, <1>8, <1>9 DEF PopInv, Pop!InStep, Pop!SocketsClosed, Pop!Running

LEMMA NextAsked ==
    ASSUME nStage \in Commands \ {"stls", "quit"}
    PROVE  Pop!NextCommand \in Commands
BY DEF Pop!NextCommand, Commands

(* One line fewer is pending, of the same answer.                           *)
LEMMA TestReadsOn ==
    ASSUME PopInv, nLines # <<>>, nLines' = Tail(nLines), nStage \in Pop!MultiLine, nInBody' = TRUE,
           nInBody \/ Head(nLines).kind = "ok",
           UNCHANGED <<nOutcome, nStage, nStartTls, nSecure, nSockets, nServer, nExtra, nDropped>>,
           ~nMisread'
    PROVE  PopInv'
<1>1. /\ nLines' \in Seq(Lines) /\ Pending' = Pending - 1 /\ Pending \in Nat \ {0}
      /\ Head(nLines) = Coming(1)
      /\ \A i \in 1..Pending' : i + 1 \in 2..Pending /\ Coming(i)' = Coming(i + 1)
  BY LineRead DEF PopInv, PopType
<1>2. nStage \in Commands /\ nStage \notin {"none", "connect", "tls"}
  BY DEF Pop!MultiLine, Commands
<1>3. PopType'
  BY <1>1, <1>2 DEF PopInv, PopType
<1>4. Aligned'
  <2> SUFFICES ASSUME ~nExtra, NEW i \in 1..Pending'
               PROVE  Coming(i)'.for = nStage /\ (Coming(i)'.kind = "." <=> i = Pending')
    BY <1>2 DEF Aligned
  <2>1. /\ \A j \in 1..Pending : Coming(j).for = nStage
        /\ \A j \in 2..Pending : Coming(j).kind = "." <=> j = Pending
    <3>1. CASE nInBody
      BY <3>1, <1>1, <1>2 DEF PopInv, Aligned
    <3>2. CASE ~nInBody
      BY <3>2, <1>1, <1>2 DEF PopInv, Aligned
    <3> QED BY <3>1, <3>2
  <2>2. i + 1 \in 2..Pending /\ i + 1 \in 1..Pending /\ Coming(i)' = Coming(i + 1)
    BY <1>1
  <2>3. i + 1 = Pending <=> i = Pending'
    BY <1>1
  <2> QED BY <2>1, <2>2, <2>3
<1>5. Private'
  <2>1. \A i \in 1..Len(nLines') : i + 1 \in 1..Len(nLines) /\ nLines'[i] = nLines[i + 1]
    BY DEF PopInv, PopType
  <2> QED BY <2>1, <1>1 DEF PopInv, PopType, Private
<1>6. Pop!NothingCrossesUpgrade'
  BY <1>5 DEF PopInv, Pop!NothingCrossesUpgrade, Private
<1> QED BY <1>3, <1>4, <1>5, <1>6 DEF PopInv, Pop!InStep, Pop!SocketsClosed, Pop!Running

LEMMA TestReads ==
    ASSUME PopInv, Pop!ReadLine
    PROVE  PopInv'
<1>1. Pop!Running /\ nLines # <<>> /\ nExtra' = nExtra /\ nExtra \in BOOLEAN
  BY DEF Pop!ReadLine, PopInv, PopType
<1>2. nStage \in Commands
  BY <1>1 DEF PopInv, PopType
<1>3. Pending \in Nat \ {0} /\ Head(nLines) = Coming(1)
  <2>1. /\ Len(nLines) \in Nat \ {0} /\ Len(nServer) \in Nat /\ Head(nLines) = nLines[1]
    BY <1>1 DEF PopInv, PopType
  <2> QED BY <2>1 DEF Pending, Coming
<1>4. ~nMisread' /\ ~nDropped
  <2>1. nMisread' = (nMisread \/ (Head(nLines).for # nStage /\ ~nExtra))
    BY DEF Pop!ReadLine
  <2>2. ASSUME ~nExtra PROVE Head(nLines).for = nStage
    <3>1. 1 \in 1..Pending
      BY <1>3
    <3> QED BY <3>1, <2>2, <1>2, <1>3 DEF PopInv, Aligned
  <2>3. ~nMisread /\ ~nDropped
    BY DEF PopInv, Pop!InStep, Pop!NothingCrossesUpgrade
  <2> QED BY <2>1, <2>2, <2>3, Zenon
<1> DEFINE line == Head(nLines)
<1>5. CASE nInBody
  <2>1. nStage \in Pop!MultiLine /\ Pop!ReadBody(line) /\ nDropped' = nDropped
    BY <1>1, <1>5, Zenon DEF Pop!ReadLine, Pop!ReadBody, PopInv, PopType
  <2>2. ASSUME line.kind = ".", Pop!Sends(Pop!NextCommand) PROVE PopInv'
    <3>1. ~nExtra => Pending = 1
      BY <2>2, <1>2, <1>3, <1>5 DEF PopInv, Aligned
    <3>2. Pop!NextCommand \in Commands
      BY <2>1, NextAsked DEF Pop!MultiLine, Commands
    <3> QED BY <2>1, <2>2, <3>1, <3>2, <1>1, <1>4, TestSends
  <2>3. ASSUME NEW outcome \in {"ETLS", "EPROTOCOL", "ETOOBIG"}, Pop!Ends(outcome) PROVE PopInv'
    BY <2>1, <2>3, <1>1, <1>4, TestEnds
  <2>4. ASSUME nLines' = Tail(nLines),
               UNCHANGED <<nOutcome, nStage, nInBody, nStartTls, nSecure, nSockets, nServer>>
        PROVE  PopInv'
    BY <2>1, <2>4, <1>1, <1>4, <1>5, TestReadsOn
  <2> HIDE DEF line
  <2> QED BY <2>1, <2>2, <2>3, <2>4 DEF Pop!ReadBody
<1>6. CASE ~nInBody
  <2>1. Pop!ReadStatus(line)
    BY <1>6 DEF Pop!ReadLine
  <2>2. ASSUME NEW outcome, outcome # "running", Pop!Ends(outcome), nDropped' = nDropped PROVE PopInv'
    BY <2>2, <1>1, <1>4, TestEnds
  <2>3. CASE line.kind # "ok"
    <3> DEFINE outcome == CASE line.kind = "err" /\ nStage \in {"user", "pass"} -> "EAUTH"
                            [] line.kind = "err" /\ nStage = "stls" -> "ETLS"
                            [] OTHER -> "EPROTOCOL"
    <3>1. Pop!Ends(outcome) /\ nDropped' = nDropped
      BY <2>1, <2>3 DEF Pop!ReadStatus
    <3>2. outcome # "running"
      OBVIOUS
    <3> HIDE DEF outcome
    <3> QED BY <2>2, <3>1, <3>2
  <2>4. CASE line.kind = "ok" /\ nStage \in Pop!MultiLine
    <3>1. nStage \in Pop!ReadsBody /\ nStage \notin {"stls", "quit", "uidl"}
      BY <2>4 DEF Pop!ReadsBody, Pop!MultiLine
    <3>2. /\ nInBody' = TRUE /\ nLines' = Tail(nLines) /\ nDropped' = nDropped
          /\ UNCHANGED <<nOutcome, nStage, nStartTls, nSecure, nSockets, nServer>>
      BY <2>1, <2>4, <3>1 DEF Pop!ReadStatus
    <3> QED BY <2>4, <3>2, <1>1, <1>4, TestReadsOn
  <2>5. CASE line.kind = "ok" /\ nStage \notin Pop!MultiLine
    <3>1. nStage \notin Pop!ReadsBody
      BY <2>5 DEF Pop!ReadsBody
    <3>2. ASSUME nLines' = <<>>, Tail(nLines) = <<>>, nDropped' = (nDropped \/ Tail(nLines) # <<>>),
                 nStage' = "tls", nSockets' = nSockets \cup {"tls"},
                 UNCHANGED <<nOutcome, nInBody, nStartTls, nSecure, nServer>>
          PROVE  PopInv'
      <4>1. ~nDropped'
        BY <3>2, <1>4, Zenon
      <4>2. PopType'
        <5>1. nLines' \in Seq(Lines)
          BY <3>2
        <5> QED BY <5>1, <3>2, <1>1, <1>6 DEF PopInv, PopType
      <4>3. Aligned'
        BY <3>2 DEF Aligned, Commands
      <4>4. Private'
        BY <3>2 DEF PopInv, Private
      <4> QED BY <4>1, <4>2, <4>3, <4>4, <3>2, <1>1, <1>4
              DEF PopInv, Pop!InStep, Pop!NothingCrossesUpgrade, Private, Pop!SocketsClosed, Pop!Running
    <3>3. ASSUME nStage \notin {"stls", "quit"}, Pop!Sends(Pop!NextCommand), nDropped' = nDropped
          PROVE  PopInv'
      <4>1. ~nExtra => Pending = 1
        BY <2>5, <1>2, <1>3 DEF PopInv, Aligned
      <4>2. Pop!NextCommand \in Commands
        BY <3>3, <1>2, NextAsked
      <4> QED BY <3>3, <4>1, <4>2, <1>1, <1>4, TestSends
    <3> HIDE DEF line
    <3> QED BY <2>1, <2>2, <2>5, <3>1, <3>2, <3>3 DEF Pop!ReadStatus, Pop!UnreadLines
  <2> QED BY <2>3, <2>4, <2>5
<1> QED BY <1>5, <1>6

LEMMA TestStarts ==
    ASSUME PopInv, NEW starttls \in BOOLEAN, Pop!StartTest(starttls)
    PROVE  PopInv'
<1>1. /\ nOutcome' = "running" /\ nStartTls' = starttls /\ nSecure' = FALSE
      /\ nStage' \in {"connect", "tls"} /\ nInBody' = FALSE /\ nServer' = <<>> /\ nLines' = <<>>
      /\ nExtra' = FALSE /\ UNCHANGED <<nMisread, nDropped>>
  BY DEF Pop!StartTest
<1>2. PopType'
  <2>1. nLines' \in Seq(Lines) /\ nServer' \in Seq(Lines)
    BY <1>1
  <2> QED BY <1>1, <2>1, Zenon DEF PopType
<1> QED BY <1>1, <1>2 DEF PopInv, Aligned, Private, Commands, Pop!InStep,
           Pop!NothingCrossesUpgrade, Pop!SocketsClosed, Pop!Running

(* A server that is asked, or greets, has nothing else on its way.          *)
LEMMA TestAnswered ==
    ASSUME PopInv, nLines' = <<>>, NEW command \in Commands, nStage' = command,
           NEW answer, nServer' = answer, IsAnswer(answer, command, nSecure'), nSecure' \in BOOLEAN,
           ~nInBody', UNCHANGED <<nOutcome, nInBody, nStartTls, nSockets, nExtra, nMisread, nDropped>>
    PROVE  PopInv'
<1>1. /\ answer \in Seq(Lines) /\ Len(answer) \in Nat \ {0}
      /\ \A i \in 1..Len(answer) : answer[i].for = command /\ answer[i].secure = nSecure'
  BY DEF IsAnswer
<1>2. PopType'
  <2>1. nLines' \in Seq(Lines) /\ nServer' \in Seq(Lines)
    BY <1>1
  <2> QED BY <2>1 DEF PopInv, PopType, Commands
<1>3. Pending' = Len(answer) /\ \A i \in 1..Pending' : Coming(i)' = answer[i]
  BY <1>1 DEF Pending, Coming
<1>4. Aligned'
  <2>1. \A i \in 2..Pending' : Coming(i)' = answer[i]
    BY <1>1, <1>3
  <2> QED BY <1>1, <1>3, <2>1 DEF Aligned, IsAnswer
<1>5. Private'
  <2> SUFFICES ASSUME nSecure' PROVE \A i \in 1..Len(answer) : answer[i].secure
    BY <1>1 DEF Private
  <2> QED BY <1>1, Zenon
<1>6. Pop!NothingCrossesUpgrade'
  BY <1>5 DEF PopInv, Pop!NothingCrossesUpgrade, Private
<1> QED BY <1>2, <1>4, <1>5, <1>6 DEF PopInv, Pop!InStep, Pop!SocketsClosed, Pop!Running

LEMMA TestConnects ==
    ASSUME PopInv, Pop!Connected \/ Pop!Secured
    PROVE  PopInv'
<1>1. CASE Pop!Connected
  <2>1. PICK kind \in {"ok", "err"} : nServer' = <<Pop!Line("greeting", kind, 0, FALSE)>>
    BY <1>1, Zenon DEF Pop!Connected
  <2>2. /\ nStage = "connect" /\ nStage' = "greeting"
        /\ UNCHANGED <<nOutcome, nInBody, nStartTls, nSecure, nSockets, nLines, nExtra, nMisread, nDropped>>
    BY <1>1 DEF Pop!Connected, Pop!history
  <2>3. nLines = <<>> /\ ~nInBody /\ nSecure \in BOOLEAN /\ ~nSecure
    BY <2>2 DEF PopInv, PopType, Pop!MultiLine
  <2> DEFINE greeting == Pop!Line("greeting", kind, 0, FALSE)
  <2>4. IsAnswer(nServer', "greeting", FALSE)
    <3>1. greeting \in Lines /\ greeting.for = "greeting" /\ greeting.secure = FALSE
      BY DEF Pop!Line, Lines, Commands
    <3>2. nServer' = <<greeting>>
      BY <2>1
    <3> HIDE DEF greeting
    <3> QED BY <3>1, <3>2 DEF IsAnswer, Pop!MultiLine
  <2> QED BY <2>2, <2>3, <2>4, TestAnswered, Zenon DEF Commands
<1>2. CASE Pop!Secured
  <2>1. /\ nStage = "tls" /\ nSecure' = TRUE /\ nLines' = <<>>
        /\ nStage' = (IF nStartTls THEN "capa2" ELSE "greeting")
        /\ nServer' \in Pop!Answers(nStage', TRUE)
        /\ UNCHANGED <<nOutcome, nInBody, nStartTls, nSockets, nExtra, nMisread, nDropped>>
    BY <1>2, Zenon DEF Pop!Secured, Pop!history
  <2>2. nStage' \in Commands /\ ~nInBody
    BY <2>1 DEF Commands, PopInv, PopType, Pop!MultiLine
  <2>3. IsAnswer(nServer', nStage', TRUE)
    BY <2>1, <2>2, AnswerShaped, Zenon
  <2> QED BY <2>1, <2>2, <2>3, TestAnswered, Zenon
<1> QED BY <1>1, <1>2

LEMMA TestReceives ==
    ASSUME PopInv, Pop!Arrives \/ Pop!ExtraLine
    PROVE  PopInv'
<1>1. CASE Pop!Arrives
  <2>1. /\ nServer # <<>> /\ nLines' = Append(nLines, Head(nServer)) /\ nServer' = Tail(nServer)
        /\ nStage # "tls"
        /\ UNCHANGED <<nOutcome, nStage, nInBody, nStartTls, nSecure, nSockets, nExtra, nMisread,
                       nDropped>>
    BY <1>1 DEF Pop!Arrives, Pop!history
  <2>2. /\ nLines' \in Seq(Lines) /\ nServer' \in Seq(Lines) /\ Pending' = Pending
        /\ \A i \in 1..Pending : Coming(i)' = Coming(i)
    BY <2>1, LineArrives DEF PopInv, PopType
  <2>3. nStage \notin {"none", "connect", "tls"}
    BY <2>1 DEF PopInv, PopType
  <2>4. PopType'
    BY <2>1, <2>2, <2>3 DEF PopInv, PopType
  <2>5. Aligned'
    <3>1. /\ Pending \in Nat /\ (Pending > 0 => 1 \in 1..Pending)
          /\ \A i \in 2..Pending : i \in 1..Pending
      BY DEF PopInv, PopType, Pending
    <3> QED BY <2>1, <2>2, <3>1 DEF PopInv, Aligned
  <2>6. Private'
    <3>1. /\ \A i \in 1..Len(nLines') : \/ i \in 1..Len(nLines) /\ nLines'[i] = nLines[i]
                                       \/ nLines'[i] = nServer[1]
          /\ \A i \in 1..Len(nServer') : i + 1 \in 1..Len(nServer) /\ nServer'[i] = nServer[i + 1]
          /\ 1 \in 1..Len(nServer)
      BY <2>1 DEF PopInv, PopType
    <3> QED BY <2>1, <2>2, <3>1 DEF PopInv, PopType, Private
  <2>7. Pop!NothingCrossesUpgrade'
    BY <2>1, <2>6 DEF PopInv, Pop!NothingCrossesUpgrade, Private
  <2> QED BY <2>1, <2>4, <2>5, <2>6, <2>7 DEF PopInv, Pop!InStep, Pop!SocketsClosed, Pop!Running
<1>2. CASE Pop!ExtraLine
  <2>1. PICK kind \in {"ok", "UIDL", "."} :
           nLines' = Append(nLines, Pop!Line("nothing", kind, 0, FALSE))
    BY <1>2, Zenon DEF Pop!ExtraLine
  <2>2. /\ nExtra' = TRUE /\ ~nSecure /\ nStage \notin {"connect", "tls"} /\ Pop!Running
        /\ UNCHANGED <<nOutcome, nStage, nInBody, nStartTls, nSecure, nSockets, nServer, nMisread,
                       nDropped>>
    BY <1>2 DEF Pop!ExtraLine
  <2> DEFINE extra == Pop!Line("nothing", kind, 0, FALSE)
  <2>3. extra \in Lines
    BY DEF Pop!Line, Lines
  <2>4. nLines' \in Seq(Lines)
    <3>1. nLines \in Seq(Lines) /\ nLines' = Append(nLines, extra)
      BY <2>1 DEF PopInv, PopType
    <3> HIDE DEF extra
    <3> QED BY <2>3, <3>1
  <2>5. PopType'
    BY <2>2, <2>4 DEF PopInv, PopType, Pop!Running
  <2> QED BY <2>2, <2>5 DEF PopInv, Aligned, Private, Pop!InStep, Pop!NothingCrossesUpgrade,
             Pop!SocketsClosed, Pop!Running
<1> QED BY <1>1, <1>2

LEMMA PopStarts == Pop!PopInit => PopInv
<1> SUFFICES ASSUME Pop!PopInit PROVE PopInv
  OBVIOUS
<1>1. /\ nOutcome = "none" /\ nStage = "none" /\ nInBody = FALSE /\ nSecure = FALSE
      /\ nStartTls = FALSE /\ nExtra = FALSE /\ nLines = <<>> /\ nServer = <<>> /\ nSockets = {} /\ nMisread = FALSE /\ nDropped = FALSE
  BY DEF Pop!PopInit
<1>2. nLines \in Seq(Lines) /\ nServer \in Seq(Lines)
  BY <1>1
<1>3. PopType
  BY <1>1, <1>2, Zenon DEF PopType
<1> QED BY <1>1, <1>3 DEF PopInv, Aligned, Private, Commands, Pop!InStep, Pop!NothingCrossesUpgrade,
           Pop!SocketsClosed

LEMMA PopRests ==
    ASSUME PopInv, UNCHANGED popVars
    PROVE  PopInv'
<1>1. UNCHANGED <<nOutcome, nStage, nInBody, nStartTls, nSecure, nSockets, nServer, nLines, nExtra,
                  nMisread, nDropped>>
  BY DEF popVars
<1>2. PopType'
  BY <1>1 DEF PopInv, PopType
<1>3. Aligned' /\ Private'
  BY <1>1 DEF PopInv, Aligned, Private, Pending, Coming
<1> QED BY <1>1, <1>2, <1>3 DEF PopInv, Pop!InStep, Pop!NothingCrossesUpgrade, Pop!SocketsClosed,
           Pop!Running

LEMMA PopSafe ==
    ASSUME PopInv, Pop!PopNext
    PROVE  PopInv'
<1>1. CASE Pop!Breaks
  <2>1. PICK code \in {"ETIMEDOUT", "ECANCELLED", "ECONNECTION", "ETLS"} : Pop!Ends(code)
    BY <1>1 DEF Pop!Breaks
  <2>2. nExtra' = nExtra /\ ~nMisread' /\ ~nDropped' /\ nExtra \in BOOLEAN
    BY <1>1 DEF Pop!Breaks, Pop!history, PopInv, PopType, Pop!InStep, Pop!NothingCrossesUpgrade
  <2> QED BY <2>1, <2>2, TestEnds
<1> QED BY <1>1, TestStarts, TestConnects, TestReceives, TestReads DEF Pop!PopNext

(* However its answers arrive, a POP3 test keeps in step with its server,   *)
(* nothing crosses the upgrade to TLS, and a test that ended has closed its *)
(* sockets; a mock lifecycle at rest stores nothing that was revoked or     *)
(* overtaken (testPop3Account in pop3-test-transport.ts, exchange, refresh  *)
(* and revoke in mock-oauth-token-lifecycle.ts).                            *)
THEOREM SessionsStayInStep == ServicesSpec => []SessionsInStep
<1> DEFINE Inv == PopInv /\ MockInv
<1>1. ServicesInit => Inv
  BY PopStarts, MockStarts DEF ServicesInit
<1>2. Inv /\ [ServicesNext]_servicesVars => Inv'
  <2>1. ASSUME Inv, ServicesNext PROVE Inv'
    <3>1. PopInv'
      BY <2>1, PopSafe, PopRests DEF ServicesNext
    <3>2. MockInv'
      <4>1. Mock!LifecycleNext \/ UNCHANGED lifecycleVars
        BY <2>1 DEF ServicesNext
      <4> QED BY <2>1, <4>1, MockSafe, MockRests DEF lifecycleVars
    <3> QED BY <3>1, <3>2
  <2>2. ASSUME Inv, UNCHANGED servicesVars PROVE Inv'
    <3>1. UNCHANGED popVars /\ UNCHANGED lifecycleVars
      BY <2>2 DEF servicesVars
    <3> QED BY <2>2, <3>1, PopRests, MockRests DEF lifecycleVars
  <2> QED BY <2>1, <2>2
<1>3. Inv => SessionsInStep
  BY MockKept DEF PopInv, SessionsInStep
<1> QED BY <1>1, <1>2, <1>3, PTL DEF ServicesSpec
-----------------------------------------------------------------------------
(***************************************************************************)
(* The PIM records.                                                        *)
(***************************************************************************)
Texts == {"", "x", "y"}
Contents == [text : Texts, members : SUBSET PimUids, done : BOOLEAN, percent : Nat, stamped : BOOLEAN]
Entities == [content : Contents, revision : Nat]
Transactions ==
    [action : {"created", "updated", "deleted", "restored"}, kind : Pim!Kinds, uid : PimUids,
     before : Entities, after : Entities]
Databases ==
    [records : [Pim!Kinds -> [PimUids -> Entities]], log : Seq(Transactions), taskVersion : Nat]

Completed(content) ==
    (content.done <=> content.percent = 100) /\ (content.done <=> content.stamped)
Explained(db) ==
    \A kind \in Pim!Kinds, uid \in PimUids :
        /\ \A i \in Pim!Of(db, kind, uid) :
              db.log[i].before = Pim!After(db, Pim!Of(db, kind, uid) \cap 1..(i - 1))
        /\ db.records[kind][uid] = Pim!After(db, Pim!Of(db, kind, uid))
(* A record that is there has the highest revision of its transactions.     *)
Highest(db) ==
    \A kind \in Pim!Kinds, uid \in PimUids : Pim!Present(db.records[kind][uid]) =>
        \A i \in Pim!Of(db, kind, uid) :
            /\ db.log[i].before.revision <= db.records[kind][uid].revision
            /\ db.log[i].after.revision <= db.records[kind][uid].revision
(* No revision without a transaction.                                       *)
Bounded(db) ==
    /\ \A i \in DOMAIN db.log : db.log[i].before.revision <= Len(db.log) /\ db.log[i].after.revision <= Len(db.log)
    /\ \A kind \in Pim!Kinds, uid \in PimUids : db.records[kind][uid].revision <= Len(db.log)
OneContent(db) ==
    \A i, j \in DOMAIN db.log :
        /\ db.log[i].kind = db.log[j].kind /\ db.log[i].uid = db.log[j].uid
        /\ Pim!Present(db.log[i].after) /\ db.log[i].after.revision = db.log[j].after.revision
        => db.log[i].after = db.log[j].after
TasksCompleted(db) ==
    /\ \A uid \in PimUids : Completed(db.records["task"][uid].content)
    /\ \A i \in DOMAIN db.log : db.log[i].kind = "task" =>
          Completed(db.log[i].before.content) /\ Completed(db.log[i].after.content)
DatabaseInv(db) ==
    /\ db \in Databases /\ Explained(db) /\ Highest(db) /\ Bounded(db) /\ OneContent(db) /\ TasksCompleted(db)

(* A refresh that has not seen the tasks as they are has not seen their     *)
(* version either.                                                          *)
Seen(call) ==
    call.step # "idle" => /\ call.base \in Nat /\ call.base <= sDb.taskVersion
                          /\ call.base = sDb.taskVersion => call.tasks = sDb.records["task"]
PimInv ==
    /\ DatabaseInv(sDb) /\ ~sStale
    /\ sCalls \in [Refreshes -> [step : {"idle", "loading", "mutate"}, base : Nat, tasks : [PimUids -> Entities]]]
    /\ \A c \in Refreshes : Seen(sCalls[c])

(* A non-empty set of naturals has a least element.                         *)
LEMMA LeastNumber ==
    ASSUME NEW T, T \subseteq Nat, T # {}
    PROVE  \E x \in T : \A y \in T : x <= y
<1> DEFINE R == OpToRel(<, Nat)
<1>1. IsWellFoundedOn(R, Nat)
  BY NatLessThanWellFounded, Zenon
<1> HIDE DEF R
<1>2. PICK x \in T : \A y \in T : ~(<<y, x>> \in R)
  BY <1>1, WFMin, Zenon
<1>3. \A y \in T : ~(y < x)
  BY <1>2, Zenon DEF R, OpToRel
<1> QED BY <1>3

(* The greatest of some numbers up to a bound.                              *)
LEMMA MaxOfSome ==
    ASSUME NEW n \in Nat, NEW S \in SUBSET (0..n), S # {}
    PROVE  Pim!Max(S) \in S /\ \A x \in S : x <= Pim!Max(S)
<1> DEFINE T == {n - x : x \in S}
<1>1. T \in SUBSET Nat /\ T # {}
  <2>1. \A x \in S : n - x \in Nat
    OBVIOUS
  <2> QED BY <2>1, Zenon
<1>2. PICK t \in T : \A y \in T : t <= y
  <2> HIDE DEF T
  <2> QED BY <1>1, LeastNumber, Zenon
<1>4. PICK m \in S : t = n - m
  BY <1>2
<1>5. \A x \in S : m >= x
  BY <1>2, <1>4
<1>6. \E x \in S : \A y \in S : x >= y
  BY <1>5
<1> QED BY <1>6, Zenon DEF Pim!Max

(* The transactions of a record after one more was recorded.                *)
LEMMA OneMore ==
    ASSUME NEW db \in Databases, NEW action \in {"created", "updated", "deleted", "restored"},
           NEW kind \in Pim!Kinds, NEW uid \in PimUids, NEW after \in Entities,
           NEW new, new = Pim!Record(db, action, kind, uid, after)
    PROVE  /\ new \in Databases /\ Len(new.log) = Len(db.log) + 1
           /\ \A i \in DOMAIN db.log : new.log[i] = db.log[i]
           /\ new.log[Len(db.log) + 1] = [action |-> action, kind |-> kind, uid |-> uid,
                                          before |-> db.records[kind][uid], after |-> after]
           /\ new.records[kind][uid] = after
           /\ \A k \in Pim!Kinds, u \in PimUids : k # kind \/ u # uid => new.records[k][u] = db.records[k][u]
           /\ new.taskVersion = IF kind = "task" THEN db.taskVersion + 1 ELSE db.taskVersion
           /\ \A k \in Pim!Kinds, u \in PimUids :
                 Pim!Of(new, k, u) = IF k = kind /\ u = uid THEN Pim!Of(db, k, u) \cup {Len(db.log) + 1}
                                     ELSE Pim!Of(db, k, u)
<1> DEFINE n == Len(db.log) + 1
           t == [action |-> action, kind |-> kind, uid |-> uid,
                 before |-> db.records[kind][uid], after |-> after]
<1>1. /\ db.records \in [Pim!Kinds -> [PimUids -> Entities]] /\ db.log \in Seq(Transactions)
      /\ db.taskVersion \in Nat
  BY DEF Databases
<1>2. t \in Transactions
  BY <1>1 DEF Transactions
<1>3. /\ new.records = [db.records EXCEPT ![kind] = [@ EXCEPT ![uid] = after]]
      /\ new.log = Append(db.log, t)
      /\ new.taskVersion = IF kind = "task" THEN db.taskVersion + 1 ELSE db.taskVersion
      /\ new = [records |-> new.records, log |-> new.log, taskVersion |-> new.taskVersion]
  <2>1. db = [records |-> db.records, log |-> db.log, taskVersion |-> db.taskVersion]
    BY DEF Databases
  <2>2. new.log = Append(db.log, t)
    BY <2>1 DEF Pim!Record
  <2>3. new.taskVersion = IF kind = "task" THEN db.taskVersion + 1 ELSE db.taskVersion
    BY <2>1 DEF Pim!Record
  <2>4. new.records = [db.records EXCEPT ![kind] = [@ EXCEPT ![uid] = after]]
    BY <2>1 DEF Pim!Record
  <2>5. new = [records |-> new.records, log |-> new.log, taskVersion |-> new.taskVersion]
    <3>1. new = [db EXCEPT !.records = new.records, !.log = new.log, !.taskVersion = new.taskVersion]
      <4>1. new = [db EXCEPT !.records[kind][uid] = after, !.log = Append(@, t),
                             !.taskVersion = IF kind = "task" THEN @ + 1 ELSE @]
        BY Zenon DEF Pim!Record
      <4> HIDE DEF t
      <4> QED BY <2>1, <2>2, <2>3, <2>4, <4>1
    <3> QED BY <2>1, <3>1, Zenon
  <2> QED BY <2>2, <2>3, <2>4, <2>5, Zenon
<1> HIDE DEF t
<1>4. new.records \in [Pim!Kinds -> [PimUids -> Entities]]
  BY <1>1, <1>3
<1>5. new.log \in Seq(Transactions)
  BY <1>1, <1>2, <1>3
<1>6. new \in Databases
  <2>1. new.taskVersion \in Nat
    BY <1>1, <1>3
  <2> DEFINE r == new.records
             l == new.log
             v == new.taskVersion
  <2>2. new = [records |-> r, log |-> l, taskVersion |-> v]
    BY <1>3
  <2> HIDE DEF r, l, v
  <2> QED BY <1>4, <1>5, <2>1, <2>2 DEF Databases, r, l, v
<1>7. /\ Len(new.log) = n /\ DOMAIN db.log = 1..(n - 1) /\ DOMAIN new.log = 1..n
      /\ new.log[n] = t /\ \A i \in DOMAIN db.log : new.log[i] = db.log[i]
  BY <1>1, <1>2, <1>3
<1>8. t.kind = kind /\ t.uid = uid
  BY DEF t
<1>9. ASSUME NEW k \in Pim!Kinds, NEW u \in PimUids
      PROVE  Pim!Of(new, k, u) = IF k = kind /\ u = uid THEN Pim!Of(db, k, u) \cup {n} ELSE Pim!Of(db, k, u)
  <2>1. n \in Nat \ {0}
    BY <1>1
  <2> QED BY <1>7, <1>8, <2>1 DEF Pim!Of
<1>10. /\ new.records[kind][uid] = after
       /\ \A k \in Pim!Kinds, u \in PimUids : k # kind \/ u # uid => new.records[k][u] = db.records[k][u]
  BY <1>1, <1>3
<1> QED BY <1>3, <1>6, <1>7, <1>9, <1>10 DEF t

(* A record's revision is one of its transactions', or there is none.       *)
LEMMA RecordOfLog ==
    ASSUME NEW db, DatabaseInv(db), NEW kind \in Pim!Kinds, NEW uid \in PimUids
    PROVE  /\ db.records[kind][uid] \in Entities
           /\ \/ db.records[kind][uid] = Pim!Absent /\ Pim!Of(db, kind, uid) = {}
              \/ \E i \in Pim!Of(db, kind, uid) : db.records[kind][uid] = db.log[i].after
<1> DEFINE S == Pim!Of(db, kind, uid)
<1>1. db.records[kind][uid] \in Entities /\ db.records[kind][uid] = Pim!After(db, S) /\ Len(db.log) \in Nat
  BY DEF DatabaseInv, Databases, Explained
<1>2. S \subseteq 1..Len(db.log)
  BY DEF DatabaseInv, Databases, Pim!Of
<1>3. S \subseteq 0..Len(db.log)
  BY <1>1, <1>2
<1>4. CASE S # {}
  <2> HIDE DEF S
  <2>1. Pim!Max(S) \in S
    BY <1>1, <1>3, <1>4, MaxOfSome, Zenon
  <2> QED BY <1>1, <1>4, <2>1 DEF Pim!After, S
<1> QED BY <1>1, <1>4 DEF Pim!After

(* latestRevision is at least every revision the record ever had.           *)
LEMMA LatestIsHighest ==
    ASSUME NEW db, DatabaseInv(db), NEW kind \in Pim!Kinds, NEW uid \in PimUids
    PROVE  LET latest == Pim!latestRevision(db, kind, uid)
           IN /\ latest \in 0..Len(db.log) /\ db.records[kind][uid].revision <= latest
              /\ \A i \in Pim!Of(db, kind, uid) :
                    db.log[i].before.revision <= latest /\ db.log[i].after.revision <= latest
<1> DEFINE S == Pim!Of(db, kind, uid)
           R == {db.records[kind][uid].revision}
                   \cup {db.log[i].before.revision : i \in S} \cup {db.log[i].after.revision : i \in S}
<1>1. /\ Len(db.log) \in Nat /\ S \subseteq DOMAIN db.log
      /\ db.records[kind][uid] \in Entities /\ db.log \in Seq(Transactions)
  BY DEF DatabaseInv, Databases, Pim!Of
<1>2. \A i \in DOMAIN db.log : db.log[i].before \in Entities /\ db.log[i].after \in Entities
  <2>1. \A i \in DOMAIN db.log : db.log[i] \in Transactions
    BY <1>1
  <2> QED BY <2>1 DEF Transactions
<1>3. \A x \in R : x \in 0..Len(db.log)
  <2>1. db.records[kind][uid].revision \in 0..Len(db.log)
    BY <1>1 DEF DatabaseInv, Bounded, Entities
  <2>2. \A i \in S : /\ db.log[i].before.revision \in 0..Len(db.log)
                     /\ db.log[i].after.revision \in 0..Len(db.log)
    BY <1>1, <1>2 DEF DatabaseInv, Bounded, Entities
  <2> QED BY <2>1, <2>2
<1>4. R \in SUBSET (0..Len(db.log)) /\ R # {}
  BY <1>3
<1>5. /\ db.records[kind][uid].revision \in R
      /\ \A i \in S : db.log[i].before.revision \in R /\ db.log[i].after.revision \in R
  OBVIOUS
<1>6. Pim!Max(R) \in R /\ \A x \in R : x <= Pim!Max(R)
  <2> HIDE DEF R
  <2> QED BY <1>1, <1>4, MaxOfSome, Zenon
<1>7. Pim!latestRevision(db, kind, uid) = Pim!Max(R)
  BY Zenon DEF Pim!latestRevision
<1> HIDE DEF R
<1> QED BY <1>4, <1>5, <1>6, <1>7, Zenon

(* The tasks change only with their version.                                *)
Advances(db, new) ==
    /\ DatabaseInv(new)
    /\ db.taskVersion <= new.taskVersion
    /\ db.taskVersion = new.taskVersion => db.records["task"] = new.records["task"]

(* One more transaction, with a revision the record never had.              *)
LEMMA RecordAdvances ==
    ASSUME NEW db, DatabaseInv(db), NEW action \in {"created", "updated", "deleted", "restored"},
           NEW kind \in Pim!Kinds, NEW uid \in PimUids, NEW after \in Entities,
           kind = "task" => Completed(after.content),
           \/ after = Pim!Absent
           \/ /\ after.revision \in 1..(Len(db.log) + 1)
              /\ \A i \in Pim!Of(db, kind, uid) :
                    db.log[i].before.revision < after.revision /\ db.log[i].after.revision < after.revision
    PROVE  Advances(db, Pim!Record(db, action, kind, uid, after))
<1>0. SUFFICES ASSUME NEW new, new = Pim!Record(db, action, kind, uid, after)
             PROVE  Advances(db, new)
  OBVIOUS
<1> DEFINE n == Len(db.log) + 1
           t == [action |-> action, kind |-> kind, uid |-> uid,
                 before |-> db.records[kind][uid], after |-> after]
           Mine == Pim!Of(db, kind, uid)
<1>1. db \in Databases
  BY DEF DatabaseInv
<1>2. /\ new \in Databases /\ Len(new.log) = n
      /\ \A i \in DOMAIN db.log : new.log[i] = db.log[i]
      /\ new.log[n] = t
      /\ new.records[kind][uid] = after
      /\ \A k \in Pim!Kinds, u \in PimUids : k # kind \/ u # uid => new.records[k][u] = db.records[k][u]
      /\ new.taskVersion = IF kind = "task" THEN db.taskVersion + 1 ELSE db.taskVersion
      /\ \A k \in Pim!Kinds, u \in PimUids :
            Pim!Of(new, k, u) = IF k = kind /\ u = uid THEN Pim!Of(db, k, u) \cup {n} ELSE Pim!Of(db, k, u)
  BY <1>0, <1>1, OneMore
<1>3. /\ n \in Nat \ {0} /\ DOMAIN db.log = 1..(n - 1) /\ DOMAIN new.log = 1..n
      /\ \A i \in DOMAIN db.log : db.log[i] \in Transactions
      /\ db.records \in [Pim!Kinds -> [PimUids -> Entities]]
      /\ Mine \subseteq 1..(n - 1)
  BY <1>1, <1>2 DEF Databases, Pim!Of
<1>5. /\ t.before = db.records[kind][uid] /\ t.after = after /\ t.kind = kind /\ t.uid = uid
      /\ db.records[kind][uid] \in Entities
  BY <1>3
<1>6. /\ db.records[kind][uid] = Pim!Absent \/ \E i \in Mine : db.records[kind][uid] = db.log[i].after
      /\ Pim!Absent.revision = 0
  <2>1. Pim!Absent.revision = 0
    BY Zenon DEF Pim!Absent
  <2> QED BY <2>1, RecordOfLog
<1> HIDE DEF n, t
<1>7. Explained(new)
  <2>1. ASSUME NEW S \in SUBSET (1..(n - 1))
        PROVE  Pim!After(new, S) = Pim!After(db, S)
    <3>1. CASE S # {}
      <4>1. S \in SUBSET (0..n)
        BY <1>3
      <4>2. Pim!Max(S) \in S
        BY <1>3, <3>1, <4>1, MaxOfSome, Zenon
      <4> QED BY <1>2, <1>3, <3>1, <4>2, Zenon DEF Pim!After
    <3> QED BY <3>1 DEF Pim!After
  <2>2. ASSUME NEW k \in Pim!Kinds, NEW u \in PimUids
        PROVE  /\ \A i \in Pim!Of(new, k, u) :
                     new.log[i].before = Pim!After(new, Pim!Of(new, k, u) \cap 1..(i - 1))
               /\ new.records[k][u] = Pim!After(new, Pim!Of(new, k, u))
    <3> DEFINE old == Pim!Of(db, k, u)
    <3>1. /\ old \subseteq 1..(n - 1) /\ old \subseteq DOMAIN db.log
          /\ \A i \in old : db.log[i].before = Pim!After(db, old \cap 1..(i - 1))
          /\ db.records[k][u] = Pim!After(db, old)
      BY <1>3, Zenon DEF Pim!Of, DatabaseInv, Explained
    <3> HIDE DEF old
    <3>2. \A i \in old : new.log[i].before = Pim!After(new, old \cap 1..(i - 1))
      BY <1>2, <2>1, <3>1
    <3>3. CASE k = kind /\ u = uid
      <4>1. Pim!Of(new, k, u) = old \cup {n}
        BY <1>2, <3>3 DEF n, old
      <4>2. /\ \A i \in old : (old \cup {n}) \cap 1..(i - 1) = old \cap 1..(i - 1)
            /\ (old \cup {n}) \cap 1..(n - 1) = old
        BY <1>3, <3>1
      <4>3. new.log[n].before = Pim!After(new, old)
        BY <1>2, <1>5, <2>1, <3>1, <3>3
      <4>4. Pim!Max(old \cup {n}) = n
        <5>1. old \cup {n} \in SUBSET (0..n) /\ old \cup {n} # {}
          BY <1>3, <3>1
        <5>2. Pim!Max(old \cup {n}) \in 0..n /\ n <= Pim!Max(old \cup {n})
          BY <1>3, <5>1, MaxOfSome, Zenon
        <5> QED BY <1>3, <5>2
      <4>5. new.records[k][u] = Pim!After(new, old \cup {n})
        BY <1>2, <1>5, <3>3, <4>4 DEF Pim!After
      <4> QED BY <3>2, <4>1, <4>2, <4>3, <4>5, Zenon
    <3>4. CASE ~(k = kind /\ u = uid)
      BY <1>2, <2>1, <3>1, <3>2, <3>4 DEF old
    <3> QED BY <3>3, <3>4, Zenon
  <2> QED BY <2>2 DEF Explained
<1>8. Highest(new)
  <2>1. \A i \in Mine : i \in DOMAIN db.log
    BY <1>3
  <2>2. ASSUME after # Pim!Absent
        PROVE  db.records[kind][uid].revision < after.revision
    BY <1>6, <2>2
  <2>3. ASSUME NEW k \in Pim!Kinds, NEW u \in PimUids, Pim!Present(new.records[k][u]),
               NEW i \in Pim!Of(new, k, u)
        PROVE  /\ new.log[i].before.revision <= new.records[k][u].revision
               /\ new.log[i].after.revision <= new.records[k][u].revision
    <3>1. CASE k = kind /\ u = uid
      <4> new.records[k][u] = after
        BY <1>2, <3>1
      <4>1. after # Pim!Absent /\ after.revision \in Nat
        BY <1>2, <1>6, <2>3, <3>1 DEF Pim!Present, Entities
      <4>2. CASE i \in Mine
        <5>1. db.log[i] \in Transactions
          BY <1>3, <2>1, <4>2
        <5>2. db.log[i].before.revision < after.revision /\ db.log[i].after.revision < after.revision
          BY <4>1, <4>2
        <5>3. db.log[i].before.revision \in Nat /\ db.log[i].after.revision \in Nat
          BY <5>1 DEF Transactions, Entities
        <5> QED BY <1>2, <2>1, <3>1, <4>1, <4>2, <5>2, <5>3
      <4>3. CASE i = n
        BY <1>2, <1>5, <2>2, <3>1, <4>1, <4>3 DEF Entities
      <4> QED BY <1>2, <2>3, <3>1, <4>2, <4>3 DEF n
    <3>2. CASE ~(k = kind /\ u = uid)
      <4>1. i \in Pim!Of(db, k, u) /\ new.records[k][u] = db.records[k][u]
        BY <1>2, <2>3, <3>2
      <4>2. i \in DOMAIN db.log
        BY <4>1 DEF Pim!Of
      <4> QED BY <1>2, <2>3, <4>1, <4>2 DEF DatabaseInv, Highest
    <3> QED BY <3>1, <3>2
  <2> QED BY <2>3 DEF Highest
<1>9. Bounded(new)
  <2>1. after.revision \in 0..n
    BY <1>3, <1>6 DEF n
  <2>2. \A k \in Pim!Kinds, u \in PimUids : new.records[k][u].revision <= n
    <3>1. \A k \in Pim!Kinds, u \in PimUids :
             db.records[k][u].revision \in Nat /\ db.records[k][u].revision <= n - 1
      BY <1>3 DEF DatabaseInv, Bounded, Entities, n
    <3> QED BY <1>2, <1>3, <2>1, <3>1
  <2>3. ASSUME NEW i \in DOMAIN db.log
        PROVE  new.log[i].before.revision <= n /\ new.log[i].after.revision <= n
    <3>1. db.log[i].before.revision \in Nat /\ db.log[i].after.revision \in Nat
      BY <1>3, Zenon DEF Transactions, Entities
    <3> QED BY <1>2, <1>3, <3>1 DEF DatabaseInv, Bounded, n
  <2>4. new.log[n].before.revision <= n /\ new.log[n].after.revision <= n
    <3>1. db.records[kind][uid].revision \in Nat /\ db.records[kind][uid].revision <= n - 1
      BY <1>3 DEF DatabaseInv, Bounded, Entities, n
    <3> QED BY <1>2, <1>3, <1>5, <2>1, <3>1
  <2>5. \A i \in DOMAIN new.log : i \in DOMAIN db.log \/ i = n
    BY <1>3
  <2> QED BY <1>2, <2>2, <2>3, <2>4, <2>5 DEF Bounded
<1>10. OneContent(new)
  <2>1. ASSUME NEW i \in DOMAIN db.log, db.log[i].kind = kind, db.log[i].uid = uid,
               Pim!Present(after) \/ Pim!Present(db.log[i].after)
        PROVE  db.log[i].after.revision # after.revision
    <3>1. i \in Mine /\ db.log[i].after.revision \in Nat /\ after.revision \in Nat
      BY <1>3, <2>1 DEF Pim!Of, Transactions, Entities
    <3>2. CASE after = Pim!Absent
      BY <1>6, <2>1, <3>1, <3>2 DEF Pim!Present
    <3>3. CASE after # Pim!Absent
      BY <3>1, <3>3
    <3> QED BY <3>2, <3>3
  <2>2. \A i \in DOMAIN new.log : i \in DOMAIN db.log \/ i = n
    BY <1>3
  <2>3. new.log[n].kind = kind /\ new.log[n].uid = uid /\ new.log[n].after = after
    BY <1>2, <1>5
  <2>4. SUFFICES ASSUME NEW i \in DOMAIN new.log, NEW j \in DOMAIN new.log,
                        new.log[i].kind = new.log[j].kind, new.log[i].uid = new.log[j].uid,
                        Pim!Present(new.log[i].after), new.log[i].after.revision = new.log[j].after.revision
                 PROVE  new.log[i].after = new.log[j].after
    BY DEF OneContent
  <2>5. CASE i \in DOMAIN db.log /\ j \in DOMAIN db.log
    BY <1>2, <2>4, <2>5 DEF DatabaseInv, OneContent
  <2>6. CASE i = n /\ j \in DOMAIN db.log
    BY <1>2, <2>1, <2>3, <2>4, <2>6
  <2>7. CASE i \in DOMAIN db.log /\ j = n
    BY <1>2, <2>1, <2>3, <2>4, <2>7
  <2> QED BY <2>2, <2>4, <2>5, <2>6, <2>7
<1>11. TasksCompleted(new)
  <2>1. \A u \in PimUids : Completed(new.records["task"][u].content)
    <3>1. "task" \in Pim!Kinds
      BY DEF Pim!Kinds
    <3> QED BY <1>2, <3>1 DEF DatabaseInv, TasksCompleted
  <2>2. \A i \in DOMAIN new.log : i \in DOMAIN db.log \/ i = n
    BY <1>3
  <2>3. kind = "task" => Completed(new.log[n].before.content) /\ Completed(new.log[n].after.content)
    BY <1>2, <1>5 DEF DatabaseInv, TasksCompleted
  <2> QED BY <1>2, <1>5, <2>1, <2>2, <2>3 DEF DatabaseInv, TasksCompleted
<1>12. DatabaseInv(new)
  BY <1>2, <1>7, <1>8, <1>9, <1>10, <1>11 DEF DatabaseInv
<1>13. db.taskVersion \in Nat /\ "task" \in Pim!Kinds
  BY <1>1 DEF Databases, Pim!Kinds
<1>14. CASE kind # "task"
  <2>1. db.records["task"] \in [PimUids -> Entities] /\ new.records["task"] \in [PimUids -> Entities]
    BY <1>2, <1>3, <1>13 DEF Databases
  <2>2. db.records["task"] = new.records["task"]
    BY <1>2, <1>13, <1>14, <2>1
  <2> QED BY <1>2, <1>12, <1>13, <1>14, <2>2 DEF Advances
<1> QED BY <1>2, <1>12, <1>13, <1>14 DEF Advances

LEMMA AdvancesOn ==
    ASSUME NEW a, NEW b, NEW c, DatabaseInv(a), Advances(a, b), Advances(b, c)
    PROVE  Advances(a, c)
BY DEF Advances, DatabaseInv, Databases

(* A new record, or the next revision of one that is there.                 *)
LEMMA NextRevision ==
    ASSUME NEW db, DatabaseInv(db), NEW action \in {"created", "updated", "restored"},
           NEW kind \in Pim!Kinds, NEW uid \in PimUids, NEW content \in Contents,
           kind = "task" => Completed(content),
           NEW revision, \/ revision = Pim!latestRevision(db, kind, uid) + 1
                         \/ /\ Pim!Present(db.records[kind][uid])
                            /\ revision = db.records[kind][uid].revision + 1
                         \/ Pim!Of(db, kind, uid) = {} /\ revision = 1
    PROVE  Advances(db, Pim!Record(db, action, kind, uid, [content |-> content, revision |-> revision]))
<1> DEFINE after == [content |-> content, revision |-> revision]
           latest == Pim!latestRevision(db, kind, uid)
           mine == Pim!Of(db, kind, uid)
<1>1. /\ latest \in 0..Len(db.log) /\ db.records[kind][uid].revision <= latest
      /\ \A i \in mine : db.log[i].before.revision <= latest /\ db.log[i].after.revision <= latest
  BY LatestIsHighest
<1>2. Len(db.log) \in Nat /\ db.records[kind][uid] \in Entities /\ db.records[kind][uid].revision \in Nat
  BY DEF DatabaseInv, Databases, Entities
<1>3. \A i \in mine : db.log[i].before.revision \in Nat /\ db.log[i].after.revision \in Nat
  <2>1. \A i \in mine : db.log[i] \in Transactions
    BY DEF Pim!Of, DatabaseInv, Databases
  <2> QED BY <2>1 DEF Transactions, Entities
<1>4. Pim!Present(db.records[kind][uid]) =>
        \A i \in mine : /\ db.log[i].before.revision <= db.records[kind][uid].revision
                        /\ db.log[i].after.revision <= db.records[kind][uid].revision
  BY DEF DatabaseInv, Highest
<1> HIDE DEF latest, mine
<1>5. revision \in 1..(Len(db.log) + 1)
  <2>1. CASE revision = latest + 1
    BY <1>1, <1>2, <2>1
  <2>2. CASE revision = db.records[kind][uid].revision + 1
    <3>1. db.records[kind][uid].revision <= Len(db.log)
      BY DEF DatabaseInv, Bounded
    <3> QED BY <1>2, <2>2, <3>1
  <2>3. CASE revision = 1
    BY <1>2, <2>3
  <2> QED BY <2>1, <2>2, <2>3 DEF latest
<1>6. \A i \in mine : db.log[i].before.revision < revision /\ db.log[i].after.revision < revision
  <2>1. CASE revision = latest + 1
    BY <1>1, <1>2, <1>3, <2>1
  <2>2. CASE /\ Pim!Present(db.records[kind][uid])
             /\ revision = db.records[kind][uid].revision + 1
    BY <1>2, <1>3, <1>4, <2>2
  <2>3. CASE mine = {}
    BY <2>3
  <2> QED BY <2>1, <2>2, <2>3 DEF latest, mine
<1>7. after \in Entities /\ after.content = content /\ after.revision = revision
  BY <1>5 DEF Entities
<1> HIDE DEF after
<1>8. Advances(db, Pim!Record(db, action, kind, uid, after))
  BY <1>5, <1>6, <1>7, RecordAdvances DEF mine
<1> QED BY <1>8 DEF after

(* What callers write, and what becomes of a task's content.                *)
LEMMA TaskContent ==
    ASSUME NEW content \in Contents
    PROVE  /\ Pim!normalizeTaskContent(content) \in Contents
           /\ Completed(Pim!normalizeTaskContent(content))
<1>1. CASE content.done
  BY <1>1, Zenon DEF Pim!normalizeTaskContent, Contents, Completed
<1>2. CASE ~content.done
  <2> DEFINE p == IF content.percent >= 100 THEN 99 ELSE content.percent
  <2>1. p \in Nat /\ p # 100
    BY DEF Contents
  <2>2. Pim!normalizeTaskContent(content) = [content EXCEPT !.stamped = FALSE, !.percent = p]
    BY <1>2 DEF Pim!normalizeTaskContent
  <2> HIDE DEF p
  <2> QED BY <1>2, <2>1, <2>2, Zenon DEF Contents, Completed
<1> QED BY <1>1, <1>2

LEMMA InputContents ==
    /\ \A kind : Pim!Inputs(kind) \subseteq Contents /\ Pim!Parsed(kind) \subseteq Contents
    /\ \A content \in Pim!Parsed("task") : Completed(content)
<1>1. ASSUME NEW kind
      PROVE  Pim!Inputs(kind) \subseteq Contents
  <2>1. ASSUME NEW text \in Texts, NEW members \in SUBSET PimUids,
               NEW done \in BOOLEAN, NEW percent \in {0, 100}
        PROVE  Pim!Content(text, members, done, percent, FALSE) \in Contents
    BY DEF Pim!Content, Contents
  <2>2. {} \in SUBSET PimUids /\ "x" \in Texts /\ "y" \in Texts
    BY DEF Texts
  <2>3. CASE kind = "task"
    <3>1. Pim!Inputs(kind) = [text : {"x"}, members : {{}}, done : BOOLEAN, percent : {0, 100}, stamped : {FALSE}]
      BY <2>3, Zenon DEF Pim!Inputs
    <3>2. ASSUME NEW A \in SUBSET Texts, NEW B \in SUBSET SUBSET PimUids,
                 NEW P \in SUBSET Nat, NEW D \in SUBSET BOOLEAN
          PROVE  \A content \in [text : A, members : B, done : BOOLEAN, percent : P, stamped : D] :
                    content \in Contents
      BY Zenon DEF Contents
    <3> DEFINE x == {"x"}
               none == {{}}
               percents == {0, 100}
               stamps == {FALSE}
    <3>3. /\ x \in SUBSET Texts /\ none \in SUBSET SUBSET PimUids
          /\ percents \in SUBSET Nat /\ stamps \in SUBSET BOOLEAN
      BY <2>2
    <3>4. Pim!Inputs(kind) = [text : x, members : none, done : BOOLEAN, percent : percents, stamped : stamps]
      BY <3>1
    <3> HIDE DEF x, none, percents, stamps
    <3>5. \A content \in Pim!Inputs(kind) : content \in Contents
      BY <3>2, <3>3, <3>4
    <3> QED BY <3>5
  <2>4. CASE kind = "mailing-list"
    <3>1. Pim!Inputs(kind) = {Pim!Content("x", members, FALSE, 0, FALSE) : members \in SUBSET PimUids}
      BY <2>4 DEF Pim!Inputs
    <3> QED BY <2>1, <2>2, <3>1, Zenon
  <2>5. CASE kind # "task" /\ kind # "mailing-list"
    <3>1. Pim!Inputs(kind) = {Pim!Content(text, {}, FALSE, 0, FALSE) : text \in {"x", "y"}}
      BY <2>5 DEF Pim!Inputs
    <3>2. \A text \in {"x", "y"} : Pim!Content(text, {}, FALSE, 0, FALSE) \in Contents
      BY <2>1, <2>2, Zenon
    <3> QED BY <3>1, <3>2, Zenon
  <2> QED BY <2>3, <2>4, <2>5
<1> QED BY <1>1, TaskContent DEF Pim!Parsed

LEMMA PatchedTask ==
    ASSUME NEW current \in Contents
    PROVE  \A content \in Pim!TaskPatches(current) : content \in Contents /\ Completed(content)
<1>1. /\ \A done \in BOOLEAN : [current EXCEPT !.done = done] \in Contents
      /\ \A percent \in {0, 100} : [current EXCEPT !.percent = percent] \in Contents
  <2>1. ASSUME NEW done \in BOOLEAN
        PROVE  [current EXCEPT !.done = done] \in Contents
    BY DEF Contents
  <2>2. ASSUME NEW percent \in {0, 100}
        PROVE  [current EXCEPT !.percent = percent] \in Contents
    BY DEF Contents
  <2> QED BY <2>1, <2>2
<1>2. ASSUME NEW content \in Pim!TaskPatches(current)
      PROVE  \E given \in Contents : content = Pim!normalizeTaskContent(given)
  BY <1>1, <1>2, Zenon DEF Pim!TaskPatches
<1> QED BY <1>2, TaskContent

(* One record of an import.                                                 *)
ItemSet ==
    {item \in [kind : Pim!Kinds, uid : PimUids, content : Contents] :
        item.kind = "task" => Completed(item.content)}
LEMMA UpsertedAdvances ==
    ASSUME NEW db, DatabaseInv(db), NEW item \in ItemSet
    PROVE  Advances(db, Pim!Upserted(db, item))
<1>1. /\ item.kind \in Pim!Kinds /\ item.uid \in PimUids /\ item.content \in Contents
      /\ item.kind = "task" => Completed(item.content)
  BY DEF ItemSet
<1>2. Advances(db, db)
  BY DEF Advances, DatabaseInv, Databases
<1>3. CASE Pim!Present(db.records[item.kind][item.uid]) /\ db.records[item.kind][item.uid].content # item.content
  <2>1. Pim!Upserted(db, item) = Pim!Record(db, "updated", item.kind, item.uid,
            [content |-> item.content, revision |-> db.records[item.kind][item.uid].revision + 1])
    BY <1>3 DEF Pim!Upserted
  <2> QED BY <1>1, <1>3, <2>1, NextRevision
<1>4. CASE ~Pim!Present(db.records[item.kind][item.uid])
  <2>1. Pim!Upserted(db, item) = Pim!Record(db, "created", item.kind, item.uid,
            [content |-> item.content, revision |-> Pim!latestRevision(db, item.kind, item.uid) + 1])
    BY <1>4 DEF Pim!Upserted
  <2> QED BY <1>1, <2>1, NextRevision
<1> QED BY <1>2, <1>3, <1>4 DEF Pim!Upserted

LEMMA ItemAdvances ==
    ASSUME NEW db, DatabaseInv(db), NEW ok \in BOOLEAN, NEW item \in ItemSet \cup {Pim!NoItem},
           NEW policy \in {"skip", "update"},
           NEW result, \/ result = Pim!VCardItem(Pim!Result(db, ok), item)
                       \/ result = Pim!ICalendarItem(policy, Pim!Result(db, ok), item)
    PROVE  /\ Advances(db, result.db) /\ result.ok \in BOOLEAN
           /\ result = Pim!Result(result.db, result.ok)
<1> DEFINE given == Pim!Result(db, ok)
<1>1. given.db = db /\ given.ok = ok /\ Advances(db, db)
  BY DEF Pim!Result, Advances, DatabaseInv, Databases
<1>2. item # Pim!NoItem => Advances(db, Pim!Upserted(db, item))
  BY UpsertedAdvances
<1>3. \/ result = given
      \/ \E b \in BOOLEAN : result = Pim!Result(db, b)
      \/ item # Pim!NoItem /\ result = Pim!Result(Pim!Upserted(db, item), TRUE)
  <2> HIDE DEF given
  <2>1. \/ result = Pim!VCardItem(given, item) \/ result = Pim!ICalendarItem(policy, given, item)
    BY DEF given
  <2> QED BY <1>1, <2>1, Zenon DEF Pim!VCardItem, Pim!ICalendarItem
<1>4. \A new, b : Pim!Result(new, b).db = new /\ Pim!Result(new, b).ok = b
  BY DEF Pim!Result
<1>5. CASE result = given
  BY <1>1, <1>5
<1>6. CASE \E b \in BOOLEAN : result = Pim!Result(db, b)
  BY <1>1, <1>4, <1>6
<1>7. CASE item # Pim!NoItem /\ result = Pim!Result(Pim!Upserted(db, item), TRUE)
  BY <1>2, <1>4, <1>7, Zenon
<1> QED BY <1>3, <1>5, <1>6, <1>7, Zenon

(* The record of no record.                                                 *)
LEMMA NoRecord ==
    Pim!Absent \in Entities /\ Completed(Pim!Absent.content) /\ Pim!Absent.revision = 0
<1>1. ASSUME NEW text \in Texts
      PROVE  LET content == Pim!Content(text, {}, FALSE, 0, FALSE)
                 entity == [content |-> content, revision |-> 0]
             IN entity \in Entities /\ Completed(entity.content) /\ entity.revision = 0
  BY DEF Pim!Content, Entities, Contents, Completed
<1>2. "" \in Texts
  BY DEF Texts
<1> QED BY <1>1, <1>2, Zenon DEF Pim!Absent

(* A change of the state, by a call that is not a refresh.                  *)
LEMMA StateAdvances ==
    ASSUME PimInv, Advances(sDb, sDb'), UNCHANGED <<sCalls, sStale>>
    PROVE  PimInv'
<1>1. sDb.taskVersion \in Nat /\ sDb'.taskVersion \in Nat
  BY DEF PimInv, Advances, DatabaseInv, Databases
<1>2. ASSUME NEW c \in Refreshes
      PROVE  Seen(sCalls[c])'
  <2>1. Seen(sCalls[c]) /\ sCalls[c]' = sCalls[c]
    BY DEF PimInv
  <2>2. /\ sDb.taskVersion <= sDb'.taskVersion
        /\ sDb.taskVersion = sDb'.taskVersion => sDb.records["task"] = sDb'.records["task"]
    BY DEF Advances
  <2> QED BY <1>1, <2>1, <2>2 DEF Seen
<1>3. DatabaseInv(sDb)'
  BY DEF Advances
<1> QED BY <1>2, <1>3 DEF PimInv

(* What a record of the state is, and what may be restored of it.           *)
LEMMA StateRecords ==
    ASSUME PimInv, NEW kind \in Pim!Kinds, NEW uid \in PimUids
    PROVE  /\ sDb.records[kind][uid].content \in Contents
           /\ \A i \in Pim!Of(sDb, kind, uid) :
                 LET source == Pim!RestoreSource(sDb.log[i])
                 IN source.content \in Contents /\ (kind = "task" => Completed(source.content))
<1>1. sDb \in Databases /\ TasksCompleted(sDb)
  BY DEF PimInv, DatabaseInv
<1>2. sDb.records[kind][uid].content \in Contents
  BY <1>1 DEF Databases, Entities
<1>3. ASSUME NEW i \in Pim!Of(sDb, kind, uid)
      PROVE  LET source == Pim!RestoreSource(sDb.log[i])
             IN source.content \in Contents /\ (kind = "task" => Completed(source.content))
  <2>1. i \in DOMAIN sDb.log /\ sDb.log[i] \in Transactions /\ sDb.log[i].kind = kind
    BY <1>1, <1>3 DEF Databases, Pim!Of
  <2>2. /\ sDb.log[i].before.content \in Contents /\ sDb.log[i].after.content \in Contents
        /\ kind = "task" => /\ Completed(sDb.log[i].before.content)
                            /\ Completed(sDb.log[i].after.content)
    BY <1>1, <2>1 DEF Transactions, Entities, TasksCompleted
  <2>3. Pim!RestoreSource(sDb.log[i]) \in {sDb.log[i].before, sDb.log[i].after}
    BY DEF Pim!RestoreSource
  <2> QED BY <2>2, <2>3
<1> QED BY <1>2, <1>3

LEMMA CreatesSafe ==
    ASSUME PimInv, NEW kind \in Pim!Kinds, NEW uid \in PimUids, NEW content \in Contents,
           kind = "task" => Completed(content), Pim!Creates(kind, uid, content)
    PROVE  PimInv'
<1>1. /\ sDb' = Pim!Record(sDb, "created", kind, uid, [content |-> content, revision |-> 1])
      /\ Pim!Of(sDb, kind, uid) = {} /\ UNCHANGED <<sCalls, sStale>>
  BY DEF Pim!Creates, Pim!Mutates, Pim!availableUid, Pim!isHistoricalUid
<1>2. DatabaseInv(sDb)
  BY DEF PimInv
<1>3. Advances(sDb, sDb')
  BY <1>1, <1>2, NextRevision
<1> QED BY <1>1, <1>3, StateAdvances

LEMMA UpdatesSafe ==
    ASSUME PimInv, NEW kind \in Pim!Kinds, NEW uid \in PimUids, NEW content \in Contents,
           kind = "task" => Completed(content), Pim!RecordUpdates(kind, uid, content)
    PROVE  PimInv'
<1>1. /\ Pim!Present(sDb.records[kind][uid]) /\ UNCHANGED <<sCalls, sStale>>
      /\ sDb' = Pim!Record(sDb, "updated", kind, uid,
                    [content |-> content, revision |-> sDb.records[kind][uid].revision + 1])
  BY DEF Pim!RecordUpdates, Pim!Mutates
<1>2. DatabaseInv(sDb)
  BY DEF PimInv
<1>3. Advances(sDb, sDb')
  BY <1>1, <1>2, NextRevision
<1> QED BY <1>1, <1>3, StateAdvances

LEMMA DeletesSafe ==
    ASSUME PimInv, NEW kind \in Pim!Kinds, NEW uid \in PimUids, Pim!Deletes(kind, uid)
    PROVE  PimInv'
<1>1. sDb' = Pim!Record(sDb, "deleted", kind, uid, Pim!Absent) /\ UNCHANGED <<sCalls, sStale>>
  BY DEF Pim!Deletes, Pim!Mutates
<1>2. DatabaseInv(sDb)
  BY DEF PimInv
<1>3. Advances(sDb, sDb')
  BY <1>1, <1>2, NoRecord, RecordAdvances
<1> QED BY <1>1, <1>3, StateAdvances

LEMMA RestoreSafe ==
    ASSUME PimInv, NEW kind \in Pim!Kinds, NEW uid \in PimUids, Pim!Restore(kind, uid)
    PROVE  PimInv'
<1>1. PICK i \in Pim!Of(sDb, kind, uid) :
         sDb' = Pim!Record(sDb, "restored", kind, uid,
                    [content |-> Pim!RestoreSource(sDb.log[i]).content,
                     revision |-> Pim!latestRevision(sDb, kind, uid) + 1])
  BY DEF Pim!Restore, Pim!Mutates
<1>2. UNCHANGED <<sCalls, sStale>>
  BY DEF Pim!Restore
<1>3. DatabaseInv(sDb)
  BY DEF PimInv
<1>4. Advances(sDb, sDb')
  BY <1>1, <1>3, StateRecords, NextRevision
<1> QED BY <1>2, <1>4, StateAdvances

LEMMA ImportSafe ==
    ASSUME PimInv, Pim!ImportVCard \/ Pim!ImportICalendar
    PROVE  PimInv'
<1>1. ASSUME NEW kind \in Pim!Kinds
      PROVE  Pim!Items(kind) \subseteq ItemSet \cup {Pim!NoItem}
  BY InputContents DEF Pim!Items, ItemSet
<1>2. DatabaseInv(sDb) /\ {"contact", "mailing-list", "calendar-event", "task"} \subseteq Pim!Kinds
  BY DEF PimInv, Pim!Kinds
<1>3. ASSUME NEW first \in ItemSet \cup {Pim!NoItem}, NEW second \in ItemSet \cup {Pim!NoItem},
             NEW policy \in {"skip", "update"}, NEW middle, NEW end,
             \/ /\ middle = Pim!VCardItem(Pim!Result(sDb, TRUE), first)
                /\ end = Pim!VCardItem(middle, second)
             \/ /\ middle = Pim!ICalendarItem(policy, Pim!Result(sDb, TRUE), first)
                /\ end = Pim!ICalendarItem(policy, middle, second),
             Pim!Applies(end)
      PROVE  PimInv'
  <2>1. /\ Advances(sDb, middle.db) /\ middle.ok \in BOOLEAN
        /\ middle = Pim!Result(middle.db, middle.ok)
    <3>1. \/ middle = Pim!VCardItem(Pim!Result(sDb, TRUE), first)
          \/ middle = Pim!ICalendarItem(policy, Pim!Result(sDb, TRUE), first)
      BY <1>3, Zenon
    <3> DEFINE ok == TRUE
    <3>2. /\ ok \in BOOLEAN
          /\ \/ middle = Pim!VCardItem(Pim!Result(sDb, ok), first)
             \/ middle = Pim!ICalendarItem(policy, Pim!Result(sDb, ok), first)
      BY <3>1, Zenon
    <3> HIDE DEF ok
    <3> QED BY <1>2, <3>2, ItemAdvances
  <2>2. Advances(middle.db, end.db)
    <3>1. \/ end = Pim!VCardItem(Pim!Result(middle.db, middle.ok), second)
          \/ end = Pim!ICalendarItem(policy, Pim!Result(middle.db, middle.ok), second)
      BY <1>3, <2>1, Zenon
    <3>2. DatabaseInv(middle.db)
      BY <2>1 DEF Advances
    <3> DEFINE db == middle.db
               ok == middle.ok
    <3>3. /\ DatabaseInv(db) /\ ok \in BOOLEAN
          /\ \/ end = Pim!VCardItem(Pim!Result(db, ok), second)
             \/ end = Pim!ICalendarItem(policy, Pim!Result(db, ok), second)
      BY <2>1, <3>1, <3>2
    <3> HIDE DEF db, ok
    <3>4. Advances(db, end.db)
      BY <3>3, ItemAdvances
    <3> QED BY <3>4 DEF db
  <2>3. Advances(sDb, sDb') /\ UNCHANGED <<sCalls, sStale>>
    BY <1>2, <1>3, <2>1, <2>2, AdvancesOn DEF Pim!Applies, Pim!Mutates
  <2> QED BY <2>3, StateAdvances
<1>4. CASE Pim!ImportVCard
  BY <1>1, <1>2, <1>3, <1>4, Zenon DEF Pim!ImportVCard
<1>5. CASE Pim!ImportICalendar
  BY <1>1, <1>2, <1>3, <1>5, Zenon DEF Pim!ImportICalendar
<1> QED BY <1>4, <1>5

(* A refresh that is still the latest one, and whose tasks have the version *)
(* it saw, has seen the tasks it is applied to.                             *)
LEMMA RefreshSafe ==
    ASSUME PimInv, NEW c \in Refreshes,
           \/ Pim!BeginRefresh(c) \/ Pim!Loaded(c)
           \/ \E uid \in PimUids : Pim!ApplyRefresh(c, uid)
    PROVE  PimInv'
<1>1. /\ sDb \in Databases /\ sDb.taskVersion \in Nat /\ "task" \in Pim!Kinds
      /\ sDb.records["task"] \in [PimUids -> Entities] /\ DatabaseInv(sDb)
  BY DEF PimInv, DatabaseInv, Databases, Pim!Kinds
<1>2. CASE Pim!BeginRefresh(c)
  BY <1>1, <1>2 DEF Pim!BeginRefresh, PimInv, Seen
<1>3. Pim!Idle \in [step : {"idle", "loading", "mutate"}, base : Nat, tasks : [PimUids -> Entities]]
  BY NoRecord DEF Pim!Idle
<1>4. CASE Pim!Loaded(c)
  BY <1>1, <1>3, <1>4, Zenon DEF Pim!Loaded, PimInv, Seen, Pim!Idle
<1>5. ASSUME NEW uid \in PimUids, Pim!ApplyRefresh(c, uid)
      PROVE  PimInv'
  <2>1. sCalls[c].step = "mutate" /\ sCalls' = [sCalls EXCEPT ![c] = Pim!Idle]
    BY <1>5 DEF Pim!ApplyRefresh
  <2>2. Advances(sDb, sDb') /\ ~sStale'
    <3>1. Advances(sDb, sDb)
      BY <1>1 DEF Advances
    <3>2. CASE UNCHANGED <<sDb, sStale>>
      BY <3>1, <3>2 DEF PimInv
    <3>3. CASE ~UNCHANGED <<sDb, sStale>>
      <4>1. PICK content \in IF Pim!Present(sDb.records["task"][uid])
                             THEN Pim!TaskPatches(sDb.records["task"][uid].content) ELSE Pim!Parsed("task") :
              LET result == Pim!VCardItem(Pim!Result(sDb, TRUE), [kind |-> "task", uid |-> uid, content |-> content])
              IN /\ Pim!Current(c) /\ sDb' = result.db
                 /\ sStale' = (sStale \/ (result.db # sDb
                                     /\ (sCalls[c].tasks # sDb.records["task"] \/ c # sLatest)))
        BY <1>5, <3>3, Zenon DEF Pim!ApplyRefresh, Pim!Mutates
      <4>2. content \in Contents /\ Completed(content)
        BY <1>1, <4>1, StateRecords, PatchedTask, InputContents
      <4> DEFINE item == [kind |-> "task", uid |-> uid, content |-> content]
                 result == Pim!VCardItem(Pim!Result(sDb, TRUE), item)
      <4>3. item \in ItemSet
        BY <1>1, <4>2 DEF ItemSet
      <4>4. Advances(sDb, result.db)
        <5> HIDE DEF item
        <5> QED BY <1>1, <4>3, ItemAdvances, Zenon
      <4>5. sCalls[c].tasks = sDb.records["task"] /\ c = sLatest
        BY <2>1, <4>1 DEF Pim!Current, PimInv, Seen
      <4> QED BY <4>1, <4>4, <4>5, Zenon DEF PimInv
    <3> QED BY <3>2, <3>3
  <2> QED BY <1>1, <1>3, <2>1, <2>2 DEF PimInv, Seen, Advances, Pim!Idle, DatabaseInv, Databases
<1> QED BY <1>2, <1>4, <1>5

LEMMA PimStart ==
    ASSUME Pim!PimServiceInit
    PROVE  PimInv
<1>1. Pim!Absent \in Entities /\ Completed(Pim!Absent.content) /\ Pim!Absent.revision = 0
  BY NoRecord
<1>2. /\ sDb = [records |-> [k \in Pim!Kinds |-> [u \in PimUids |-> Pim!Absent]], log |-> <<>>, taskVersion |-> 0]
      /\ sCalls = [c \in Refreshes |-> Pim!Idle] /\ ~sStale
  BY DEF Pim!PimServiceInit
<1> DEFINE records == [k \in Pim!Kinds |-> [u \in PimUids |-> Pim!Absent]]
<1>3. records \in [Pim!Kinds -> [PimUids -> Entities]] /\ <<>> \in Seq(Transactions)
  BY <1>1
<1>4. /\ sDb.records = records /\ sDb.log = <<>> /\ sDb.taskVersion = 0 /\ DOMAIN sDb.log = {}
      /\ Len(sDb.log) = 0
      /\ \A k \in Pim!Kinds, u \in PimUids : sDb.records[k][u] = Pim!Absent
  BY <1>2
<1>5. sDb \in Databases
  <2> HIDE DEF records
  <2>1. sDb = [records |-> records, log |-> <<>>, taskVersion |-> 0]
    BY <1>2 DEF records
  <2> QED BY <1>3, <2>1 DEF Databases
<1>6. \A k \in Pim!Kinds, u \in PimUids : Pim!Of(sDb, k, u) = {}
  BY <1>4 DEF Pim!Of
<1>7. Explained(sDb) /\ Highest(sDb) /\ Bounded(sDb) /\ OneContent(sDb)
  <2>1. Explained(sDb)
    BY <1>4, <1>6 DEF Explained, Pim!After
  <2>2. Highest(sDb) /\ OneContent(sDb)
    BY <1>4, <1>6 DEF Highest, OneContent
  <2>3. Bounded(sDb)
    BY <1>1, <1>4 DEF Bounded
  <2> QED BY <2>1, <2>2, <2>3
<1>8. TasksCompleted(sDb)
  <2>1. "task" \in Pim!Kinds
    BY DEF Pim!Kinds
  <2> QED BY <1>1, <1>4, <2>1 DEF TasksCompleted
<1>9. Pim!Idle \in [step : {"idle", "loading", "mutate"}, base : Nat, tasks : [PimUids -> Entities]]
  BY <1>1 DEF Pim!Idle
<1> QED BY <1>2, <1>5, <1>7, <1>8, <1>9 DEF PimInv, DatabaseInv, Seen, Pim!Idle

LEMMA PimStep ==
    ASSUME PimInv, Pim!PimServiceNext
    PROVE  PimInv'
<1>1. {"contact", "mailing-list", "calendar-event", "task"} \subseteq Pim!Kinds
  BY DEF Pim!Kinds
<1>2. ASSUME NEW uid \in PimUids,
             \/ Pim!CreateContact(uid) \/ Pim!CreateMailingList(uid) \/ Pim!CreateCalendarEvent(uid)
      PROVE  PimInv'
  <2>1. \A kind \in {"contact", "mailing-list", "calendar-event"} :
           kind \in Pim!Kinds /\ kind # "task" /\ Pim!Inputs(kind) \subseteq Contents
    BY <1>1, InputContents
  <2> QED BY <1>2, <2>1, CreatesSafe DEF Pim!CreateContact, Pim!CreateMailingList, Pim!CreateCalendarEvent
<1>3. ASSUME NEW uid \in PimUids, Pim!CreateTask(uid)
      PROVE  PimInv'
  <2>1. PICK content \in Pim!Inputs("task") : Pim!Creates("task", uid, Pim!normalizeTaskContent(content))
    BY <1>3 DEF Pim!CreateTask
  <2>2. content \in Contents
    BY InputContents
  <2> QED BY <1>1, <2>1, <2>2, TaskContent, CreatesSafe
<1>4. ASSUME NEW uid \in PimUids, Pim!UpdateContact(uid) \/ Pim!UpdateCalendarEvent(uid)
      PROVE  PimInv'
  <2>1. \A kind \in {"contact", "calendar-event"} :
           kind \in Pim!Kinds /\ kind # "task" /\ Pim!Inputs(kind) \subseteq Contents
    BY <1>1, InputContents
  <2> QED BY <1>4, <2>1, UpdatesSafe DEF Pim!UpdateContact, Pim!UpdateCalendarEvent
<1>5. ASSUME NEW uid \in PimUids, Pim!UpdateMailingList(uid)
      PROVE  PimInv'
  <2> DEFINE current == sDb.records["mailing-list"][uid].content
  <2>1. current \in Contents
    BY <1>1, StateRecords
  <2>2. \E content \in Contents : Pim!RecordUpdates("mailing-list", uid, content)
    <3>1. CASE \E text \in {"x", "y"} : Pim!RecordUpdates("mailing-list", uid, [current EXCEPT !.text = text])
      <4>1. \A text \in {"x", "y"} : [current EXCEPT !.text = text] \in Contents
        BY <2>1, Zenon DEF Contents, Texts
      <4> QED BY <3>1, <4>1
    <3>2. CASE \E members \in SUBSET PimUids :
                  Pim!RecordUpdates("mailing-list", uid, [current EXCEPT !.members = members])
      <4>1. \A members \in SUBSET PimUids : [current EXCEPT !.members = members] \in Contents
        BY <2>1 DEF Contents
      <4> QED BY <3>2, <4>1
    <3> QED BY <1>5, <3>1, <3>2, Zenon DEF Pim!UpdateMailingList
  <2> QED BY <1>1, <2>2, UpdatesSafe
<1>6. ASSUME NEW uid \in PimUids, Pim!UpdateTask(uid)
      PROVE  PimInv'
  <2>1. sDb.records["task"][uid].content \in Contents
    BY <1>1, StateRecords
  <2> QED BY <1>1, <1>6, <2>1, PatchedTask, UpdatesSafe DEF Pim!UpdateTask
<1>7. ASSUME NEW uid \in PimUids,
             \/ Pim!DeleteContact(uid) \/ Pim!DeleteMailingList(uid)
             \/ Pim!DeleteCalendarEvent(uid) \/ Pim!DeleteTask(uid)
      PROVE  PimInv'
  BY <1>1, <1>7, DeletesSafe
     DEF Pim!DeleteContact, Pim!DeleteMailingList, Pim!DeleteCalendarEvent, Pim!DeleteTask
<1> QED BY <1>2, <1>3, <1>4, <1>5, <1>6, <1>7, RestoreSafe, ImportSafe, RefreshSafe DEF Pim!PimServiceNext

LEMMA PimRests ==
    ASSUME PimInv, UNCHANGED pimServiceVars
    PROVE  PimInv'
BY DEF PimInv, Seen, pimServiceVars

(* The journal of the PIM records explains them: a record is what its       *)
(* transactions say, a revision stands for one content, a task is complete  *)
(* in every way or in none, and no refresh lands on tasks it has not seen   *)
(* (pim-service.ts).  The invariant adds that a record that is there has    *)
(* the highest revision of its transactions, that no revision exceeds their *)
(* number, and that a refresh which finds the version it began with finds   *)
(* the tasks it began with.                                                 *)
THEOREM RecordsStayExplained == ServicesSpec => []RecordsExplained
<1>1. ServicesInit => PimInv
  BY PimStart DEF ServicesInit
<1>2. PimInv /\ [ServicesNext]_servicesVars => PimInv'
  <2>1. ASSUME PimInv, ServicesNext PROVE PimInv'
    <3>1. Pim!PimServiceNext \/ UNCHANGED pimServiceVars
      BY <2>1 DEF ServicesNext
    <3> QED BY <2>1, <3>1, PimStep, PimRests
  <2>2. ASSUME PimInv, UNCHANGED servicesVars PROVE PimInv'
    <3>1. UNCHANGED pimServiceVars
      BY <2>2 DEF servicesVars
    <3> QED BY <2>2, <3>1, PimRests
  <2> QED BY <2>1, <2>2
<1>3. PimInv => RecordsExplained
  <2>1. ASSUME PimInv
        PROVE  Pim!JournalComplete /\ Pim!RevisionsUnique
    BY <2>1 DEF PimInv, DatabaseInv, Explained, OneContent, Pim!JournalComplete, Pim!RevisionsUnique
  <2>2. ASSUME PimInv
        PROVE  Pim!CompletionConsistent /\ Pim!RefreshNeverStale
    BY <2>2 DEF PimInv, DatabaseInv, TasksCompleted, Completed,
                Pim!CompletionConsistent, Pim!RefreshNeverStale
  <2> QED BY <2>1, <2>2 DEF RecordsExplained
<1> QED BY <1>1, <1>2, <1>3, PTL DEF ServicesSpec
-----------------------------------------------------------------------------
(***************************************************************************)
(* The local history.                                                      *)
(***************************************************************************)
IsSeq(s) == \E S : s \in Seq(S)
(* Every revision the user labelled is in the history, with its note.      *)
Labelled(chain) ==
    \A n \in hAsked : \E i \in DOMAIN chain : chain[i].n = n /\ SubSeq(chain, 1, i) \in hNotes
(* A prune rewrites every commit that its preview did not list, the labels *)
(* with them, and goes on if the last one holds what HEAD holds.           *)
Carried(p) ==
    \A i \in DOMAIN p.from :
        SubSeq(p.from, 1, i) \in p.shown.eligible \/ \E k \in DOMAIN p.to : p.to[k] = p.from[i]
PruneInv ==
    hPrune # Local!Nothing =>
        /\ IsSeq(hPrune.from) /\ IsSeq(hPrune.to) /\ hPrune.to # <<>> /\ hPrune.from # <<>>
        /\ Carried(hPrune) /\ Labelled(hPrune.to)
        /\ hPrune.step = "swap" =>
              hPrune.to[Len(hPrune.to)].tree = hPrune.from[Len(hPrune.from)].tree
(* What a restore is about to replace is the last commit, unless it was    *)
(* written since the restore made its snapshot.                            *)
RestoreInv ==
    hRestore.step = "replace" => hMeanwhile \/ (hChain # <<>> /\ hChain[Len(hChain)].tree = hState)
LocalInv == IsSeq(hChain) /\ Labelled(hChain) /\ PruneInv /\ RestoreInv /\ ~hReplacedLost

LEMMA LocalStart == Local!HistoryInit => LocalInv
BY DEF Local!HistoryInit, LocalInv, IsSeq, Labelled, PruneInv, RestoreInv, Local!Nothing

LEMMA Prefix ==
    ASSUME NEW s, IsSeq(s), NEW i \in 1..Len(s)
    PROVE  /\ IsSeq(SubSeq(s, 1, i)) /\ Len(SubSeq(s, 1, i)) = i
           /\ SubSeq(s, 1, i) # <<>>
           /\ Local!Last(SubSeq(s, 1, i)) = s[i]
           /\ DOMAIN SubSeq(s, 1, i) = 1..i
           /\ \A k \in 1..i : SubSeq(s, 1, i)[k] = s[k]
<1>1. PICK S : s \in Seq(S)
  BY DEF IsSeq
<1>2. PICK t : t = SubSeq(s, 1, i)
  OBVIOUS
<1>3. t \in Seq(S) /\ Len(t) = i /\ \A k \in 1..i : t[k] = s[k]
  BY <1>1, <1>2
<1>4. IsSeq(t)
  BY <1>3 DEF IsSeq
<1>5. i \in Nat /\ i > 0
  BY <1>1
<1>6. DOMAIN t = 1..i /\ t # <<>>
  BY <1>3, <1>5
<1>7. Local!Last(t) = t[Len(t)]
  BY DEF Local!Last
<1>8. Local!Last(t) = s[i]
  BY <1>3, <1>5, <1>7
<1> QED BY <1>2, <1>3, <1>4, <1>6, <1>8

LEMMA Longer ==
    ASSUME NEW s, IsSeq(s), NEW x
    PROVE  /\ IsSeq(Append(s, x)) /\ Append(s, x) # <<>>
           /\ Len(Append(s, x)) = Len(s) + 1 /\ Append(s, x)[Len(Append(s, x))] = x
           /\ \A i \in DOMAIN s : i \in DOMAIN Append(s, x) /\ Append(s, x)[i] = s[i]
                                  /\ SubSeq(Append(s, x), 1, i) = SubSeq(s, 1, i)
<1>1. PICK S : s \in Seq(S)
  BY DEF IsSeq
<1> DEFINE t == Append(s, x)
<1>2. s \in Seq(S \cup {x})
  BY <1>1
<1>3. t \in Seq(S \cup {x}) /\ Len(t) = Len(s) + 1 /\ t[Len(s) + 1] = x /\ \A i \in 1..Len(s) : t[i] = s[i]
  BY <1>2
<1>4. IsSeq(t)
  BY <1>3 DEF IsSeq
<1> HIDE DEF t
<1>5. DOMAIN s = 1..Len(s) /\ DOMAIN t = 1..Len(t) /\ Len(s) \in Nat
  BY <1>2, <1>3
<1>6. ASSUME NEW i \in DOMAIN s PROVE SubSeq(t, 1, i) = SubSeq(s, 1, i)
  <2>1. i \in 1..Len(s) /\ i \in 1..Len(t)
    BY <1>3, <1>5
  <2>2. SubSeq(t, 1, i) \in Seq(S \cup {x}) /\ SubSeq(s, 1, i) \in Seq(S \cup {x})
    BY <1>2, <1>3, <2>1
  <2>3. DOMAIN SubSeq(s, 1, i) = 1..i /\ \A k \in 1..i : SubSeq(s, 1, i)[k] = s[k]
    BY <2>1, Prefix
  <2>4. DOMAIN SubSeq(t, 1, i) = 1..i /\ \A k \in 1..i : SubSeq(t, 1, i)[k] = t[k]
    BY <2>1, <1>4, Prefix
  <2>5. \A k \in 1..i : t[k] = s[k]
    BY <1>3, <1>5, <2>1
  <2>6. Len(SubSeq(s, 1, i)) = i /\ Len(SubSeq(t, 1, i)) = i
    BY <1>4, <2>1, Prefix
  <2> QED BY <2>2, <2>3, <2>4, <2>5, <2>6
<1> QED BY <1>3, <1>4, <1>5, <1>6 DEF t
LEMMA LocalCount == \A S : Local!Cardinality(S) = Cardinality(S)
BY Zenon DEF Local!Cardinality, Cardinality

(* What is retained has its place in the rewritten history.                *)
LEMMA RewrittenKeeps ==
    ASSUME IsSeq(hChain), NEW shown
    PROVE  /\ IsSeq(Local!Rewritten(shown))
           /\ \A i \in Local!Retained(shown) :
                 /\ Local!Place(shown, i) \in DOMAIN Local!Rewritten(shown)
                 /\ Local!Rewritten(shown)[Local!Place(shown, i)] = hChain[i]
<1> DEFINE keep == Local!Retained(shown)
           Upto(i) == {j \in keep : j <= i}
           place(i) == Local!Place(shown, i)
           to == Local!Rewritten(shown)
<1>1. DOMAIN hChain = 1..Len(hChain) /\ Len(hChain) \in Nat
  BY DEF IsSeq
<1>2. keep \subseteq 1..Len(hChain)
  BY <1>1 DEF Local!Retained
<1>3. IsFiniteSet(keep) /\ Cardinality(keep) \in Nat
  <2>1. IsFiniteSet(1..Len(hChain))
    BY <1>1, FS_Interval
  <2> QED BY <1>2, <2>1, FS_Subset, FS_CardinalityType
<1>4. to = [k \in 1..Cardinality(keep) |-> hChain[CHOOSE i \in keep : place(i) = k]]
  BY LocalCount DEF Local!Rewritten
<1>5. \A i : place(i) = Cardinality(Upto(i))
  BY LocalCount DEF Local!Place
<1> HIDE DEF keep, place, to
<1>6. ASSUME NEW i \in keep PROVE place(i) \in 1..Cardinality(keep)
  <2>1. Upto(i) \subseteq keep /\ i \in Upto(i)
    BY <1>2
  <2>2. IsFiniteSet(Upto(i)) /\ Cardinality(Upto(i)) <= Cardinality(keep) /\ Cardinality(Upto(i)) \in Nat
    BY <1>3, <2>1, FS_Subset, FS_CardinalityType
  <2>3. Cardinality(Upto(i)) # 0
    BY <2>1, <2>2, FS_EmptySet
  <2> QED BY <1>3, <1>5, <2>2, <2>3
<1>7. ASSUME NEW i \in keep, NEW j \in keep, i < j PROVE place(i) # place(j)
  <2>1. Upto(i) \subseteq Upto(j) /\ j \in Upto(j) /\ j \notin Upto(i) /\ Upto(j) \subseteq keep
    <3>1. \A k \in keep : k \in Nat
      BY <1>1, <1>2
    <3> QED BY <1>7, <3>1
  <2>2. IsFiniteSet(Upto(j))
    BY <1>3, <2>1, FS_Subset
  <2>3. Cardinality(Upto(i)) < Cardinality(Upto(j))
    <3>1. Upto(i) # Upto(j)
      BY <2>1
    <3> QED BY <2>1, <2>2, <3>1, FS_Subset, FS_CardinalityType
  <2> QED BY <1>5, <2>2, <2>3, <2>1, FS_Subset, FS_CardinalityType
<1>8. ASSUME NEW i \in keep PROVE place(i) \in DOMAIN to /\ to[place(i)] = hChain[i]
  <2>1. \A j \in keep : place(j) = place(i) => j = i
    BY <1>1, <1>2, <1>7
  <2>2. (CHOOSE j \in keep : place(j) = place(i)) = i
    BY <2>1
  <2> QED BY <1>4, <1>6, <2>2
<1>9. IsSeq(to)
  <2> DEFINE S == {to[k] : k \in 1..Cardinality(keep)}
  <2>1. to \in [1..Cardinality(keep) -> S]
    BY <1>4, Zenon
  <2>2. to \in Seq(S)
    BY <2>1, <1>3
  <2> QED BY <2>2 DEF IsSeq
<1> QED BY <1>8, <1>9 DEF keep, place, to
(* A prune begins: it drops what its preview showed, and nothing labelled. *)
LEMMA PruneBegun == LocalInv /\ Local!BeginPrune => LocalInv'
<1> SUFFICES ASSUME LocalInv, Local!BeginPrune PROVE LocalInv'
    OBVIOUS
<1> DEFINE shown == Head(hQueue).shown
           to == Local!Rewritten(shown)
<1>1. /\ IsSeq(hChain) /\ Labelled(hChain) /\ RestoreInv /\ ~hReplacedLost
      /\ UNCHANGED <<hChain, hState, hRestore, hAsked, hMeanwhile, hReplacedLost>>
      /\ hNotes \subseteq hNotes'
  BY DEF LocalInv, Local!BeginPrune
<1>2. IsSeq(hChain)' /\ Labelled(hChain)' /\ RestoreInv' /\ ~hReplacedLost'
  BY <1>1 DEF IsSeq, Labelled, RestoreInv
<1>3. CASE hPrune' = hPrune
  <2>1. hPrune = Local!Nothing
    BY DEF Local!BeginPrune, Local!Runs
  <2> QED BY <1>2, <1>3, <2>1 DEF LocalInv, PruneInv
<1>4. CASE /\ Local!StillAsShown(shown) /\ hNotes' = hNotes \cup Local!CopiedNotes(shown)
           /\ hPrune' = [step |-> "check", shown |-> shown, to |-> to, from |-> hChain]
  <2>1. DOMAIN hChain = 1..Len(hChain) /\ Len(hChain) \in Nat
    BY <1>1 DEF IsSeq
  <2>2. shown.eligible = Local!Eligible(hChain, hNotes, shown.cutoff) /\ shown.eligible # {}
    BY <1>4 DEF Local!StillAsShown
  <2>3. \A c \in shown.eligible : c \notin hNotes /\ \E j \in 1..(Len(hChain) - 1) : c = SubSeq(hChain, 1, j)
    BY <2>2, Zenon DEF Local!Eligible
  <2>4. Len(hChain) > 0
    BY <2>1, <2>2, <2>3
  <2>5. SubSeq(hChain, 1, Len(hChain)) \notin shown.eligible
    <3>1. \A j \in 1..(Len(hChain) - 1) : j \in 1..Len(hChain) /\ j # Len(hChain)
      <4>1. \A m \in Nat : \A j \in 1..(m - 1) : j \in 1..m /\ j # m
        OBVIOUS
      <4> QED BY <2>1, <4>1, Zenon
    <3>2. \A j \in 1..Len(hChain) : Len(SubSeq(hChain, 1, j)) = j
      BY <1>1, Prefix
    <3>3. Len(hChain) \in 1..Len(hChain)
      BY <2>1, <2>4
    <3> QED BY <2>3, <3>1, <3>2, <3>3, Zenon
  <2>6. /\ IsSeq(to)
        /\ \A i \in Local!Retained(shown) :
              Local!Place(shown, i) \in DOMAIN to /\ to[Local!Place(shown, i)] = hChain[i]
    BY <1>1, RewrittenKeeps
  <2>7. \A i \in DOMAIN hChain : SubSeq(hChain, 1, i) \in shown.eligible \/ i \in Local!Retained(shown)
    BY DEF Local!Retained
  <2>8. to # <<>>
    <3>1. Len(hChain) \in Local!Retained(shown)
      BY <2>1, <2>4, <2>5, <2>7
    <3>2. DOMAIN to # {}
      BY <2>6, <3>1
    <3> QED BY <3>2
  <2>9. \A n \in hAsked : \E k \in DOMAIN to : to[k].n = n /\ SubSeq(to, 1, k) \in hNotes'
    <3> SUFFICES ASSUME NEW n \in hAsked
                 PROVE  \E k \in DOMAIN to : to[k].n = n /\ SubSeq(to, 1, k) \in hNotes'
        OBVIOUS
    <3>1. PICK i \in DOMAIN hChain : hChain[i].n = n /\ SubSeq(hChain, 1, i) \in hNotes
      BY <1>1 DEF Labelled
    <3>2. i \in Local!Retained(shown)
      BY <2>3, <2>7, <3>1
    <3>3. SubSeq(to, 1, Local!Place(shown, i)) \in Local!CopiedNotes(shown)
      BY <3>1, <3>2, Zenon DEF Local!CopiedNotes
    <3> QED BY <1>4, <2>6, <3>1, <3>2, <3>3
  <2> HIDE DEF to, shown
  <2>10. hPrune'.from = hChain /\ hPrune'.to = to /\ hPrune'.shown = shown /\ hPrune'.step = "check"
    BY <1>4
  <2>11. Carried(hPrune)'
    BY <2>6, <2>7, <2>10 DEF Carried
  <2>12. Labelled(hPrune.to)'
    BY <1>1, <2>9, <2>10 DEF Labelled
  <2>13. hChain # <<>>
    BY <2>1, <2>4
  <2>14. IsSeq(hPrune.from)' /\ IsSeq(hPrune.to)'
    BY <1>1, <2>6, <2>10 DEF IsSeq
  <2>15. PruneInv'
    BY <2>8, <2>10, <2>11, <2>12, <2>13, <2>14 DEF PruneInv
  <2> QED BY <1>2, <2>15 DEF LocalInv
<1> QED BY <1>3, <1>4 DEF Local!BeginPrune

LEMMA PruneCarriedOut == LocalInv /\ (Local!CheckHead \/ Local!UpdateRef \/ Local!PruneFails) => LocalInv'
<1> SUFFICES ASSUME LocalInv, Local!CheckHead \/ Local!UpdateRef \/ Local!PruneFails PROVE LocalInv'
    OBVIOUS
<1>1. /\ IsSeq(hChain) /\ Labelled(hChain) /\ RestoreInv /\ ~hReplacedLost /\ PruneInv
      /\ UNCHANGED <<hState, hRestore, hAsked, hNotes, hMeanwhile, hReplacedLost>>
  BY DEF LocalInv, Local!CheckHead, Local!UpdateRef, Local!PruneFails
<1>2. CASE hChain' = hChain /\ hPrune' = Local!Nothing
  <2>1. PruneInv'
    BY <1>2 DEF PruneInv, Local!Nothing
  <2>2. IsSeq(hChain)' /\ Labelled(hChain)' /\ RestoreInv' /\ ~hReplacedLost'
    BY <1>1, <1>2 DEF IsSeq, Labelled, RestoreInv
  <2> QED BY <2>1, <2>2 DEF LocalInv
<1>3. CASE /\ hPrune.step = "check" /\ hChain' = hChain
           /\ hPrune' = [hPrune EXCEPT !.step = "swap"]
           /\ Local!Last(hPrune.to).tree = Local!Last(hPrune.from).tree
  <2>1. hPrune # Local!Nothing
    BY <1>3 DEF Local!Nothing
  <2>2. /\ hPrune'.from = hPrune.from /\ hPrune'.to = hPrune.to /\ hPrune'.shown = hPrune.shown
    BY <1>3
  <2>3. IsSeq(hPrune.from)' /\ IsSeq(hPrune.to)' /\ hPrune'.to # <<>> /\ hPrune'.from # <<>>
    BY <1>1, <2>1, <2>2 DEF PruneInv, IsSeq
  <2>4. Carried(hPrune)' /\ Labelled(hPrune.to)'
    BY <1>1, <2>1, <2>2 DEF PruneInv, Carried, Labelled
  <2>5. hPrune'.to[Len(hPrune'.to)].tree = hPrune'.from[Len(hPrune'.from)].tree
    BY <1>3, <2>2 DEF Local!Last
  <2>6. PruneInv'
    BY <2>3, <2>4, <2>5 DEF PruneInv
  <2>7. IsSeq(hChain)' /\ Labelled(hChain)' /\ RestoreInv' /\ ~hReplacedLost'
    BY <1>1, <1>3 DEF IsSeq, Labelled, RestoreInv
  <2> QED BY <2>6, <2>7 DEF LocalInv
<1>4. CASE hPrune.step = "swap" /\ hPrune' = Local!Nothing /\ hChain = hPrune.from /\ hChain' = hPrune.to
  <2>1. hPrune # Local!Nothing
    BY <1>4 DEF Local!Nothing
  <2>2. PruneInv'
    BY <1>4 DEF PruneInv, Local!Nothing
  <2>3. IsSeq(hChain)' /\ Labelled(hChain)' /\ hChain' # <<>>
    BY <1>1, <1>4, <2>1 DEF PruneInv, IsSeq, Labelled
  <2>4. hChain'[Len(hChain')].tree = hChain[Len(hChain)].tree
    BY <1>1, <1>4, <2>1 DEF PruneInv
  <2>5. RestoreInv'
    BY <1>1, <2>3, <2>4 DEF RestoreInv
  <2> QED BY <1>1, <2>2, <2>3, <2>5 DEF LocalInv
<1> QED BY <1>2, <1>3, <1>4 DEF Local!CheckHead, Local!UpdateRef, Local!PruneFails, Local!PruneEnds, Local!HeadUnmoved
(* Nothing happens to the commits and their notes.                         *)
LEMMA CommitsAlone ==
    ASSUME LocalInv, UNCHANGED <<hChain, hNotes, hAsked, hReplacedLost>>,
           hPrune' = hPrune \/ hPrune' = Local!Nothing,
           \/ hMeanwhile'
           \/ hRestore'.step # "replace"
           \/ UNCHANGED <<hState, hRestore, hMeanwhile>>
    PROVE  LocalInv'
<1>1. IsSeq(hChain)' /\ Labelled(hChain)' /\ RestoreInv' /\ ~hReplacedLost'
  BY DEF LocalInv, IsSeq, Labelled, RestoreInv
<1>2. PruneInv'
  <2>1. CASE hPrune' = hPrune
    BY <2>1 DEF LocalInv, PruneInv, IsSeq, Carried, Labelled
  <2>2. CASE hPrune' = Local!Nothing
    BY <2>2 DEF PruneInv, Local!Nothing
  <2> QED BY <2>1, <2>2
<1> QED BY <1>1, <1>2 DEF LocalInv

(* A commit is added.                                                      *)
LEMMA CommitAdded ==
    ASSUME LocalInv, NEW tree, NEW own, hChain' = Append(hChain, Local!Committed(tree, own)),
           UNCHANGED <<hNotes, hAsked, hReplacedLost, hPrune>>
    PROVE  /\ RestoreInv' => LocalInv'
           /\ hChain' # <<>> /\ hChain'[Len(hChain')].tree = tree
           /\ \A i \in DOMAIN hChain : i \in DOMAIN hChain' /\ hChain'[i] = hChain[i]
<1>1. IsSeq(hChain)
  BY DEF LocalInv
<1> DEFINE c == Local!Committed(tree, own)
<1>2. c.tree = tree
  BY DEF Local!Committed
<1> HIDE DEF c
<1>3. /\ IsSeq(hChain') /\ hChain' # <<>> /\ hChain'[Len(hChain')] = c
      /\ \A i \in DOMAIN hChain : /\ i \in DOMAIN hChain' /\ hChain'[i] = hChain[i]
                                  /\ SubSeq(hChain', 1, i) = SubSeq(hChain, 1, i)
  BY <1>1, Longer DEF c
<1>4. Labelled(hChain)' /\ IsSeq(hChain)'
  BY <1>3, Zenon DEF LocalInv, Labelled, IsSeq
<1>5. PruneInv'
  BY DEF LocalInv, PruneInv, IsSeq, Carried, Labelled
<1> QED BY <1>2, <1>3, <1>4, <1>5 DEF LocalInv

LEMMA SnapshotTakenOrNot ==
    LocalInv /\ (Local!Snapshot \/ Local!SnapshotFails \/ Local!ForeignCommit) => LocalInv'
<1>1. ASSUME LocalInv, Local!SnapshotFails PROVE LocalInv'
  <2>1. \/ UNCHANGED <<hRestore, hMeanwhile>>
        \/ hRestore' = Local!Nothing
    BY <1>1 DEF Local!SnapshotFails, Local!SnapshotEnds
  <2>2. UNCHANGED <<hState, hChain, hNotes, hAsked, hReplacedLost, hPrune>>
    BY <1>1 DEF Local!SnapshotFails
  <2>3. Local!Nothing.step # "replace"
    BY DEF Local!Nothing
  <2> QED BY <1>1, <2>1, <2>2, <2>3, CommitsAlone
<1>2. ASSUME LocalInv, Local!Snapshot PROVE LocalInv'
  <2>1. UNCHANGED <<hState, hNotes, hAsked, hReplacedLost, hPrune>>
    BY <1>2 DEF Local!Snapshot
  <2>2. CASE hChain # <<>> /\ Local!Last(hChain).tree = hState /\ hChain' = hChain
    <3>1. RestoreInv'
      BY <2>1, <2>2 DEF RestoreInv, Local!Last
    <3>2. IsSeq(hChain)' /\ Labelled(hChain)' /\ ~hReplacedLost' /\ PruneInv'
      BY <1>2, <2>1, <2>2 DEF LocalInv, PruneInv, IsSeq, Carried, Labelled
    <3> QED BY <3>1, <3>2 DEF LocalInv
  <2>3. CASE hChain' = Append(hChain, Local!Committed(hState, TRUE))
    <3>1. hChain' # <<>> /\ hChain'[Len(hChain')].tree = hState
      BY <1>2, <2>1, <2>3, CommitAdded, Zenon
    <3>2. RestoreInv'
      BY <2>1, <3>1 DEF RestoreInv
    <3> QED BY <1>2, <2>1, <2>3, <3>2, CommitAdded, Zenon
  <2> QED BY <1>2, <2>2, <2>3, Zenon DEF Local!Snapshot
<1>3. ASSUME LocalInv, Local!ForeignCommit PROVE LocalInv'
  <2>1. UNCHANGED <<hState, hNotes, hAsked, hReplacedLost, hPrune, hRestore, hMeanwhile>>
    BY <1>3 DEF Local!ForeignCommit
  <2>2. hChain' = Append(hChain, Local!Committed(Local!Last(hChain).tree, FALSE))
    BY <1>3 DEF Local!ForeignCommit
  <2>3. hChain' # <<>> /\ hChain'[Len(hChain')].tree = hChain[Len(hChain)].tree
    BY <1>3, <2>1, <2>2, CommitAdded, Zenon DEF Local!Last
  <2>4. RestoreInv'
    BY <1>3, <2>1, <2>3 DEF LocalInv, RestoreInv
  <2> QED BY <1>3, <2>1, <2>2, <2>4, CommitAdded, Zenon
<1> QED BY <1>1, <1>2, <1>3

LEMMA RevisionLabelled == LocalInv /\ Local!Label => LocalInv'
<1> SUFFICES ASSUME LocalInv, Local!Label PROVE LocalInv'
    OBVIOUS
<1> DEFINE commit == Head(hQueue).commit
<1>1. /\ UNCHANGED <<hState, hChain, hPrune, hRestore, hMeanwhile, hReplacedLost>> /\ hPrune = Local!Nothing
      /\ IsSeq(hChain)
  BY DEF Local!Label, Local!Runs, LocalInv
<1>2. CASE UNCHANGED <<hNotes, hAsked>>
  BY <1>1, <1>2, CommitsAlone
<1>3. CASE /\ commit \in Local!Commits
           /\ hNotes' = hNotes \cup {commit} /\ hAsked' = hAsked \cup {Local!Last(commit).n}
  <2>1. PICK i \in DOMAIN hChain : commit = SubSeq(hChain, 1, i)
    BY <1>3 DEF Local!Commits
  <2>2. i \in 1..Len(hChain)
    BY <1>1 DEF IsSeq
  <2>3. Local!Last(commit) = hChain[i]
    BY <1>1, <2>1, <2>2, Prefix, Zenon
  <2> HIDE DEF commit
  <2>4. Labelled(hChain)'
    BY <1>1, <1>3, <2>1, <2>3, Zenon DEF LocalInv, Labelled
  <2>5. PruneInv'
    BY <1>1 DEF PruneInv
  <2>6. IsSeq(hChain)' /\ RestoreInv' /\ ~hReplacedLost'
    BY <1>1 DEF LocalInv, IsSeq, RestoreInv
  <2> QED BY <2>4, <2>5, <2>6 DEF LocalInv
<1> QED BY <1>2, <1>3 DEF Local!Label

LEMMA StateReplaced == LocalInv /\ Local!Replace => LocalInv'
<1> SUFFICES ASSUME LocalInv, Local!Replace PROVE LocalInv'
    OBVIOUS
<1>1. hState \in Local!Trees \/ hMeanwhile
  <2>1. hMeanwhile \/ (hChain # <<>> /\ hChain[Len(hChain)].tree = hState)
    BY DEF Local!Replace, LocalInv, RestoreInv
  <2>2. hChain # <<>> => Len(hChain) \in DOMAIN hChain
    BY DEF LocalInv, IsSeq
  <2> QED BY <2>1, <2>2 DEF Local!Trees
<1>2. ~hReplacedLost /\ ~hReplacedLost'
  BY <1>1, Zenon DEF Local!Replace, LocalInv
<1>3. UNCHANGED <<hChain, hNotes, hAsked, hPrune>> /\ hMeanwhile'
  BY DEF Local!Replace, Local!Writes
<1>4. IsSeq(hChain)' /\ Labelled(hChain)' /\ RestoreInv' /\ PruneInv'
  BY <1>3 DEF LocalInv, IsSeq, Labelled, RestoreInv, PruneInv, Carried
<1> QED BY <1>2, <1>4 DEF LocalInv

LEMMA OthersOnHistory ==
    ASSUME LocalInv,
           \/ Local!Change \/ Local!AskPrune \/ Local!JournalPrune \/ Local!Journal
           \/ Local!DayPasses \/ Local!Restart
           \/ \E commit \in Local!Commits : Local!AskLabel(commit) \/ Local!BeginRestore(commit)
           \/ \E cutoff \in 1..hNow : Local!Preview(cutoff)
    PROVE  LocalInv' /\ hChain' = hChain
<1>1. /\ UNCHANGED <<hChain, hNotes, hAsked, hReplacedLost>>
      /\ hPrune' = hPrune \/ hPrune' = Local!Nothing
  BY Zenon DEF Local!Change, Local!AskPrune, Local!JournalPrune, Local!Journal, Local!DayPasses, Local!Restart,
         Local!AskLabel, Local!BeginRestore, Local!Preview
<1>2. \/ hMeanwhile' \/ hRestore'.step # "replace" \/ UNCHANGED <<hState, hRestore, hMeanwhile>>
  <2>1. CASE Local!Change \/ Local!JournalPrune \/ Local!Journal
    BY <2>1 DEF Local!Change, Local!JournalPrune, Local!Journal, Local!Writes
  <2>2. CASE Local!Restart
    BY <2>2 DEF Local!Restart, Local!Nothing
  <2>3. CASE \E commit \in Local!Commits : Local!AskLabel(commit) \/ Local!BeginRestore(commit)
    BY <2>3 DEF Local!AskLabel, Local!BeginRestore
  <2>4. CASE Local!AskPrune \/ Local!DayPasses \/ \E cutoff \in 1..hNow : Local!Preview(cutoff)
    BY <2>4 DEF Local!AskPrune, Local!DayPasses, Local!Preview
  <2> QED BY <2>1, <2>2, <2>3, <2>4
<1> QED BY <1>1, <1>2, CommitsAlone

LEMMA LocalRests == LocalInv /\ UNCHANGED historyVars => LocalInv'
BY CommitsAlone DEF historyVars

LEMMA LocalStep == LocalInv /\ Local!HistoryNext => LocalInv'
BY PruneBegun, PruneCarriedOut, SnapshotTakenOrNot, RevisionLabelled, StateReplaced, OthersOnHistory
   DEF Local!HistoryNext

(* A step that loses a revision ends a prune that showed it.               *)
LEMMA LossesShown ==
    ASSUME LocalInv, Local!HistoryNext,
           NEW n \in Local!Serials(hChain) \ Local!Serials(hChain')
    PROVE  \E commit \in hPrune.shown.eligible : Local!Last(commit).n = n
<1>1. PICK i \in DOMAIN hChain : hChain[i].n = n
  BY DEF Local!Serials
<1>2. \A k \in DOMAIN hChain' : hChain'[k].n # n
  BY DEF Local!Serials
<1>3. hChain' # hChain
  BY <1>1, <1>2
<1>4. ~Local!Snapshot /\ ~Local!ForeignCommit
  <2>1. ASSUME Local!Snapshot \/ Local!ForeignCommit PROVE FALSE
    <3>1. /\ \E tree, own : hChain' = Append(hChain, Local!Committed(tree, own))
          /\ UNCHANGED <<hNotes, hAsked, hReplacedLost, hPrune>>
      BY <1>3, <2>1, Zenon DEF Local!Snapshot, Local!ForeignCommit
    <3>2. i \in DOMAIN hChain' /\ hChain'[i] = hChain[i]
      BY <3>1, CommitAdded
    <3> QED BY <1>1, <1>2, <3>2
  <2> QED BY <2>1
<1>5. Local!UpdateRef
  <2>1. ~Local!SnapshotFails /\ ~Local!Label /\ ~Local!BeginPrune /\ ~Local!CheckHead /\ ~Local!PruneFails /\ ~Local!Replace
    BY <1>3, Zenon DEF Local!SnapshotFails, Local!Label, Local!BeginPrune, Local!CheckHead,
                       Local!PruneFails, Local!Replace
  <2> QED BY <1>3, <1>4, <2>1, OthersOnHistory DEF Local!HistoryNext
<1>6. hPrune.step = "swap" /\ hChain = hPrune.from /\ hChain' = hPrune.to
  BY <1>3, <1>5 DEF Local!UpdateRef, Local!HeadUnmoved
<1>7. Carried(hPrune)
  BY <1>6 DEF LocalInv, PruneInv, Local!Nothing
<1>8. SubSeq(hChain, 1, i) \in hPrune.shown.eligible
  BY <1>1, <1>2, <1>6, <1>7 DEF Carried
<1>9. IsSeq(hChain) /\ i \in 1..Len(hChain)
  BY DEF LocalInv, IsSeq
<1>10. Local!Last(SubSeq(hChain, 1, i)) = hChain[i]
  BY <1>9, Prefix
<1> QED BY <1>1, <1>8, <1>10

LEMMA LabelsFollowCommits == LocalInv => Local!LabelsKept
<1> SUFFICES ASSUME LocalInv, NEW n \in hAsked
             PROVE  \E commit \in Local!Commits : Local!Last(commit).n = n /\ commit \in hNotes
    BY DEF Local!LabelsKept
<1>1. PICK i \in DOMAIN hChain : hChain[i].n = n /\ SubSeq(hChain, 1, i) \in hNotes
  BY DEF LocalInv, Labelled
<1>2. IsSeq(hChain) /\ i \in 1..Len(hChain)
  BY DEF LocalInv, IsSeq
<1>3. Local!Last(SubSeq(hChain, 1, i)) = hChain[i]
  BY <1>2, Prefix
<1>4. SubSeq(hChain, 1, i) \in Local!Commits
  BY Zenon DEF Local!Commits
<1> QED BY <1>1, <1>3, <1>4

(* A revision leaves the history only in a prune that showed it, a label    *)
(* stays on its revision, and what a restore replaces is in the history     *)
(* (history-repository.ts: prune, label; app-service.ts:                    *)
(* restoreLocalRevision).  Another program may commit between any two       *)
(* steps.  The proof needs what a prune under way has rewritten, and that   *)
(* the last commit stays what it was when HEAD is moved.                    *)
THEOREM HistoryStaysKept == ServicesSpec => HistoryKept
<1>1. ServicesInit => LocalInv
  BY LocalStart DEF ServicesInit
<1>2. LocalInv /\ [ServicesNext]_servicesVars
      => /\ LocalInv'
         /\ [\A n \in Local!Serials(hChain) \ Local!Serials(hChain') :
                \E commit \in hPrune.shown.eligible : Local!Last(commit).n = n]_(Local!historyVars)
  <2>1. ASSUME LocalInv, Local!HistoryNext
        PROVE  /\ LocalInv'
               /\ \A n \in Local!Serials(hChain) \ Local!Serials(hChain') :
                    \E commit \in hPrune.shown.eligible : Local!Last(commit).n = n
    BY <2>1, LocalStep, LossesShown
  <2>2. ASSUME LocalInv, UNCHANGED historyVars PROVE LocalInv' /\ UNCHANGED Local!historyVars
    BY <2>2, LocalRests DEF historyVars, Local!historyVars
  <2>3. ASSUME ServicesNext PROVE Local!HistoryNext \/ UNCHANGED historyVars
    BY <2>3 DEF ServicesNext
  <2>4. ASSUME UNCHANGED servicesVars PROVE UNCHANGED historyVars
    BY <2>4 DEF servicesVars
  <2> QED BY <2>1, <2>2, <2>3, <2>4
<1>3. LocalInv => Local!RestoreKeepsPrevious
  BY DEF LocalInv, Local!RestoreKeepsPrevious
<1> QED BY <1>1, <1>2, <1>3, LabelsFollowCommits, PTL DEF ServicesSpec, HistoryKept, Local!LostOnlyIfShown
-----------------------------------------------------------------------------
(***************************************************************************)
(* The index of the cached mail.                                           *)
(***************************************************************************)
LEMMA IndexCount == \A S : Index!Cardinality(S) = Cardinality(S)
BY Zenon DEF Index!Cardinality, Cardinality

(* The places a list of messages has.                                      *)
Own(source, k) ==
    {i \in DOMAIN source.messages[k].rows : source.messages[k].rows[i].key = source.messages[k].key}
KnownLists(source) == {k \in DOMAIN source.messages : source.messages[k].key \in source.folders}
At(source, k) == {<<k, i>> : i \in Own(source, k)}

LEMMA Visits ==
    ASSUME NEW source \in MailStates
    PROVE  /\ Index!Visited(source) = UNION {At(source, k) : k \in KnownLists(source)}
           /\ \A a : a \in Index!Visited(source) <=>
                 \E k \in KnownLists(source) : \E i \in Own(source, k) : a = <<k, i>>
           /\ \A a \in Index!Visited(source) : a[1] \in Nat /\ a[2] \in Nat /\ a = <<a[1], a[2]>>
<1>1. Index!Visited(source) = UNION {At(source, k) : k \in KnownLists(source)}
  BY DEF Index!Visited, At, Own, KnownLists
<1>2. \A a : a \in Index!Visited(source) <=> \E k \in KnownLists(source) : \E i \in Own(source, k) : a = <<k, i>>
  BY <1>1 DEF At
<1>3. \A k \in KnownLists(source) : k \in Nat /\ Own(source, k) \subseteq Nat
  BY MailIndexAssumption DEF KnownLists, Own
<1> QED BY <1>1, <1>2, <1>3

LEMMA VisitsFinite ==
    ASSUME NEW source \in MailStates
    PROVE  IsFiniteSet(Index!Visited(source))
<1>1. ASSUME NEW k \in KnownLists(source) PROVE IsFiniteSet(At(source, k))
  <2>1. Own(source, k) \subseteq 1..Len(source.messages[k].rows) /\ Len(source.messages[k].rows) \in Nat
    BY MailIndexAssumption DEF KnownLists, Own
  <2>2. IsFiniteSet(Own(source, k))
    <3>1. IsFiniteSet(1..Len(source.messages[k].rows))
      BY <2>1, FS_Interval
    <3> QED BY <2>1, <3>1, FS_Subset
  <2>3. [i \in Own(source, k) |-> <<k, i>>] \in Surjection(Own(source, k), At(source, k))
    BY Zenon DEF Surjection, At
  <2> QED BY <2>2, <2>3, FS_Surjection
<1> DEFINE L == {At(source, k) : k \in KnownLists(source)}
<1>2. IsFiniteSet(L)
  <2>1. KnownLists(source) \subseteq 1..Len(source.messages) /\ Len(source.messages) \in Nat
    BY MailIndexAssumption DEF KnownLists
  <2>2. IsFiniteSet(KnownLists(source))
    <3>1. IsFiniteSet(1..Len(source.messages))
      BY <2>1, FS_Interval
    <3> QED BY <2>1, <3>1, FS_Subset
  <2>3. [k \in KnownLists(source) |-> At(source, k)] \in Surjection(KnownLists(source), L)
    BY DEF Surjection
  <2> QED BY <2>2, <2>3, FS_Surjection
<1>3. \A T \in L : IsFiniteSet(T)
  BY <1>1
<1> HIDE DEF L
<1>4. IsFiniteSet(UNION L)
  BY <1>2, <1>3, FS_UNION
<1> QED BY <1>4, Visits DEF L

(* A message that is visited is visited for the first time somewhere.      *)
LEMMA FirstVisit ==
    ASSUME NEW source \in MailStates, NEW a \in Index!Visited(source)
    PROVE  \E b \in Index!Firsts(source) : Index!IdAt(source, b) = Index!IdAt(source, a)
<1> DEFINE V == Index!Visited(source)
           same == {b \in V : Index!IdAt(source, b) = Index!IdAt(source, a)}
           K == {b[1] : b \in same}
<1>1. \A b \in V : b[1] \in Nat /\ b[2] \in Nat
  BY Visits
<1>2. K \subseteq Nat /\ K # {}
  BY <1>1
<1>3. PICK k \in K : \A l \in K : k <= l
  BY <1>2, LeastNumber, Zenon
<1> DEFINE J == {b[2] : b \in {c \in same : c[1] = k}}
<1>4. J \subseteq Nat /\ J # {}
  BY <1>1
<1>5. PICK j \in J : \A i \in J : j <= i
  BY <1>4, LeastNumber, Zenon
<1>6. PICK b \in same : b[1] = k /\ b[2] = j
  OBVIOUS
<1>7. ASSUME NEW c \in V, Index!Before(c, b) PROVE c \notin same
  <2> SUFFICES ASSUME c \in same PROVE FALSE
      OBVIOUS
  <2>1. c[1] \in K /\ (c[1] = k => c[2] \in J)
    OBVIOUS
  <2>2. k <= c[1] /\ (c[1] = k => j <= c[2])
    BY <1>3, <1>5, <2>1
  <2>3. c[1] < k \/ (c[1] = k /\ c[2] < j)
    BY <1>6, <1>7 DEF Index!Before
  <2>4. c[1] \in Nat /\ c[2] \in Nat /\ k \in Nat /\ j \in Nat
    BY <1>1, <1>2, <1>4
  <2> HIDE DEF K, J, same, V
  <2> QED BY <2>2, <2>3, <2>4
<1>8. b \in Index!Firsts(source)
  BY <1>7 DEF Index!Firsts
<1> QED BY <1>8
(* What the index of a state holds is what a search has to look into.      *)
LEMMA IndexRight ==
    ASSUME NEW source \in MailStates, NEW index, index = Index!createCachedMailIndex(source)
    PROVE  /\ index.documents \subseteq Index!Visible(source)
           /\ Cardinality(index.documents) <= DocumentLimit
           /\ index.limited \/ index.documents = Index!Visible(source)
<1> DEFINE V == Index!Visited(source)
           F == Index!Firsts(source)
           id(a) == Index!IdAt(source, a)
           earlier(a) == {b \in F : Index!Before(b, a)}
           rank == [a \in F |-> Cardinality(earlier(a))]
           K == {a \in F : rank[a] < DocumentLimit}
<1>1. index.documents = {id(a) : a \in K} /\ (index.limited <=> Cardinality(F) > DocumentLimit)
  BY IndexCount, Zenon DEF Index!createCachedMailIndex
<1>2. Index!Visible(source) = {id(a) : a \in V}
  <2>1. \A x : x \in Index!Visible(source) <=>
            \E k \in DOMAIN source.messages :
                /\ source.messages[k].key \in source.folders
                /\ \E i \in DOMAIN source.messages[k].rows :
                      /\ source.messages[k].rows[i].key = source.messages[k].key
                      /\ x = source.messages[k].rows[i].id
    BY DEF Index!Visible, Index!Range
  <2>2. \A a : a \in V <=> \E k \in KnownLists(source) : \E i \in Own(source, k) : a = <<k, i>>
    BY Visits
  <2>3. \A k, i : id(<<k, i>>) = source.messages[k].rows[i].id
    BY DEF Index!IdAt
  <2>4. ASSUME NEW x
        PROVE  x \in {id(a) : a \in V} <=>
               \E k \in KnownLists(source) : \E i \in Own(source, k) : x = source.messages[k].rows[i].id
    <3> HIDE DEF id, V
    <3>1. ASSUME NEW a \in V, x = id(a)
          PROVE  \E k \in KnownLists(source) : \E i \in Own(source, k) : x = source.messages[k].rows[i].id
      <4>1. PICK k \in KnownLists(source) : \E i \in Own(source, k) : a = <<k, i>>
        BY <2>2
      <4>2. PICK i \in Own(source, k) : a = <<k, i>>
        BY <4>1
      <4> QED BY <2>3, <3>1, <4>2
    <3>2. ASSUME NEW k \in KnownLists(source), NEW i \in Own(source, k), x = source.messages[k].rows[i].id
          PROVE  \E a \in V : x = id(a)
      <4>1. <<k, i>> \in V
        BY <2>2
      <4>2. x = id(<<k, i>>)
        BY <2>3, <3>2
      <4> QED BY <4>1, <4>2
    <3> QED BY <3>1, <3>2
  <2>5. \A x : x \in Index!Visible(source) <=>
            \E k \in KnownLists(source) : \E i \in Own(source, k) : x = source.messages[k].rows[i].id
    BY <2>1 DEF KnownLists, Own
  <2> HIDE DEF id, V
  <2> QED BY <2>4, <2>5
<1>3. F \subseteq V /\ IsFiniteSet(F) /\ Cardinality(F) \in Nat
  <2>1. F \subseteq V
    BY DEF Index!Firsts
  <2> QED BY <2>1, VisitsFinite, FS_Subset, FS_CardinalityType
<1>4. \A a \in F : a[1] \in Nat /\ a[2] \in Nat /\ a = <<a[1], a[2]>>
  BY <1>3, Visits
<1>5. \A a, b \in F : a = b \/ Index!Before(a, b) \/ Index!Before(b, a)
  BY <1>4 DEF Index!Before
<1>6. \A a \in F : ~Index!Before(a, a)
  BY <1>4 DEF Index!Before
<1>7. \A a, b, c \in F : Index!Before(a, b) /\ Index!Before(b, c) => Index!Before(a, c)
  BY <1>4 DEF Index!Before
<1> HIDE DEF F, V, id
<1>8. ASSUME NEW a \in F
      PROVE  /\ IsFiniteSet(earlier(a)) /\ Cardinality(earlier(a)) \in Nat
             /\ Cardinality(earlier(a)) < Cardinality(F)
  <2>1. earlier(a) \subseteq F /\ earlier(a) # F
    BY <1>6
  <2> QED BY <1>3, <2>1, FS_Subset, FS_CardinalityType
<1>9. ASSUME NEW a \in F, NEW b \in F, Index!Before(a, b) PROVE Cardinality(earlier(a)) < Cardinality(earlier(b))
  <2>1. earlier(a) \subseteq earlier(b) /\ a \in earlier(b) /\ a \notin earlier(a)
    BY <1>6, <1>7, <1>9
  <2>2. earlier(a) # earlier(b)
    BY <2>1
  <2> HIDE DEF earlier
  <2> QED BY <1>8, <2>1, <2>2, FS_Subset
<1>10. \A a \in F : rank[a] \in Nat /\ rank[a] < Cardinality(F)
  BY <1>8
<1>11. \A a, b \in F : rank[a] = rank[b] => a = b
  <2>1. \A a, b \in F : Index!Before(a, b) => rank[a] < rank[b]
    BY <1>9
  <2> HIDE DEF rank
  <2> QED BY <1>5, <1>10, <2>1
<1> HIDE DEF rank
<1>12. IsFiniteSet(K) /\ Cardinality(K) <= DocumentLimit /\ Cardinality(K) \in Nat
  <2> DEFINE N == 0..(DocumentLimit - 1)
             f == [a \in K |-> rank[a]]
  <2>1. IsFiniteSet(N) /\ Cardinality(N) = DocumentLimit
    <3>1. DocumentLimit \in Nat /\ 0 \in Int /\ DocumentLimit - 1 \in Int
      BY MailIndexAssumption
    <3>2. IsFiniteSet(N) /\ Cardinality(N) = IF 0 > DocumentLimit - 1 THEN 0 ELSE DocumentLimit - 1 - 0 + 1
      BY <3>1, FS_Interval
    <3> HIDE DEF N
    <3> QED BY <3>1, <3>2
  <2>2. f \in [K -> N]
    BY <1>10, MailIndexAssumption
  <2>3. f \in Injection(K, N)
    BY <1>11, <2>2 DEF Injection, IsInjective
  <2> HIDE DEF N, f, K
  <2> QED BY <2>1, <2>3, FS_Injection, FS_CardinalityType
<1>13. Cardinality(index.documents) <= DocumentLimit
  <2> DEFINE D == {id(a) : a \in K}
             g == [a \in K |-> id(a)]
  <2>1. g \in Surjection(K, D)
    BY DEF Surjection
  <2>2. IsFiniteSet(D) /\ Cardinality(D) <= Cardinality(K)
    <3> HIDE DEF D, g, K
    <3> QED BY <1>12, <2>1, FS_Surjection
  <2>3. Cardinality(D) \in Nat
    BY <2>2, FS_CardinalityType
  <2>4. index.documents = D
    BY <1>1
  <2> HIDE DEF D, K
  <2> QED BY <1>12, <2>2, <2>3, <2>4, MailIndexAssumption
<1>14. index.documents \subseteq Index!Visible(source)
  BY <1>1, <1>2, <1>3
<1>15. ASSUME ~index.limited PROVE Index!Visible(source) \subseteq index.documents
  <2>1. Cardinality(F) <= DocumentLimit
    BY <1>1, <1>3, <1>15, MailIndexAssumption
  <2>2. K = F
    BY <1>3, <1>10, <2>1, MailIndexAssumption
  <2>3. \A a \in V : \E b \in F : id(b) = id(a)
    BY FirstVisit DEF V, F, id
  <2> HIDE DEF K
  <2> QED BY <1>1, <1>2, <2>2, <2>3
<1> QED BY <1>13, <1>14, <1>15, Zenon
(* A file that would be trusted holds the index of its source.             *)
FileHonest(f) ==
    /\ f = Index!File(f.kind, f.schema, f.from, f.index)
    /\ f.kind \in {"index", "torn"} /\ f.schema = SchemaVersion =>
          f.index = Index!createCachedMailIndex(f.from)
(* A second attempt that nothing has spoiled works on a new file.          *)
Searching ==
    /\ xAsked \in MailStates
    /\ xStep = "documents" => Index!Trusted(xFile, xAsked)
    /\ xStep = "direct" => xSpoiled
    /\ xRetried /\ ~xSpoiled => xFile.kind \in {"none", "empty"} /\ xStep \in {"open", "meta", "write"}
Searched ==
    xAsked # Index!NoSource =>
        /\ xAsked \in MailStates /\ xAnswer = Index!createCachedMailIndex(xAsked)
        /\ ~xSpoiled => xFile = Index!Built(xAsked)
IndexInv ==
    /\ xState \in MailStates /\ xRetried \in BOOLEAN /\ xSpoiled \in BOOLEAN
    /\ FileHonest(xFile)
    /\ IF xStep = "idle" THEN Searched ELSE Searching

LEMMA IndexStart == Index!MailIndexInit => IndexInv
<1> SUFFICES ASSUME Index!MailIndexInit PROVE IndexInv
    OBVIOUS
<1>1. FileHonest(Index!NoFile) /\ FileHonest(Index!File("index", SchemaVersion + 1, xState, Index!NoIndex))
  BY MailIndexAssumption DEF FileHonest, Index!NoFile, Index!File
<1> QED BY <1>1, Zenon DEF Index!MailIndexInit, IndexInv, Searched

LEMMA BuiltHonest == \A source : FileHonest(Index!Built(source)) /\ Index!Built(source).index = Index!createCachedMailIndex(source)
BY DEF FileHonest, Index!Built, Index!File

LEMMA IndexStep == IndexInv /\ Index!MailIndexNext => IndexInv'
<1> SUFFICES ASSUME IndexInv, Index!MailIndexNext PROVE IndexInv'
    OBVIOUS
<1>1. ASSUME NEW state \in MailStates, Index!StateChanges(state) PROVE IndexInv'
  BY <1>1 DEF Index!StateChanges, IndexInv, Searched, Index!NoSource, FileHonest
<1>2. ASSUME NEW kind \in {"damaged", "torn"}, Index!Damage(kind) PROVE IndexInv'
  <2>1. xFile.kind = "index" /\ xFile = Index!File(xFile.kind, xFile.schema, xFile.from, xFile.index)
    BY <1>2 DEF Index!Damage, IndexInv, FileHonest
  <2>2. xFile' = Index!File(kind, xFile.schema, xFile.from, xFile.index)
    BY <1>2, <2>1 DEF Index!Damage, Index!File
  <2>3. FileHonest(xFile')
    BY <2>1, <2>2 DEF IndexInv, FileHonest, Index!File
  <2> QED BY <1>2, <2>3 DEF Index!Damage, IndexInv, Searched
<1>3. ASSUME Index!Search PROVE IndexInv'
  BY <1>3, Zenon DEF Index!Search, IndexInv, Searching, FileHonest
<1>4. ASSUME Index!Open PROVE IndexInv'
  <2>1. FileHonest(xFile') /\ (xFile'.kind = "empty" \/ xFile' = xFile)
    BY <1>4 DEF Index!Open, IndexInv, FileHonest, Index!EmptyFile, Index!File
  <2> QED BY <1>4, <2>1 DEF Index!Open, IndexInv, Searching
<1>5. ASSUME Index!ReadMeta PROVE IndexInv'
  BY <1>5 DEF Index!ReadMeta, IndexInv, Searching, Index!Trusted
<1>6. ASSUME Index!ReadDocuments PROVE IndexInv'
  <2>1. Index!Trusted(xFile, xAsked) /\ xAsked \in MailStates /\ FileHonest(xFile) /\ (xRetried => xSpoiled)
    BY <1>6 DEF Index!ReadDocuments, IndexInv, Searching
  <2>2. CASE xFile.kind = "index" /\ xStep' = "idle" /\ xAnswer' = xFile.index
    <3>1. xFile = Index!Built(xAsked) /\ xFile.index = Index!createCachedMailIndex(xAsked)
      BY <2>1, <2>2 DEF Index!Trusted, FileHonest, Index!Built
    <3> QED BY <1>6, <2>1, <2>2, <3>1 DEF Index!ReadDocuments, IndexInv, Searched
  <2>3. CASE xStep' = Index!Thrown
    BY <1>6, <2>1, <2>3 DEF Index!ReadDocuments, IndexInv, Searching, Index!Thrown
  <2> QED BY <1>6, <2>2, <2>3 DEF Index!ReadDocuments
<1>7. ASSUME Index!WriteIndex PROVE IndexInv'
  <2>1. CASE xFile.kind = "damaged" /\ xStep' = Index!Thrown /\ UNCHANGED <<xFile, xAnswer>>
    BY <1>7, <2>1 DEF Index!WriteIndex, IndexInv, Searching, Index!Thrown
  <2>2. CASE xStep' = "idle" /\ xFile' = Index!Built(xAsked) /\ xAnswer' = xFile'.index
    BY <1>7, <2>2, BuiltHonest DEF Index!WriteIndex, IndexInv, Searching, Searched
  <2> QED BY <1>7, <2>1, <2>2 DEF Index!WriteIndex
<1>8. ASSUME NEW removed \in BOOLEAN, Index!RecoverAfterCorruption(removed) PROVE IndexInv'
  <2>1. FileHonest(Index!NoFile) /\ Index!NoFile.kind = "none"
    BY DEF FileHonest, Index!NoFile, Index!File
  <2>2. xFile' = IF removed THEN Index!NoFile ELSE xFile
    BY <1>8 DEF Index!RecoverAfterCorruption, Index!Reset
  <2>3. FileHonest(xFile') /\ (removed => xFile'.kind = "none")
    BY <2>1, <2>2 DEF IndexInv
  <2> QED BY <1>8, <2>3, Zenon DEF Index!RecoverAfterCorruption, IndexInv, Searching
<1>9. ASSUME Index!Direct PROVE IndexInv'
  BY <1>9 DEF Index!Direct, IndexInv, Searching, Searched
<1>10. ASSUME Index!Fail PROVE IndexInv'
  BY <1>10 DEF Index!Fail, IndexInv, Searching, Index!Thrown
<1>11. ASSUME Index!Die PROVE IndexInv'
  BY <1>11 DEF Index!Die, IndexInv, Searched
<1> QED BY <1>1, <1>2, <1>3, <1>4, <1>5, <1>6, <1>7, <1>8, <1>9, <1>10, <1>11 DEF Index!MailIndexNext

LEMMA IndexRests == IndexInv /\ UNCHANGED indexVars => IndexInv'
BY DEF indexVars, IndexInv, Searching, Searched, Index!Trusted

(* A search looks into exactly the mail of the state it was asked about, or *)
(* says that it was limited, and leaves an index of that state when no step *)
(* failed (cached-mail-index.ts, cached-mail-sqlite-index.ts).  The proof   *)
(* needs that a file which would be trusted holds the index of its source,  *)
(* and that every message is visited for the first time somewhere.          *)
THEOREM SearchStaysSound == ServicesSpec => []SearchSound
<1>1. ServicesInit => IndexInv
  BY IndexStart DEF ServicesInit
<1>2. IndexInv /\ [ServicesNext]_servicesVars => IndexInv'
  <2>1. ASSUME IndexInv, ServicesNext PROVE IndexInv'
    <3>1. Index!MailIndexNext \/ UNCHANGED indexVars
      BY <2>1 DEF ServicesNext
    <3> QED BY <2>1, <3>1, IndexStep, IndexRests
  <2>2. ASSUME IndexInv, UNCHANGED servicesVars PROVE IndexInv'
    <3>1. UNCHANGED indexVars
      BY <2>2 DEF servicesVars
    <3> QED BY <2>2, <3>1, IndexRests
  <2> QED BY <2>1, <2>2
<1>3. IndexInv => SearchSound
  <2> SUFFICES ASSUME IndexInv PROVE Index!SearchesTheMail /\ Index!RepairsTheFile
      BY DEF SearchSound
  <2>1. Index!RepairsTheFile
    BY DEF IndexInv, Searched, Index!RepairsTheFile
  <2>2. ASSUME xStep = "idle", xAsked # Index!NoSource
        PROVE  /\ xAnswer.documents \subseteq Index!Visible(xAsked)
               /\ Index!Cardinality(xAnswer.documents) <= DocumentLimit
               /\ xAnswer.limited \/ xAnswer.documents = Index!Visible(xAsked)
    <3>1. xAsked \in MailStates /\ xAnswer = Index!createCachedMailIndex(xAsked)
      BY <2>2 DEF IndexInv, Searched
    <3> QED BY <3>1, IndexRight, IndexCount
  <2> QED BY <2>1, <2>2 DEF Index!SearchesTheMail
<1> QED BY <1>1, <1>2, <1>3, PTL DEF ServicesSpec
-----------------------------------------------------------------------------
(***************************************************************************)
(* The tags of a message, in the catalogue and on the server.              *)
(***************************************************************************)
MessageFields == {"tags", "unread", "starred", "label", "folder"}
TagsInv ==
    /\ DOMAIN oMessage = MessageFields
    /\ \A id \in DOMAIN oTags : DOMAIN oTags[id] = {"name", "born"}
    /\ Organize!TagsMeant

LEMMA TagsStart == Organize!OrganizerInit => TagsInv
BY DEF Organize!OrganizerInit, TagsInv, MessageFields, Organize!TagsMeant

(* A tag keeps who it is.                                                  *)
LEMMA TagsLast ==
    ASSUME TagsInv, DOMAIN oMessage' = MessageFields,
           \A id \in DOMAIN oTags' : DOMAIN oTags'[id] = {"name", "born"},
           \A id \in oMessage'.tags : /\ id \in oMessage.tags /\ id \in DOMAIN oTags' /\ id \in DOMAIN oMeant'
                                      /\ oTags'[id].born = oTags[id].born /\ oMeant'[id] = oMeant[id]
    PROVE  TagsInv'
BY DEF TagsInv, Organize!TagsMeant

LEMMA TagsSet ==
    ASSUME TagsInv, NEW ids, Organize!SetTags(ids), oTags' = oTags
    PROVE  TagsInv'
<1> DEFINE named == ids \cap DOMAIN oTags
<1>1. /\ oMessage' = [oMessage EXCEPT !.tags = named]
      /\ oMeant' = [id \in named |-> IF id \in DOMAIN oMeant /\ id \in oMessage.tags THEN oMeant[id] ELSE oTags[id].born]
  BY DEF Organize!SetTags
<1>2. DOMAIN oMessage' = MessageFields /\ oMessage'.tags = named
  BY <1>1 DEF TagsInv, MessageFields
<1>3. \A id \in named : id \in DOMAIN oTags' /\ id \in DOMAIN oMeant' /\ oMeant'[id] = oTags'[id].born
  BY <1>1 DEF TagsInv, Organize!TagsMeant
<1> HIDE DEF named
<1> QED BY <1>2, <1>3 DEF TagsInv, Organize!TagsMeant

LEMMA TagsStep == TagsInv /\ Organize!OrganizerNext => TagsInv'
<1> SUFFICES ASSUME TagsInv, Organize!OrganizerNext PROVE TagsInv'
    OBVIOUS
<1>1. ASSUME NEW name \in TagNames, Organize!CreateMessageTag(name) PROVE TagsInv'
  <2>1. /\ oMessage' = oMessage /\ oMeant' = oMeant
        /\ \E new : oTags' = [id \in DOMAIN oTags \cup {new} |->
                                IF id \in DOMAIN oTags THEN oTags[id] ELSE [name |-> name, born |-> oBorn]]
    BY <1>1 DEF Organize!CreateMessageTag
  <2>2. \A id \in DOMAIN oTags : id \in DOMAIN oTags' /\ oTags'[id] = oTags[id]
    BY <2>1
  <2>3. \A id \in DOMAIN oTags' : DOMAIN oTags'[id] = {"name", "born"}
    BY <2>1 DEF TagsInv
  <2> QED BY <2>1, <2>2, <2>3, TagsLast DEF TagsInv, Organize!TagsMeant
<1>2. ASSUME NEW name \in TagNames, NEW t \in DOMAIN oTags, Organize!RenameTag(t, name) PROVE TagsInv'
  <2>1. oMessage' = oMessage /\ oMeant' = oMeant /\ oTags' = [oTags EXCEPT ![t].name = name]
    BY <1>2 DEF Organize!RenameTag
  <2>2. /\ DOMAIN oTags' = DOMAIN oTags
        /\ \A id \in DOMAIN oTags : DOMAIN oTags'[id] = {"name", "born"} /\ oTags'[id].born = oTags[id].born
    BY <2>1 DEF TagsInv
  <2> QED BY <2>1, <2>2, TagsLast DEF TagsInv, Organize!TagsMeant
<1>3. ASSUME NEW t \in DOMAIN oTags, Organize!DeleteMessageTag(t) PROVE TagsInv'
  <2>1. /\ oTags' = [id \in DOMAIN oTags \ {t} |-> oTags[id]]
        /\ oMeant' = [id \in DOMAIN oMeant \ {t} |-> oMeant[id]]
        /\ oMessage' = [oMessage EXCEPT !.tags = oMessage.tags \ {t}]
    BY <1>3 DEF Organize!DeleteMessageTag, Organize!Restrict
  <2>2. DOMAIN oMessage' = MessageFields /\ oMessage'.tags = oMessage.tags \ {t}
    BY <2>1 DEF TagsInv, MessageFields
  <2>3. \A id \in DOMAIN oTags' : id \in DOMAIN oTags /\ oTags'[id] = oTags[id]
    BY <2>1
  <2>4. \A id \in DOMAIN oTags' : DOMAIN oTags'[id] = {"name", "born"}
    BY <2>3 DEF TagsInv
  <2>5. \A id \in oMessage'.tags :
            /\ id \in oMessage.tags /\ id \in DOMAIN oTags' /\ id \in DOMAIN oMeant'
            /\ oTags'[id] = oTags[id] /\ oMeant'[id] = oMeant[id]
    BY <2>1, <2>2 DEF TagsInv, Organize!TagsMeant
  <2> QED BY <2>2, <2>4, <2>5, TagsLast
<1>4. ASSUME NEW ids, Organize!SetMessageTags(ids) PROVE TagsInv'
  BY <1>4, TagsSet DEF Organize!SetMessageTags
<1>5. ASSUME Organize!ApplyTags PROVE TagsInv'
  <2>1. oTags' = oTags /\ (UNCHANGED <<oMessage, oMeant>> \/ Organize!SetTags(oRun.change.tags))
    BY <1>5 DEF Organize!ApplyTags, Organize!Stay
  <2>2. CASE UNCHANGED <<oMessage, oMeant>>
    BY <2>1, <2>2 DEF TagsInv, Organize!TagsMeant
  <2> QED BY <2>1, <2>2, TagsSet
<1>6. ASSUME UNCHANGED <<oTags, oMessage, oMeant>> PROVE TagsInv'
  BY <1>6 DEF TagsInv, Organize!TagsMeant
<1>7. ASSUME UNCHANGED <<oTags, oMeant>>, DOMAIN oMessage' = DOMAIN oMessage, oMessage'.tags = oMessage.tags PROVE TagsInv'
  BY <1>7 DEF TagsInv, Organize!TagsMeant
<1>8. ASSUME Organize!ApplyJunk \/ Organize!ApplyFlags \/ Organize!ApplyMove \/ Organize!UserMovesHome
             \/ \E unread, starred \in BOOLEAN : Organize!UserChanges(unread, starred)
      PROVE  TagsInv'
  <2>1. UNCHANGED <<oTags, oMeant>>
    BY <1>8, Zenon DEF Organize!ApplyJunk, Organize!ApplyFlags, Organize!ApplyMove, Organize!UserMovesHome,
                Organize!UserChanges, Organize!Stay
  <2>2. DOMAIN oMessage' = DOMAIN oMessage /\ oMessage'.tags = oMessage.tags
    BY <1>8, Zenon DEF Organize!ApplyJunk, Organize!ApplyFlags, Organize!ApplyMove, Organize!UserMovesHome,
                Organize!UserChanges, TagsInv, MessageFields
  <2> QED BY <1>7, <2>1, <2>2
<1>9. ASSUME \/ \E shape \in Shapes : \/ Organize!CreateFilter(shape)
                                     \/ \E id \in 0..MaxBorn, on \in BOOLEAN : Organize!UpdateFilter(id, on, shape)
             \/ \E id \in 0..MaxBorn : Organize!DeleteMessageFilter(id)
             \/ \E ids \in UNION {[1..k -> 0..(MaxBorn - 1)] : k \in 0..2} : Organize!ReorderMessageFilters(ids)
             \/ Organize!RunMessageFilters \/ Organize!StepFails \/ Organize!RunEnds
      PROVE  TagsInv'
  <2>1. UNCHANGED <<oTags, oMessage, oMeant>>
    BY <1>9, Zenon DEF Organize!CreateFilter, Organize!UpdateFilter, Organize!DeleteMessageFilter,
                Organize!ReorderMessageFilters, Organize!RunMessageFilters, Organize!StepFails,
                Organize!RunEnds, Organize!Stay
  <2> QED BY <1>6, <2>1
<1> QED BY <1>1, <1>2, <1>3, <1>4, <1>5, <1>8, <1>9 DEF Organize!OrganizerNext

(* During a call the present tags of the message are among those it had.   *)
KeywordsInv ==
    /\ Keyword!OthersUntouched /\ Keyword!StoredWereHeld
    /\ kStep # "new" => kServer \cap TagKeywords \in kHeld
    /\ kStep \in {"read", "check", "add", "remove", "verify"} => kDesired \subseteq TagKeywords
    /\ kStep = "check" => kCurrent \cap TagKeywords \in kHeld

LEMMA KeywordsStart == Keyword!KeywordsInit => KeywordsInv
BY DEF Keyword!KeywordsInit, KeywordsInv, Keyword!OthersUntouched, Keyword!StoredWereHeld

LEMMA KeywordsStep == KeywordsInv /\ Keyword!KeywordsNext => KeywordsInv'
<1> SUFFICES ASSUME KeywordsInv, Keyword!KeywordsNext PROVE KeywordsInv'
    OBVIOUS
<1> USE DEF KeywordsInv, Keyword!OthersUntouched, Keyword!StoredWereHeld, Keyword!Settings
<1>1. ASSUME NEW desired \in SUBSET TagKeywords, Keyword!SetMessageKeywords(desired) PROVE KeywordsInv'
  BY <1>1 DEF Keyword!SetMessageKeywords, Keyword!Tags
<1>2. ASSUME Keyword!MessageKeywords PROVE KeywordsInv'
  BY <1>2 DEF Keyword!MessageKeywords
<1>3. ASSUME Keyword!Check PROVE KeywordsInv'
  <2>1. kStep' \in {"stored", "add", "failed"} /\ (kStep' = "stored" => Keyword!Added = {} /\ Keyword!Removed = {})
    BY <1>3 DEF Keyword!Check
  <2>2. Keyword!Added = {} /\ Keyword!Removed = {} => kDesired = kCurrent \cap TagKeywords
    BY <1>3 DEF Keyword!Check, Keyword!Added, Keyword!Removed, Keyword!Tags
  <2> QED BY <1>3, <2>1, <2>2 DEF Keyword!Check
<1>4. ASSUME Keyword!Add PROVE KeywordsInv'
  <2>1. kServer' = kServer \/ kServer' = kServer \cup (kDesired \ kCurrent)
    BY <1>4 DEF Keyword!Add, Keyword!Server, Keyword!Added
  <2>2. kServer' \ TagKeywords = kServer \ TagKeywords
    BY <1>4, <2>1 DEF Keyword!Add
  <2> QED BY <1>4, <2>2 DEF Keyword!Add, Keyword!Server, Keyword!Tags
<1>5. ASSUME Keyword!Remove PROVE KeywordsInv'
  <2>1. kServer' \ TagKeywords = kServer \ TagKeywords
    BY <1>5 DEF Keyword!Remove, Keyword!Server, Keyword!Removed, Keyword!Tags
  <2> QED BY <1>5, <2>1 DEF Keyword!Remove, Keyword!Server, Keyword!Tags
<1>6. ASSUME Keyword!Verify PROVE KeywordsInv'
  BY <1>6 DEF Keyword!Verify, Keyword!ReadBack, Keyword!Tags
<1>7. ASSUME Keyword!CommandFails PROVE KeywordsInv'
  BY <1>7 DEF Keyword!CommandFails, Keyword!Idle
<1>8. ASSUME NEW k, Keyword!OtherClient(k) PROVE KeywordsInv'
  BY <1>8 DEF Keyword!OtherClient, Keyword!Server, Keyword!Tags
<1> QED BY <1>1, <1>2, <1>3, <1>4, <1>5, <1>6, <1>7, <1>8 DEF Keyword!KeywordsNext

(* A tag on a message is the one it was given, tags reported as stored were *)
(* on the server during the call, and other programs' keywords are left     *)
(* alone (message-tags.ts, app-service.ts; setMessageKeywords of            *)
(* mail-service.ts).                                                        *)
THEOREM TagsStayAsGiven == ServicesSpec => []TagsAsGiven
<1> DEFINE Inv == TagsInv /\ KeywordsInv
<1>1. ServicesInit => Inv
  BY TagsStart, KeywordsStart DEF ServicesInit
<1>2. TagsInv /\ UNCHANGED organizerVars => TagsInv'
  BY DEF organizerVars, TagsInv, Organize!TagsMeant
<1>3. KeywordsInv /\ UNCHANGED keywordVars => KeywordsInv'
  BY DEF keywordVars, KeywordsInv, Keyword!OthersUntouched, Keyword!StoredWereHeld
<1>4. Inv /\ [ServicesNext]_servicesVars => Inv'
  <2>1. ASSUME Inv, [ServicesNext]_servicesVars
        PROVE  /\ Organize!OrganizerNext \/ UNCHANGED organizerVars
               /\ Keyword!KeywordsNext \/ UNCHANGED keywordVars
    BY <2>1 DEF ServicesNext, servicesVars
  <2> QED BY <2>1, <1>2, <1>3, TagsStep, KeywordsStep
<1>5. Inv => TagsAsGiven
  BY DEF TagsInv, KeywordsInv, TagsAsGiven
<1> QED BY <1>1, <1>4, <1>5, PTL DEF ServicesSpec
=============================================================================
