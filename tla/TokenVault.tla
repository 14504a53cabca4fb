----------------------------- MODULE TokenVault -----------------------------
(***************************************************************************)
(* The file of the OAuth token vault (oauth-token-vault.ts): one document, *)
(* read and rewritten by every operation, replaced through a temporary     *)
(* file and, where the system refuses to replace a file (EEXIST, EPERM),   *)
(* through a displaced copy.  A document is the set of the updates (saved, *)
(* rotated and forgotten records) that it contains.  Operations run one    *)
(* after another in the vault's queue; any call may fail, as often as      *)
(* MaxFaults allows, and the process may die between any two calls.        *)
(***************************************************************************)
EXTENDS Naturals, FiniteSets

CONSTANTS
    Updates,    \* the updates callers ask for
    MaxFaults   \* bound on failing calls and deaths

VARIABLES
    file, prev, tmp,    \* the vault's file, its displaced copy, the temporary file
    pc, doc, upd,       \* the running operation, its document and its update
    known,              \* updates acknowledged to a caller or returned by a read
    faults

vars == <<file, prev, tmp, pc, doc, upd, known, faults>>

File(d) == [kind |-> "document", has |-> d]
NoFile == [kind |-> "missing", has |-> {}]
Torn == [kind |-> "torn", has |-> {}]
Read == "read"      \* the update of an operation that only reads

IsDoc(f) == f.kind = "document"

Init ==
    /\ file = NoFile /\ prev = NoFile /\ tmp = NoFile
    /\ pc = "idle" /\ doc = {} /\ upd = Read /\ known = {} /\ faults = 0

Fault == faults < MaxFaults /\ faults' = faults + 1

Throw == pc' = "idle" /\ doc' = {} /\ upd' = Read /\ UNCHANGED known

Begin(u) ==
    /\ pc = "idle" /\ (u # Read => u \notin known)
    /\ pc' = "primary" /\ upd' = u
    /\ UNCHANGED <<file, prev, tmp, doc, known, faults>>

\* The document is known: #cleanupDebris, and a read returns it.
Loaded(d) ==
    /\ IF upd = Read
       THEN pc' = "idle" /\ doc' = {} /\ known' = known \cup d
       ELSE pc' = "write" /\ doc' = d \cup {upd} /\ UNCHANGED known
    /\ UNCHANGED upd

\* #readDocument finds the file: what is left of an earlier replacement is
\* debris.
ReadPrimary ==
    /\ pc = "primary" /\ IsDoc(file)
    /\ Loaded(file.has)
    /\ prev' \in {prev, NoFile} /\ tmp' \in {tmp, NoFile}
    /\ (IF prev' # NoFile \/ tmp' # NoFile THEN Fault ELSE UNCHANGED faults)
    /\ UNCHANGED file

\* A file that cannot be parsed, or a failing call, fails the operation.
ReadFails ==
    /\ pc \in {"primary", "previous"}
    /\ \/ Fault
       \/ /\ Torn \in {file, prev} /\ UNCHANGED faults
    /\ Throw
    /\ UNCHANGED <<file, prev, tmp>>

\* #readDocument without a file: the displaced copy takes its place.
ReadPrevious ==
    /\ pc = "primary" /\ file = NoFile /\ IsDoc(prev)
    /\ file' = prev /\ prev' = NoFile
    /\ pc' = "previous"
    /\ UNCHANGED <<tmp, doc, upd, known, faults>>

ReadRecovered ==
    /\ pc = "previous"
    /\ Loaded(file.has)
    /\ tmp' = NoFile
    /\ UNCHANGED <<file, prev, faults>>

ReadEmpty ==
    /\ pc = "primary" /\ file = NoFile /\ prev = NoFile
    /\ Loaded({})
    /\ tmp' = NoFile
    /\ UNCHANGED <<file, prev, faults>>

WriteInPlace ==
    /\ pc = "write"
    /\ \/ tmp' = File(doc) /\ pc' = "replace" /\ UNCHANGED <<file, doc, upd, known, faults>>
       \/ Fault /\ Throw /\ file' = Torn /\ UNCHANGED tmp
    /\ UNCHANGED prev

\* #writeDocument: the temporary file, synced; a failure leaves it behind.
WriteTemp ==
    /\ pc = "write"
    /\ \/ tmp' = File(doc) /\ pc' = "replace" /\ UNCHANGED <<doc, upd, known, faults>>
       \/ Fault /\ Throw /\ tmp' = Torn
    /\ UNCHANGED <<file, prev>>

\* The rename over the file.  Where it is refused (EEXIST, EPERM) the write
\* takes the long way; another failure ends it.
Replace ==
    /\ pc = "replace"
    /\ \/ /\ file' = tmp /\ tmp' = NoFile /\ pc' = "verify"
          /\ UNCHANGED <<doc, upd, known, faults>>
       \/ /\ Fault /\ pc' = "displace" /\ UNCHANGED <<file, tmp, doc, upd, known>>
       \/ /\ Fault /\ Throw /\ tmp' = NoFile /\ UNCHANGED file
    /\ UNCHANGED prev

Acknowledge == known' = known \cup doc /\ pc' = "idle" /\ doc' = {} /\ upd' = Read

\* Directory sync and re-read after the rename; a refused re-read (EPERM)
\* also takes the long way, with no temporary file left.
Verify ==
    /\ pc = "verify"
    /\ \/ Acknowledge /\ UNCHANGED faults
       \/ Fault /\ Throw
       \/ Fault /\ pc' = "displace" /\ UNCHANGED <<doc, upd, known>>
    /\ UNCHANGED <<file, prev, tmp>>

\* rm of the old displaced copy, then the file takes its place.
Displace ==
    /\ pc = "displace"
    /\ \/ /\ file # NoFile
          /\ prev' = file /\ file' = NoFile /\ pc' = "promote"
          /\ UNCHANGED <<tmp, doc, upd, known, faults>>
       \/ /\ IF file = NoFile THEN UNCHANGED faults ELSE Fault
          /\ Throw /\ tmp' = NoFile
          /\ prev' = NoFile /\ UNCHANGED file

Promote ==
    /\ pc = "promote"
    /\ \/ /\ tmp # NoFile
          /\ file' = tmp /\ tmp' = NoFile /\ pc' = "drop"
          /\ UNCHANGED faults
       \/ /\ tmp # NoFile /\ Fault
          /\ file' \in {NoFile, tmp} /\ tmp' \in {tmp, NoFile} /\ pc' = "undo"
       \/ /\ tmp = NoFile /\ UNCHANGED faults
          /\ pc' = "undo" /\ UNCHANGED <<file, tmp>>
    /\ UNCHANGED <<prev, doc, upd, known>>

\* The catch clause: rm of what was put in place ...
Undo ==
    /\ pc = "undo"
    /\ \/ file' = NoFile /\ UNCHANGED faults
       \/ Fault /\ UNCHANGED file
    /\ pc' = "restore"
    /\ UNCHANGED <<prev, tmp, doc, upd, known>>

RestoreDrops ==
    /\ pc = "restore" /\ Throw /\ tmp' = NoFile /\ prev' = NoFile
    /\ UNCHANGED <<file, faults>>

\* ... and the displaced copy back; both failures are ignored.
Restore ==
    /\ pc = "restore" /\ Throw /\ tmp' = NoFile
    /\ \/ file' = prev /\ prev' = NoFile /\ UNCHANGED faults
       \/ Fault /\ UNCHANGED <<file, prev>>

\* The displaced copy is dropped; only now the update is acknowledged.
DropPrevious ==
    /\ pc = "drop"
    /\ \/ prev' = NoFile /\ Acknowledge /\ UNCHANGED faults
       \/ Fault /\ Throw /\ prev' \in {prev, NoFile}
    /\ tmp' = NoFile
    /\ UNCHANGED file

\* The process dies; a temporary file being written may be incomplete.
Die ==
    /\ Fault /\ pc # "idle" /\ Throw
    /\ tmp' \in (IF pc = "write" THEN {tmp, Torn} ELSE {tmp})
    /\ UNCHANGED <<file, prev>>

Step ==
    \/ ReadPrimary \/ ReadFails \/ ReadPrevious \/ ReadRecovered \/ ReadEmpty
    \/ WriteTemp \/ Replace \/ Verify \/ Displace \/ Promote \/ Undo \/ Restore \/ DropPrevious

Next == Step \/ Die \/ \E u \in Updates \cup {Read} : Begin(u)

Spec == Init /\ [][Next]_vars

-----------------------------------------------------------------------------
Stored == IF IsDoc(file) THEN file.has ELSE prev.has

Durable == INSTANCE DurableStore WITH val <- Stored, promised <- known

\* The vault implements a durable store: saved, rotated and forgotten
\* records take effect at once and as a whole, and what a caller was told
\* or shown survives every failing call and death of the process.
VaultDurable == Durable!Spec

\* No order of failures and deaths makes the vault unreadable.
NeverUnreadable == file # Torn /\ (file = NoFile => prev # Torn)

\* The tokens of the accounts survive: both of the above (oauth-token-
\* vault.ts).
TokensKept == VaultDurable /\ []NeverUnreadable
=============================================================================
