------------------------------ MODULE MailIndex ------------------------------
(***************************************************************************)
(* Search in the cached mail: cached-mail-index.ts says what the index of  *)
(* a state holds, cached-mail-sqlite-index.ts keeps one in an SQLite file  *)
(* with the fingerprint of the state it was built from.  A search runs to  *)
(* its end at once, but every step of it may fail and the process may die  *)
(* after any.  SQLite commits a transaction wholly or not at all.          *)
(***************************************************************************)
EXTENDS Naturals, FiniteSets, Functions

CONSTANTS MailStates,     \* states of the application: [folders, messages], see createCachedMailIndex
          DocumentLimit,  \* CACHED_MAIL_INDEX_DOCUMENT_LIMIT
          SchemaVersion,  \* CACHED_MAIL_SQLITE_SCHEMA_VERSION
          MaxMishaps      \* failures, deaths and damages

VARIABLES xState,    \* the state of the application, its source
          xFile,     \* the SQLite file
          xStep,     \* where the running search is
          xAsked,    \* the source of the running or last search
          xRetried,  \* #recoverAfterCorruption is under way
          xAnswer,   \* the documents the last search looked into
          xMishaps,
          xSpoiled   \* history: something failed in the last search or since

indexVars == <<xState, xFile, xStep, xAsked, xRetried, xAnswer, xMishaps, xSpoiled>>

NoIndex == [documents |-> {}, limited |-> FALSE]
(* kind: "none", "damaged" (no statement works on it), "torn" (its documents
   cannot be read), "empty" (no tables yet) or "index". *)
File(kind, schema, from, index) == [kind |-> kind, schema |-> schema, from |-> from, index |-> index]
NoSource == [folders |-> {}, messages |-> <<>>]
NoFile == File("none", 0, NoSource, NoIndex)
EmptyFile == File("empty", 0, NoSource, NoIndex)

-----------------------------------------------------------------------------
(* createCachedMailIndex visits the lists under their keys in order, in     *)
(* each the messages newest first; a place is a list and a row of it.  A    *)
(* list of a folder that is not known is left out, and so are a message     *)
(* that is not its list's and a second one with the same identity.          *)
Visited(source) ==
    UNION {{<<k, i>> : i \in {j \in DOMAIN source.messages[k].rows :
                                 source.messages[k].rows[j].key = source.messages[k].key}} :
           k \in {l \in DOMAIN source.messages : source.messages[l].key \in source.folders}}
IdAt(source, at) == source.messages[at[1]].rows[at[2]].id
Before(a, b) == a[1] < b[1] \/ (a[1] = b[1] /\ a[2] < b[2])
Firsts(source) ==
    {at \in Visited(source) :
        \A other \in Visited(source) : Before(other, at) => IdAt(source, other) # IdAt(source, at)}

createCachedMailIndex(source) ==
    LET firsts == Firsts(source)
        selected == {at \in firsts : Cardinality({b \in firsts : Before(b, at)}) < DocumentLimit}
    IN [documents |-> {IdAt(source, at) : at \in selected},
        limited |-> Cardinality(firsts) > DocumentLimit]

Built(source) == File("index", SchemaVersion, source, createCachedMailIndex(source))

MailIndexInit ==
    /\ xState \in MailStates /\ xStep = "idle" /\ xAsked = NoSource /\ xRetried = FALSE
    /\ xFile \in {NoFile, File("index", SchemaVersion + 1, xState, NoIndex)}
    /\ xAnswer = NoIndex /\ xMishaps = 0 /\ xSpoiled = FALSE

-----------------------------------------------------------------------------
(* The mail changes, between searches. *)
StateChanges(state) ==
    /\ xStep = "idle" /\ xState' = state
    /\ UNCHANGED <<xFile, xStep, xAsked, xRetried, xAnswer, xMishaps, xSpoiled>>

(* The file is damaged outside the program. *)
Damage(kind) ==
    /\ xStep = "idle" /\ xMishaps < MaxMishaps /\ xMishaps' = xMishaps + 1
    /\ xFile.kind = "index" /\ kind \in {"damaged", "torn"} /\ xFile' = [xFile EXCEPT !.kind = kind] /\ xSpoiled' = TRUE
    /\ UNCHANGED <<xState, xStep, xAsked, xRetried, xAnswer>>

Search ==
    /\ xStep = "idle" /\ xStep' = "open" /\ xAsked' = xState /\ xRetried' = FALSE /\ xSpoiled' = FALSE
    /\ UNCHANGED <<xState, xFile, xAnswer, xMishaps>>

(* #loadOrRebuild: opening makes the file when there is none.  What
   #readMeta cannot read counts as an index that is not there. *)
Open ==
    /\ xStep = "open" /\ xStep' = "meta" /\ xFile' = IF xFile = NoFile THEN EmptyFile ELSE xFile
    /\ UNCHANGED <<xState, xAsked, xRetried, xAnswer, xMishaps, xSpoiled>>

OtherState(file, source) == file.kind \in {"index", "torn"} /\ file.schema = SchemaVersion
Trusted(file, source) == file.kind \in {"index", "torn"} /\ file.schema = SchemaVersion /\ file.from = source

ReadMeta ==
    /\ xStep = "meta" /\ xStep' = IF Trusted(xFile, xAsked) THEN "documents" ELSE "write"
    /\ UNCHANGED <<xState, xFile, xAsked, xRetried, xAnswer, xMishaps, xSpoiled>>

(* #resolveIndex: whatever is thrown leads to one attempt on a new file, and
   after that to an answer worked out without one. *)
Thrown == IF xRetried THEN "direct" ELSE "reset"

ReadDocuments ==
    /\ xStep = "documents"
    /\ IF xFile.kind = "index" THEN xStep' = "idle" /\ xAnswer' = xFile.index ELSE xStep' = Thrown /\ UNCHANGED xAnswer
    /\ UNCHANGED <<xState, xFile, xAsked, xRetried, xMishaps, xSpoiled>>

(* #writeIndex, one transaction *)
WriteIndex ==
    /\ xStep = "write"
    /\ IF xFile.kind = "damaged" THEN xStep' = Thrown /\ UNCHANGED <<xFile, xAnswer>>
       ELSE xStep' = "idle" /\ xFile' = Built(xAsked) /\ xAnswer' = xFile'.index
    /\ UNCHANGED <<xState, xAsked, xRetried, xMishaps, xSpoiled>>

(* #resetFile, whose failure is ignored, and the second attempt *)
Reset(removed) == IF removed THEN NoFile ELSE xFile
RecoverAfterCorruption(removed) ==
    /\ xStep = "reset" /\ xStep' = "open" /\ xRetried' = TRUE /\ xFile' = Reset(removed)
    /\ (~removed => xMishaps < MaxMishaps) /\ xMishaps' = IF removed THEN xMishaps ELSE xMishaps + 1
    /\ xSpoiled' = (xSpoiled \/ ~removed)
    /\ UNCHANGED <<xState, xAsked, xAnswer>>

Direct ==
    /\ xStep = "direct" /\ xStep' = "idle" /\ xAnswer' = createCachedMailIndex(xAsked)
    /\ UNCHANGED <<xState, xFile, xAsked, xRetried, xMishaps, xSpoiled>>

(* A statement fails: the disk is full, the file locked or read-only. *)
Fail ==
    /\ xStep \in {"open", "documents", "write"} /\ xMishaps < MaxMishaps /\ xMishaps' = xMishaps + 1
    /\ xStep' = Thrown /\ xSpoiled' = TRUE
    /\ UNCHANGED <<xState, xFile, xAsked, xRetried, xAnswer>>

(* The process dies; the search is never answered. *)
Die ==
    /\ xStep # "idle" /\ xMishaps < MaxMishaps /\ xMishaps' = xMishaps + 1
    /\ xStep' = "idle" /\ xAsked' = NoSource /\ xAnswer' = NoIndex /\ xSpoiled' = TRUE
    /\ UNCHANGED <<xState, xFile, xRetried>>

MailIndexNext ==
    \/ \E state \in MailStates : StateChanges(state)
    \/ \E kind \in {"damaged", "torn"} : Damage(kind)
    \/ \E removed \in BOOLEAN : RecoverAfterCorruption(removed)
    \/ Search \/ Open \/ ReadMeta \/ ReadDocuments \/ WriteIndex \/ Direct \/ Fail \/ Die

-----------------------------------------------------------------------------
(* The messages a search of this source has to look into. *)
Visible(source) ==
    {m.id : m \in UNION {{n \in Range(l.rows) : n.key = l.key} : l \in {k \in Range(source.messages) : k.key \in source.folders}}}

(* A search looks into every message of the state it was asked about that is
   in its own folder, and into no other, over stale, foreign, damaged and
   half-written files: all of them, or as many as the limit allows and says so. *)
SearchesTheMail ==
    xStep = "idle" /\ xAsked # NoSource =>
        /\ xAnswer.documents \subseteq Visible(xAsked) /\ Cardinality(xAnswer.documents) <= DocumentLimit
        /\ xAnswer.limited \/ xAnswer.documents = Visible(xAsked)

(* A search in which no step failed leaves an index the next one can use,
   whatever it found in the file. *)
RepairsTheFile == xStep = "idle" /\ xAsked # NoSource /\ ~xSpoiled => xFile = Built(xAsked)
=============================================================================
