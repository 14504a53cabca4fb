----------------------------- MODULE MCServices -----------------------------
(***************************************************************************)
(* The main process's services for TLC: the token vault's file, the POP3   *)
(* test, the quarantine, the local history, the PIM records, the search    *)
(* index, the tags as IMAP keywords, tags and filters, the junk model and  *)
(* the mock token lifecycle.                                               *)
(* Each keeps its own files or talks to its own server: a behaviour moves  *)
(* one of them, its focus, and the others rest. The quarantine is tried    *)
(* with two risky attachments, and with one beside an ordinary one.        *)
(***************************************************************************)
EXTENDS TokenVault, Sequences

CONSTANTS BodyLines, MaxMessages, MessageLimit, Sources, QuarantineCalls,
          MaxIds, Ordinary, MaxSuffix, MaxStates, MaxCommits, MaxTime, PimUids, MaxTransactions,
          Refreshes, MailStates, DocumentLimit, SchemaVersion, MaxMishaps, TagKeywords,
          OtherKeywords, MaxForeignSteps, TagNames, SlugOf, Shapes, Roles, Home, MaxTags,
          MaxFilters, MaxBorn, Tokens, TokenLimit, TrainingMinimum, MaxTrained,
          MockCalls, MaxIssued

ASSUME ServicesAssumption == MaxIds \in Nat
(* The lists of messages and their rows are sequences.                     *)
ASSUME MailIndexAssumption ==
    /\ DocumentLimit \in Nat /\ SchemaVersion \in Nat
    /\ \A source \in MailStates :
          /\ Len(source.messages) \in Nat /\ DOMAIN source.messages = 1..Len(source.messages)
          /\ \A k \in DOMAIN source.messages :
                /\ Len(source.messages[k].rows) \in Nat
                /\ DOMAIN source.messages[k].rows = 1..Len(source.messages[k].rows)

VARIABLES focus,
          nOutcome, nStage, nInBody, nStartTls, nSecure, nSockets, nServer, nLines, nBody, nCount,
          nNumber, nSeen, nExtra, nMisread, nDropped,
          qRecords, qFiles, qAside, qCalls, qNextId, qFolder, qOut, qClobbered, qMishaps,
          hState, hStore, hChain, hNotes, hDirty, hReady, hQueue, hPrune, hShown, hRestore,
          hJournal, hNow, hStates, hSerial, hAsked, hMeanwhile, hReplacedLost,
          sDb, sCalls, sLatest, sStale,
          xState, xFile, xStep, xAsked, xRetried, xAnswer, xMishaps, xSpoiled,
          kServer, kPermanent, kKeeps, kStep, kDesired, kCurrent, kForeign, kHeld, kOthers,
          oTags, oMessage, oFilters, oBorn, oMeant, oMade, oRun,
          jModel, jSample, jLabel,
          lPhase, lGeneration, lExpired, lStored, lDisposed, lCalls, lIssued, lActivated

popVars == <<nOutcome, nStage, nInBody, nStartTls, nSecure, nSockets, nServer, nLines, nBody,
             nCount, nNumber, nSeen, nExtra, nMisread, nDropped>>
quarantineVars == <<qRecords, qFiles, qAside, qCalls, qNextId, qFolder, qOut, qClobbered, qMishaps>>
historyVars == <<hState, hStore, hChain, hNotes, hDirty, hReady, hQueue, hPrune, hShown, hRestore,
                 hJournal, hNow, hStates, hSerial, hAsked, hMeanwhile, hReplacedLost>>
pimServiceVars == <<sDb, sCalls, sLatest, sStale>>
indexVars == <<xState, xFile, xStep, xAsked, xRetried, xAnswer, xMishaps, xSpoiled>>
keywordVars == <<kServer, kPermanent, kKeeps, kStep, kDesired, kCurrent, kForeign, kHeld, kOthers>>
organizerVars == <<oTags, oMessage, oFilters, oBorn, oMeant, oMade, oRun>>
junkVars == <<jModel, jSample, jLabel>>
lifecycleVars == <<lPhase, lGeneration, lExpired, lStored, lDisposed, lCalls, lIssued, lActivated>>

Pop == INSTANCE Pop3Test
Quarantined == INSTANCE Quarantine
Saving == INSTANCE Quarantine WITH Sources <- {"s1"}, Ordinary <- 1
Local == INSTANCE History
Pim == INSTANCE PimService
Index == INSTANCE MailIndex
Keyword == INSTANCE Keywords
Organize == INSTANCE Organizer
JunkModel == INSTANCE Junk
Mock == INSTANCE MockTokens

(* Cached mail: all folders there, one folder gone, the same message twice
   and a list that holds a message of another folder, and no mail. *)
Row(id, key) == [id |-> id, key |-> key]
Rows(key, rows) == [key |-> key, rows |-> rows]
FourStates ==
    {[folders |-> {1, 2}, messages |-> <<Rows(1, <<Row(1, 1), Row(2, 1)>>), Rows(2, <<Row(3, 2)>>)>>],
     [folders |-> {1}, messages |-> <<Rows(1, <<Row(1, 1), Row(2, 1)>>), Rows(2, <<Row(3, 2)>>)>>],
     [folders |-> {1, 2}, messages |-> <<Rows(1, <<Row(1, 1), Row(3, 2), Row(1, 1)>>), Rows(2, <<Row(3, 2)>>)>>],
     [folders |-> {2}, messages |-> <<>>]}

(* Two names with one slug, and filters that take back each other's
   decisions. *)
OneSlug == [n \in TagNames |-> "s"]
Tag == <<"s", 1>>
NoTag == <<"", 0>>
Act(kind) == [kind |-> kind, tag |-> NoTag, folder |-> ""]
Holds(field, tag, is) == [field |-> field, tag |-> tag, is |-> is]
FourFilters ==
    {[match |-> "all", conditions |-> {Holds("read-state", NoTag, FALSE)},
      actions |-> <<Act("mark-junk"), Act("star"), [Act("add-tag") EXCEPT !.tag = Tag]>>],
     [match |-> "all", conditions |-> {Holds("star-state", NoTag, FALSE), Holds("read-state", NoTag, FALSE)},
      actions |-> <<Act("mark-not-junk"), Act("unstar"), Act("archive")>>],
     [match |-> "any", conditions |-> {Holds("tag", Tag, TRUE), Holds("read-state", NoTag, FALSE)},
      actions |-> <<[Act("remove-tag") EXCEPT !.tag = Tag], Act("mark-read"), Act("mark-not-junk"), Act("stop"), Act("star")>>],
     [match |-> "all", conditions |-> {Holds("tag", Tag, FALSE)},
      actions |-> <<[Act("move") EXCEPT !.folder = "other"], Act("mark-unread"), Act("mark-not-junk")>>]}
JunkFolder == [junk |-> "spam"]

ServicesInit ==
    /\ focus \in {"vault", "pop3", "quarantine", "saving", "history", "pim", "index", "keywords",
                  "organizer", "junk", "mock"}
    /\ Init
    /\ Pop!PopInit
    /\ Quarantined!QuarantineInit
    /\ Local!HistoryInit
    /\ Pim!PimServiceInit
    /\ IF focus = "index" THEN Index!MailIndexInit
       ELSE xState = [folders |-> {2}, messages |-> <<>>] /\ xFile = Index!NoFile /\ Index!MailIndexInit
    /\ IF focus = "keywords" THEN Keyword!KeywordsInit
       ELSE kServer = {} /\ kPermanent = "any" /\ kKeeps = TRUE /\ Keyword!KeywordsInit
    /\ Organize!OrganizerInit
    /\ JunkModel!JunkInit
    /\ Mock!LifecycleInit

ServicesNext ==
    /\ UNCHANGED focus
    /\ IF focus = "vault" THEN Next ELSE UNCHANGED vars
    /\ IF focus = "pop3" THEN Pop!PopNext ELSE UNCHANGED popVars
    /\ IF focus = "quarantine" THEN Quarantined!QuarantineNext
       ELSE IF focus = "saving" THEN Saving!QuarantineNext
       ELSE UNCHANGED quarantineVars
    /\ IF focus = "history" THEN Local!HistoryNext ELSE UNCHANGED historyVars
    /\ IF focus = "pim" THEN Pim!PimServiceNext ELSE UNCHANGED pimServiceVars
    /\ IF focus = "index" THEN Index!MailIndexNext ELSE UNCHANGED indexVars
    /\ IF focus = "keywords" THEN Keyword!KeywordsNext ELSE UNCHANGED keywordVars
    /\ IF focus = "organizer" THEN Organize!OrganizerNext ELSE UNCHANGED organizerVars
    /\ IF focus = "junk" THEN JunkModel!JunkNext ELSE UNCHANGED junkVars
    /\ IF focus = "mock" THEN Mock!LifecycleNext ELSE UNCHANGED lifecycleVars

servicesVars == <<vars, popVars, quarantineVars, historyVars, pimServiceVars, indexVars,
                  keywordVars, organizerVars, junkVars, lifecycleVars, focus>>
ServicesSpec == ServicesInit /\ [][ServicesNext]_servicesVars

-----------------------------------------------------------------------------
(* A session keeps in step with its server: a POP3 test reads no line as   *)
(* the answer to a command it does not answer, neither drops nor reads     *)
(* after the TLS upgrade what arrived before it, and has closed every      *)
(* socket it opened when it ends; a mock lifecycle at rest stores no       *)
(* tokens that were revoked or overtaken (pop3-test-transport.ts,          *)
(* mock-oauth-token-lifecycle.ts).                                         *)
SessionsInStep ==
    /\ Pop!InStep
    /\ Pop!NothingCrossesUpgrade
    /\ Pop!SocketsClosed
    /\ Mock!RevokedForgotten
    /\ Mock!ActiveOwn

(* However saves, releases and removals overlap, fail or die, an           *)
(* attachment is quarantined once, a record keeps its payload, a payload   *)
(* its record or its excuse, a release copies what was quarantined, and    *)
(* saving all attachments writes over no file (saveAttachment,             *)
(* releaseQuarantined and deleteQuarantined in app-service.ts).            *)
QuarantineSound ==
    /\ Quarantined!SourcesOnce
    /\ Quarantined!RecordsBacked
    /\ Quarantined!OrphansExplained
    /\ Quarantined!ReleasedIntact
    /\ Quarantined!NeverOverwrites

(* A revision leaves the history only in a prune whose confirmed preview   *)
(* listed it, a label stays on its revision through rewritten commits, and *)
(* the state a restore replaces is in the history (history-repository.ts,  *)
(* restoreLocalRevision).                                                  *)
HistoryKept ==
    /\ Local!LostOnlyIfShown
    /\ []Local!LabelsKept
    /\ []Local!RestoreKeepsPrevious

(* The journal explains every PIM record: each transaction takes over      *)
(* where the one before left off, a revision number stands for one content *)
(* for ever, a task is complete, at 100 per cent and dated all at once,    *)
(* and a refresh never lands on newer tasks (pim-service.ts).              *)
RecordsExplained ==
    /\ Pim!JournalComplete
    /\ Pim!RevisionsUnique
    /\ Pim!CompletionConsistent
    /\ Pim!RefreshNeverStale

(* A search looks into exactly the mail of the state it was asked about,   *)
(* or says that it was limited, over stale and damaged index files, and    *)
(* leaves an index the next one can use when no step failed (cached-mail-  *)
(* sqlite-index.ts).                                                       *)
SearchSound == Index!SearchesTheMail /\ Index!RepairsTheFile

(* Tags are the ones that were given: a tag on a message is not a later    *)
(* one of its id, tags reported as stored were on the server at some       *)
(* moment of the call, and other programs' keywords are left alone         *)
(* (message-tags.ts, app-service.ts, setMessageKeywords of                 *)
(* mail-service.ts).                                                       *)
TagsAsGiven ==
    /\ Organize!TagsMeant
    /\ Keyword!StoredWereHeld
    /\ Keyword!OthersUntouched

(* Mail is organized as decided: every filter is in the list once, an      *)
(* undisturbed run leaves what the matching filters say last, and the junk *)
(* model counts what it was taught and learns in the right direction       *)
(* (mail-organization.ts, junk-classifier.ts).                             *)
OrganizedAsDecided ==
    /\ JunkModel!TrainingHelps
    /\ []JunkModel!OnceSeenNeverDecides
    /\ []JunkModel!CountsCovered
    /\ []Organize!FiltersKept
    /\ []Organize!RunDecides
=============================================================================
