------------------------------ MODULE Keywords -------------------------------
(***************************************************************************)
(* setMessageKeywords of mail-service.ts: the tags of a message as IMAP    *)
(* keywords.  The keywords are read, added to, taken from and read back in *)
(* commands of their own, while another mail client may change them, and a *)
(* server may answer OK to a change and keep nothing of it.                *)
(***************************************************************************)
EXTENDS Naturals, FiniteSets

CONSTANTS TagKeywords,     \* keywords of the program's tags
          OtherKeywords,   \* keywords of other programs
          MaxForeignSteps  \* changes made by another client

VARIABLES kServer,     \* the message's keywords on the server
          kPermanent,  \* the keywords PERMANENTFLAGS lists, or "any"
          kKeeps,      \* the server keeps the keywords it accepts
          kStep,       \* the command that comes next
          kDesired,    \* the keywords wanted
          kCurrent,    \* the keywords read at first
          kForeign,    \* changes made by another client
          kHeld,       \* history: the tags the message had during the call
          kOthers      \* history: the other keywords, as another client left them

keywordVars == <<kServer, kPermanent, kKeeps, kStep, kDesired, kCurrent, kForeign, kHeld, kOthers>>

Keys == TagKeywords \cup OtherKeywords
Tags(keywords) == keywords \cap TagKeywords
Idle == kStep \in {"new", "stored", "failed"}

KeywordsInit ==
    /\ kServer \in SUBSET Keys /\ kPermanent \in {"any", "none", "some"} /\ kKeeps \in BOOLEAN
    /\ kStep = "new" /\ kDesired = {} /\ kCurrent = {} /\ kForeign = 0 /\ kHeld = {} /\ kOthers = kServer \ TagKeywords

-----------------------------------------------------------------------------
(* A step that leaves the server's keywords as given. *)
Server(keywords) == kServer' = keywords /\ kHeld' = kHeld \cup {Tags(keywords)}
Settings == <<kPermanent, kKeeps, kForeign, kOthers>>

SetMessageKeywords(desired) ==
    /\ Idle /\ kStep' = "read" /\ kDesired' = desired /\ kHeld' = {Tags(kServer)}
    /\ UNCHANGED <<kServer, kCurrent, Settings>>

MessageKeywords ==
    /\ kStep = "read" /\ kCurrent' = kServer /\ kStep' = "check"
    /\ UNCHANGED <<kServer, kDesired, kHeld, Settings>>

Added == kDesired \ kCurrent
AllOthers == kCurrent \ kDesired
Removed == Tags(kCurrent) \ kDesired

(* #assertKeywordSupport; "some" lists every tag but one. *)
Supported(keywords) ==
    \/ kPermanent = "any"
    \/ kPermanent = "some" /\ (CHOOSE t \in TagKeywords : TRUE) \notin keywords

Check ==
    /\ kStep = "check"
    /\ kStep' = CASE Added = {} /\ Removed = {} -> "stored"
                  [] Added \cup Removed # {} /\ Supported(Added \cup Removed) -> "add"
                  [] OTHER -> "failed"
    /\ UNCHANGED <<kServer, kDesired, kCurrent, kHeld, Settings>>

Add ==
    /\ kStep = "add" /\ kStep' = "remove" /\ Server(IF kKeeps THEN kServer \cup Added ELSE kServer)
    /\ UNCHANGED <<kDesired, kCurrent, Settings>>
Remove ==
    /\ kStep = "remove" /\ kStep' = "verify" /\ Server(IF kKeeps THEN kServer \ Removed ELSE kServer)
    /\ UNCHANGED <<kDesired, kCurrent, Settings>>

TrustsOk == "stored"
ReadBack == IF Tags(kServer) = kDesired THEN "stored" ELSE "failed"
Verify ==
    /\ kStep = "verify" /\ kStep' = ReadBack
    /\ UNCHANGED <<kServer, kDesired, kCurrent, kHeld, Settings>>

(* The server refuses a command, the message is gone or the connection. *)
CommandFails ==
    /\ ~Idle /\ kStep' = "failed"
    /\ UNCHANGED <<kServer, kDesired, kCurrent, kHeld, Settings>>

(* Another mail client changes one keyword. *)
OtherClient(k) ==
    /\ kForeign < MaxForeignSteps /\ kForeign' = kForeign + 1
    /\ Server(IF k \in kServer THEN kServer \ {k} ELSE kServer \cup {k})
    /\ kOthers' = kServer' \ TagKeywords
    /\ UNCHANGED <<kPermanent, kKeeps, kStep, kDesired, kCurrent>>

KeywordsNext ==
    \/ \E desired \in SUBSET TagKeywords : SetMessageKeywords(desired)
    \/ MessageKeywords \/ Check \/ Add \/ Remove \/ Verify \/ CommandFails
    \/ \E k \in Keys : OtherClient(k)

-----------------------------------------------------------------------------
(* Tags reported as stored were exactly the message's tags on the server at
   some moment of the call, whatever the server drops and others change. *)
StoredWereHeld == kStep = "stored" => kDesired \in kHeld

(* The keywords of other programs are only ever changed by other clients. *)
OthersUntouched == kServer \ TagKeywords = kOthers
=============================================================================
