------------------------------ MODULE Pop3Test ------------------------------
(***************************************************************************)
(* The POP3 account test of pop3-test-transport.ts, started and cancelled  *)
(* by app-service.ts.  A server answers each command once: a status line,  *)
(* and for CAPA, and UIDL and LIST without a number, a body that ends with *)
(* a dot.  Before the TLS upgrade one line that answers nothing may arrive *)
(* as well.  A line carries the command it answers and whether it came     *)
(* over TLS: the code does not see these two, the properties do.           *)
(***************************************************************************)
EXTENDS Naturals, Sequences

CONSTANTS BodyLines,        \* limits.bodyLines
          MaxMessages,      \* messages a mailbox may hold
          MessageLimit      \* input.messageLimit

VARIABLES nOutcome,     \* "none" before the first test, "running", "ok", or an error
          nStage,       \* the command testPop3Account waits for the answer of
          nInBody,      \* multiline has read the status line
          nStartTls,    \* input.security = "starttls"
          nSecure,      \* the session's socket is the TLS socket
          nSockets,     \* open sockets
          nServer,      \* lines on their way to the client
          nLines,       \* #lines of the session's reader
          nBody,        \* lines of the multiline answer being read
          nCount,       \* messages reported by STAT
          nNumber,      \* the loop counter of the UIDL and LIST samples
          nSeen,        \* seenUidls
          nExtra,       \* history: a line that answers nothing arrived
          nMisread,     \* history: a line was taken as the answer to another command
          nDropped      \* history: lines were thrown away at the upgrade

popVars == <<nOutcome, nStage, nInBody, nStartTls, nSecure, nSockets, nServer, nLines, nBody,
             nCount, nNumber, nSeen, nExtra, nMisread, nDropped>>
history == <<nExtra, nMisread, nDropped>>

(* A body line is a capability or an item; n is the number a STAT or a UIDL
   answer carries. *)
Line(command, kind, n, secure) == [for |-> command, kind |-> kind, n |-> n, secure |-> secure]
Items == {<<>>, <<"STLS">>, <<"UIDL">>, <<"STLS", "UIDL">>, <<"STLS", "UIDL", "TOP">>}
MultiLine == {"capa1", "capa2", "uidl-all", "list-all"}

(* What the server may answer to a command. *)
Answers(command, secure) ==
    LET Status(kind, n) == Line(command, kind, n, secure)
    IN {<<Status("err", 0)>>} \cup
       CASE command \in MultiLine ->
              {<<Status("ok", 0)>> \o [i \in DOMAIN s |-> Status(s[i], 0)] \o <<Status(".", 0)>> : s \in Items}
         [] command \in {"stat", "uidl"} -> {<<Status("ok", n)>> : n \in 0..MaxMessages}
         [] OTHER -> {<<Status("ok", 0)>>}

PopInit ==
    /\ nOutcome = "none" /\ nStage = "none" /\ nInBody = FALSE
    /\ nStartTls = FALSE /\ nSecure = FALSE
    /\ nSockets = {} /\ nServer = <<>> /\ nLines = <<>> /\ nBody = <<>>
    /\ nCount = 0 /\ nNumber = 0 /\ nSeen = {}
    /\ nExtra = FALSE /\ nMisread = FALSE /\ nDropped = FALSE

Running == nOutcome = "running"

-----------------------------------------------------------------------------
(* testAccount claims the one test controller; the test opens its first
   socket. *)
StartTest(starttls) ==
    /\ ~Running
    /\ nOutcome' = "running" /\ nStartTls' = starttls /\ nSecure' = FALSE
    /\ nStage' = (IF starttls THEN "connect" ELSE "tls") /\ nInBody' = FALSE
    /\ nSockets' = (IF starttls THEN {"plain"} ELSE {"tls"})
    /\ nServer' = <<>> /\ nLines' = <<>> /\ nBody' = <<>>
    /\ nCount' = 0 /\ nNumber' = 0 /\ nSeen' = {} /\ nExtra' = FALSE
    /\ UNCHANGED <<nMisread, nDropped>>

LeavesPlain == nSockets \ {"tls"}

(* What the finally of testPop3Account leaves open. *)
Finished == {}

Ends(outcome) ==
    /\ nOutcome' = outcome /\ nStage' = "none" /\ nInBody' = FALSE
    /\ nSockets' = Finished /\ nServer' = <<>> /\ nLines' = <<>> /\ nBody' = <<>>
    /\ nCount' = 0 /\ nNumber' = 0 /\ nSeen' = {}
    /\ UNCHANGED <<nStartTls, nSecure>>

(* waitForSocket resolves; the server greets. *)
Connected ==
    /\ Running /\ nStage = "connect"
    /\ nStage' = "greeting"
    /\ nServer' \in {<<Line("greeting", kind, 0, FALSE)>> : kind \in {"ok", "err"}}
    /\ UNCHANGED <<nOutcome, nInBody, nStartTls, nSecure, nSockets, nLines, nBody, nCount,
                   nNumber, nSeen, history>>

(* secureConnect; after STLS replaceWithTls reads with a new reader and the
   capabilities are asked for again.  Plain lines still on their way are no
   handshake: the TLS layer then only fails (Breaks). *)
Secured ==
    /\ Running /\ nStage = "tls" /\ nServer = <<>>
    /\ nSecure' = TRUE /\ nLines' = <<>>
    /\ nStage' = (IF nStartTls THEN "capa2" ELSE "greeting")
    /\ nServer' \in Answers(nStage', TRUE)
    /\ UNCHANGED <<nOutcome, nInBody, nStartTls, nSockets, nBody, nCount, nNumber, nSeen, history>>

(* #onData; during the handshake no reader is attached. *)
Arrives ==
    /\ Running /\ nServer # <<>> /\ nStage # "tls"
    /\ nLines' = Append(nLines, Head(nServer)) /\ nServer' = Tail(nServer)
    /\ UNCHANGED <<nOutcome, nStage, nInBody, nStartTls, nSecure, nSockets, nBody, nCount, nNumber,
                   nSeen, history>>

ExtraLine ==
    /\ Running /\ ~nExtra /\ ~nSecure /\ nStage \notin {"connect", "tls"}
    /\ nExtra' = TRUE
    /\ \E kind \in {"ok", "UIDL", "."} : nLines' = Append(nLines, Line("nothing", kind, 0, FALSE))
    /\ UNCHANGED <<nOutcome, nStage, nInBody, nStartTls, nSecure, nSockets, nServer, nBody, nCount,
                   nNumber, nSeen, nMisread, nDropped>>

(* A stage timeout, the session deadline, a cancellation, a closed or failed
   connection: each rejects the await that is pending. *)
Breaks ==
    /\ Running
    /\ \E code \in {"ETIMEDOUT", "ECANCELLED", "ECONNECTION", "ETLS"} : Ends(code)
    /\ UNCHANGED history

-----------------------------------------------------------------------------
(* The line readLine resolves with, and the step taken on it. *)

NotChecked == FALSE

(* ~this.#reader.isEmpty once the answer to STLS has been read *)
UnreadLines == Tail(nLines) # <<>>

sampledMessageCount == IF nCount < MessageLimit THEN nCount ELSE MessageLimit

UidlStatusOnly == {"capa1", "capa2", "list-all"}

(* The commands sent with multiline. *)
ReadsBody == MultiLine

(* The next command is written and its answer awaited. *)
Sends(command) ==
    /\ nStage' = command /\ nInBody' = FALSE /\ nBody' = <<>>
    /\ nLines' = Tail(nLines)
    /\ \E answer \in Answers(command, nSecure) : nServer' = nServer \o answer
    /\ UNCHANGED <<nOutcome, nStartTls, nSecure, nSockets>>

(* The command after each one, once its answer is complete. *)
NextCommand ==
    CASE nStage = "greeting" -> IF nStartTls THEN "capa1" ELSE "capa2"
      [] nStage = "capa1" -> "stls"
      [] nStage = "capa2" -> "user"
      [] nStage = "user" -> "pass"
      [] nStage = "pass" -> "stat"
      [] nStage = "stat" -> IF nCount' = 0 THEN "uidl-all" ELSE "uidl"
      [] nStage = "uidl-all" -> "list-all"
      [] nStage = "uidl" -> "list"
      [] nStage = "list" -> IF nNumber < sampledMessageCount THEN "uidl" ELSE "quit"
      [] nStage = "list-all" -> "quit"

ReadStatus(line) ==
    \/ /\ line.kind # "ok"            \* parseStatus or required throws
       /\ Ends(CASE line.kind = "err" /\ nStage \in {"user", "pass"} -> "EAUTH"
                 [] line.kind = "err" /\ nStage = "stls" -> "ETLS"
                 [] OTHER -> "EPROTOCOL")
       /\ UNCHANGED nDropped
    \/ /\ line.kind = "ok" /\ nStage \in ReadsBody
       /\ nInBody' = TRUE /\ nLines' = Tail(nLines)
       /\ UNCHANGED <<nOutcome, nStage, nStartTls, nSecure, nSockets, nServer, nBody, nCount,
                      nNumber, nSeen, nDropped>>
    \/ /\ line.kind = "ok" /\ nStage = "stls" /\ UnreadLines      \* takeSocketForTls
       /\ Ends("EPROTOCOL") /\ UNCHANGED nDropped
    \/ /\ line.kind = "ok" /\ nStage = "stls" /\ ~UnreadLines
       /\ nLines' = <<>> /\ nDropped' = (nDropped \/ Tail(nLines) # <<>>)
       /\ nStage' = "tls" /\ nSockets' = nSockets \cup {"tls"}
       /\ UNCHANGED <<nOutcome, nInBody, nStartTls, nSecure, nServer, nBody, nCount, nNumber, nSeen>>
    \/ /\ line.kind = "ok" /\ nStage = "quit"
       /\ Ends("ok") /\ UNCHANGED nDropped
    \/ /\ line.kind = "ok" /\ nStage = "uidl" /\ line.n \in nSeen     \* assertUidl
       /\ Ends("EPROTOCOL") /\ UNCHANGED nDropped
    \/ /\ line.kind = "ok" /\ nStage \notin ReadsBody \cup {"stls", "quit"}
       /\ ~(nStage = "uidl" /\ line.n \in nSeen)
       /\ nCount' = (IF nStage = "stat" THEN line.n ELSE nCount)
       /\ nNumber' = (CASE nStage = "stat" -> 1 [] nStage = "list" -> nNumber + 1 [] OTHER -> nNumber)
       /\ nSeen' = (IF nStage = "uidl" THEN nSeen \cup {line.n} ELSE nSeen)
       /\ Sends(NextCommand) /\ UNCHANGED nDropped

Capabilities == {nBody[i] : i \in DOMAIN nBody}
Missing == (nStage = "capa1" /\ "STLS" \notin Capabilities) \/ (nStage = "capa2" /\ "UIDL" \notin Capabilities)

ReadBody(line) ==
    /\ UNCHANGED nDropped
    /\ \/ /\ line.kind = "." /\ ~Missing
          /\ UNCHANGED <<nCount, nNumber, nSeen>> /\ Sends(NextCommand)
       \/ /\ line.kind = "." /\ Missing
          /\ Ends(IF nStage = "capa1" THEN "ETLS" ELSE "EPROTOCOL")
       \/ /\ line.kind # "." /\ Len(nBody) >= BodyLines
          /\ Ends("ETOOBIG")
       \/ /\ line.kind # "." /\ Len(nBody) < BodyLines
          /\ nBody' = Append(nBody, line.kind) /\ nLines' = Tail(nLines)
          /\ UNCHANGED <<nOutcome, nStage, nInBody, nStartTls, nSecure, nSockets, nServer, nCount,
                         nNumber, nSeen>>

ReadLine ==
    /\ Running /\ nLines # <<>>
    /\ nMisread' = (nMisread \/ (Head(nLines).for # nStage /\ ~nExtra))
    /\ UNCHANGED nExtra
    /\ IF nInBody THEN ReadBody(Head(nLines)) ELSE ReadStatus(Head(nLines))

PopNext ==
    \/ \E starttls \in BOOLEAN : StartTest(starttls)
    \/ Connected \/ Secured \/ Arrives \/ ExtraLine \/ ReadLine \/ Breaks

-----------------------------------------------------------------------------
(* The client stays in step with a server that answers each command once:
   whatever the answers are, no line is read as the answer to a command it
   does not answer, so a status is never taken from a left-over body. *)
InStep == ~nMisread

(* A plaintext dialogue that does not end with the answer to STLS ends the
   test: nothing that arrived before the upgrade is thrown away, and nothing
   of it is read after. *)
NothingCrossesUpgrade ==
    /\ ~nDropped
    /\ nSecure => \A i \in DOMAIN nLines : nLines[i].secure

(* A test that ended, however it ended, has closed every socket it opened. *)
SocketsClosed == ~Running => nSockets = {}
=============================================================================
