---------------------------- MODULE AccountSetup ----------------------------
(***************************************************************************)
(* The account setup dialog of renderer/main.ts: the form that every       *)
(* render() builds anew, the browser sign-in panel that follows the main   *)
(* process by polling, and the test and connect buttons.                   *)
(*                                                                         *)
(* Calls cross the bridge in order: the main process handles them in the   *)
(* order they were sent, and its answers arrive in the order it gave them. *)
(* Only the answer to a start waits, for the browser.  An answer may be a  *)
(* failure of the bridge instead.  The main process's sign-in is that of   *)
(* OAuthFlow, with its phases grouped: "ended" stands for cancelled,       *)
(* timed-out and error.                                                    *)
(***************************************************************************)
EXTENDS Naturals, Sequences

CONSTANTS MaxSetupCalls,    \* bound on the calls crossing the bridge at once
          SetupKeys         \* the busy keys used: of "test", "add", "discover", "demo"

VARIABLES uOpen,        \* state.setupOpen
          uAccounts,    \* bootstrap.accounts is not empty
          uForm,        \* the form in the document
          uAuth,        \* state.oauthAuthorization.phase
          uSignIn,      \* state.oauthSignIn.phase, or "none"
          uTimer,       \* oauthStatusPollTimer is set
          uRequests, uReplies,
          uMain,        \* the main process: authorization and sign-in
          uBrowsers,    \* openExternal calls that have not returned
          uBusy,        \* state.busy
          uPop3,        \* the POP3 test in flight: none, attached, detached
          uBroken       \* history: a call failed on the bridge

setupVars == <<uOpen, uAccounts, uForm, uAuth, uSignIn, uTimer, uRequests,
               uReplies, uMain, uBrowsers, uBusy, uPop3, uBroken>>
panelVars == <<uAuth, uSignIn, uTimer>>
bridgeVars == <<uRequests, uReplies, uMain, uBrowsers, uBroken>>

oauthAuthorizationIsActive(p) == p \in {"preparing", "opening", "awaiting"}

(* syncAccountAuthenticationMode: the submit buttons that are enabled. *)
Enabled(form, busy) ==
    IF form.auth = "oauth2" \/ form.testing \/ busy \cap {"test", "add"} # {}
    THEN {}
    ELSE IF form.protocol = "pop3" THEN {"test"} ELSE {"test", "add"}

Synced(form, busy) == [form EXCEPT !.enabled = Enabled(form, busy)]

(* The form renderAccountSetup writes: no field outlives a render. *)
NewForm(busy) ==
    Synced([auth |-> "password", protocol |-> "imap", testing |-> FALSE, enabled |-> {}], busy)

PanelShown == uOpen /\ uForm.auth = "oauth2" /\ uForm.protocol = "imap"

Rerendered(busy) ==
    /\ uBusy' = busy
    /\ uForm' = NewForm(busy)
    /\ uPop3' = IF uPop3 = "attached" THEN "detached" ELSE uPop3

Room(n) == Len(uRequests) + Len(uReplies) + uBrowsers + n <= MaxSetupCalls

Send(call) == uRequests' = Append(uRequests, call)

SetupInit ==
    /\ uAccounts \in BOOLEAN /\ uOpen = ~uAccounts
    /\ uForm = NewForm({}) /\ uBusy = {} /\ uPop3 = "none"
    /\ uAuth = "idle" /\ uSignIn = "none" /\ uTimer = FALSE
    /\ uRequests = <<>> /\ uReplies = <<>> /\ uBrowsers = 0 /\ uBroken = FALSE
    /\ uMain = [auth |-> "idle", signIn |-> "none"]

-----------------------------------------------------------------------------
(* Opening, closing and editing the form. *)

OpenAccountSetup ==
    /\ ~uOpen /\ Room(1)
    /\ uOpen' = TRUE /\ Rerendered(uBusy)
    /\ Send("refresh-status")
    /\ UNCHANGED <<uAccounts, panelVars, uReplies, uMain, uBrowsers, uBroken>>

(* The last account was removed, or a mailto link came without one: the
   dialog opens on what was read before. *)
OpenWithoutAccounts ==
    /\ ~uOpen
    /\ uOpen' = TRUE /\ uAccounts' = FALSE /\ Rerendered(uBusy)
    /\ UNCHANGED <<panelVars, bridgeVars>>

CloseAccountSetup ==
    /\ uOpen /\ uAccounts /\ Room(1)
    /\ IF oauthAuthorizationIsActive(uAuth)
       THEN uTimer' = FALSE /\ Send("close-cancel")
       ELSE Send("close") /\ UNCHANGED uTimer
    /\ UNCHANGED <<uOpen, uAccounts, uForm, uAuth, uSignIn, uReplies, uMain,
                   uBrowsers, uBusy, uPop3, uBroken>>

ChooseAuthentication(mode) ==
    /\ uOpen /\ uForm.protocol = "imap" /\ uForm.auth # mode
    /\ uForm' = Synced([uForm EXCEPT !.auth = mode], uBusy)
    /\ IF mode = "oauth2" THEN Room(1) /\ Send("refresh-status") ELSE UNCHANGED uRequests
    /\ UNCHANGED <<uOpen, uAccounts, panelVars, uReplies, uMain, uBrowsers, uBusy, uPop3, uBroken>>

ChooseProtocol(protocol) ==
    /\ uOpen /\ uForm.protocol # protocol
    /\ uForm' = Synced([uForm EXCEPT !.protocol = protocol,
                                     !.auth = IF protocol = "pop3" THEN "password" ELSE @], uBusy)
    /\ UNCHANGED <<uOpen, uAccounts, panelVars, bridgeVars, uBusy, uPop3>>

-----------------------------------------------------------------------------
(* discoverAccount, handleAccountSubmit and create-demo: withBusy renders
   when they begin and when they end. *)

Begin(key) ==
    /\ uOpen /\ key \notin uBusy
    /\ key \in {"test", "add"} => uForm.protocol = "imap" /\ key \in uForm.enabled
    /\ Rerendered(uBusy \cup {key})
    /\ UNCHANGED <<uOpen, uAccounts, panelVars, bridgeVars>>

Finish(key) ==
    /\ key \in uBusy
    /\ Rerendered(uBusy \ {key})
    /\ \/ UNCHANGED <<uOpen, uAccounts>>
       \/ key \in {"add", "demo"} /\ uOpen' = FALSE /\ uAccounts' = TRUE
    /\ UNCHANGED <<panelVars, bridgeVars>>

(* runPop3AccountTestFromSetup: a second test, possible once a render has
   replaced the form of the first, is refused by the main process. *)
TestPop3 ==
    /\ uOpen /\ uForm.protocol = "pop3" /\ "test" \in uForm.enabled
    /\ uPop3 = "none"
    /\ uPop3' = "attached"
    /\ uForm' = Synced([uForm EXCEPT !.testing = TRUE], uBusy)
    /\ UNCHANGED <<uOpen, uAccounts, panelVars, bridgeVars, uBusy>>

EndsOnSuccess(tested) == IF uPop3 = "attached" /\ tested
                         THEN Synced([uForm EXCEPT !.testing = FALSE], uBusy) ELSE uForm

Pop3Ended(tested) == IF uPop3 = "attached"
                     THEN Synced([uForm EXCEPT !.testing = FALSE], uBusy) ELSE uForm

Pop3Tested(tested) ==
    /\ uPop3 # "none" /\ uPop3' = "none"
    /\ uForm' = Pop3Ended(tested)
    /\ UNCHANGED <<uOpen, uAccounts, panelVars, bridgeVars, uBusy>>

-----------------------------------------------------------------------------
(* The sign-in panel. *)

StartOAuthAuthorization ==
    /\ PanelShown /\ ~oauthAuthorizationIsActive(uAuth) /\ Room(1)
    /\ uAuth' = "preparing" /\ Send("start")
    /\ UNCHANGED <<uOpen, uAccounts, uForm, uSignIn, uTimer, uReplies, uMain, uBrowsers,
                   uBusy, uPop3, uBroken>>

CancelOAuthAuthorization ==
    /\ PanelShown /\ oauthAuthorizationIsActive(uAuth) /\ Room(1)
    /\ uTimer' = FALSE /\ Send("cancel")
    /\ UNCHANGED <<uOpen, uAccounts, uForm, uAuth, uSignIn, uReplies, uMain, uBrowsers,
                   uBusy, uPop3, uBroken>>

SubmitOAuthRedirect ==
    /\ PanelShown /\ uAuth = "awaiting" /\ Room(1)
    /\ Send("submit")
    /\ UNCHANGED <<uOpen, uAccounts, uForm, panelVars, uReplies, uMain, uBrowsers,
                   uBusy, uPop3, uBroken>>

PollFires ==
    /\ uTimer /\ Room(1)
    /\ uTimer' = FALSE /\ Send("poll-status")
    /\ UNCHANGED <<uOpen, uAccounts, uForm, uAuth, uSignIn, uReplies, uMain, uBrowsers,
                   uBusy, uPop3, uBroken>>

-----------------------------------------------------------------------------
(* The main process. *)

Reply(call, value) == uReplies' = Append(uReplies, [call |-> call, value |-> value])

StatusCalls == {"poll-status", "refresh-status"}
SignInCalls == {"poll-sign-in", "refresh-sign-in", "submit-sign-in"}

Outcomes(call) ==
    CASE call \in {"cancel", "close-cancel"} /\ oauthAuthorizationIsActive(uMain.auth) ->
             {[uMain EXCEPT !.auth = "ended"]}
      [] call = "submit" /\ uMain.auth = "awaiting" ->
             {uMain, [uMain EXCEPT !.auth = "ended"], [auth |-> "received", signIn |-> "exchanging"]}
      [] OTHER -> {uMain}

MainHandles ==
    /\ uRequests # <<>> /\ uRequests' = Tail(uRequests)
    /\ LET call == Head(uRequests) IN
         IF call = "start" /\ ~oauthAuthorizationIsActive(uMain.auth)
         THEN /\ uMain' = [uMain EXCEPT !.auth = "opening"]
              /\ uBrowsers' = uBrowsers + 1
              /\ UNCHANGED uReplies
         ELSE \E next \in Outcomes(call) :
                 /\ uMain' = next
                 /\ Reply(call, IF call \in SignInCalls THEN next.signIn ELSE next.auth)
                 /\ UNCHANGED uBrowsers
    /\ UNCHANGED <<uOpen, uAccounts, uForm, panelVars, uBusy, uPop3, uBroken>>

(* One failure of the bridge is enough to see what follows it. *)
BridgeFails ==
    /\ ~uBroken
    /\ uRequests # <<>> /\ uRequests' = Tail(uRequests)
    /\ Reply(Head(uRequests), "broken") /\ uBroken' = TRUE
    /\ UNCHANGED <<uOpen, uAccounts, uForm, panelVars, uMain, uBrowsers, uBusy, uPop3>>

(* openExternal returned: for the session that waits for it, or, when
   another call is pending, for one that ended before. *)
BrowserReturns ==
    /\ uBrowsers > 0 /\ uBrowsers' = uBrowsers - 1
    /\ \E phase \in (IF uMain.auth = "opening" THEN {"awaiting", "ended"} ELSE {uMain.auth})
                    \cup (IF uBrowsers > 1 THEN {uMain.auth} ELSE {}) :
          /\ uMain' = [uMain EXCEPT !.auth = phase]
          /\ Reply("start", phase)
    /\ UNCHANGED <<uOpen, uAccounts, uForm, panelVars, uRequests, uBusy, uPop3, uBroken>>

MainMoves ==
    /\ \/ oauthAuthorizationIsActive(uMain.auth) /\ uMain' = [uMain EXCEPT !.auth = "ended"]
       \/ /\ uMain.signIn = "exchanging"
          /\ \E end \in {"ready", "failed"} : uMain' = [uMain EXCEPT !.signIn = end]
    /\ UNCHANGED <<uOpen, uAccounts, uForm, panelVars, uRequests, uReplies, uBrowsers,
                   uBusy, uPop3, uBroken>>

-----------------------------------------------------------------------------
(* Answers in the renderer. *)

ActiveOnly(auth, signIn) == uOpen /\ oauthAuthorizationIsActive(auth)

(* scheduleOAuthStatusPoll *)
Polls(auth, signIn) ==
    uOpen /\ (oauthAuthorizationIsActive(auth) \/ signIn = "exchanging")

Answered(call, value) ==
    \/ /\ call \in {"poll-status", "refresh-status", "submit", "cancel", "close-cancel", "start"}
       /\ uAuth' = IF value = "broken" THEN uAuth ELSE value
       /\ uTimer' = IF call = "start" /\ value # "broken" THEN Polls(value, uSignIn) ELSE uTimer
       /\ uRequests' =
            IF call = "close-cancel" THEN Append(uRequests, "close")
            ELSE IF call = "start" /\ value = "broken" THEN Append(uRequests, "refresh-status")
            ELSE IF call = "poll-status" /\ value # "broken" THEN Append(uRequests, "poll-sign-in")
            ELSE IF call = "refresh-status" /\ value # "broken" THEN Append(uRequests, "refresh-sign-in")
            ELSE IF call = "submit" /\ value = "received" THEN Append(uRequests, "submit-sign-in")
            ELSE uRequests
       /\ UNCHANGED <<uOpen, uForm, uSignIn, uPop3, uBusy>>
    \/ /\ call \in SignInCalls
       /\ uSignIn' = IF value # "broken" THEN value
                     ELSE IF call = "poll-sign-in" THEN uSignIn ELSE "none"
       /\ uTimer' = Polls(uAuth, uSignIn')
       /\ uForm' = Synced(uForm, uBusy)
       /\ UNCHANGED <<uOpen, uAuth, uRequests, uPop3, uBusy>>
    \/ /\ call = "close"
       /\ uOpen' = FALSE /\ uTimer' = FALSE /\ Rerendered(uBusy)
       /\ UNCHANGED <<uAuth, uSignIn, uRequests>>

RendererAnswered ==
    /\ uReplies # <<>> /\ uReplies' = Tail(uReplies)
    /\ Answered(Head(uReplies).call, Head(uReplies).value)
    /\ UNCHANGED <<uAccounts, uMain, uBrowsers, uBroken>>

SetupNext ==
    \/ OpenAccountSetup \/ OpenWithoutAccounts \/ CloseAccountSetup
    \/ \E mode \in {"password", "oauth2"} : ChooseAuthentication(mode)
    \/ \E protocol \in {"imap", "pop3"} : ChooseProtocol(protocol)
    \/ \E key \in SetupKeys : Begin(key) \/ Finish(key)
    \/ TestPop3 \/ \E tested \in BOOLEAN : Pop3Tested(tested)
    \/ StartOAuthAuthorization \/ CancelOAuthAuthorization \/ SubmitOAuthRedirect \/ PollFires
    \/ MainHandles \/ BridgeFails \/ BrowserReturns \/ MainMoves \/ RendererAnswered

-----------------------------------------------------------------------------
(* The sign-in panel never stops watching too early: when it is in view and
   nothing is under way (no timer, no call, no browser), and the bridge has
   not failed, it shows the phase the main process is in, and the state of
   the exchange once there is one to show. *)
PanelCaughtUp ==
    (PanelShown /\ ~uTimer /\ uRequests = <<>> /\ uReplies = <<>> /\ uBrowsers = 0 /\ ~uBroken)
        => /\ uAuth = uMain.auth
           /\ uAuth = "received" => uSignIn = uMain.signIn

(* A form is never left marked as testing POP3 by a test that has ended,
   whatever the test's outcome and however many renders came between: its
   buttons would stay disabled. *)
Pop3NeverStuck == uForm.testing => uPop3 = "attached"

(* docs/mail/accounts-and-connectivity.md: "Testing and account creation
   stay disabled until a browser sign-in for the selected provider has
   actually completed and exchanged for a token": once it has, and nothing
   is busy, they are enabled. *)
SubmitPossible ==
    (PanelShown /\ uAuth = "received" /\ uSignIn = "ready" /\ uBusy = {} /\ uReplies = <<>>)
        => uForm.enabled # {}
=============================================================================
