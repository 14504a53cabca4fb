------------------------------ MODULE OAuthFlow ------------------------------
(***************************************************************************)
(* The browser sign-in of oauth-authorization.ts.  One authorization       *)
(* session is active at a time; its browser is opened by an asynchronous   *)
(* call, it ends by a pasted redirect, a cancellation, its timer or a      *)
(* failure, and a later session may start while the browser call of an     *)
(* earlier one has not returned.  Sessions are numbered in the order they  *)
(* start; 0 is no session.  What a session's random state parameter is for *)
(* is to tell sessions apart, so it is the session's number.               *)
(***************************************************************************)
EXTENDS Naturals, Sequences

CONSTANTS
    MaxSessions,        \* bound on the sessions of one run
    MaxInvalidPastes    \* MAX_INVALID_REDIRECT_PASTES

ASSUME FlowConstants == MaxSessions \in Nat /\ MaxInvalidPastes \in Nat \ {0}

VARIABLES
    phase,      \* the snapshot's phase
    active,     \* #active
    started,    \* the number of sessions started
    opening,    \* sessions whose openExternal call has not returned
    timers,     \* sessions whose timeout is armed
    wiped,      \* sessions whose state and verifier bytes are zeroed
    invalid,    \* the active session's invalidPastes
    grants,     \* per session, the grants given to onAuthorizationCode
    refused     \* a #transition call threw

flowVars == <<phase, active, started, opening, timers, wiped, invalid, grants, refused>>

Sessions == 1..MaxSessions

Phases == {"idle", "preparing", "opening-browser", "awaiting-redirect-paste",
           "authorization-received", "cancelled", "timed-out", "error"}

Ends == {"cancelled", "timed-out", "error"}

allowedOnce == [p \in Phases |-> IF p = "timed-out" THEN {"error"} ELSE Phases]

allowedTransitions ==
    [p \in Phases |->
        IF p = "preparing" THEN {"opening-browser"} \cup Ends
        ELSE IF p = "opening-browser"
             THEN {"awaiting-redirect-paste", "authorization-received"} \cup Ends
        ELSE IF p = "awaiting-redirect-paste" THEN {"authorization-received"} \cup Ends
        ELSE {"preparing", "error"}]

\* What a pasted text is to validatePastedRedirect: whether it parses as a
\* URL within the length limit, whether its origin and path are the
\* registered ones, the session whose state parameter it carries, whether it
\* carries a token, and how many codes and errors.
Pastes == [parses : BOOLEAN, redirect : BOOLEAN, state : 0..MaxSessions,
           token : BOOLEAN, codes : 0..2, errors : 0..2]

AnyState(p, session) == p.state # 0

OwnState(p, session) == p.state = session

validatePastedRedirect(p, session) ==
    IF \/ ~p.parses \/ ~p.redirect \/ p.token
       \/ ~OwnState(p, session)
       \/ p.codes + p.errors # 1
    THEN "rejected"
    ELSE IF p.errors = 1 THEN "provider-error" ELSE "authorization"

\* #transition: an illegal move throws and leaves the snapshot alone.
Transition(to) ==
    IF to \in allowedTransitions[phase]
    THEN phase' = to /\ UNCHANGED refused
    ELSE refused' = TRUE /\ UNCHANGED phase

\* #terminate
Terminate(session, to) ==
    /\ active' = 0
    /\ timers' = timers \ {session}
    /\ wiped' = wiped \cup {session}
    /\ Transition(to)

FlowInit ==
    /\ phase = "idle" /\ active = 0 /\ started = 0 /\ opening = {} /\ timers = {}
    /\ wiped = {} /\ invalid = 0 /\ refused = FALSE
    /\ grants = [s \in Sessions |-> <<>>]

\* start up to the openExternal call
Start ==
    /\ active = 0 /\ started < MaxSessions
    /\ started' = started + 1 /\ active' = started + 1
    /\ invalid' = 0
    /\ opening' = opening \cup {started + 1} /\ timers' = timers \cup {started + 1}
    /\ IF "preparing" \in allowedTransitions[phase]
       THEN phase' = "opening-browser" /\ UNCHANGED refused
       ELSE refused' = TRUE /\ UNCHANGED phase
    /\ UNCHANGED <<wiped, grants>>

StartUnconfigured ==
    /\ active = 0
    /\ Transition("error")
    /\ UNCHANGED <<active, started, opening, timers, wiped, invalid, grants>>

SomeActive(s) == active # 0

StillActive(s) == active = s

\* start after openExternal resolved
Opened(s) ==
    /\ s \in opening /\ opening' = opening \ {s}
    /\ IF StillActive(s) /\ phase = "opening-browser"
       THEN Transition("awaiting-redirect-paste")
       ELSE UNCHANGED <<phase, refused>>
    /\ UNCHANGED <<active, started, timers, wiped, invalid, grants>>

\* start after openExternal rejected
OpenFailed(s) ==
    /\ s \in opening /\ opening' = opening \ {s}
    /\ IF StillActive(s)
       THEN Terminate(s, "error")
       ELSE UNCHANGED <<active, timers, wiped, phase, refused>>
    /\ UNCHANGED <<started, invalid, grants>>

\* The timer callback of start
TimedOut(s) ==
    /\ s \in timers
    /\ IF StillActive(s)
       THEN Terminate(s, "timed-out")
       ELSE timers' = timers \ {s} /\ UNCHANGED <<active, wiped, phase, refused>>
    /\ UNCHANGED <<started, opening, invalid, grants>>

\* A grant carries the verifier of the session, readable until it is wiped.
Grant(s, p) == [state |-> p.state, verifier |-> s \notin wiped]

\* submitRedirectUrl: the grant is handed over before the session is wiped.
SubmitRedirectUrl(p) ==
    /\ active # 0 /\ phase = "awaiting-redirect-paste"
    /\ LET kind == validatePastedRedirect(p, active) IN
         \/ /\ kind = "rejected"
            /\ invalid' = invalid + 1
            /\ IF invalid + 1 >= MaxInvalidPastes
               THEN Terminate(active, "error")
               ELSE UNCHANGED <<active, timers, wiped, phase, refused>>
            /\ UNCHANGED grants
         \/ /\ kind = "provider-error"
            /\ Terminate(active, "error")
            /\ UNCHANGED <<invalid, grants>>
         \/ /\ kind = "authorization"
            /\ grants' = [grants EXCEPT ![active] = Append(@, Grant(active, p))]
            /\ Terminate(active, "authorization-received")
            /\ UNCHANGED invalid
    /\ UNCHANGED <<started, opening>>

\* cancel, and dispose
Cancel ==
    /\ active # 0
    /\ Terminate(active, "cancelled")
    /\ UNCHANGED <<started, opening, invalid, grants>>

FlowNext ==
    \/ Start \/ StartUnconfigured \/ Cancel
    \/ \E s \in Sessions : Opened(s) \/ OpenFailed(s) \/ TimedOut(s)
    \/ \E p \in Pastes : SubmitRedirectUrl(p)

-----------------------------------------------------------------------------
\* No session move is one that #transition refuses: its exception would
\* leave a session half ended.
NeverRefused == ~refused

\* A session hands over at most one authorization code, with a verifier that
\* has not been zeroed, and only for a redirect that carries its own state:
\* not that of a session cancelled before it.
OneLiveGrant ==
    \A s \in Sessions :
        grants[s] \in {<<>>, <<[state |-> s, verifier |-> TRUE]>>}

\* The browser call of an earlier session, returning late, never makes the
\* flow wait for a redirect that the active session has not asked for, and
\* never ends it: while a session is active its own call decides.
LateBrowserHarmless ==
    /\ phase = "awaiting-redirect-paste" => active # 0 /\ active \notin opening
    /\ active # 0 => phase \in {"opening-browser", "awaiting-redirect-paste"}
    /\ active # 0 => active \in timers /\ active \notin wiped
=============================================================================
