--------------------------- MODULE AccountsProofs ---------------------------
(***************************************************************************)
(* Proofs about Accounts and the authorization flow under it, for every    *)
(* number of sessions, accounts, operations and failures: a sign-in serves *)
(* one account, an account keeps the token its provider accepts, and       *)
(* nothing is left over of accounts that are gone.                         *)
(*                                                                         *)
(* The argument: a granted session is in one place at a time (its exchange *)
(* under way, held, or taken by one addAccount call), and the call that    *)
(* took it owns its records for ever.  Of an account nobody excused, the   *)
(* good token is in the vault, or with the one operation that rotated it.  *)
(***************************************************************************)
EXTENDS Accounts, TLAPS

(* The flow: of the sessions up to the last one started, only that one can *)
(* be active, and only a session that is over has a grant.                 *)
FlowTypes ==
    /\ phase \in Phases \ {"preparing"}
    /\ active \in 0..MaxSessions /\ started \in 0..MaxSessions /\ invalid \in Nat
    /\ opening \subseteq 1..started /\ timers \subseteq 1..started /\ wiped \subseteq 1..started

Live ==
    /\ active # 0 => active = started
    /\ active = 0 => phase \notin {"opening-browser", "awaiting-redirect-paste"}
    /\ refused = FALSE /\ LateBrowserHarmless

Control == FlowTypes /\ Live

Grants ==
    /\ DOMAIN grants = Sessions
    /\ active # 0 => grants[active] = <<>>
    /\ \A s \in Sessions : s > started => grants[s] = <<>>
    /\ OneLiveGrant

FlowInv == Control /\ Grants

Granted(s) == s \in Sessions /\ grants[s] # <<>>

(* The call took a sign-in, whatever became of it.                         *)
Took(a) == add[a].pc \in {"saving", "storing", "dead"} /\ add[a].grant # 0
Saved(a) == add[a].pc \in {"storing", "dead"} /\ add[a].grant # 0

(* The types of what the service holds.                                    *)
AddTypes ==
    add \in [Adders -> [pc : {"idle", "testing", "saving", "storing", "dead"},
                        email : Emails \cup {None},
                        grant : 0..MaxSessions, tested : 0..MaxSessions]]

UseTypes ==
    /\ use \in [Users -> {Free} \cup [pc : {"refreshing", "rotating"}, id : Adders,
                                     token : [grant : Sessions, token : 0..MaxTokens]]]
    /\ \A u \in Users : use[u].pc = "refreshing" => use[u].token.token # 0

RecordTypes ==
    /\ DOMAIN accounts \subseteq Adders /\ DOMAIN vault \subseteq Adders
    /\ \A a \in DOMAIN vault : vault[a] \in [grant : Sessions, token : 1..MaxTokens]

HeldTypes == exchanging \subseteq Sessions /\ pending \in 0..MaxSessions

GoodType == good \in [Sessions -> Nat]

RestTypes ==
    /\ remove \in Adders \cup {None}
    /\ revoke \in [left : SUBSET Adders,
                   outcome : {"none", "succeeded", "not-supported", "failed"}]
    /\ faults \in Nat

Types == AddTypes /\ UseTypes /\ RecordTypes /\ HeldTypes /\ GoodType /\ RestTypes

(* A granted session is in one place. *)
OnePlace ==
    /\ \A s \in exchanging : Granted(s) /\ s # pending
    /\ pending # 0 => Granted(pending) /\ good[pending] = 1
    /\ \A a \in Adders : add[a].pc = "saving" => Took(a) /\ good[add[a].grant] = 1
    /\ \A a \in Adders : Took(a) =>
          /\ Granted(add[a].grant) /\ add[a].grant # pending
          /\ add[a].grant \notin exchanging
    /\ \A a, b \in Adders : Took(a) /\ Took(b) /\ add[a].grant = add[b].grant => a = b

(* Records, refreshes and accounts belong to the call that made them. *)
Owned ==
    /\ \A a \in DOMAIN vault : Saved(a) /\ vault[a].grant = add[a].grant
    /\ \A u \in Users : use[u].pc # "idle" =>
          Saved(use[u].id) /\ use[u].token.grant = add[use[u].id].grant
    /\ \A a \in DOMAIN accounts : add[a].pc = "dead"
    /\ remove # None => remove \in DOMAIN accounts

(* Operation u carries a new refresh token of account a. *)
Carries(u, a) == use[u].pc = "rotating" /\ use[u].id = a /\ use[u].token.token # 0

(* Where the good token of an account is. *)
TokenOf(a) ==
    /\ a \in DOMAIN vault
    /\ \A u \in Users : use[u].pc = "refreshing" /\ use[u].id = a =>
          use[u].token.token <= vault[a].token
    /\ \/ good[vault[a].grant] = vault[a].token /\ \A u \in Users : ~Carries(u, a)
       \/ \E u \in Users :
             /\ Carries(u, a)
             /\ use[u].token.token = good[vault[a].grant]
             /\ good[vault[a].grant] = vault[a].token + 1
             /\ \A v \in Users \ {u} : ~Carries(v, a)

(* An account, there or being stored, whose tokens nobody took away.       *)
Due(a) == a \notin excused /\ Saved(a) /\ (add[a].pc = "storing" \/ a \in DOMAIN accounts)

TokenInv == \A a \in Adders : Due(a) => TokenOf(a)

(* A revocation under way, and what is left without a failure. *)
Cleared ==
    /\ revoke.outcome = "none" => revoke = NoRevoke
    /\ revoke.left \subseteq DOMAIN vault
    /\ revoke # NoRevoke => DOMAIN vault \subseteq excused
    /\ remove # None => remove \in excused
    /\ faults = 0 /\ remove # None => remove \notin DOMAIN vault
    /\ NoOrphanTokens /\ RevocationHonest

IInv == FlowInv /\ Types /\ OnePlace /\ Owned /\ TokenInv /\ Cleared

-----------------------------------------------------------------------------
(* The initial states satisfy the invariant. *)
LEMMA InitInv == Init => IInv
<1> SUFFICES ASSUME Init PROVE IInv
    OBVIOUS
<1> USE FlowConstants, AccountConstants, NamesAssumption DEF Init, FlowInit
<1>1. FlowInv
    BY DEF FlowInv, Control, FlowTypes, Live, Grants, Phases, Sessions, NeverRefused, OneLiveGrant,
       LateBrowserHarmless
<1>2. DOMAIN accounts = {} /\ DOMAIN vault = {}
    OBVIOUS
<1>3. Types
  <2>1. AddTypes
    BY DEF AddTypes, Idle, None
  <2>2. UseTypes
    BY DEF UseTypes, Free
  <2>3. RecordTypes /\ HeldTypes /\ GoodType /\ RestTypes
    BY <1>2 DEF RecordTypes, HeldTypes, GoodType, RestTypes, NoRevoke, None
  <2> QED
    BY <2>1, <2>2, <2>3 DEF Types
<1>4. OnePlace /\ Owned /\ TokenInv /\ Cleared
    BY <1>2 DEF OnePlace, Owned, TokenInv, Due, Cleared, Took, Saved, NoRevoke, Idle, Free, None,
       NoOrphanTokens, RevocationHonest
<1> QED
    BY <1>1, <1>3, <1>4 DEF IInv

(* Ending the active session, on a move that the state machine allows.     *)
LEMMA TerminateStep ==
    ASSUME Control, active # 0, NEW to,
           to \in Ends \/ (to = "authorization-received" /\ phase = "awaiting-redirect-paste"),
           Terminate(active, to), UNCHANGED started, opening' \subseteq opening, invalid' \in Nat
    PROVE  Control' /\ active' = 0
<1>1. phase' = to /\ UNCHANGED refused
  <2>1. phase \in {"opening-browser", "awaiting-redirect-paste"}
    BY DEF Control, Live, LateBrowserHarmless
  <2>2. to \in allowedTransitions[phase]
    BY <2>1 DEF allowedTransitions, Phases, Ends
  <2> QED
    BY <2>2 DEF Terminate, Transition
<1>2. FlowTypes'
  <2>1. phase' \in Phases \ {"preparing"}
    BY <1>1 DEF Phases, Ends
  <2>2. active \in 1..started
    BY DEF Control, FlowTypes, Live
  <2> QED
    BY <2>1, <2>2, FlowConstants DEF Control, FlowTypes, Terminate
<1>3. Live'
  <2>1. active' = 0
    BY DEF Terminate
  <2>2. phase' \notin {"opening-browser", "awaiting-redirect-paste"}
    BY <1>1 DEF Ends
  <2>3. refused' = FALSE
    BY <1>1 DEF Control, Live
  <2> QED
    BY <2>1, <2>2, <2>3 DEF Live, LateBrowserHarmless
<1> QED
    BY <1>2, <1>3 DEF Control, Terminate

(* What an inactive session does changes nothing for the active one.       *)
LEMMA ControlStays ==
    ASSUME Control, UNCHANGED <<phase, active, started, wiped, refused>>,
           opening' \subseteq opening, timers' \subseteq timers,
           active # 0 => active \in timers', invalid' \in Nat
    PROVE  Control'
<1>1. FlowTypes'
    BY DEF Control, FlowTypes
<1>2. Live'
    BY DEF Control, Live, LateBrowserHarmless
<1> QED
    BY <1>1, <1>2 DEF Control

(* Grants stay when no session is started or hands over a code. *)
LEMMA GrantsStay ==
    ASSUME Grants, UNCHANGED <<started, grants>>, active' \in {0, active}
    PROVE  Grants'
BY DEF Grants, OneLiveGrant

(* The first grant of a session. *)
LEMMA AppendToNone == \A x : Append(<<>>, x) = <<x>>
OBVIOUS

(* Every step of the flow keeps its invariant, and hands over at most the  *)
(* grant of the active session.                                            *)
LEMMA FlowNextInv ==
    ASSUME FlowInv, FlowNext
    PROVE  /\ FlowInv'
           /\ \A s \in Sessions : grants'[s] # grants[s] => grants[s] = <<>> /\ grants'[s] # <<>>
<1> USE FlowConstants DEF FlowInv
<1>1. CASE Start
  <2>1. Control'
    <3>1. phase' = "opening-browser" /\ UNCHANGED refused
      BY <1>1 DEF Start, Control, FlowTypes, Live, allowedTransitions, Phases, Ends
    <3>2. FlowTypes'
      BY <1>1, <3>1 DEF Start, Control, FlowTypes, Phases
    <3>3. Live'
      BY <1>1, <3>1 DEF Start, Control, FlowTypes, Live, LateBrowserHarmless
    <3> QED
      BY <3>2, <3>3 DEF Control
  <2>2. Grants' /\ UNCHANGED grants
    BY <1>1 DEF Start, Control, FlowTypes, Live, Grants, Sessions, OneLiveGrant
  <2> QED
    BY <2>1, <2>2
<1>2. CASE StartUnconfigured
  <2>1. Control'
    <3>1. phase' = "error" /\ UNCHANGED refused
      BY <1>2 DEF StartUnconfigured, Control, FlowTypes, Live, Transition, allowedTransitions,
         Phases, Ends
    <3>2. FlowTypes'
      BY <1>2, <3>1 DEF StartUnconfigured, Control, FlowTypes, Phases
    <3>3. Live'
      BY <1>2, <3>1 DEF StartUnconfigured, Control, Live, LateBrowserHarmless
    <3> QED
      BY <3>2, <3>3 DEF Control
  <2> QED
    BY <1>2, <2>1, GrantsStay DEF StartUnconfigured
<1>3. CASE Cancel
  <2>1. Control' /\ active' = 0
    BY <1>3, TerminateStep DEF Cancel, Control, FlowTypes, Ends
  <2> QED
    BY <1>3, <2>1, GrantsStay DEF Cancel
<1>4. ASSUME NEW s \in Sessions, Opened(s) PROVE FlowInv' /\ UNCHANGED grants
  <2>1. Control'
    <3>1. CASE active = s /\ phase = "opening-browser"
      <4>1. phase' = "awaiting-redirect-paste" /\ UNCHANGED refused
        BY <1>4, <3>1 DEF Opened, StillActive, Transition, allowedTransitions, Phases, Ends
      <4>2. FlowTypes'
        BY <1>4, <4>1 DEF Opened, Control, FlowTypes, Phases
      <4>3. Live'
        BY <1>4, <3>1, <4>1 DEF Opened, Control, Live, LateBrowserHarmless, Sessions
      <4> QED
        BY <4>2, <4>3 DEF Control
    <3>2. CASE ~(active = s /\ phase = "opening-browser")
      BY <1>4, <3>2, ControlStays DEF Opened, StillActive, Control, FlowTypes, Live,
         LateBrowserHarmless
    <3> QED
      BY <3>1, <3>2
  <2> QED
    BY <1>4, <2>1, GrantsStay DEF Opened
<1>5. ASSUME NEW s \in Sessions, OpenFailed(s) PROVE FlowInv' /\ UNCHANGED grants
  <2>1. CASE active = s
    <3>1. UNCHANGED <<started, invalid, grants>> /\ Terminate(active, "error")
          /\ opening' = opening \ {s} /\ active # 0
      BY <1>5, <2>1 DEF OpenFailed, StillActive, Sessions
    <3>2. Control' /\ active' = 0
      BY <3>1, TerminateStep DEF Control, FlowTypes, Ends
    <3> QED
      BY <3>1, <3>2, GrantsStay
  <2>2. CASE active # s
    <3>1. Control'
      BY <1>5, <2>2, ControlStays DEF OpenFailed, StillActive, Control, FlowTypes, Live,
         LateBrowserHarmless
    <3> QED
      BY <1>5, <2>2, <3>1, GrantsStay DEF OpenFailed, StillActive
  <2> QED
    BY <2>1, <2>2
<1>6. ASSUME NEW s \in Sessions, TimedOut(s) PROVE FlowInv' /\ UNCHANGED grants
  <2>1. CASE active = s
    <3>1. Control' /\ active' = 0
      BY <1>6, <2>1, TerminateStep DEF TimedOut, StillActive, Sessions, Control, FlowTypes, Ends
    <3> QED
      BY <1>6, <3>1, GrantsStay DEF TimedOut
  <2>2. CASE active # s
    <3>1. Control'
      BY <1>6, <2>2, ControlStays DEF TimedOut, StillActive, Control, FlowTypes, Live,
         LateBrowserHarmless
    <3> QED
      BY <1>6, <2>2, <3>1, GrantsStay DEF TimedOut, StillActive
  <2> QED
    BY <2>1, <2>2
<1>7. ASSUME NEW p \in Pastes, SubmitRedirectUrl(p)
      PROVE  /\ FlowInv'
             /\ \A s \in Sessions : grants'[s] # grants[s] =>
                    grants[s] = <<>> /\ grants'[s] # <<>>
  <2>1. Control' /\ active' \in {0, active} /\ active # 0 /\ UNCHANGED started
    <3>1. CASE UNCHANGED <<active, timers, wiped, phase, refused>>
      BY <1>7, <3>1, ControlStays DEF SubmitRedirectUrl, Control, FlowTypes, Live,
         LateBrowserHarmless
    <3>2. CASE Terminate(active, "error") \/ Terminate(active, "authorization-received")
      BY <1>7, <3>2, TerminateStep DEF SubmitRedirectUrl, Control, FlowTypes, Ends
    <3> QED
      BY <1>7, <3>1, <3>2 DEF SubmitRedirectUrl
  <2>2. CASE UNCHANGED grants
    BY <2>1, <2>2, GrantsStay
  <2>3. CASE /\ grants' = [grants EXCEPT ![active] = Append(@, Grant(active, p))]
             /\ validatePastedRedirect(p, active) = "authorization"
             /\ Terminate(active, "authorization-received")
    <3>1. Grant(active, p) = [state |-> active, verifier |-> TRUE]
      BY <2>1, <2>3 DEF Control, Live, LateBrowserHarmless, validatePastedRedirect, OwnState,
         Grant
    <3>2. active \in Sessions /\ active' = 0
      BY <2>1, <2>3 DEF Control, FlowTypes, Sessions, Terminate
    <3>3. grants' = [grants EXCEPT ![active] = <<[state |-> active, verifier |-> TRUE]>>]
      <4>1. Append(grants[active], Grant(active, p)) = <<[state |-> active, verifier |-> TRUE]>>
        BY <2>1, <3>1, AppendToNone DEF Grants
      <4> QED
        BY <2>3, <4>1
    <3>4. <<[state |-> active, verifier |-> TRUE]>> # <<>>
      OBVIOUS
    <3>5. Grants'
      <4>1. DOMAIN grants' = Sessions /\ \A t \in Sessions \ {active} : grants'[t] = grants[t]
        BY <3>3 DEF Grants
      <4>2. grants'[active] = <<[state |-> active, verifier |-> TRUE]>>
        BY <3>2, <3>3 DEF Grants
      <4>3. \A t \in Sessions : t > started => t # active
        BY <2>1 DEF Control, FlowTypes, Live, Sessions
      <4> QED
        BY <2>1, <3>2, <4>1, <4>2, <4>3 DEF Grants, OneLiveGrant
    <3> QED
      BY <2>1, <3>2, <3>3, <3>4, <3>5 DEF Grants
  <2> QED
    BY <1>7, <2>2, <2>3 DEF SubmitRedirectUrl
<1> QED
    BY <1>1, <1>2, <1>3, <1>4, <1>5, <1>6, <1>7 DEF FlowNext

-----------------------------------------------------------------------------
(* The records after an operation stored its tokens. *)
LEMMA RotatedRecords ==
    ASSUME NEW id, NEW t
    PROVE  /\ DOMAIN Rotated(id, t) = DOMAIN vault
           /\ \A a \in DOMAIN vault : Rotated(id, t)[a] =
                  IF a = id /\ t.token # 0 THEN t ELSE vault[a]
<1>1. CASE id \in DOMAIN vault /\ t.token # 0
  <2>1. Rotated(id, t) = Put(vault, id, t) /\ DOMAIN vault = DOMAIN vault \cup {id}
    BY <1>1 DEF Rotated
  <2> QED
    BY <1>1, <2>1 DEF Put
<1>2. CASE ~(id \in DOMAIN vault /\ t.token # 0)
    BY <1>2 DEF Rotated
<1> QED
    BY <1>1, <1>2

(* Every step keeps the types: of the addAccount calls, ...                *)
LEMMA AddTypesStep ==
    ASSUME AddTypes, HeldTypes, [Next]_vars
    PROVE  AddTypes'
<1> USE FlowConstants DEF AddTypes, HeldTypes
<1>1. CASE UNCHANGED add
    BY <1>1
<1>2. ASSUME NEW a \in Adders, NEW e \in Emails, AddBegin(a, e) PROVE AddTypes'
    BY <1>2 DEF AddBegin
<1>3. ASSUME NEW a \in Adders, AddRejected(a) PROVE AddTypes'
    BY <1>3 DEF AddRejected, Idle, None
<1>4. ASSUME NEW a \in Adders, AddTested(a) PROVE AddTypes'
    BY <1>4 DEF AddTested
<1>5. ASSUME NEW a \in Adders, AddSaved(a) PROVE AddTypes'
    BY <1>5 DEF AddSaved
<1>6. ASSUME NEW a \in Adders, AddUnsaved(a) PROVE AddTypes'
    BY <1>6 DEF AddUnsaved
<1>7. ASSUME NEW a \in Adders, AddStored(a) PROVE AddTypes'
    BY <1>7 DEF AddStored
<1>8. CASE Die
    BY <1>8 DEF Die
<1> QED
    BY <1>1, <1>2, <1>3, <1>4, <1>5, <1>6, <1>7, <1>8
       DEF Next, vars, flowVars, acctVars, memVars, FlowStep, SignInExpires, RemoveStored,
           Clear, RevokeBegin, RevokeClear, ExchangeDone, ExchangeFailed, RemoveForget,
           RevokeRecord, UseExpiring, UseRefreshed, UseAnswerLost, UseRotated

(* ... of the operations, ...                                              *)
LEMMA UseTypesStep ==
    ASSUME UseTypes, RecordTypes, [Next]_vars
    PROVE  UseTypes'
<1> USE AccountConstants DEF UseTypes, Free
<1>1. CASE UNCHANGED use
    BY <1>1
<1>2. ASSUME NEW u \in Users, NEW a \in Adders, UseExpiring(u, a) PROVE UseTypes'
    BY <1>2 DEF UseExpiring, RecordTypes
<1>3. ASSUME NEW u \in Users, UseRefreshed(u) PROVE UseTypes'
    BY <1>3 DEF UseRefreshed
<1>4. ASSUME NEW u \in Users, UseAnswerLost(u) PROVE UseTypes'
    BY <1>4 DEF UseAnswerLost
<1>5. ASSUME NEW u \in Users, UseRotated(u) PROVE UseTypes'
    BY <1>5 DEF UseRotated
<1>6. CASE Die
    BY <1>6 DEF Die
<1> QED
    BY <1>1, <1>2, <1>3, <1>4, <1>5, <1>6
       DEF Next, vars, flowVars, acctVars, memVars, FlowStep, SignInExpires, RemoveStored,
           Clear, RevokeBegin, RevokeClear, ExchangeDone, ExchangeFailed, AddBegin,
           AddRejected, AddTested, AddSaved, AddUnsaved, AddStored, RemoveForget, RevokeRecord

(* ... of the records and accounts, ...                                    *)
LEMMA RecordTypesStep ==
    ASSUME RecordTypes, UseTypes, OnePlace, [Next]_vars
    PROVE  RecordTypes'
<1> USE AccountConstants DEF RecordTypes
<1>1. CASE UNCHANGED <<accounts, vault>>
    BY <1>1
<1>2. ASSUME NEW a \in Adders, AddSaved(a) PROVE RecordTypes'
    BY <1>2 DEF AddSaved, OnePlace, Took, Granted, Put
<1>3. ASSUME NEW a \in Adders, AddUnsaved(a) PROVE RecordTypes'
    BY <1>3 DEF AddUnsaved, OnePlace, Took, Granted, Put
<1>4. ASSUME NEW a \in Adders, AddStored(a) PROVE RecordTypes'
    BY <1>4 DEF AddStored, Put
<1>5. ASSUME NEW a \in Adders, RemoveForget(a) PROVE RecordTypes'
    BY <1>5 DEF RemoveForget, Forgotten, Drop
<1>6. CASE RemoveStored
    BY <1>6 DEF RemoveStored, Drop
<1>7. CASE Clear
    BY <1>7 DEF Clear
<1>8. CASE RevokeClear
    BY <1>8 DEF RevokeClear
<1>9. ASSUME NEW u \in Users, UseRotated(u) PROVE RecordTypes'
    BY <1>9, RotatedRecords DEF UseRotated, UseTypes, Free
<1> QED
    BY <1>1, <1>2, <1>3, <1>4, <1>5, <1>6, <1>7, <1>8, <1>9
       DEF Next, vars, flowVars, acctVars, memVars, FlowStep, SignInExpires, RevokeBegin,
           ExchangeDone, ExchangeFailed, AddBegin, AddRejected, AddTested, RevokeRecord,
           UseExpiring, UseRefreshed, UseAnswerLost, Die

(* ... of the sign-ins, ...                                                *)
LEMMA HeldTypesStep ==
    ASSUME HeldTypes, [Next]_vars
    PROVE  HeldTypes'
<1> USE FlowConstants DEF HeldTypes
<1>1. CASE UNCHANGED <<exchanging, pending>>
    BY <1>1
<1>2. CASE FlowStep
    BY <1>2 DEF FlowStep
<1>3. ASSUME NEW s \in Sessions, ExchangeDone(s) PROVE HeldTypes'
    BY <1>3 DEF ExchangeDone, Sessions
<1>4. ASSUME NEW s \in Sessions, ExchangeFailed(s) PROVE HeldTypes'
    BY <1>4 DEF ExchangeFailed
<1>5. CASE SignInExpires
    BY <1>5 DEF SignInExpires
<1>6. ASSUME NEW a \in Adders, AddTested(a) PROVE HeldTypes'
    BY <1>6 DEF AddTested, Consume
<1>7. CASE Die
    BY <1>7 DEF Die
<1> QED
    BY <1>1, <1>2, <1>3, <1>4, <1>5, <1>6, <1>7
       DEF Next, vars, flowVars, acctVars, memVars, RemoveStored, Clear, RevokeBegin,
           RevokeClear, AddBegin, AddRejected, AddSaved, AddUnsaved, AddStored, RemoveForget,
           RevokeRecord, UseExpiring, UseRefreshed, UseAnswerLost, UseRotated

(* ... of the provider, ...                                                *)
LEMMA GoodTypeStep ==
    ASSUME GoodType, UseTypes, RecordTypes, Cleared, [Next]_vars
    PROVE  GoodType'
<1> USE DEF GoodType
<1>1. CASE UNCHANGED good
    BY <1>1
<1>2. ASSUME NEW s \in Sessions, ExchangeDone(s) PROVE GoodType'
    BY <1>2 DEF ExchangeDone
<1>3. ASSUME NEW a \in Adders, RevokeRecord(a) PROVE GoodType'
    BY <1>3 DEF RevokeRecord, RecordTypes, Cleared
<1>4. ASSUME NEW u \in Users, UseRefreshed(u) PROVE GoodType'
    BY <1>4 DEF UseRefreshed
<1>5. ASSUME NEW u \in Users, UseAnswerLost(u) PROVE GoodType'
  <2>1. good \in [Sessions -> Nat] /\ use[u].token.grant \in Sessions
    BY <1>5 DEF UseAnswerLost, UseTypes, Free
  <2> QED
    BY <1>5, <2>1 DEF UseAnswerLost
<1> QED
    BY <1>1, <1>2, <1>3, <1>4, <1>5
       DEF Next, vars, flowVars, acctVars, memVars, FlowStep, SignInExpires, RemoveStored,
           Clear, RevokeBegin, RevokeClear, ExchangeFailed, AddBegin, AddRejected, AddTested,
           AddSaved, AddUnsaved, AddStored, RemoveForget, UseExpiring, UseRotated, Die

(* ... and of what is left.                                                *)
LEMMA RestTypesStep ==
    ASSUME RestTypes, RecordTypes, [Next]_vars
    PROVE  RestTypes'
<1> USE AccountConstants DEF RestTypes, Fault
<1>1. CASE UNCHANGED <<remove, revoke, faults>>
    BY <1>1
<1>2. ASSUME NEW a \in Adders, AddUnsaved(a) PROVE RestTypes'
    BY <1>2 DEF AddUnsaved
<1>3. ASSUME NEW a \in Adders, AddStored(a) PROVE RestTypes'
    BY <1>3 DEF AddStored
<1>4. ASSUME NEW a \in Adders, RemoveForget(a) PROVE RestTypes'
    BY <1>4 DEF RemoveForget
<1>5. CASE RemoveStored
    BY <1>5 DEF RemoveStored
<1>6. CASE RevokeBegin
    BY <1>6 DEF RevokeBegin, RecordTypes
<1>7. ASSUME NEW a \in Adders, RevokeRecord(a) PROVE RestTypes'
    BY <1>7 DEF RevokeRecord, StickyOutcome
<1>8. CASE RevokeClear
    BY <1>8 DEF RevokeClear, NoRevoke
<1>9. ASSUME NEW u \in Users, UseAnswerLost(u) PROVE RestTypes'
    BY <1>9 DEF UseAnswerLost
<1>10. ASSUME NEW u \in Users, UseRotated(u) PROVE RestTypes'
    BY <1>10 DEF UseRotated
<1>11. CASE Die
    BY <1>11 DEF Die, NoRevoke
<1> QED
    BY <1>1, <1>2, <1>3, <1>4, <1>5, <1>6, <1>7, <1>8, <1>9, <1>10, <1>11
       DEF Next, vars, flowVars, acctVars, memVars, FlowStep, SignInExpires, Clear,
           ExchangeDone, ExchangeFailed, AddBegin, AddRejected, AddTested, AddSaved,
           UseExpiring, UseRefreshed

(* The types together. *)
LEMMA TypesStep ==
    ASSUME Types, OnePlace, Owned, Cleared, [Next]_vars PROVE Types'
BY AddTypesStep, UseTypesStep, RecordTypesStep, HeldTypesStep, GoodTypeStep, RestTypesStep DEF Types

-----------------------------------------------------------------------------
(* How the calls of addAccount move: what a call took it keeps, a sign-in  *)
(* is taken only after a test, and a call that saved one never saves again. *)
Stays ==
    \A a \in Adders :
        /\ Took(a) => Took(a)' /\ add'[a].grant = add[a].grant
        /\ Saved(a) => Saved(a)'
        /\ add[a].pc = "dead" => add'[a].pc = "dead"
        /\ Took(a)' => Took(a) \/ AddTested(a)
        /\ add'[a].pc = "saving" =>
              \/ add[a].pc = "saving" /\ add'[a].grant = add[a].grant
              \/ AddTested(a)
        /\ add'[a].pc = "storing" /\ Saved(a)' => \/ AddSaved(a)
                                                  \/ add[a].pc = "storing" /\ Saved(a)

LEMMA CallsStay ==
    ASSUME AddTypes, [Next]_vars
    PROVE  Stays
<1> USE DEF AddTypes, Stays, Took, Saved
<1>1. CASE UNCHANGED add
    BY <1>1
<1>2. ASSUME NEW a \in Adders, NEW e \in Emails, AddBegin(a, e) PROVE Stays
    BY <1>2 DEF AddBegin
<1>3. ASSUME NEW a \in Adders, AddRejected(a) PROVE Stays
    BY <1>3 DEF AddRejected, Idle, None
<1>4. ASSUME NEW a \in Adders, AddTested(a) PROVE Stays
  <2>1. add[a].pc = "testing" /\ \A b \in Adders \ {a} : add'[b] = add[b]
    BY <1>4 DEF AddTested
  <2>2. \/ add[a].grant = 0 /\ add'[a].grant = 0 /\ add'[a].pc = "storing"
        \/ add'[a].pc = "saving"
    BY <1>4 DEF AddTested
  <2> QED
    BY <1>4, <2>1, <2>2
<1>5. ASSUME NEW a \in Adders, AddSaved(a) PROVE Stays
  <2>1. /\ add[a].pc = "saving" /\ \A b \in Adders \ {a} : add'[b] = add[b]
        /\ add'[a].pc = "storing" /\ add'[a].grant = add[a].grant
    BY <1>5 DEF AddSaved
  <2> QED
    BY <1>5, <2>1
<1>6. ASSUME NEW a \in Adders, AddUnsaved(a) PROVE Stays
    BY <1>6 DEF AddUnsaved
<1>7. ASSUME NEW a \in Adders, AddStored(a) PROVE Stays
    BY <1>7 DEF AddStored
<1>8. CASE Die
    BY <1>8 DEF Die
<1> QED
    BY <1>1, <1>2, <1>3, <1>4, <1>5, <1>6, <1>7, <1>8
       DEF Next, vars, flowVars, acctVars, memVars, FlowStep, SignInExpires, RemoveStored,
           Clear, RevokeBegin, RevokeClear, ExchangeDone, ExchangeFailed, RemoveForget,
           RevokeRecord, UseExpiring, UseRefreshed, UseAnswerLost, UseRotated

(* The provider's token of a grant changes only at the end of its exchange *)
(* or by an operation on the account that saved it.                        *)
Provider ==
    \A s \in Sessions :
        \/ good'[s] = good[s]
        \/ ExchangeDone(s)
        \/ \E b \in Adders : Saved(b) /\ add[b].grant = s

LEMMA ProviderMoves ==
    ASSUME Types, Owned, Cleared, [Next]_vars
    PROVE  Provider
<1> USE DEF Provider, Types, GoodType
<1>1. CASE UNCHANGED good
    BY <1>1
<1>2. ASSUME NEW s \in Sessions, ExchangeDone(s) PROVE Provider
    BY <1>2 DEF ExchangeDone
<1>3. ASSUME NEW a \in Adders, RevokeRecord(a) PROVE Provider
  <2>1. Saved(a) /\ add[a].grant = vault[a].grant
    BY <1>3 DEF RevokeRecord, Cleared, Owned
  <2>2. \A s \in Sessions : good'[s] = good[s] \/ s = vault[a].grant
    BY <1>3 DEF RevokeRecord
  <2> QED
    BY <2>1, <2>2
<1>4. ASSUME NEW u \in Users, UseRefreshed(u) \/ UseAnswerLost(u) PROVE Provider
  <2>1. use[u].pc = "refreshing"
    BY <1>4 DEF UseRefreshed, UseAnswerLost
  <2>2. /\ use[u].id \in Adders /\ Saved(use[u].id)
        /\ add[use[u].id].grant = use[u].token.grant
    BY <2>1 DEF Owned, UseTypes, Free
  <2>3. \A s \in Sessions : good'[s] = good[s] \/ s = use[u].token.grant
    BY <1>4 DEF UseRefreshed, UseAnswerLost
  <2> QED
    BY <2>2, <2>3
<1> QED
    BY <1>1, <1>2, <1>3, <1>4
       DEF Next, vars, flowVars, acctVars, memVars, FlowStep, SignInExpires, RemoveStored,
           Clear, RevokeBegin, RevokeClear, ExchangeFailed, AddBegin, AddRejected, AddTested,
           AddSaved, AddUnsaved, AddStored, RemoveForget, UseExpiring, UseRotated, Die

(* Where the granted sessions are, when none moves but to be dropped. *)
LEMMA PlacesStay ==
    ASSUME OnePlace, Stays, Provider, Types, Types', UNCHANGED grants,
           exchanging' \subseteq exchanging, pending' \in {0, pending},
           \A a \in Adders : ~AddTested(a), \A s \in Sessions : ~ExchangeDone(s)
    PROVE  OnePlace'
<1>1. \A a \in Adders : Took(a)' => Took(a) /\ add'[a].grant = add[a].grant
    BY DEF Stays
<1>2. \A s \in Sessions : Granted(s)' <=> Granted(s)
    BY DEF Granted
<1>3. ASSUME NEW s \in exchanging' PROVE Granted(s)' /\ s # pending'
    BY <1>2, <1>3 DEF OnePlace, Types, HeldTypes, Sessions
<1>4. \A s \in Sessions : (s = pending \/ \E a \in Adders : add[a].pc = "saving" /\ add[a].grant = s)
          => good'[s] = good[s]
  <2>1. \A a, b \in Adders : add[a].pc = "saving" /\ Saved(b) => add[a].grant # add[b].grant
    BY DEF OnePlace, Saved, Took
  <2>2. \A b \in Adders : Saved(b) => add[b].grant # pending
    BY DEF OnePlace, Saved, Took
  <2> QED
    BY <2>1, <2>2 DEF Provider
<1>5. pending' # 0 => Granted(pending)' /\ good'[pending'] = 1
  <2>1. pending' # 0 => pending' = pending /\ pending \in Sessions
    BY DEF Types, HeldTypes, Sessions
  <2>2. (pending \in Sessions /\ pending' = pending) => Granted(pending)' = Granted(pending)
    BY DEF Granted
  <2> QED
    BY <1>4, <2>1, <2>2 DEF OnePlace, Sessions
<1>6. ASSUME NEW a \in Adders, add'[a].pc = "saving" PROVE Took(a)' /\ good'[add'[a].grant] = 1
  <2>1. add[a].pc = "saving" /\ add'[a].grant = add[a].grant
    BY <1>6 DEF Stays
  <2>2. Took(a) /\ good[add[a].grant] = 1 /\ add[a].grant \in Sessions
    BY <2>1 DEF OnePlace, Granted
  <2> QED
    BY <1>4, <2>1, <2>2 DEF Stays
<1>7. ASSUME NEW a \in Adders, Took(a)'
      PROVE  Granted(add[a].grant)' /\ add'[a].grant # pending' /\ add'[a].grant \notin exchanging'
  <2>1. Took(a) /\ add'[a].grant = add[a].grant
    BY <1>1, <1>7
  <2>2. Granted(add[a].grant) /\ add[a].grant # pending /\ add[a].grant \notin exchanging
    BY <2>1 DEF OnePlace
  <2> QED
    BY <2>1, <2>2 DEF Granted, Sessions
<1>8. \A a, b \in Adders : Took(a)' /\ Took(b)' /\ add'[a].grant = add'[b].grant => a = b
    BY <1>1 DEF OnePlace
<1> QED
    BY <1>3, <1>5, <1>6, <1>7, <1>8 DEF OnePlace

(* A granted session stays in one place. *)
LEMMA OnePlaceStep ==
    ASSUME FlowInv, Types, Types', OnePlace, Owned, Cleared, [Next]_vars
    PROVE  OnePlace'
<1>1. Stays /\ Provider
    BY CallsStay, ProviderMoves DEF Types
<1>2. CASE FlowStep
  <2> DEFINE given == {s \in Sessions : grants'[s] # grants[s]}
  <2>1. \A s \in given : ~Granted(s) /\ Granted(s)'
    BY <1>2, FlowNextInv DEF FlowStep, Granted
  <2>2. \A s \in Sessions : Granted(s) => Granted(s)'
    BY <2>1 DEF Granted
  <2>3. /\ exchanging' = exchanging \cup given /\ pending' = (IF given = {} THEN pending ELSE 0)
        /\ UNCHANGED <<add, good>>
    BY <1>2 DEF FlowStep
  <2>4. \A a \in Adders : Took(a)' = Took(a)
    BY <2>3 DEF Took
  <2>5. ASSUME NEW s \in exchanging' PROVE Granted(s)' /\ s # pending'
    <3>1. CASE s \in given
      BY <2>1, <2>3, <3>1 DEF Sessions
    <3>2. CASE s \in exchanging
      BY <2>2, <2>3, <3>2 DEF OnePlace, Types, HeldTypes, Sessions
    <3> QED
      BY <2>3, <2>5, <3>1, <3>2
  <2>6. pending' # 0 => Granted(pending)' /\ good'[pending'] = 1
    <3>1. pending' # 0 => pending' = pending /\ Granted(pending) /\ good[pending] = 1
      BY <2>3 DEF OnePlace
    <3>2. ASSUME pending' # 0 PROVE Granted(pending)'
      BY <2>1, <3>1, <3>2 DEF Granted
    <3> QED
      BY <2>3, <3>1, <3>2
  <2>7. ASSUME NEW a \in Adders, Took(a)
        PROVE  Granted(add[a].grant)' /\ add[a].grant # pending' /\ add[a].grant \notin exchanging'
    <3>1. Granted(add[a].grant) /\ add[a].grant # pending /\ add[a].grant \notin exchanging
      BY <2>7 DEF OnePlace
    <3>2. add[a].grant \in Sessions /\ add[a].grant # 0 /\ add[a].grant \notin given
      BY <2>1, <3>1 DEF Granted, Sessions
    <3> QED
      BY <2>3, <3>1, <3>2 DEF Granted
  <2> QED
    BY <2>3, <2>4, <2>5, <2>6, <2>7 DEF OnePlace
<1>3. ASSUME NEW s \in Sessions, ExchangeDone(s) PROVE OnePlace'
  <2>1. /\ exchanging' = exchanging \ {s} /\ pending' = s /\ s \in exchanging
        /\ UNCHANGED <<grants, add>> /\ good' = [good EXCEPT ![s] = 1]
    BY <1>3 DEF ExchangeDone, flowVars
  <2>2. /\ \A t \in Sessions : Granted(t)' = Granted(t)
        /\ \A a \in Adders : Took(a)' = Took(a)
    BY <2>1 DEF Granted, Took
  <2>3. Granted(s) /\ good'[s] = 1 /\ \A t \in Sessions \ {s} : good'[t] = good[t]
    BY <2>1 DEF OnePlace, Types, GoodType
  <2>4. Granted(pending)'
    BY <2>1, <2>3 DEF Granted
  <2>5. ASSUME NEW a \in Adders, Took(a)
        PROVE  /\ Granted(add[a].grant)' /\ add[a].grant # s /\ add[a].grant \notin exchanging'
               /\ good'[add[a].grant] = good[add[a].grant]
    BY <2>1, <2>3, <2>5 DEF OnePlace, Granted
  <2>6. \A t \in exchanging' : Granted(t)' /\ t # s
    BY <2>1, <2>2 DEF OnePlace, Types, HeldTypes
  <2> QED
    BY <2>1, <2>2, <2>3, <2>4, <2>5, <2>6 DEF OnePlace
<1>4. ASSUME NEW a \in Adders, AddTested(a) PROVE OnePlace'
  <2>1. /\ UNCHANGED <<exchanging, grants, good>> /\ add[a].pc = "testing"
        /\ \A b \in Adders \ {a} : add'[b] = add[b]
    BY <1>4 DEF AddTested, flowVars, Types, AddTypes
  <2>2. /\ \A t : Granted(t)' = Granted(t)
        /\ \A b \in Adders \ {a} : Took(b)' = Took(b)
        /\ ~Took(a)
    BY <2>1 DEF Granted, Took
  <2>3. CASE add[a].grant = 0
    <3>1. add'[a].grant = 0 /\ add'[a].pc = "storing" /\ pending' = pending
      BY <1>4, <2>3 DEF AddTested, Types, AddTypes
    <3>2. \A b \in Adders : Took(b)' => b # a /\ Took(b)
      BY <2>2, <3>1 DEF Took
    <3>3. \A b \in Adders : add'[b].pc = "saving" => b # a
      BY <3>1
    <3> QED
      BY <2>1, <2>2, <3>1, <3>2, <3>3 DEF OnePlace
  <2>4. CASE add[a].grant # 0
    <3>1. add'[a].grant = pending /\ add'[a].pc = "saving" /\ pending # 0 /\ pending' = 0
      BY <1>4, <2>4 DEF AddTested, Consume, Types, AddTypes
    <3>2. Took(a)' /\ Granted(pending) /\ good[pending] = 1 /\ pending \notin exchanging
      BY <3>1 DEF OnePlace, Took
    <3>3. \A b \in Adders \ {a} : Took(b)' => add[b].grant # pending
      BY <2>2 DEF OnePlace
    <3>4. \A s \in exchanging : s # 0
      BY DEF Types, HeldTypes, Sessions
    <3>5. \A b \in Adders : Took(b)' => add'[b].grant # 0
      BY DEF Took
    <3>6. \A b \in Adders : Took(b)' => Granted(add[b].grant)' /\ add'[b].grant \notin exchanging
      BY <2>1, <2>2, <3>1, <3>2 DEF OnePlace, Granted
    <3>7. \A b \in Adders : add'[b].pc = "saving" => Took(b)' /\ good[add'[b].grant] = 1
      BY <2>1, <2>2, <3>1, <3>2 DEF OnePlace
    <3>8. \A b, c \in Adders : Took(b)' /\ Took(c)' /\ add'[b].grant = add'[c].grant => b = c
      BY <2>1, <2>2, <3>1, <3>3 DEF OnePlace
    <3> QED
      BY <2>1, <2>2, <3>1, <3>4, <3>5, <3>6, <3>7, <3>8 DEF OnePlace
  <2> QED
    BY <2>3, <2>4
<1>5. CASE /\ ~FlowStep /\ \A s \in Sessions : ~ExchangeDone(s)
           /\ \A a \in Adders : ~AddTested(a)
  <2>1. UNCHANGED grants /\ exchanging' \subseteq exchanging /\ pending' \in {0, pending}
    BY <1>5 DEF Next, vars, flowVars, acctVars, memVars, SignInExpires, RemoveStored, Clear,
       RevokeBegin, RevokeClear, ExchangeFailed, AddBegin, AddRejected, AddSaved, AddUnsaved,
       AddStored, RemoveForget, RevokeRecord, UseExpiring, UseRefreshed, UseAnswerLost,
       UseRotated, Die
  <2> QED
    BY <1>1, <1>5, <2>1, PlacesStay
<1> QED
    BY <1>2, <1>3, <1>4, <1>5

(* How the records move: a record is kept, made with the first tokens of a *)
(* new account, or replaced by the operation that rotated its token.       *)
Records ==
    \A a \in DOMAIN vault' :
        \/ a \in DOMAIN vault /\ vault'[a] = vault[a]
        \/ /\ AddSaved(a) \/ AddUnsaved(a)
           /\ add[a].pc = "saving" /\ vault'[a] = [grant |-> add[a].grant, token |-> 1]
        \/ /\ a \in DOMAIN vault
           /\ \E u \in Users : UseRotated(u) /\ Carries(u, a) /\ vault'[a] = use[u].token

LEMMA RecordsMove ==
    ASSUME Types, [Next]_vars
    PROVE  Records
<1> USE DEF Records
<1>1. CASE \A a \in DOMAIN vault' : a \in DOMAIN vault /\ vault'[a] = vault[a]
    BY <1>1
<1>2. ASSUME NEW a \in Adders, AddSaved(a) \/ AddUnsaved(a) PROVE Records
  <2>1. \/ vault' = vault
        \/ /\ DOMAIN vault' = DOMAIN vault \cup {a}
           /\ vault'[a] = [grant |-> add[a].grant, token |-> 1]
           /\ \A b \in DOMAIN vault \ {a} : vault'[b] = vault[b]
    BY <1>2 DEF AddSaved, AddUnsaved, Put
  <2>2. add[a].pc = "saving"
    BY <1>2 DEF AddSaved, AddUnsaved
  <2> QED
    BY <1>2, <2>1, <2>2
<1>3. ASSUME NEW a \in Adders, RemoveForget(a) PROVE Records
    BY <1>3 DEF RemoveForget, Forgotten, Drop
<1>4. CASE Clear \/ RevokeClear
    BY <1>4 DEF Clear, RevokeClear
<1>5. ASSUME NEW u \in Users, UseRotated(u) PROVE Records
  <2>1. \/ vault' = vault
        \/ vault' = Rotated(use[u].id, use[u].token)
    BY <1>5 DEF UseRotated
  <2>2. \A a \in DOMAIN vault' : a \in DOMAIN vault /\
            \/ vault'[a] = vault[a]
            \/ a = use[u].id /\ use[u].token.token # 0 /\ vault'[a] = use[u].token
    BY <2>1, RotatedRecords
  <2>3. use[u].pc = "rotating"
    BY <1>5 DEF UseRotated
  <2> QED
    BY <1>5, <2>2, <2>3 DEF Carries
<1> QED
    BY <1>1, <1>2, <1>3, <1>4, <1>5
       DEF Next, vars, flowVars, acctVars, memVars, FlowStep, SignInExpires, RemoveStored,
           RevokeBegin, ExchangeDone, ExchangeFailed, AddBegin, AddRejected, AddTested,
           AddStored, RevokeRecord, UseExpiring, UseRefreshed, UseAnswerLost, Die

(* How the operations move: one that is not idle goes on for its account,  *)
(* or has just read the account's record.                                  *)
Operations ==
    \A u \in Users : use'[u].pc # "idle" =>
        \/ use'[u] = use[u]
        \/ /\ use[u].pc = "refreshing" /\ use'[u].pc = "rotating" /\ use'[u].id = use[u].id
           /\ use'[u].token.grant = use[u].token.grant
           /\ UseRefreshed(u)
        \/ \E a \in Adders :
              UseExpiring(u, a) /\ use'[u] = [pc |-> "refreshing", id |-> a, token |-> vault[a]]

LEMMA OperationsMove ==
    ASSUME UseTypes, [Next]_vars
    PROVE  Operations
<1> USE DEF UseTypes, Operations, Free
<1>1. CASE UNCHANGED use
    BY <1>1
<1>2. ASSUME NEW u \in Users, NEW a \in Adders, UseExpiring(u, a) PROVE Operations
  <2>1. /\ use'[u] = [pc |-> "refreshing", id |-> a, token |-> vault[a]]
        /\ \A v \in Users \ {u} : use'[v] = use[v]
    BY <1>2 DEF UseExpiring
  <2> QED
    BY <1>2, <2>1
<1>3. ASSUME NEW u \in Users, UseRefreshed(u) PROVE Operations
  <2>1. use[u].pc = "refreshing" /\ \A v \in Users \ {u} : use'[v] = use[v]
    BY <1>3 DEF UseRefreshed
  <2>2. \/ use'[u].pc = "idle"
        \/ /\ use'[u].pc = "rotating" /\ use'[u].id = use[u].id
           /\ use'[u].token.grant = use[u].token.grant
    BY <1>3 DEF UseRefreshed
  <2> QED
    BY <1>3, <2>1, <2>2
<1>4. ASSUME NEW u \in Users, UseAnswerLost(u) \/ UseRotated(u) PROVE Operations
    BY <1>4 DEF UseAnswerLost, UseRotated
<1>5. CASE Die
    BY <1>5 DEF Die
<1> QED
    BY <1>1, <1>2, <1>3, <1>4, <1>5
       DEF Next, vars, flowVars, acctVars, memVars, FlowStep, SignInExpires, RemoveStored,
           Clear, RevokeBegin, RevokeClear, ExchangeDone, ExchangeFailed, AddBegin,
           AddRejected, AddTested, AddSaved, AddUnsaved, AddStored, RemoveForget, RevokeRecord

(* How the accounts move. *)
Members ==
    /\ \A a \in DOMAIN accounts' : a \in DOMAIN accounts \/ AddStored(a)
    /\ remove' # None => IF remove' = remove THEN \A a \in DOMAIN accounts : a \in DOMAIN accounts'
                                             ELSE RemoveForget(remove')

LEMMA MembersMove ==
    ASSUME Types, [Next]_vars
    PROVE  Members
<1> USE DEF Members
<1>1. CASE UNCHANGED <<accounts, remove>>
    BY <1>1
<1>2. ASSUME NEW a \in Adders, AddStored(a) PROVE Members
  <2>1. /\ remove' = None
        /\ DOMAIN accounts' \subseteq DOMAIN accounts \cup {a}
    BY <1>2 DEF AddStored, Put
  <2> QED
    BY <1>2, <2>1
<1>3. ASSUME NEW a \in Adders, RemoveForget(a) PROVE Members
    BY <1>3, NamesAssumption DEF RemoveForget
<1>4. CASE RemoveStored
    BY <1>4 DEF RemoveStored, Drop
<1>5. CASE Die
    BY <1>5 DEF Die
<1> QED
    BY <1>1, <1>2, <1>3, <1>4, <1>5
       DEF Next, vars, flowVars, acctVars, memVars, FlowStep, SignInExpires, Clear,
           RevokeBegin, RevokeClear, ExchangeDone, ExchangeFailed, AddBegin, AddRejected,
           AddTested, AddSaved, AddUnsaved, RevokeRecord, UseExpiring, UseRefreshed,
           UseAnswerLost, UseRotated

(* Records, refreshes and accounts keep their owners. *)
LEMMA OwnedStep ==
    ASSUME Types, Types', OnePlace, Owned, [Next]_vars
    PROVE  Owned'
<1>1. Stays /\ Records /\ Operations /\ Members
    BY CallsStay, RecordsMove, OperationsMove, MembersMove DEF Types
<1>2. ASSUME NEW a \in DOMAIN vault' PROVE Saved(a)' /\ vault'[a].grant = add'[a].grant
  <2>0. a \in Adders
    BY DEF Types, RecordTypes
  <2>1. CASE a \in DOMAIN vault /\ vault'[a] = vault[a]
    BY <1>1, <2>0, <2>1 DEF Owned, Stays, Saved, Took
  <2>2. CASE /\ AddSaved(a) \/ AddUnsaved(a)
             /\ add[a].pc = "saving" /\ vault'[a] = [grant |-> add[a].grant, token |-> 1]
    <3>1. add'[a].pc \in {"storing", "dead"} /\ add'[a].grant = add[a].grant
      BY <2>0, <2>2 DEF AddSaved, AddUnsaved, Types, AddTypes
    <3>2. add[a].grant # 0
      BY <2>0, <2>2 DEF OnePlace, Took
    <3> QED
      BY <2>2, <3>1, <3>2 DEF Saved
  <2>3. CASE /\ a \in DOMAIN vault
             /\ \E u \in Users : UseRotated(u) /\ Carries(u, a) /\ vault'[a] = use[u].token
    BY <1>1, <2>0, <2>3 DEF Owned, Stays, Saved, Took, Carries
  <2> QED
    BY <1>1, <2>1, <2>2, <2>3 DEF Records
<1>3. ASSUME NEW u \in Users, use'[u].pc # "idle"
      PROVE  Saved(use[u].id)' /\ use'[u].token.grant = add'[use'[u].id].grant
  <2>1. CASE use'[u].id = use[u].id /\ use'[u].token.grant = use[u].token.grant /\ use[u].pc # "idle"
    <3>1. use[u].id \in Adders /\ Saved(use[u].id)
      BY <2>1 DEF Types, UseTypes, Free, Owned
    <3>2. Saved(use[u].id)' /\ add'[use[u].id].grant = add[use[u].id].grant
      BY <1>1, <2>1, <3>1 DEF Stays, Saved, Took
    <3> QED
      BY <2>1, <3>2 DEF Owned
  <2>2. ASSUME NEW a \in Adders, UseExpiring(u, a),
               use'[u] = [pc |-> "refreshing", id |-> a, token |-> vault[a]]
        PROVE  Saved(use[u].id)' /\ use'[u].token.grant = add'[use'[u].id].grant
    <3>1. a \in DOMAIN vault /\ add' = add
      BY <2>2 DEF UseExpiring
    <3>2. Saved(a) /\ vault[a].grant = add[a].grant
      BY <3>1 DEF Owned
    <3> QED
      BY <2>2, <3>1, <3>2 DEF Saved
  <2> QED
    BY <1>1, <1>3, <2>1, <2>2 DEF Operations
<1>4. ASSUME NEW a \in DOMAIN accounts' PROVE add'[a].pc = "dead"
  <2>1. a \in Adders
    BY DEF Types, RecordTypes
  <2>2. CASE a \in DOMAIN accounts
    BY <1>1, <2>1, <2>2 DEF Stays, Owned
  <2>3. CASE AddStored(a)
    BY <2>1, <2>3 DEF AddStored, Types, AddTypes
  <2> QED
    BY <1>1, <2>2, <2>3 DEF Members
<1>5. ASSUME remove' # None PROVE remove' \in DOMAIN accounts'
    BY <1>1, <1>5 DEF Members, Owned, RemoveForget
<1> QED
    BY <1>2, <1>3, <1>4, <1>5 DEF Owned

-----------------------------------------------------------------------------
(* An account whose tokens are due was so before, or has just saved them. *)
LEMMA DueBefore ==
    ASSUME Types, Types', OnePlace, Owned, [Next]_vars, NEW a \in Adders, Due(a)'
    PROVE  Due(a) \/ AddSaved(a)
<1>1. Stays /\ Members
    BY CallsStay, MembersMove DEF Types
<1>2. a \notin excused
  <2>1. excused \subseteq excused'
    BY DEF Next, vars, flowVars, acctVars, memVars, FlowStep, SignInExpires, RemoveStored,
       Clear, RevokeBegin, RevokeClear, ExchangeDone, ExchangeFailed, AddBegin, AddRejected,
       AddTested, AddSaved, AddUnsaved, AddStored, RemoveForget, RevokeRecord, UseExpiring,
       UseRefreshed, UseAnswerLost, UseRotated, Die
  <2> QED
    BY <2>1 DEF Due
<1>3. CASE add'[a].pc = "storing"
    BY <1>1, <1>2, <1>3 DEF Due, Stays
<1>4. CASE a \in DOMAIN accounts'
  <2>1. Took(a)'
    BY DEF Due, Saved, Took
  <2>2. CASE a \in DOMAIN accounts
    <3>1. add[a].pc = "dead"
      BY <2>2 DEF Owned
    <3>2. Took(a)
      BY <1>1, <2>1, <3>1 DEF Stays, AddTested
    <3> QED
      BY <1>2, <2>2, <3>1, <3>2 DEF Due, Took, Saved
  <2>3. CASE AddStored(a)
    <3>1. add[a].pc = "storing"
      BY <2>3 DEF AddStored
    <3>2. Took(a)
      BY <1>1, <2>1, <3>1 DEF Stays, AddTested
    <3> QED
      BY <1>2, <3>1, <3>2 DEF Due, Took, Saved
  <2> QED
    BY <1>1, <1>4, <2>2, <2>3 DEF Members
<1> QED
    BY <1>3, <1>4 DEF Due

(* The good token stays where it is when nobody touches it. *)
LEMMA TokenStays ==
    ASSUME NEW a \in Adders, TokenOf(a), a \in DOMAIN vault', vault'[a] = vault[a],
           good'[vault[a].grant] = good[vault[a].grant],
           \A u \in Users :
               /\ Carries(u, a)' <=> Carries(u, a)
               /\ Carries(u, a) => use'[u].token = use[u].token
               /\ use'[u].pc = "refreshing" /\ use'[u].id = a =>
                      use'[u].token.token <= vault[a].token
    PROVE  TokenOf(a)'
BY DEF TokenOf

(* An operation refreshes the token of an account. *)
LEMMA TokenRefreshed ==
    ASSUME Types, Types', Owned, NEW u \in Users, UseRefreshed(u),
           NEW a \in Adders, use[u].id = a, TokenOf(a)
    PROVE  TokenOf(a)'
<1> DEFINE r == use[u].token
<1>1. /\ use[u].pc = "refreshing" /\ UNCHANGED vault /\ a \in DOMAIN vault
      /\ \A v \in Users \ {u} : use'[v] = use[v]
    BY DEF UseRefreshed, TokenOf, Types, UseTypes
<1>2. r.grant = vault[a].grant /\ r.token <= vault[a].token
    BY <1>1 DEF Owned, TokenOf
<1>3. /\ r.token \in Nat \ {0} /\ vault[a].token \in Nat /\ r.grant \in Sessions
      /\ good[r.grant] \in Nat
    BY <1>1, AccountConstants DEF Types, UseTypes, RecordTypes, GoodType, Free
<1>4. ~Carries(u, a) /\ \A v \in Users \ {u} : Carries(v, a)' <=> Carries(v, a)
    BY <1>1 DEF Carries
<1>5. CASE use' = [use EXCEPT ![u] = Free] /\ UNCHANGED good
  <2>1. use'[u].pc = "idle"
    BY <1>5 DEF Types, UseTypes, Free
  <2>2. ~Carries(u, a)'
    BY <2>1 DEF Carries
  <2>3. \A v \in Users : use'[v].pc = "refreshing" /\ use'[v].id = a =>
            use'[v].token.token <= vault[a].token
    BY <1>1, <2>1 DEF TokenOf
  <2> QED
    BY <1>1, <1>4, <1>5, <2>2, <2>3, TokenStays
<1>6. CASE /\ use' = [use EXCEPT ![u].pc = "rotating", ![u].token.token = 0]
           /\ UNCHANGED good
  <2>1. use'[u].pc = "rotating" /\ use'[u].token.token = 0
    BY <1>1, <1>6 DEF Types, UseTypes, Free
  <2>2. ~Carries(u, a)'
    BY <2>1 DEF Carries
  <2>3. \A v \in Users : use'[v].pc = "refreshing" /\ use'[v].id = a =>
            use'[v].token.token <= vault[a].token
    BY <1>1, <2>1 DEF TokenOf
  <2> QED
    BY <1>1, <1>4, <1>6, <2>2, <2>3, TokenStays
<1>7. CASE /\ good[r.grant] = r.token
           /\ good' = [good EXCEPT ![r.grant] = @ + 1]
           /\ use' = [use EXCEPT ![u].pc = "rotating", ![u].token.token = @ + 1]
  <2>1. /\ use'[u].pc = "rotating" /\ use'[u].id = a
        /\ use'[u].token.token = r.token + 1 /\ good'[r.grant] = r.token + 1
    BY <1>1, <1>3, <1>7 DEF Types, UseTypes, Free, GoodType
  <2>2. good[vault[a].grant] = vault[a].token /\ \A v \in Users : ~Carries(v, a)
    BY <1>2, <1>3, <1>7 DEF TokenOf
  <2>3. Carries(u, a)' /\ \A v \in Users \ {u} : ~Carries(v, a)'
    BY <1>3, <1>4, <2>1, <2>2 DEF Carries
  <2>4. \A v \in Users : use'[v].pc = "refreshing" /\ use'[v].id = a =>
            use'[v].token.token <= vault'[a].token
    BY <1>1, <2>1 DEF TokenOf
  <2> QED
    BY <1>1, <1>2, <1>3, <1>7, <2>1, <2>2, <2>3, <2>4 DEF TokenOf
<1> QED
    BY <1>5, <1>6, <1>7 DEF UseRefreshed

(* An operation stores the token it was given. *)
LEMMA TokenRotated ==
    ASSUME Types, Types', Owned, NEW u \in Users, UseRotated(u),
           NEW a \in Adders, use[u].id = a, TokenOf(a), a \notin excused'
    PROVE  TokenOf(a)'
<1>1. /\ use[u].pc = "rotating" /\ vault' = Rotated(a, use[u].token) /\ UNCHANGED good
      /\ use'[u].pc = "idle" /\ \A v \in Users \ {u} : use'[v] = use[v]
    BY DEF UseRotated, Types, UseTypes, Free
<1>2. ~Carries(u, a)' /\ \A v \in Users \ {u} : Carries(v, a)' <=> Carries(v, a)
    BY <1>1 DEF Carries
<1>3. /\ a \in DOMAIN vault /\ a \in DOMAIN vault'
      /\ vault'[a] = IF use[u].token.token # 0 THEN use[u].token ELSE vault[a]
    BY <1>1, RotatedRecords DEF TokenOf
<1>4. CASE use[u].token.token = 0
  <2>1. ~Carries(u, a)
    BY <1>4 DEF Carries
  <2>2. \A v \in Users : use'[v].pc = "refreshing" /\ use'[v].id = a =>
            use'[v].token.token <= vault[a].token
    BY <1>1 DEF TokenOf
  <2>3. \A v \in Users : /\ Carries(v, a)' <=> Carries(v, a)
                         /\ Carries(v, a) => use'[v].token = use[v].token
    BY <1>1, <1>2, <2>1
  <2> QED
    BY <1>1, <1>3, <1>4, <2>2, <2>3, TokenStays
<1>5. CASE use[u].token.token # 0
  <2>1. Carries(u, a)
    BY <1>1, <1>5 DEF Carries
  <2>2. /\ use[u].token.token = good[vault[a].grant] /\ \A v \in Users \ {u} : ~Carries(v, a)
        /\ good[vault[a].grant] = vault[a].token + 1
    BY <2>1 DEF TokenOf
  <2>3. vault'[a].grant = vault[a].grant /\ vault'[a].token = vault[a].token + 1
    BY <1>1, <1>3, <1>5, <2>2 DEF Owned
  <2>4. \A v \in Users : use'[v].pc = "refreshing" /\ use'[v].id = a =>
            use'[v].token.token <= vault'[a].token
    <3> SUFFICES ASSUME NEW v \in Users, use'[v].pc = "refreshing", use'[v].id = a
                 PROVE  use'[v].token.token <= vault'[a].token
      OBVIOUS
    <3>1. use'[v] = use[v] /\ use[v].token.token <= vault[a].token
      BY <1>1 DEF TokenOf
    <3>2. use[v].token.token \in Nat /\ vault[a].token \in Nat
      BY <1>3, <3>1 DEF Types, UseTypes, RecordTypes, Free
    <3> QED
      BY <2>3, <3>1, <3>2
  <2> QED
    BY <1>1, <1>2, <1>3, <2>2, <2>3, <2>4 DEF TokenOf
<1> QED
    BY <1>4, <1>5

(* A record goes only when the user takes the tokens away. *)
LEMMA RecordStays ==
    ASSUME Cleared, [Next]_vars, NEW a \in DOMAIN vault, a \notin excused, a \notin excused'
    PROVE  a \in DOMAIN vault'
<1>1. CASE UNCHANGED vault
    BY <1>1
<1>2. ASSUME NEW b \in Adders, AddSaved(b) \/ AddUnsaved(b) PROVE a \in DOMAIN vault'
    BY <1>2 DEF AddSaved, AddUnsaved, Put
<1>3. ASSUME NEW b \in Adders, RemoveForget(b) PROVE a \in DOMAIN vault'
    BY <1>3 DEF RemoveForget, Forgotten, Drop
<1>4. CASE Clear
    BY <1>4 DEF Clear
<1>5. CASE RevokeClear
    BY <1>5 DEF RevokeClear, Cleared
<1>6. ASSUME NEW u \in Users, UseRotated(u) PROVE a \in DOMAIN vault'
    BY <1>6, RotatedRecords DEF UseRotated
<1> QED
    BY <1>1, <1>2, <1>3, <1>4, <1>5, <1>6
       DEF Next, vars, flowVars, acctVars, memVars, FlowStep, SignInExpires, RemoveStored,
           RevokeBegin, ExchangeDone, ExchangeFailed, AddBegin, AddRejected, AddTested,
           AddStored, RevokeRecord, UseExpiring, UseRefreshed, UseAnswerLost, Die

(* The provider's token of an account changes only with an operation on it. *)
LEMMA GoodStays ==
    ASSUME Types, OnePlace, Owned, Cleared, [Next]_vars, NEW a \in DOMAIN vault,
           a \notin excused, a \notin excused',
           \A u \in Users : ~(UseRefreshed(u) /\ use[u].id = a)
    PROVE  good'[vault[a].grant] = good[vault[a].grant]
<1>1. a \in Adders /\ Took(a) /\ vault[a].grant = add[a].grant
    BY DEF Types, RecordTypes, Owned, Saved, Took
<1>2. CASE UNCHANGED good
    BY <1>2
<1>3. ASSUME NEW s \in Sessions, ExchangeDone(s) PROVE good'[vault[a].grant] = good[vault[a].grant]
    BY <1>1, <1>3 DEF ExchangeDone, OnePlace, Granted, Types, GoodType
<1>4. ASSUME NEW b \in Adders, RevokeRecord(b) PROVE FALSE
    BY <1>4 DEF RevokeRecord, Cleared, NoRevoke
<1>5. ASSUME NEW u \in Users, UseRefreshed(u) \/ UseAnswerLost(u)
      PROVE  good'[vault[a].grant] = good[vault[a].grant]
  <2>1. use[u].pc = "refreshing" /\ use[u].id # a
    BY <1>5 DEF UseRefreshed, UseAnswerLost
  <2>2. /\ use[u].id \in Adders /\ Saved(use[u].id)
        /\ add[use[u].id].grant = use[u].token.grant
    BY <2>1 DEF Owned, Types, UseTypes, Free
  <2>3. use[u].token.grant # vault[a].grant
    BY <1>1, <2>1, <2>2 DEF OnePlace, Saved, Took
  <2>4. \E x : good' = good \/ good' = [good EXCEPT ![use[u].token.grant] = x]
    BY <1>5 DEF UseRefreshed, UseAnswerLost
  <2> QED
    BY <2>3, <2>4 DEF Types, GoodType, RecordTypes
<1> QED
    BY <1>2, <1>3, <1>4, <1>5
       DEF Next, vars, flowVars, acctVars, memVars, FlowStep, SignInExpires, RemoveStored,
           Clear, RevokeBegin, RevokeClear, ExchangeFailed, AddBegin, AddRejected, AddTested,
           AddSaved, AddUnsaved, AddStored, RemoveForget, UseExpiring, UseRotated, Die

(* An operation with an answer to store waits until it stores it. *)
LEMMA RotatingStays ==
    ASSUME UseTypes, [Next]_vars, NEW u \in Users, use[u].pc = "rotating"
    PROVE  use'[u] = use[u] \/ UseRotated(u) \/ Die
<1>1. CASE UNCHANGED use
    BY <1>1
<1>2. ASSUME NEW v \in Users, NEW a \in Adders, UseExpiring(v, a) PROVE use'[u] = use[u]
    BY <1>2 DEF UseExpiring, UseTypes
<1>3. ASSUME NEW v \in Users, UseRefreshed(v) PROVE use'[u] = use[u]
    BY <1>3 DEF UseRefreshed, UseTypes
<1>4. ASSUME NEW v \in Users, UseAnswerLost(v) PROVE use'[u] = use[u]
    BY <1>4 DEF UseAnswerLost, UseTypes
<1>5. ASSUME NEW v \in Users, UseRotated(v) PROVE use'[u] = use[u] \/ v = u
    BY <1>5 DEF UseRotated, UseTypes
<1> QED
    BY <1>1, <1>2, <1>3, <1>4, <1>5
       DEF Next, vars, flowVars, acctVars, memVars, FlowStep, SignInExpires, RemoveStored,
           Clear, RevokeBegin, RevokeClear, ExchangeDone, ExchangeFailed, AddBegin,
           AddRejected, AddTested, AddSaved, AddUnsaved, AddStored, RemoveForget, RevokeRecord

(* The good token of every account is where it is due. *)
LEMMA TokenInvStep ==
    ASSUME Types, Types', OnePlace, Owned, Cleared, TokenInv, [Next]_vars
    PROVE  TokenInv'
<1> SUFFICES ASSUME NEW a \in Adders, Due(a)' PROVE TokenOf(a)'
    BY DEF TokenInv
<1>1. CASE AddSaved(a)
  <2>1. /\ add[a].pc = "saving" /\ UNCHANGED <<use, good>>
        /\ a \in DOMAIN vault' /\ vault'[a] = [grant |-> add[a].grant, token |-> 1]
    BY <1>1 DEF AddSaved, Put
  <2>2. good[add[a].grant] = 1
    BY <2>1 DEF OnePlace
  <2>3. \A u \in Users : use[u].pc # "idle" => use[u].id # a
    BY <2>1 DEF Owned, Saved
  <2> QED
    BY <2>1, <2>2, <2>3 DEF TokenOf, Carries
<1>2. CASE Due(a)
  <2>1. TokenOf(a) /\ a \in DOMAIN vault /\ a \notin excused /\ a \notin excused'
    BY <1>2 DEF TokenInv, TokenOf, Due
  <2>2. CASE \E u \in Users : UseRefreshed(u) /\ use[u].id = a
    BY <2>1, <2>2, TokenRefreshed
  <2>3. CASE \E u \in Users : UseRotated(u) /\ use[u].id = a
    BY <2>1, <2>3, TokenRotated
  <2>4. CASE \A u \in Users : ~((UseRefreshed(u) \/ UseRotated(u)) /\ use[u].id = a)
    <3>1. Records /\ Operations
      BY RecordsMove, OperationsMove DEF Types
    <3>2. a \in DOMAIN vault'
      BY <2>1, RecordStays
    <3>3. vault'[a] = vault[a]
      BY <1>2, <2>4, <3>1, <3>2 DEF Records, Carries, Due, Saved
    <3>4. good'[vault[a].grant] = good[vault[a].grant]
      BY <2>1, <2>4, GoodStays
    <3>5. ASSUME NEW u \in Users, Carries(u, a) PROVE Carries(u, a)' /\ use'[u].token = use[u].token
      <4>1. ~Die
        BY <2>1, <3>5 DEF Die, Carries
      <4> QED
        BY <2>4, <3>5, <4>1, RotatingStays DEF Types, Carries
    <3>6. ASSUME NEW u \in Users, Carries(u, a)' PROVE Carries(u, a)
      <4>1. use'[u].pc = "rotating" /\ use'[u].id = a
        BY <3>6 DEF Carries
      <4>2. CASE use'[u] = use[u]
        BY <3>6, <4>2 DEF Carries
      <4>3. CASE use'[u].id = use[u].id /\ UseRefreshed(u)
        BY <2>4, <4>1, <4>3
      <4> QED
        <5>1. ASSUME NEW b \in Adders,
                     use'[u] = [pc |-> "refreshing", id |-> b, token |-> vault[b]]
              PROVE  FALSE
          BY <4>1, <5>1
        <5> QED
          BY <3>1, <4>1, <4>2, <4>3, <5>1 DEF Operations
    <3>7. ASSUME NEW u \in Users, use'[u].pc = "refreshing", use'[u].id = a
          PROVE  use'[u].token.token <= vault[a].token
      <4>1. CASE use'[u] = use[u]
        BY <2>1, <3>7, <4>1 DEF TokenOf
      <4>2. CASE use'[u].token = vault[a]
        BY <2>1, <4>2 DEF Types, RecordTypes
      <4> QED
        <5>1. ASSUME NEW b \in Adders,
                     use'[u] = [pc |-> "refreshing", id |-> b, token |-> vault[b]]
              PROVE  use'[u].token = vault[a]
          BY <3>7, <5>1
        <5> QED
          BY <3>1, <3>7, <4>1, <4>2, <5>1 DEF Operations
    <3> QED
      <4>1. \A u \in Users :
                /\ Carries(u, a)' <=> Carries(u, a)
                /\ Carries(u, a) => use'[u].token = use[u].token
                /\ use'[u].pc = "refreshing" /\ use'[u].id = a =>
                       use'[u].token.token <= vault[a].token
        BY <3>5, <3>6, <3>7
      <4> QED
        BY <2>1, <3>2, <3>3, <3>4, <4>1, TokenStays
  <2> QED
    BY <2>2, <2>3, <2>4
<1> QED
    BY <1>1, <1>2, DueBefore

-----------------------------------------------------------------------------
(* A revocation under way goes on for records that stay as they are.       *)
Revocation ==
    /\ excused \subseteq excused'
    /\ revoke' # NoRevoke =>
          /\ UNCHANGED vault
          /\ revoke' = revoke \/ RevokeBegin \/ \E a \in Adders : RevokeRecord(a)

LEMMA RevocationMoves ==
    ASSUME [Next]_vars PROVE Revocation
<1> USE DEF Revocation
<1>1. excused \subseteq excused'
  BY DEF Next, vars, flowVars, acctVars, memVars, FlowStep, SignInExpires, RemoveStored,
     Clear, RevokeBegin, RevokeClear, ExchangeDone, ExchangeFailed, AddBegin, AddRejected,
     AddTested, AddSaved, AddUnsaved, AddStored, RemoveForget, RevokeRecord, UseExpiring,
     UseRefreshed, UseAnswerLost, UseRotated, Die
<1>2. CASE UNCHANGED <<revoke, vault>>
    BY <1>1, <1>2
<1>3. CASE RevokeBegin
    BY <1>1, <1>3 DEF RevokeBegin
<1>4. ASSUME NEW a \in Adders, RevokeRecord(a) PROVE Revocation
    BY <1>1, <1>4 DEF RevokeRecord
<1>5. ASSUME revoke' = NoRevoke PROVE Revocation
    BY <1>1, <1>5
<1>6. ASSUME NEW a \in Adders, AddSaved(a) \/ AddUnsaved(a) \/ RemoveForget(a) PROVE revoke' = NoRevoke
    BY <1>6 DEF AddSaved, AddUnsaved, RemoveForget, VaultFree
<1>7. CASE Clear \/ RevokeClear \/ Die
    BY <1>5, <1>7 DEF Clear, RevokeClear, Die, VaultFree
<1>8. ASSUME NEW u \in Users, UseRotated(u) PROVE revoke' = NoRevoke
    BY <1>8 DEF UseRotated, VaultFree
<1> QED
    BY <1>2, <1>3, <1>4, <1>5, <1>6, <1>7, <1>8
       DEF Next, vars, flowVars, acctVars, memVars, FlowStep, SignInExpires, RemoveStored,
           ExchangeDone, ExchangeFailed, AddBegin, AddRejected, AddTested, AddStored,
           UseExpiring, UseRefreshed, UseAnswerLost

(* A step that leaves no failure behind is none. *)
LEMMA NoFailure ==
    ASSUME RestTypes, [Next]_vars, faults' = 0
    PROVE  faults = 0 /\ ~Fault /\ ~Die
<1>1. ~Fault
    BY DEF RestTypes, Fault
<1>2. UNCHANGED faults \/ Fault
    BY DEF Next, vars, flowVars, acctVars, memVars, FlowStep, SignInExpires, RemoveStored,
       Clear, RevokeBegin, RevokeClear, ExchangeDone, ExchangeFailed, AddBegin, AddRejected,
       AddTested, AddSaved, AddUnsaved, AddStored, RemoveForget, RevokeRecord, UseExpiring,
       UseRefreshed, UseAnswerLost, UseRotated, Die
<1> QED
    BY <1>1, <1>2 DEF Die

(* The provider refuses a token that was revoked for ever. *)
LEMMA RevokedStays ==
    ASSUME Types, OnePlace, Owned, Cleared, [Next]_vars,
           NEW a \in DOMAIN vault, good[vault[a].grant] = 0
    PROVE  good'[vault[a].grant] = 0
<1> DEFINE g == vault[a].grant
<1>1. a \in Adders /\ Took(a) /\ g = add[a].grant /\ g \in Sessions
    BY DEF Types, RecordTypes, Owned, Saved, Took
<1>2. CASE UNCHANGED good
    BY <1>2
<1>3. ASSUME NEW s \in Sessions, ExchangeDone(s) PROVE good'[g] = 0
    BY <1>1, <1>3 DEF ExchangeDone, OnePlace, Types, GoodType
<1>4. ASSUME NEW b \in Adders, RevokeRecord(b) PROVE good'[g] = 0
    BY <1>1, <1>4 DEF RevokeRecord, Types, GoodType
<1>5. ASSUME NEW u \in Users, UseRefreshed(u) \/ UseAnswerLost(u) PROVE good'[g] = 0
  <2>1. use[u].token.token # 0
    BY <1>5 DEF UseRefreshed, UseAnswerLost, Types, UseTypes
  <2>2. CASE good[use[u].token.grant] = use[u].token.token
    <3>1. use[u].token.grant # g
      BY <2>1, <2>2
    <3>2. \E x : good' = good \/ good' = [good EXCEPT ![use[u].token.grant] = x]
      BY <1>5 DEF UseRefreshed, UseAnswerLost
    <3> QED
      BY <1>1, <3>1, <3>2 DEF Types, GoodType
  <2>3. CASE good[use[u].token.grant] # use[u].token.token
    BY <1>5, <2>3 DEF UseRefreshed, UseAnswerLost
  <2> QED
    BY <2>2, <2>3
<1> QED
    BY <1>2, <1>3, <1>4, <1>5
       DEF Next, vars, flowVars, acctVars, memVars, FlowStep, SignInExpires, RemoveStored,
           Clear, RevokeBegin, RevokeClear, ExchangeFailed, AddBegin, AddRejected, AddTested,
           AddSaved, AddUnsaved, AddStored, RemoveForget, UseExpiring, UseRotated, Die

(* Without a failure a record is that of an account, or of one to come. *)
LEMMA OrphansStep ==
    ASSUME Types, Types', Owned, Cleared, [Next]_vars
    PROVE  NoOrphanTokens'
<1> SUFFICES ASSUME faults' = 0, NEW a \in DOMAIN vault'
             PROVE  a \in DOMAIN accounts' \/ add'[a].pc = "storing"
    BY DEF NoOrphanTokens
<1>1. faults = 0 /\ ~Fault /\ ~Die /\ a \in Adders
    BY NoFailure DEF Types, RecordTypes
<1>2. Records /\ Stays
    BY RecordsMove, CallsStay DEF Types
<1>3. CASE a \notin DOMAIN vault
  <2>1. AddSaved(a)
    BY <1>1, <1>2, <1>3 DEF Records, AddUnsaved
  <2> QED
    BY <1>1, <2>1 DEF AddSaved, Types, AddTypes
<1>4. CASE a \in DOMAIN vault /\ a \in DOMAIN accounts
  <2>1. CASE accounts' = accounts
    BY <1>4, <2>1
  <2>2. ASSUME NEW b \in Adders, AddStored(b) PROVE a \in DOMAIN accounts'
    BY <1>1, <1>4, <2>2 DEF AddStored, Put
  <2>3. CASE RemoveStored
    <3>1. remove \notin DOMAIN vault
      BY <1>1, <2>3 DEF RemoveStored, Cleared
    <3> QED
      BY <1>1, <1>4, <2>3, <3>1 DEF RemoveStored, Drop
  <2> QED
    BY <1>4, <2>1, <2>2, <2>3
       DEF Next, vars, flowVars, acctVars, memVars, FlowStep, SignInExpires, Clear,
           RevokeBegin, RevokeClear, ExchangeDone, ExchangeFailed, AddBegin, AddRejected,
           AddTested, AddSaved, AddUnsaved, RemoveForget, RevokeRecord, UseExpiring,
           UseRefreshed, UseAnswerLost, UseRotated, Die
<1>5. CASE a \in DOMAIN vault /\ add[a].pc = "storing"
  <2>1. CASE add'[a] = add[a]
    BY <1>5, <2>1
  <2>2. CASE AddStored(a)
    BY <1>1, <2>2 DEF AddStored, Put
  <2>3. CASE ~\E b \in Adders : \/ \E e \in Emails : AddBegin(b, e)
                                \/ AddRejected(b) \/ AddTested(b) \/ AddSaved(b)
                                \/ AddUnsaved(b) \/ AddStored(b)
    BY <1>1, <1>5, <2>3
       DEF Next, vars, flowVars, acctVars, memVars, FlowStep, SignInExpires, RemoveStored,
           Clear, RevokeBegin, RevokeClear, ExchangeDone, ExchangeFailed, RemoveForget,
           RevokeRecord, UseExpiring, UseRefreshed, UseAnswerLost, UseRotated
  <2>4. ASSUME NEW b \in Adders, AddRejected(b) \/ AddTested(b) \/ AddSaved(b)
                                 \/ AddUnsaved(b) \/ AddStored(b)
        PROVE  add'[a] = add[a] \/ AddStored(a)
    BY <1>1, <1>5, <2>4 DEF AddRejected, AddTested, AddSaved, AddUnsaved, AddStored,
       Types, AddTypes
  <2>5. ASSUME NEW b \in Adders, NEW e \in Emails, AddBegin(b, e) PROVE add'[a] = add[a]
    BY <1>1, <1>5, <2>5 DEF AddBegin, Types, AddTypes
  <2> QED
    BY <2>1, <2>2, <2>3, <2>4, <2>5
<1> QED
    BY <1>1, <1>3, <1>4, <1>5 DEF Cleared, NoOrphanTokens

(* A revocation that reports success was accepted for every record. *)
LEMMA HonestStep ==
    ASSUME Types, Types', OnePlace, Owned, Cleared, [Next]_vars
    PROVE  RevocationHonest'
<1> SUFFICES ASSUME revoke' # NoRevoke, revoke'.outcome = "succeeded",
                    NEW a \in DOMAIN vault', a \notin revoke'.left
             PROVE  good'[vault'[a].grant] = 0
    BY DEF RevocationHonest, NoRevoke
<1>1. /\ vault' = vault /\ a \in DOMAIN vault
      /\ revoke' = revoke \/ RevokeBegin \/ \E b \in Adders : RevokeRecord(b)
    BY RevocationMoves DEF Revocation
<1>2. CASE revoke' = revoke
    BY <1>1, <1>2, RevokedStays DEF Cleared, RevocationHonest
<1>3. CASE RevokeBegin
    BY <1>1, <1>3 DEF RevokeBegin
<1>4. ASSUME NEW b \in Adders, RevokeRecord(b) PROVE good'[vault'[a].grant] = 0
  <2>1. revoke # NoRevoke /\ revoke.outcome # "none"
    BY <1>4 DEF RevokeRecord, NoRevoke, Cleared
  <2>2. /\ revoke.outcome = "succeeded"
        /\ good' = [good EXCEPT ![vault[b].grant] = 0]
        /\ revoke'.left = revoke.left \ {b}
    BY <1>4, <2>1 DEF RevokeRecord, StickyOutcome, Types, RestTypes
  <2>3. CASE a = b
    BY <1>1, <2>2, <2>3 DEF Types, GoodType, RecordTypes
  <2>4. CASE a # b
    BY <1>1, <2>1, <2>2, <2>4, RevokedStays DEF Cleared, RevocationHonest
  <2> QED
    BY <2>3, <2>4
<1> QED
    BY <1>1, <1>2, <1>3, <1>4

(* What is left over, and the revocation under way. *)
LEMMA ClearedStep ==
    ASSUME Types, Types', OnePlace, Owned, Cleared, [Next]_vars
    PROVE  Cleared'
<1>1. Revocation /\ Members /\ Records
    BY RevocationMoves, MembersMove, RecordsMove DEF Types
<1>2. revoke'.outcome = "none" => revoke' = NoRevoke
  <2>1. CASE revoke' = revoke
    BY <2>1 DEF Cleared
  <2>2. CASE RevokeBegin
    BY <2>2 DEF RevokeBegin
  <2>3. ASSUME NEW a \in Adders, RevokeRecord(a) PROVE revoke'.outcome # "none"
    BY <2>3 DEF RevokeRecord, StickyOutcome, Cleared, NoRevoke, Types, RestTypes
  <2> QED
    BY <1>1, <2>1, <2>2, <2>3 DEF Revocation
<1>3. revoke'.left \subseteq DOMAIN vault'
  <2>1. CASE revoke' = NoRevoke
    BY <2>1 DEF NoRevoke
  <2>2. CASE revoke' # NoRevoke
    BY <1>1, <2>2 DEF Revocation, Cleared, RevokeBegin, RevokeRecord
  <2> QED
    BY <2>1, <2>2
<1>4. revoke' # NoRevoke => DOMAIN vault' \subseteq excused'
  <2> SUFFICES ASSUME revoke' # NoRevoke PROVE DOMAIN vault' \subseteq excused'
    OBVIOUS
  <2>1. CASE revoke' = revoke
    BY <1>1, <2>1 DEF Revocation, Cleared
  <2>2. CASE RevokeBegin
    BY <2>2 DEF RevokeBegin
  <2>3. ASSUME NEW a \in Adders, RevokeRecord(a) PROVE DOMAIN vault' \subseteq excused'
    BY <1>1, <2>3 DEF RevokeRecord, Revocation, Cleared, NoRevoke
  <2> QED
    BY <1>1, <2>1, <2>2, <2>3 DEF Revocation
<1>5. remove' # None => remove' \in excused'
    BY <1>1 DEF Revocation, Members, Cleared, RemoveForget
<1>6. ASSUME faults' = 0, remove' # None PROVE remove' \notin DOMAIN vault'
  <2>1. faults = 0 /\ ~Fault
    BY <1>6, NoFailure DEF Types
  <2>2. CASE remove' = remove
    <3>1. remove \notin DOMAIN vault /\ add[remove].pc = "dead"
      BY <1>6, <2>1, <2>2 DEF Cleared, Owned
    <3> QED
      BY <1>1, <2>2, <3>1 DEF Records
  <2>3. CASE RemoveForget(remove')
    BY <2>1, <2>3 DEF RemoveForget, Forgotten, Drop
  <2> QED
    BY <1>1, <1>6, <2>2, <2>3 DEF Members
<1> QED
    BY <1>2, <1>3, <1>4, <1>5, <1>6, OrphansStep, HonestStep DEF Cleared

(* The process dies: the flow starts over, and no grant is lost sight of. *)
LEMMA DieKeepsFlow ==
    ASSUME FlowInv, Die PROVE FlowInv'
<1> USE FlowConstants
<1>1. /\ phase' = "idle" /\ active' = 0 /\ opening' = {} /\ timers' = {} /\ invalid' = 0
      /\ wiped' = wiped \cup {s \in Sessions : s <= started}
      /\ UNCHANGED <<started, grants, refused>>
    BY DEF Die
<1>2. FlowTypes'
  <2>1. wiped' \subseteq 1..started
    <3>1. wiped \subseteq 1..started /\ started \in Nat
      BY DEF FlowInv, Control, FlowTypes
    <3>2. \A s \in Sessions : s <= started => s \in 1..started
      BY <3>1 DEF Sessions
    <3> QED
      BY <1>1, <3>1, <3>2
  <2>2. phase' \in Phases \ {"preparing"}
    BY <1>1 DEF Phases
  <2> QED
    BY <1>1, <2>1, <2>2 DEF FlowInv, Control, FlowTypes
<1>3. Live'
    BY <1>1 DEF FlowInv, Control, Live, LateBrowserHarmless
<1>4. Grants'
    BY <1>1, GrantsStay DEF FlowInv
<1> QED
    BY <1>2, <1>3, <1>4 DEF FlowInv, Control

(* Every step keeps the flow's invariant. *)
LEMMA FlowInvStep ==
    ASSUME FlowInv, [Next]_vars PROVE FlowInv'
<1>1. CASE UNCHANGED flowVars
    BY <1>1 DEF FlowInv, Control, FlowTypes, Live, LateBrowserHarmless, Grants, OneLiveGrant,
       flowVars
<1>2. CASE FlowStep
    BY <1>2, FlowNextInv DEF FlowStep
<1>3. CASE Die
    BY <1>3, DieKeepsFlow
<1> QED
    BY <1>1, <1>2, <1>3
       DEF Next, vars, SignInExpires, RemoveStored, Clear, RevokeBegin, RevokeClear,
           ExchangeDone, ExchangeFailed, AddBegin, AddRejected, AddTested, AddSaved,
           AddUnsaved, AddStored, RemoveForget, RevokeRecord, UseExpiring, UseRefreshed,
           UseAnswerLost, UseRotated

(* The invariant is inductive. *)
LEMMA NextInv == IInv /\ [Next]_vars => IInv'
<1> SUFFICES ASSUME IInv, [Next]_vars PROVE IInv'
    OBVIOUS
<1>1. FlowInv' /\ Types'
    BY FlowInvStep, TypesStep DEF IInv
<1>2. OnePlace' /\ Owned' /\ TokenInv' /\ Cleared'
    BY <1>1, OnePlaceStep, OwnedStep, TokenInvStep, ClearedStep DEF IInv
<1> QED
    BY <1>1, <1>2 DEF IInv

(* Every reachable state satisfies the invariant. *)
LEMMA Invariance == Spec => []IInv
BY InitInv, NextInv, PTL DEF Spec

-----------------------------------------------------------------------------
(* A sign-in serves one account and one provider session, for any number   *)
(* of accounts, sign-ins, operations and failures: no transition of the    *)
(* flow is refused, a code is handed over once, by the session it belongs  *)
(* to, and no token is attached to two accounts.                           *)
THEOREM OneAccountPerSignIn == Spec => []SignInOnce
<1>1. IInv => SignInOnce
  <2> SUFFICES ASSUME IInv PROVE SignInOnce
    OBVIOUS
  <2>1. NeverRefused /\ OneLiveGrant /\ LateBrowserHarmless
    BY DEF IInv, FlowInv, Control, Live, Grants, NeverRefused
  <2>2. TypeOK
    BY DEF IInv, Types, AddTypes, RecordTypes, HeldTypes, Cleared, TypeOK
  <2>3. \A a \in DOMAIN vault : a \in Adders /\ Took(a) /\ vault[a].grant = add[a].grant
    BY DEF IInv, Types, RecordTypes, Owned, Saved, Took
  <2>4. TokenOnce
    BY <2>3 DEF IInv, OnePlace, TokenOnce
  <2> QED
    BY <2>1, <2>2, <2>4 DEF SignInOnce
<1> QED
    BY <1>1, Invariance, PTL

(* An account keeps the refresh token its provider accepts, or has one     *)
(* operation that is about to store it, whatever runs at the same time, as *)
(* long as neither the user nor a fault took the tokens away.              *)
THEOREM AccountsKeepTheirToken == Spec => []GoodTokenKept
<1>1. IInv => GoodTokenKept
  <2> SUFFICES ASSUME IInv, NEW a \in DOMAIN accounts \ excused, add[a].grant # 0
               PROVE  /\ a \in DOMAIN vault
                      /\ \/ good[vault[a].grant] = vault[a].token
                         \/ \E u \in Users : /\ use[u].pc = "rotating" /\ use[u].id = a
                                             /\ use[u].token.token = good[vault[a].grant]
    BY DEF GoodTokenKept
  <2>1. a \in Adders /\ Due(a)
    BY DEF IInv, Types, RecordTypes, Owned, Due, Saved
  <2>2. TokenOf(a)
    BY <2>1 DEF IInv, TokenInv
  <2> QED
    BY <2>2 DEF TokenOf, Carries
<1> QED
    BY <1>1, Invariance, PTL

(* Nothing is left over of what is gone: only saving the first tokens of a *)
(* new account makes a record; without a failure every record has its      *)
(* account; a revocation that reports success was accepted for each.       *)
THEOREM NothingLeftOver == Spec => NoneLeftOver
<1>1. IInv /\ [Next]_vars => [\A a \in DOMAIN vault' \ DOMAIN vault : add[a].pc = "saving"]_vars
  <2> SUFFICES ASSUME IInv, [Next]_vars, NEW a \in DOMAIN vault' \ DOMAIN vault
               PROVE  add[a].pc = "saving"
    OBVIOUS
  <2>1. Records
    BY RecordsMove DEF IInv
  <2> QED
    BY <2>1 DEF Records
<1>2. IInv => NoOrphanTokens /\ RevocationHonest
    BY DEF IInv, Cleared
<1> QED
    BY <1>1, <1>2, Invariance, PTL DEF Spec, NoneLeftOver, ForgottenStayForgotten
=============================================================================
