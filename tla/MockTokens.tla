----------------------------- MODULE MockTokens -----------------------------
(***************************************************************************)
(* The mock token lifecycle of mock-oauth-token-lifecycle.ts: exchange,    *)
(* refresh, revoke and dispose over one storage record, each with an await *)
(* between its parts. A call that is not allowed in the present phase puts *)
(* the lifecycle into "error", from where a new exchange may begin while   *)
(* the calls before are still waiting. A token set is the number it was    *)
(* issued under, 0 is none.                                                *)
(***************************************************************************)
EXTENDS Naturals

CONSTANTS MockCalls, MaxIssued

VARIABLES lPhase,       \* #snapshot.phase
          lGeneration,  \* #snapshot.generation
          lExpired,     \* the clock has passed #snapshot.expiresAt
          lStored,      \* the storage record
          lDisposed,    \* the storage was disposed
          lCalls,       \* the awaiting calls: what each does next and holds
          lIssued,      \* token sets the endpoint has issued
          lActivated    \* the token set of the last activation

lifecycleVars == <<lPhase, lGeneration, lExpired, lStored, lDisposed, lCalls, lIssued, lActivated>>

Waiting == [kind |-> "none", step |-> "none", tokens |-> 0, failed |-> FALSE]
AtRest == \A c \in MockCalls : lCalls[c] = Waiting

allowedTransitions ==
    [idle |-> {"exchanging", "error"}, exchanging |-> {"active", "error"},
     active |-> {"refreshing", "expired", "revoking", "error"}, refreshing |-> {"active", "error"},
     expired |-> {"refreshing", "revoking", "error"}, revoking |-> {"revoked", "error"},
     revoked |-> {"exchanging", "error"}, error |-> {"exchanging", "revoking", "error"}]
CanTransition(from, to) == to \in allowedTransitions[from]

(* status() notices that the active tokens have expired. *)
Status(phase, expired) == IF phase = "active" /\ expired THEN "expired" ELSE phase

LifecycleInit ==
    /\ lPhase = "idle" /\ lGeneration = 0 /\ lExpired = FALSE
    /\ lStored = 0 /\ lDisposed = FALSE
    /\ lCalls = [c \in MockCalls |-> Waiting] /\ lIssued = 0 /\ lActivated = 0

Call(kind, step) == [Waiting EXCEPT !.kind = kind, !.step = step]
Continue(c, call) == lCalls' = [lCalls EXCEPT ![c] = call]

(* A call begins, or is refused and leaves "error" behind: a call in the
   wrong phase, or an exchange with an invalid code or verifier. *)
Begin(c, kind, during, first) ==
    /\ lCalls[c] = Waiting
    /\ LET phase == IF kind = "exchange" THEN lPhase ELSE Status(lPhase, lExpired)
       IN \/ /\ CanTransition(phase, during)
             /\ lPhase' = during /\ Continue(c, Call(kind, first))
          \/ /\ ~CanTransition(phase, during) \/ kind = "exchange"
             /\ lPhase' = "error" /\ UNCHANGED lCalls
    /\ UNCHANGED <<lGeneration, lExpired, lStored, lDisposed, lIssued, lActivated>>

Exchange(c) ==
    /\ lIssued < MaxIssued
    /\ Begin(c, "exchange", "exchanging", IF lGeneration > 0 THEN "clear" ELSE "request")
Refresh(c) == lIssued < MaxIssued /\ Begin(c, "refresh", "refreshing", "load")
Revoke(c) == Begin(c, "revoke", "revoking", "load")

(* The catch block of exchange and refresh; revoke only notes the failure
   and goes on to remove the record. *)
Thrown(c) ==
    IF lCalls[c].kind = "revoke"
    THEN Continue(c, [lCalls[c] EXCEPT !.step = "remove", !.failed = TRUE]) /\ UNCHANGED lPhase
    ELSE Continue(c, Waiting) /\ lPhase' = "error"

(* exchange first removes the record of an earlier generation. *)
Clear(c) ==
    /\ lCalls[c].step = "clear"
    /\ \/ Thrown(c) /\ UNCHANGED lStored
       \/ /\ ~lDisposed /\ lStored' = 0
          /\ Continue(c, [lCalls[c] EXCEPT !.step = "request"]) /\ UNCHANGED lPhase
    /\ UNCHANGED <<lGeneration, lExpired, lDisposed, lIssued, lActivated>>

Load(c) ==
    /\ lCalls[c].step = "load"
    /\ \/ Thrown(c)
       \/ /\ ~lDisposed /\ lStored # 0
          /\ Continue(c, [lCalls[c] EXCEPT !.step = "request"]) /\ UNCHANGED lPhase
    /\ UNCHANGED <<lGeneration, lExpired, lStored, lDisposed, lIssued, lActivated>>

(* The endpoint answers, or fails, or answers with an invalid set. *)
Request(c) ==
    /\ lCalls[c].step = "request"
    /\ \/ Thrown(c) /\ UNCHANGED lIssued
       \/ /\ lCalls[c].kind = "revoke"
          /\ Continue(c, [lCalls[c] EXCEPT !.step = "remove"]) /\ UNCHANGED <<lPhase, lIssued>>
       \/ /\ lCalls[c].kind # "revoke" /\ lIssued < MaxIssued
          /\ lIssued' = lIssued + 1
          /\ Continue(c, [lCalls[c] EXCEPT !.step = "save", !.tokens = lIssued + 1])
          /\ UNCHANGED lPhase
    /\ UNCHANGED <<lGeneration, lExpired, lStored, lDisposed, lActivated>>

Save(c) ==
    /\ lCalls[c].step = "save"
    /\ \/ Thrown(c) /\ UNCHANGED lStored
       \/ /\ ~lDisposed
          /\ lStored' = lCalls[c].tokens
          /\ Continue(c, [lCalls[c] EXCEPT !.step = "activate"]) /\ UNCHANGED lPhase
    /\ UNCHANGED <<lGeneration, lExpired, lDisposed, lIssued, lActivated>>

(* An answer that was overtaken finds its transition refused: the catch
   block turns the refusal into "error". *)
ActivatesAnyway(c) ==
    /\ lPhase' = "active" /\ lGeneration' = lGeneration + 1
    /\ lExpired' = FALSE /\ lActivated' = lCalls[c].tokens
    /\ Continue(c, Waiting)
LeavesPhase(c) ==
    IF CanTransition(lPhase, "active") THEN ActivatesAnyway(c)
    ELSE Continue(c, Waiting) /\ UNCHANGED <<lPhase, lGeneration, lExpired, lActivated>>
Activated(c) ==
    IF CanTransition(lPhase, "active") THEN ActivatesAnyway(c)
    ELSE Thrown(c) /\ UNCHANGED <<lGeneration, lExpired, lActivated>>

Activate(c) ==
    /\ lCalls[c].step = "activate"
    /\ Activated(c)
    /\ UNCHANGED <<lStored, lDisposed, lIssued>>

(* revoke removes the record whatever the endpoint said. *)
Remove(c) ==
    /\ lCalls[c].step = "remove"
    /\ \/ /\ ~lDisposed /\ lStored' = 0
          /\ Continue(c, [lCalls[c] EXCEPT !.step = "settle"])
       \/ /\ Continue(c, [lCalls[c] EXCEPT !.step = "settle", !.failed = TRUE]) /\ UNCHANGED lStored
    /\ UNCHANGED <<lPhase, lGeneration, lExpired, lDisposed, lIssued, lActivated>>

(* Outside any try: a refused transition rejects the call and changes
   nothing. *)
Settle(c) ==
    /\ lCalls[c].step = "settle"
    /\ LET next == IF lCalls[c].failed THEN "error" ELSE "revoked"
       IN lPhase' = IF CanTransition(lPhase, next) THEN next ELSE lPhase
    /\ Continue(c, Waiting)
    /\ UNCHANGED <<lGeneration, lExpired, lStored, lDisposed, lIssued, lActivated>>

(* dispose removes the record and then, though that may fail, ends the
   storage and with it whatever was saved in between. *)
Dispose(c) ==
    /\ lCalls[c] = Waiting /\ ~lDisposed
    /\ Continue(c, Call("dispose", "dispose"))
    /\ lStored' \in {0, lStored}
    /\ UNCHANGED <<lPhase, lGeneration, lExpired, lDisposed, lIssued, lActivated>>
Disposed(c) ==
    /\ lCalls[c].step = "dispose"
    /\ lStored' = 0 /\ lDisposed' = TRUE /\ Continue(c, Waiting)
    /\ UNCHANGED <<lPhase, lGeneration, lExpired, lIssued, lActivated>>

ReadStatus ==
    /\ lPhase' = Status(lPhase, lExpired)
    /\ UNCHANGED <<lGeneration, lExpired, lStored, lDisposed, lCalls, lIssued, lActivated>>
TokensExpire ==
    /\ lPhase = "active" /\ ~lExpired
    /\ lExpired' = TRUE
    /\ UNCHANGED <<lPhase, lGeneration, lStored, lDisposed, lCalls, lIssued, lActivated>>

LifecycleNext ==
    \/ \E c \in MockCalls :
          \/ Exchange(c) \/ Refresh(c) \/ Revoke(c) \/ Clear(c) \/ Load(c) \/ Request(c)
          \/ Save(c) \/ Activate(c) \/ Remove(c) \/ Settle(c) \/ Dispose(c) \/ Disposed(c)
    \/ ReadStatus \/ TokensExpire

-----------------------------------------------------------------------------
(* A lifecycle at rest in "revoked" stores no tokens, also when the answer   *)
(* of an overtaken exchange or refresh was saved after the removal (revoke   *)
(* and the catch blocks of exchange and refresh).                            *)
RevokedForgotten == AtRest /\ lPhase = "revoked" => lStored = 0

(* A lifecycle at rest in "active" stores no other tokens than those it      *)
(* became active with: never those of a call that was overtaken (the         *)
(* #transition behind every save).                                           *)
ActiveOwn == AtRest /\ lPhase = "active" => lStored \in {0, lActivated}
=============================================================================
