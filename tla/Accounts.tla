------------------------------ MODULE Accounts ------------------------------
(***************************************************************************)
(* The accounts of app-service.ts and what hangs on them: a sign-in that   *)
(* the authorization flow granted is exchanged for tokens and held until   *)
(* an account is added with it; an account's tokens live in the token      *)
(* vault, are refreshed when an operation needs them, and go with the      *)
(* account or when the user clears or revokes a provider.                  *)
(*                                                                         *)
(* Every await is a point where other calls run.  A vault call is one step *)
(* (its own queue serializes it), a state update is one step except that   *)
(* of removeAccount, which calls the vault while it holds the update       *)
(* queue.  The grant of session s is known by its number; the provider     *)
(* numbers the refresh tokens of a grant, and only the last one is good.   *)
(* The process may die; what survives is the vault and the accounts.       *)
(***************************************************************************)
EXTENDS OAuthFlow, FiniteSets

CONSTANTS
    Adders,     \* calls of addAccount; an adder is also the id of its account
    Emails,     \* addresses the user types
    Users,      \* operations that ask for an account's access token
    MaxTokens,  \* bound on the refresh tokens of one grant
    MaxFaults   \* bound on failing writes, lost answers and deaths

ASSUME AccountConstants == MaxTokens \in Nat \ {0} /\ MaxFaults \in Nat

VARIABLES
    exchanging, \* granted sign-ins whose code exchange is under way
    pending,    \* #pendingOAuthSignIn: the sign-in held for an account, or 0
    accounts,   \* state.accounts: id -> address
    vault,      \* the vault's records: id -> [grant, token]
    add,        \* addAccount calls: [pc, email, grant, tested]
    use,        \* #runtimeOAuthAccount calls: [pc, id, token]
    remove,     \* removeAccount's update: the account, or None
    revoke,     \* revokeAndClear: records still to revoke, and the outcome
    good,       \* at the provider: per grant, its good refresh token, or 0
    excused,    \* accounts whose tokens the user or a fault took away
    faults      \* failing writes, lost answers and deaths so far

memVars == <<exchanging, pending, add, use, remove, revoke>>
acctVars == <<memVars, accounts, vault, good, excused, faults>>
vars == <<flowVars, acctVars>>

None == 0
ASSUME NamesAssumption == None \notin Adders

Idle == [pc |-> "idle", email |-> None, grant |-> 0, tested |-> 0]
Free == [pc |-> "idle", id |-> None, token |-> 0]
NoRevoke == [left |-> {}, outcome |-> "none"]

Put(f, k, v) == [x \in DOMAIN f \cup {k} |-> IF x = k THEN v ELSE f[x]]
Drop(f, K) == [x \in DOMAIN f \ K |-> f[x]]

Fault == faults < MaxFaults /\ faults' = faults + 1

Init ==
    /\ FlowInit
    /\ exchanging = {} /\ pending = 0 /\ remove = None /\ revoke = NoRevoke
    /\ accounts = <<>> /\ vault = <<>> /\ excused = {} /\ faults = 0
    /\ add = [a \in Adders |-> Idle]
    /\ use = [u \in Users |-> Free]
    /\ good = [s \in Sessions |-> 0]

-----------------------------------------------------------------------------
(* Signing in                                                              *)

\* A step of the authorization flow; a grant runs completeOAuthSignIn up to
\* its exchange.
FlowStep ==
    /\ FlowNext
    /\ LET given == {s \in Sessions : grants'[s] # grants[s]} IN
         /\ exchanging' = exchanging \cup given
         /\ pending' = IF given = {} THEN pending ELSE 0
    /\ UNCHANGED <<add, use, remove, revoke, accounts, vault, good, excused, faults>>

\* completeOAuthSignIn after a successful exchange: the provider's first
\* refresh token; a response without one is refused by the exchange.
ExchangeDone(s) ==
    /\ s \in exchanging
    /\ exchanging' = exchanging \ {s}
    /\ good' = [good EXCEPT ![s] = 1]
    /\ pending' = s
    /\ UNCHANGED <<flowVars, add, use, remove, revoke, accounts, vault, excused, faults>>

\* The exchange failed: timeout, an error status, an unusable response.
ExchangeFailed(s) ==
    /\ s \in exchanging
    /\ exchanging' = exchanging \ {s}
    /\ UNCHANGED <<flowVars, pending, add, use, remove, revoke, accounts, vault,
                   good, excused, faults>>

-----------------------------------------------------------------------------
(* Adding an account                                                       *)

Taken(e) == \E a \in DOMAIN accounts : accounts[a] = e

Keep(held) == held

Consume(held) == 0

\* addAccount: duplicate check and, for OAuth, the sign-in to test with; a
\* password account carries no grant.
AddBegin(a, e) ==
    /\ add[a].pc = "idle" /\ ~Taken(e)
    /\ \E g \in {0} \cup ({pending} \ {0}) :
         add' = [add EXCEPT ![a] = [pc |-> "testing", email |-> e, grant |-> g, tested |-> g]]
    /\ UNCHANGED <<flowVars, exchanging, pending, use, remove, revoke, accounts,
                   vault, good, excused, faults>>

\* The connection test failed, or the held sign-in went away meanwhile; the
\* call rejects and the held sign-in stays.
AddRejected(a) ==
    /\ add[a].pc = "testing"
    /\ add' = [add EXCEPT ![a] = Idle]
    /\ UNCHANGED <<flowVars, exchanging, pending, use, remove, revoke, accounts,
                   vault, good, excused, faults>>

\* #peekPendingOAuthSignIn finds the held sign-in older than its lifetime.
SignInExpires ==
    /\ pending # 0 /\ \E a \in Adders : add[a].pc = "testing" /\ add[a].grant # 0
    /\ pending' = 0
    /\ UNCHANGED <<flowVars, exchanging, add, use, remove, revoke, accounts, vault,
                   good, excused, faults>>

\* The test passed.  The sign-in taken is the one held now, which need not
\* be the one tested.
AddTested(a) ==
    /\ add[a].pc = "testing"
    /\ \/ /\ add[a].grant = 0
          /\ add' = [add EXCEPT ![a].pc = "storing"]
          /\ UNCHANGED pending
       \/ /\ add[a].grant # 0 /\ pending # 0
          /\ add' = [add EXCEPT ![a].pc = "saving", ![a].grant = pending]
          /\ pending' = Consume(pending)
    /\ UNCHANGED <<flowVars, exchanging, use, remove, revoke, accounts, vault, good,
                   excused, faults>>

VaultFree == revoke = NoRevoke

\* vault.saveInitial
AddSaved(a) ==
    /\ add[a].pc = "saving" /\ VaultFree
    /\ vault' = Put(vault, a, [grant |-> add[a].grant, token |-> 1])
    /\ add' = [add EXCEPT ![a].pc = "storing"]
    /\ UNCHANGED <<flowVars, exchanging, pending, use, remove, revoke, accounts,
                   good, excused, faults>>

\* saveInitial rejects: material the vault refuses, a full vault or a
\* failing write, which may have replaced the file before it failed.
AddUnsaved(a) ==
    /\ add[a].pc = "saving" /\ VaultFree /\ Fault
    /\ vault' \in {vault, Put(vault, a, [grant |-> add[a].grant, token |-> 1])}
    /\ add' = [add EXCEPT ![a].pc = "dead"]
    /\ UNCHANGED <<flowVars, exchanging, pending, use, remove, revoke, accounts,
                   good, excused>>

\* The state update that adds the account and seeds its identity
AddStored(a) ==
    /\ add[a].pc = "storing" /\ remove = None
    /\ \/ accounts' = Put(accounts, a, add[a].email) /\ UNCHANGED faults
       \/ Fault /\ UNCHANGED accounts
    /\ add' = [add EXCEPT ![a].pc = "dead"]
    /\ UNCHANGED <<flowVars, exchanging, pending, use, remove, revoke, vault, good,
                   excused>>

-----------------------------------------------------------------------------
(* Removing an account, clearing and revoking a provider                   *)

Kept(a) == vault

Forgotten(a) == Drop(vault, {a})

\* removeAccount: forgetAccount inside the update; its failure is ignored.
RemoveForget(a) ==
    /\ a \in DOMAIN accounts /\ remove = None /\ VaultFree
    /\ remove' = a /\ excused' = excused \cup {a}
    /\ \/ vault' = Forgotten(a) /\ UNCHANGED faults
       \/ Fault /\ UNCHANGED vault
    /\ UNCHANGED <<flowVars, exchanging, pending, add, use, revoke, accounts, good>>

RemoveStored ==
    /\ remove # None
    /\ \/ accounts' = Drop(accounts, {remove}) /\ UNCHANGED faults
       \/ Fault /\ UNCHANGED accounts
    /\ remove' = None
    /\ UNCHANGED <<flowVars, exchanging, pending, add, use, revoke, vault, good, excused>>

\* clear
Clear ==
    /\ VaultFree /\ DOMAIN vault # {}
    /\ vault' = <<>>
    /\ excused' = excused \cup DOMAIN vault
    /\ UNCHANGED <<flowVars, exchanging, pending, add, use, remove, revoke, accounts,
                   good, faults>>

\* revokeAndClear, one network call per record inside the vault's queue
RevokeBegin ==
    /\ VaultFree /\ DOMAIN vault # {}
    /\ revoke' = [left |-> DOMAIN vault, outcome |-> "succeeded"]
    /\ excused' = excused \cup DOMAIN vault
    /\ UNCHANGED <<flowVars, exchanging, pending, add, use, remove, accounts, vault,
                   good, faults>>

LatestOutcome(old, new) == new

\* A failure stays, and a provider without revocation does not hide it.
StickyOutcome(old, new) == IF new = "succeeded" \/ old = "failed" THEN old ELSE new

RevokeRecord(a) ==
    /\ a \in revoke.left
    /\ \E result \in {"succeeded", "not-supported", "failed"} :
         /\ revoke' = [left |-> revoke.left \ {a},
                       outcome |-> StickyOutcome(revoke.outcome, result)]
         /\ good' = IF result = "succeeded" THEN [good EXCEPT ![vault[a].grant] = 0] ELSE good
    /\ UNCHANGED <<flowVars, exchanging, pending, add, use, remove, accounts, vault,
                   excused, faults>>

RevokeClearEarly ==
    /\ revoke # NoRevoke
    /\ vault' = <<>>
    /\ UNCHANGED <<flowVars, memVars, accounts, good, excused, faults>>

RevokeClear ==
    /\ revoke # NoRevoke /\ revoke.left = {}
    /\ revoke' = NoRevoke
    /\ \/ vault' = <<>> /\ UNCHANGED faults
       \/ Fault /\ UNCHANGED vault
    /\ UNCHANGED <<flowVars, exchanging, pending, add, use, remove, accounts, good, excused>>

-----------------------------------------------------------------------------
(* Using an account                                                        *)

\* #runtimeOAuthAccount finds the stored token near its expiry; no record is
\* an error that asks the user to sign in again, a fresh token needs no step.
UseExpiring(u, a) ==
    /\ use[u].pc = "idle" /\ VaultFree
    /\ a \in DOMAIN accounts /\ a \in DOMAIN vault
    /\ use' = [use EXCEPT ![u] = [pc |-> "refreshing", id |-> a, token |-> vault[a]]]
    /\ UNCHANGED <<flowVars, exchanging, pending, add, remove, revoke, accounts, vault,
                   good, excused, faults>>

\* The provider answers a refresh with the good token: with the next one, or
\* with none when it does not rotate them (token 0).  Any other is refused.
UseRefreshed(u) ==
    /\ use[u].pc = "refreshing"
    /\ LET r == use[u].token IN
         IF good[r.grant] = r.token
         THEN \/ /\ r.token < MaxTokens
                 /\ good' = [good EXCEPT ![r.grant] = @ + 1]
                 /\ use' = [use EXCEPT ![u].pc = "rotating", ![u].token.token = @ + 1]
              \/ /\ use' = [use EXCEPT ![u].pc = "rotating", ![u].token.token = 0]
                 /\ UNCHANGED good
         ELSE use' = [use EXCEPT ![u] = Free] /\ UNCHANGED good
    /\ UNCHANGED <<flowVars, exchanging, pending, add, remove, revoke, accounts, vault,
                   excused, faults>>

\* The answer is lost after the provider moved on.
UseAnswerLost(u) ==
    /\ use[u].pc = "refreshing" /\ Fault
    /\ good[use[u].token.grant] = use[u].token.token
    /\ good' = [good EXCEPT ![use[u].token.grant] = @ + 1]
    /\ excused' = excused \cup {use[u].id}
    /\ use' = [use EXCEPT ![u] = Free]
    /\ UNCHANGED <<flowVars, exchanging, pending, add, remove, revoke, accounts, vault>>

RotatedAlways(id, t) == IF t.token = 0 THEN vault ELSE Put(vault, id, t)

RotatedStale(id, t) ==
    IF id \notin DOMAIN vault \/ t.token # 0 THEN vault ELSE Put(vault, id, [t EXCEPT !.token = 1])

\* vault.rotate keeps the stored refresh token when the provider sent none,
\* and refuses an account without a record.
Rotated(id, t) ==
    IF id \notin DOMAIN vault THEN vault
    ELSE IF t.token = 0 THEN vault ELSE Put(vault, id, t)

UseRotated(u) ==
    /\ use[u].pc = "rotating" /\ VaultFree
    /\ \/ vault' = Rotated(use[u].id, use[u].token) /\ UNCHANGED <<faults, excused>>
       \/ Fault /\ excused' = excused \cup {use[u].id} /\ UNCHANGED vault
    /\ use' = [use EXCEPT ![u] = Free]
    /\ UNCHANGED <<flowVars, exchanging, pending, add, remove, revoke, accounts, good>>

\* The process dies: everything in memory goes, an addAccount call with it.
Die ==
    /\ Fault
    /\ exchanging' = {} /\ pending' = 0 /\ remove' = None /\ revoke' = NoRevoke
    /\ add' = [a \in Adders |-> [add[a] EXCEPT
                  !.pc = IF @ \in {"idle", "testing"} THEN "idle" ELSE "dead"]]
    /\ use' = [u \in Users |-> Free]
    /\ excused' = excused \cup {use[u].id : u \in {v \in Users : use[v].pc = "rotating"}}
    /\ phase' = "idle" /\ active' = 0 /\ opening' = {} /\ timers' = {} /\ invalid' = 0
    /\ wiped' = wiped \cup {s \in Sessions : s <= started}
    /\ UNCHANGED <<started, grants, refused, accounts, vault, good>>

Next ==
    \/ FlowStep \/ SignInExpires \/ RemoveStored \/ Clear \/ RevokeBegin \/ RevokeClear \/ Die
    \/ \E s \in Sessions : ExchangeDone(s) \/ ExchangeFailed(s)
    \/ \E a \in Adders : \/ \E e \in Emails : AddBegin(a, e)
                         \/ AddRejected(a) \/ AddTested(a) \/ AddSaved(a) \/ AddUnsaved(a)
                         \/ AddStored(a) \/ RemoveForget(a) \/ RevokeRecord(a)
    \/ \E u \in Users : \/ \E a \in Adders : UseExpiring(u, a)
                        \/ UseRefreshed(u) \/ UseAnswerLost(u) \/ UseRotated(u)

Spec == Init /\ [][Next]_vars

-----------------------------------------------------------------------------
\* Every variable of the accounts keeps its type.
TypeOK ==
    /\ exchanging \subseteq Sessions /\ pending \in 0..MaxSessions
    /\ DOMAIN accounts \subseteq Adders /\ DOMAIN vault \subseteq Adders
    /\ \A a \in DOMAIN vault : vault[a] \in [grant : Sessions, token : 1..MaxTokens]
    /\ \A a \in Adders : add[a].grant \in 0..MaxSessions
    /\ revoke.left \subseteq DOMAIN vault

\* #peekPendingOAuthSignIn consumes the sign-in "so a token cannot be
\* attached to two different accounts": concurrent addAccount calls, an
\* exchange that ends late and deaths included.
TokenOnce ==
    /\ \A a, b \in DOMAIN vault : vault[a].grant = vault[b].grant => a = b
    /\ \A a \in DOMAIN vault : vault[a].grant # pending
    /\ \A a, b \in Adders :
         add[a].pc = "saving" /\ add[b].pc = "saving" /\ add[a].grant = add[b].grant => a = b

\* An account keeps the refresh token the provider accepts, or an operation
\* is about to store it, whichever operations refresh at the same time and
\* wherever clear, remove and revoke fall, as long as neither the user nor a
\* fault took the tokens away.
GoodTokenKept ==
    \A a \in DOMAIN accounts \ excused :
        add[a].grant # 0 =>
            /\ a \in DOMAIN vault
            /\ \/ good[vault[a].grant] = vault[a].token
               \/ \E u \in Users : /\ use[u].pc = "rotating" /\ use[u].id = a
                                   /\ use[u].token.token = good[vault[a].grant]

\* Without a failure the vault holds no tokens of an account that is not
\* there: none removed, none never added.
NoOrphanTokens ==
    faults = 0 => \A a \in DOMAIN vault : a \in DOMAIN accounts \/ add[a].pc = "storing"

\* Tokens that were forgotten, cleared or revoked never come back: only
\* saving a new account's first tokens creates a record, not the late end
\* of a refresh that began before.
ForgottenStayForgotten ==
    [][\A a \in DOMAIN vault' \ DOMAIN vault : add[a].pc = "saving"]_vars

\* revokeAndClear reports success only when the provider accepted the
\* revocation of every record it clears.
RevocationHonest ==
    revoke # NoRevoke /\ revoke.outcome = "succeeded" =>
        \A a \in DOMAIN vault \ revoke.left : good[vault[a].grant] = 0

\* A sign-in serves one account and one provider session: the state machine
\* refuses no legal transition, at most one session is live and receives its
\* own redirect, a browser call that returns late changes nothing, and no
\* token is attached to two accounts (oauth-authorization.ts, addAccount in
\* app-service.ts).
SignInOnce == TypeOK /\ NeverRefused /\ OneLiveGrant /\ LateBrowserHarmless /\ TokenOnce

\* Without a failure the vault holds only tokens of accounts that are there,
\* what was forgotten never comes back with the late end of a refresh, and a
\* revocation that reports success was accepted for every record
\* (removeAccount, oauth-token-vault.ts).
NoneLeftOver == ForgottenStayForgotten /\ []NoOrphanTokens /\ []RevocationHonest

\* docs/mail/accounts-and-connectivity.md: "Adding an account tests both
\* incoming IMAP and outgoing SMTP connectivity before storing it" - the
\* sign-in stored with an account is the one it was tested with.
SavedWasTested == \A a \in DOMAIN accounts : add[a].grant = add[a].tested
=============================================================================
