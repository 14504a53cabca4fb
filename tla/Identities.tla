----------------------------- MODULE Identities -----------------------------
(***************************************************************************)
(* Identities and signatures: identities.ts and identity-store.ts, which   *)
(* keep one default identity for each account, and the composer of the     *)
(* renderer, which puts the signature of the chosen identity into a body   *)
(* that also holds the user's text and somebody else's message.  A body is *)
(* a sequence of paragraphs; a signature block is one of them.             *)
(***************************************************************************)
EXTENDS Naturals, Sequences, SequencesExt, FiniteSets, FiniteSetsExt

CONSTANTS IdAccounts,    \* accounts
          Signatures,    \* signature texts
          MaxIdentities, \* identities ever made
          MaxBody        \* paragraphs of a body

VARIABLES iAccounts,  \* the accounts there are
          iList,      \* state.identities by id, which are numbered as they are made
          iNext,      \* the next id
          iCompose,   \* the message being written, in the composer or stored as a draft
          iKept       \* history: the paragraphs of the composer that are not its own signature

identityVars == <<iAccounts, iList, iNext, iCompose, iKept>>

Unsigned == ""
NoQuote == ""
Nobody == 0
Ids == 1..MaxIdentities
Placements == {"below-body", "below-quote"}

Closed == [at |-> "nowhere", account |-> CHOOSE a \in IdAccounts : TRUE, identity |-> Nobody,
           body |-> <<>>, quoteMarker |-> NoQuote, appliedSignature |-> Unsigned]

IdentityInit ==
    /\ iAccounts = {} /\ iList = <<>> /\ iNext = 1
    /\ iCompose = Closed /\ iKept = <<>>

-----------------------------------------------------------------------------
(* The list: a function from the ids that exist to their identities. *)
OfAccount(list, a) == {i \in DOMAIN list : list[i].account = a}

(* sortIdentities: the default first, then by ordinal. *)
Before(list, i, j) ==
    \/ list[i].isDefault /\ ~list[j].isDefault
    \/ list[i].isDefault = list[j].isDefault /\ list[i].ordinal < list[j].ordinal
First(list, ids) == CHOOSE i \in ids : \A j \in ids \ {i} : Before(list, i, j)

(* defaultIdentityFor *)
DefaultFor(list, a) == IF OfAccount(list, a) = {} THEN Nobody ELSE First(list, OfAccount(list, a))

(* resolveIdentity *)
Resolve(list, a, i) == IF i \in OfAccount(list, a) THEN i ELSE DefaultFor(list, a)

(* identityForReply: the identity the message was sent to, To before Cc. *)
ForReply(list, a, to, cc) ==
    LET addressed == IF OfAccount(list, a) \cap to # {} THEN to ELSE cc
    IN IF OfAccount(list, a) \cap addressed # {}
       THEN First(list, OfAccount(list, a) \cap addressed) ELSE DefaultFor(list, a)

Put(list, i, identity) == [j \in DOMAIN list \cup {i} |-> IF j = i THEN identity ELSE list[j]]
WithDefault(list, i) == [list EXCEPT ![i].isDefault = TRUE]

(* buildIdentity: a new identity, or an existing one edited. *)
Build(list, i, a, wanted, signature, placement) ==
    LET siblings == OfAccount(list, a)
        identity == [account |-> a, signature |-> signature, placement |-> placement,
                     isDefault |-> wanted \/ siblings = {},
                     ordinal |-> IF i \in DOMAIN list THEN list[i].ordinal
                                 ELSE IF siblings = {} THEN 0
                                 ELSE Max({list[j].ordinal : j \in siblings}) + 1]
        demoted == [j \in DOMAIN list |->
                      IF identity.isDefault /\ list[j].account = a
                      THEN [list[j] EXCEPT !.isDefault = FALSE] ELSE list[j]]
        next == Put(demoted, i, identity)
    IN IF \E j \in OfAccount(next, a) : next[j].isDefault THEN next
       ELSE WithDefault(next, First(next, OfAccount(next, a)))

Without(list, i) == [j \in DOMAIN list \ {i} |-> list[j]]

(* A default that leaves hands the role on. *)
RemoveFrom(list, i) ==
    LET rest == Without(list, i)
        siblings == OfAccount(rest, list[i].account)
    IN IF list[i].isDefault /\ siblings # {} THEN WithDefault(rest, First(rest, siblings)) ELSE rest

(* seedAccountIdentity *)
Seeded(list, i, a) == IF OfAccount(list, a) # {} THEN list ELSE Build(list, i, a, TRUE, Unsigned, "below-body")

-----------------------------------------------------------------------------
(* Bodies. *)
LastOf(body, p) == Max({i \in DOMAIN body : body[i] = p})
FirstOf(body, p) == Min({i \in DOMAIN body : body[i] = p})

CutsToEnd(body, previous) ==
    IF previous = Unsigned \/ previous \notin Range(body) THEN body
    ELSE SubSeq(body, 1, LastOf(body, previous) - 1)

(* stripSignature: the last block that reads like the one applied. *)
Strip(body, previous) ==
    IF previous = Unsigned \/ previous \notin Range(body) THEN body
    ELSE RemoveAt(body, LastOf(body, previous))

(* quoteIndexIn, applySignature: a body with the block in front of the quote,
   or at the end. *)
ApplySignature(body, identity, quoteMarker, previous) ==
    LET stripped == Strip(body, previous)
    IN CASE identity.signature = Unsigned -> stripped
         [] identity.signature # Unsigned /\ (identity.placement = "below-quote"
                                              \/ quoteMarker \notin Range(stripped)) ->
                Append(stripped, identity.signature)
         [] OTHER -> InsertAt(stripped, FirstOf(stripped, quoteMarker), identity.signature)

Signature(list, i) == IF i = Nobody THEN Unsigned ELSE list[i].signature

(* recoverSignaturePlacement: the one signature of the account that is in the
   body once; none when one of them is there twice. *)
Occurrences(body, p) == Cardinality({i \in DOMAIN body : body[i] = p})
Recovered(list, a, body) ==
    LET own == {list[i].signature : i \in OfAccount(list, a)} \ {Unsigned}
        found == {s \in own : s \in Range(body)}
    IN IF found = {} \/ \E s \in found : Occurrences(body, s) > 1 THEN {Unsigned} ELSE found

(* What follows it is taken for the quote. *)
Following(body, s) ==
    IF s = Unsigned \/ LastOf(body, s) = Len(body) THEN NoQuote ELSE body[LastOf(body, s) + 1]

-----------------------------------------------------------------------------
(* Every identity call is one update of the state, whose list the renderer
   takes over; a composer or a draft whose identity is gone forgets it. *)
TakeOver(list) ==
    /\ iList' = list
    /\ iCompose' = IF iCompose.identity \in DOMAIN list THEN iCompose ELSE [iCompose EXCEPT !.identity = Nobody]

AddAccount(a) ==
    /\ a \notin iAccounts /\ iNext \in Ids
    /\ iAccounts' = iAccounts \cup {a} /\ iNext' = iNext + 1
    /\ TakeOver(Seeded(iList, iNext, a))
    /\ UNCHANGED iKept

(* The account's drafts and its composer go with it. *)
RemoveAccount(a) ==
    /\ a \in iAccounts /\ iAccounts' = iAccounts \ {a}
    /\ iList' = [i \in DOMAIN iList \ OfAccount(iList, a) |-> iList[i]]
    /\ iCompose' = IF iCompose.account = a THEN Closed ELSE iCompose
    /\ iKept' = IF iCompose.account = a THEN <<>> ELSE iKept
    /\ UNCHANGED iNext

CreateIdentity(a, signature, placement) ==
    /\ a \in iAccounts /\ iNext \in Ids /\ iNext' = iNext + 1
    /\ TakeOver(Build(iList, iNext, a, FALSE, signature, placement))
    /\ UNCHANGED <<iAccounts, iKept>>

EditIdentity(i, signature, placement) ==
    /\ i \in DOMAIN iList
    /\ TakeOver(Build(iList, i, iList[i].account, iList[i].isDefault, signature, placement))
    /\ UNCHANGED <<iAccounts, iNext, iKept>>

(* The last identity of an account stays. *)
DeleteIdentity(i) ==
    /\ i \in DOMAIN iList
    /\ ~(iList[i].isDefault /\ OfAccount(iList, iList[i].account) = {i})
    /\ TakeOver(RemoveFrom(iList, i))
    /\ UNCHANGED <<iAccounts, iNext, iKept>>

(* promoteIdentityToDefault *)
Promoted(list, i) ==
    [j \in DOMAIN list |-> IF list[j].account = list[i].account THEN [list[j] EXCEPT !.isDefault = (j = i)] ELSE list[j]]

SetDefaultIdentity(i) ==
    /\ i \in DOMAIN iList /\ TakeOver(Promoted(iList, i))
    /\ UNCHANGED <<iAccounts, iNext, iKept>>

(* A start on a file somebody edited: identities missing, several defaults,
   or none.  The schema keeps the first default and makes the first identity
   one where there is none, and bootstrap seeds the accounts without any; the
   edit leaves one account at most without any, which is a bound. *)
Settled(list) ==
    [i \in DOMAIN list |->
       LET earlier == {j \in OfAccount(list, list[i].account) : j < i}
           defaults == {j \in OfAccount(list, list[i].account) : list[j].isDefault}
       IN [list[i] EXCEPT !.isDefault = IF defaults = {} THEN earlier = {} ELSE i = Min(defaults)]]

Edited(kept, defaults) == [i \in kept |-> [iList[i] EXCEPT !.isDefault = i \in defaults]]
Bare(list) == {a \in iAccounts : OfAccount(list, a) = {}}
Bootstrap(edited) ==
    \/ /\ Bare(edited) = {}
       /\ iList' = Settled(edited) /\ iNext' = iNext
    \/ \E a \in iAccounts :
          /\ Bare(edited) = {a} /\ iNext \in Ids /\ iNext' = iNext + 1
          /\ iList' = Seeded(Settled(edited), iNext, a)
Restart(kept, defaults) ==
    /\ kept \subseteq DOMAIN iList /\ defaults \subseteq kept
    /\ Bootstrap(Edited(kept, defaults))
    /\ iCompose.at # "composer"
    /\ UNCHANGED <<iAccounts, iCompose, iKept>>

-----------------------------------------------------------------------------
(* beginComposer: a new message, a reply, whose quote is indented and holds no
   block, or a forward, which carries the other message as it was. *)
Begin(a, i, body, quoted) ==
    /\ iCompose.at = "nowhere"
    /\ LET signed == IF i = Nobody THEN body ELSE ApplySignature(body, iList[i], quoted, Unsigned)
       IN iCompose' = [at |-> "composer", account |-> a, identity |-> i, body |-> signed,
                       quoteMarker |-> quoted, appliedSignature |-> Signature(iList, i)]
    /\ iKept' = body
    /\ UNCHANGED <<iAccounts, iList, iNext>>

New(a) == a \in iAccounts /\ Begin(a, Resolve(iList, a, Nobody), <<>>, NoQuote)
Reply(a) ==
    /\ a \in iAccounts
    /\ \E to, cc \in SUBSET DOMAIN iList : Begin(a, ForReply(iList, a, to, cc), <<"marker", "quote">>, "marker")
Forward(a, signed) ==
    /\ a \in iAccounts
    /\ Begin(a, Resolve(iList, a, Nobody), <<"marker", "quote">> \o signed, "marker")

(* The user types above everything, or removes a paragraph of the quote. *)
Type ==
    /\ iCompose.at = "composer" /\ Len(iCompose.body) < MaxBody
    /\ iCompose' = [iCompose EXCEPT !.body = <<"typed">> \o @] /\ iKept' = <<"typed">> \o iKept
    /\ UNCHANGED <<iAccounts, iList, iNext>>
DeleteQuoted(p) ==
    /\ iCompose.at = "composer" /\ p \in Range(iCompose.body)
    /\ iCompose' = [iCompose EXCEPT !.body = Strip(@, p)] /\ iKept' = Strip(iKept, p)
    /\ UNCHANGED <<iAccounts, iList, iNext>>

(* select-compose-identity *)
SelectIdentity(i) ==
    /\ iCompose.at = "composer" /\ i \in OfAccount(iList, iCompose.account) /\ i # iCompose.identity
    /\ iCompose' = [iCompose EXCEPT !.identity = i, !.appliedSignature = Signature(iList, i),
                        !.body = ApplySignature(@, iList[i], iCompose.quoteMarker, iCompose.appliedSignature)]
    /\ Len(iCompose'.body) <= MaxBody
    /\ UNCHANGED <<iAccounts, iList, iNext, iKept>>

(* The draft is saved as it reads and the composer closed; whoever opens it
   later must guess which block is ours and where the quote begins. *)
SaveAndClose ==
    /\ iCompose.at = "composer" /\ iKept' = <<>>
    /\ iCompose' = [iCompose EXCEPT !.at = "drafts", !.quoteMarker = NoQuote, !.appliedSignature = Unsigned]
    /\ UNCHANGED <<iAccounts, iList, iNext>>

OpenDraft ==
    /\ iCompose.at = "drafts"
    /\ \E s \in Recovered(iList, iCompose.account, iCompose.body) :
          /\ iCompose' = [iCompose EXCEPT !.at = "composer", !.appliedSignature = s,
                             !.quoteMarker = Following(iCompose.body, s)]
          /\ iKept' = Strip(iCompose.body, s)
    /\ UNCHANGED <<iAccounts, iList, iNext>>

Discard ==
    /\ iCompose.at # "nowhere" /\ iCompose' = Closed /\ iKept' = <<>>
    /\ UNCHANGED <<iAccounts, iList, iNext>>

IdentityNext ==
    \/ \E a \in IdAccounts :
         \/ AddAccount(a) \/ RemoveAccount(a) \/ New(a) \/ Reply(a)
         \/ \E s \in Signatures \cup {Unsigned}, p \in Placements : CreateIdentity(a, s, p)
         \/ \E signed \in {<<>>} \cup {<<s>> : s \in Signatures} : Forward(a, signed)
    \/ \E i \in Ids :
         \/ DeleteIdentity(i) \/ SetDefaultIdentity(i) \/ SelectIdentity(i)
         \/ \E s \in Signatures \cup {Unsigned}, p \in Placements : EditIdentity(i, s, p)
    \/ \E kept, defaults \in SUBSET DOMAIN iList : Restart(kept, defaults)
    \/ \E p \in {"marker", "quote"} : DeleteQuoted(p)
    \/ Type \/ SaveAndClose \/ OpenDraft \/ Discard

-----------------------------------------------------------------------------
(* Every account has exactly one default identity, whatever was saved,
   removed, promoted or edited into the file. *)
OneDefault ==
    \A a \in iAccounts : Cardinality({i \in OfAccount(iList, a) : iList[i].isDefault}) = 1

(* Somebody else's message carries a block that reads like a signature the
   user has or had. *)
Copied == Range(iKept) \cap Signatures # {}

(* The body is what the user wrote and quoted, with at most the block of the
   identity applied last in it. *)
TextKept ==
    iCompose.at = "composer" =>
        \/ iCompose.body = iKept
        \/ \E k \in DOMAIN iCompose.body :
              iCompose.body[k] = iCompose.appliedSignature /\ RemoveAt(iCompose.body, k) = iKept

(* Switching identities back and forth, closing and reopening never loses or
   moves a paragraph and never stacks a second signature, unless the message
   forwarded holds the same block itself. *)
TextKeptButCopies == Copied \/ TextKept
=============================================================================
