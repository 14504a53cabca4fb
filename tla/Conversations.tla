---------------------------- MODULE Conversations ----------------------------
(***************************************************************************)
(* conversations.ts: groupCachedConversations puts messages that share a   *)
(* subject or a message reference into one conversation, with a union-find *)
(* forest and path compression.  A subject is its text and the number of   *)
(* reply prefixes in front of it; a reference is a token.                  *)
(***************************************************************************)
EXTENDS Naturals, Sequences, SequencesExt, FiniteSets, FiniteSetsExt

CONSTANTS Mails,        \* the messages there may be: [text, prefixes, id, replyTo, references]; 0 is no id
          Untitled,     \* the text "(no subject)"
          PrefixLimit,  \* prefixes conversationSubject takes off
          ReferenceLimit, \* CACHED_CONVERSATION_REFERENCE_LIMIT
          MessageLimit  \* CACHED_CONVERSATION_MESSAGE_LIMIT

VARIABLES gMessages,   \* the messages, in the order they are looked at
          gAt,         \* the message looked at
          gStep,       \* 0: its subject; k: its k-th reference
          gParents,    \* the forest
          gSubjects,   \* subjects: the first message that has one
          gReferences, \* references: the first message that has one
          gGroups      \* the conversations, once all messages are grouped

groupVars == <<gMessages, gAt, gStep, gParents, gSubjects, gReferences, gGroups>>

Indices == DOMAIN gMessages

(* A list that is too long is never looked into, so one such list will do. *)
ConversationsInit ==
    /\ gMessages \in UNION {[1..n -> Mails] : n \in 0..MessageLimit}
                     \cup [1..(MessageLimit + 1) -> {CHOOSE m \in Mails : TRUE}]
    /\ gAt = 1 /\ gStep = 0 /\ gParents = [i \in Indices |-> i]
    /\ gSubjects = <<>> /\ gReferences = <<>> /\ gGroups = {}

-----------------------------------------------------------------------------
(* normalizedConversationSubject *)
Normalized(message) == [text |-> message.text, prefixes |-> message.prefixes - Min({message.prefixes, PrefixLimit})]
Titled(message) == Normalized(message) # [text |-> Untitled, prefixes |-> 0]

(* referenceTokens: its own identifier, the one it answers and the first of
   the others, each once *)
Tokens(message) ==
    LET all == <<message.id, message.replyTo>> \o SubSeq(message.references, 1, Min({ReferenceLimit, Len(message.references)}))
    IN FoldLeft(LAMBDA seen, r : IF r = 0 \/ r \in Range(seen) THEN seen ELSE Append(seen, r), <<>>, all)

(* find: the messages on the way up from start, and where it ends *)
Up(parents, start) ==
    LET up[k \in 0..Len(parents)] == IF k = 0 THEN start ELSE parents[up[k - 1]]
    IN up
Root(parents, start) == Up(parents, start)[Len(parents)]
Compress(parents, start) ==
    [i \in DOMAIN parents |->
        IF \E k \in 0..Len(parents) : Up(parents, start)[k] = i THEN Root(parents, start) ELSE parents[i]]

LinksMessage(parents, left, right) ==
    LET both == Compress(Compress(parents, left), right) IN [both EXCEPT ![right] = Root(parents, left)]
LinksStart(parents, left, right) ==
    LET both == Compress(Compress(parents, left), right)
    IN IF left = right THEN both ELSE [both EXCEPT ![Root(parents, right)] = left]
Union_(parents, left, right) ==
    LET both == Compress(Compress(parents, left), right)
    IN IF Root(parents, left) = Root(parents, right) THEN both ELSE [both EXCEPT ![Root(parents, right)] = Root(parents, left)]

(* The first message with a key is remembered, later ones join it. *)
Joined(map, key) == IF key \in DOMAIN map THEN Union_(gParents, map[key], gAt) ELSE gParents
Noted(map, key) == IF key \in DOMAIN map THEN map ELSE [k \in DOMAIN map \cup {key} |-> IF k = key THEN gAt ELSE map[k]]

Limited == Len(gMessages) > MessageLimit
More == gGroups = {} /\ ~Limited /\ gAt \in Indices

TakeSubject ==
    /\ More /\ gStep = 0 /\ gStep' = 1
    /\ LET subject == Normalized(gMessages[gAt]) IN
       IF Titled(gMessages[gAt])
       THEN gParents' = Joined(gSubjects, subject) /\ gSubjects' = Noted(gSubjects, subject)
       ELSE UNCHANGED <<gParents, gSubjects>>
    /\ UNCHANGED <<gMessages, gAt, gReferences, gGroups>>

TakeReference ==
    /\ More /\ gStep \in DOMAIN Tokens(gMessages[gAt]) /\ gStep' = gStep + 1
    /\ LET token == Tokens(gMessages[gAt])[gStep] IN
       gParents' = Joined(gReferences, token) /\ gReferences' = Noted(gReferences, token)
    /\ UNCHANGED <<gMessages, gAt, gSubjects, gGroups>>

NextMessage ==
    /\ More /\ gStep = Len(Tokens(gMessages[gAt])) + 1 /\ gAt' = gAt + 1 /\ gStep' = 0
    /\ UNCHANGED <<gMessages, gParents, gSubjects, gReferences, gGroups>>

(* The components, or every message by itself when there are too many. *)
Collect ==
    /\ gGroups = {} /\ Indices # {} /\ (Limited \/ gAt = Len(gMessages) + 1)
    /\ gGroups' = IF Limited THEN {{i} : i \in Indices}
                  ELSE {{j \in Indices : Root(gParents, j) = Root(gParents, i)} : i \in Indices}
    /\ UNCHANGED <<gMessages, gAt, gStep, gParents, gSubjects, gReferences>>

ConversationsNext == TakeSubject \/ TakeReference \/ NextMessage \/ Collect

-----------------------------------------------------------------------------
(* Two messages belong together when each set that holds the one, and with a
   message every other that has its subject or one of its references, holds
   the other. *)
Related(i, j) ==
    \/ Titled(gMessages[i]) /\ Normalized(gMessages[i]) = Normalized(gMessages[j])
    \/ Range(Tokens(gMessages[i])) \cap Range(Tokens(gMessages[j])) # {}
Together(i, j) == \A S \in SUBSET Indices : i \in S /\ (\A m \in S, n \in Indices : Related(m, n) => n \in S) => j \in S

(* The conversations are the classes of messages connected through any chain
   of shared subjects and references, in whatever order they were met. *)
GroupsAreThreads ==
    gGroups # {} /\ ~Limited => \A i, j \in Indices : Together(i, j) <=> \E g \in gGroups : {i, j} \subseteq g

(* find ends: the forest never has a cycle, after any number of unions and
   compressions. *)
FindEnds == \A i \in Indices : gParents[Root(gParents, i)] = Root(gParents, i)
=============================================================================
