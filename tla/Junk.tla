-------------------------------- MODULE Junk --------------------------------
(***************************************************************************)
(* The junk filter of junk-classifier.ts: a count of junk and good         *)
(* messages for each token, trained by the user and by filters, pruned at  *)
(* its limit, and a score combined from the probability of each token.     *)
(* Probabilities are exact fractions; with the counts reachable here they  *)
(* never meet the clamp at 0.01 and 0.99.                                  *)
(***************************************************************************)
EXTENDS Naturals, Sequences, SequencesExt, FiniteSets, FiniteSetsExt, Functions

CONSTANTS Tokens,          \* numbers, in the order of their keys
          TokenLimit,      \* JUNK_MODEL_TOKEN_LIMIT
          TrainingMinimum, \* JUNK_TRAINING_MINIMUM
          MaxTrained       \* messages trained under each label

VARIABLES jModel,   \* state.junkModel
          jSample,  \* history: the message of the last training
          jLabel    \* history: its label

junkVars == <<jModel, jSample, jLabel>>

Labels == {"junk", "good"}
Uncounted == [junk |-> 0, good |-> 0]
emptyJunkModel == [messages |-> Uncounted, tokens |-> <<>>]

JunkInit == jModel = emptyJunkModel /\ jSample = {} /\ jLabel = "none"

-----------------------------------------------------------------------------
(* pruneTokens: the tokens seen most often, the earlier key first. *)
Total(counts) == counts.junk + counts.good
pruneTokens(tokens) ==
    LET before(t, u) == \/ Total(tokens[t]) > Total(tokens[u])
                        \/ Total(tokens[t]) = Total(tokens[u]) /\ t < u
        kept == {t \in DOMAIN tokens : Cardinality({u \in DOMAIN tokens : before(u, t)}) < TokenLimit}
    IN Restrict(tokens, kept)

trainJunkModel(model, sample, label) ==
    LET counts(t) == IF t \in DOMAIN model.tokens THEN model.tokens[t] ELSE Uncounted
        trained == [t \in DOMAIN model.tokens \cup sample |->
                      IF t \in sample THEN [counts(t) EXCEPT ![label] = @ + 1] ELSE counts(t)]
    IN [messages |-> [model.messages EXCEPT ![label] = @ + 1], tokens |-> pruneTokens(trained)]

TrainMessageJunk(sample, label) ==
    /\ jModel.messages[label] < MaxTrained
    /\ jModel' = trainJunkModel(jModel, sample, label)
    /\ jSample' = sample /\ jLabel' = label

(* A mutant: the counts of words survive the reset. *)
ForgetsMessages == jModel' = [jModel EXCEPT !.messages = Uncounted] /\ jSample' = {} /\ jLabel' = "none"
ResetJunkModel ==
    /\ jModel' = emptyJunkModel /\ jSample' = {} /\ jLabel' = "none"

JunkNext ==
    \/ \E sample \in SUBSET Tokens, label \in Labels : TrainMessageJunk(sample, label)
    \/ ResetJunkModel

-----------------------------------------------------------------------------
(* A mutant: the rate of junk among the messages with the word, as it is. *)
WithoutPrior(counts, messages) ==
    LET j == counts.junk * messages.good
        g == counts.good * messages.junk
    IN <<j, j + g>>

(* A mutant: the rates of junk and good are taken for each other. *)
RatesSwapped(counts, messages) ==
    LET j == counts.junk * messages.good
        g == counts.good * messages.junk
        strength == Total(counts)
    IN IF j + g = 0 THEN <<1, 2>> ELSE <<(j + g) + 2 * strength * g, 2 * (j + g) * (1 + strength)>>

(* tokenProbability, the numerator and the denominator of
   (1/2 + strength * raw) / (1 + strength). *)
tokenProbability(counts, messages) ==
    LET j == counts.junk * messages.good
        g == counts.good * messages.junk
        strength == Total(counts)
    IN IF j + g = 0 THEN <<1, 2>> ELSE <<(j + g) + 2 * strength * j, 2 * (j + g) * (1 + strength)>>

(* The products that assessJunk adds up as logarithms: for junk, and against. *)
Odds(model, sample) ==
    LET known == sample \cap DOMAIN model.tokens
        p(t) == tokenProbability(model.tokens[t], model.messages)
    IN [junk |-> FoldSet(LAMBDA t, n : n * p(t)[1], 1, known),
        good |-> FoldSet(LAMBDA t, n : n * (p(t)[2] - p(t)[1]), 1, known)]

Trained(model) == \A label \in Labels : model.messages[label] >= TrainingMinimum

(* assessJunk with the threshold 0.9 *)
assessJunk(model, sample) ==
    LET odds == Odds(model, sample)
    IN CASE ~Trained(model) -> "untrained"
         [] Trained(model) /\ sample \cap DOMAIN model.tokens = {} -> "uncertain"
         [] Trained(model) /\ sample \cap DOMAIN model.tokens # {} /\ odds.junk >= 9 * odds.good -> "junk"
         [] Trained(model) /\ sample \cap DOMAIN model.tokens # {} /\ odds.good >= 9 * odds.junk -> "not-junk"
         [] OTHER -> "uncertain"

-----------------------------------------------------------------------------
(* A message is never judged by words seen in a single training: whatever was
   trained before and after, pruned or reset, a token of strength one alone
   leaves the verdict open. *)
OnceSeenNeverDecides ==
    \A t \in DOMAIN jModel.tokens :
        Total(jModel.tokens[t]) = 1 => assessJunk(jModel, {t}) \in {"untrained", "uncertain"}

(* Counts are of trained messages: no token was seen in more messages of a
   label than were trained under it, after resets and prunings too. *)
CountsCovered ==
    \A t \in DOMAIN jModel.tokens, label \in Labels : jModel.tokens[t][label] <= jModel.messages[label]

(* Training a message under a label never makes it look less like that
   label, unless pruning made the model forget a word of it. *)
TrainingHelps ==
    [][jLabel' \in Labels /\ jModel'.messages[jLabel'] > jModel.messages[jLabel']
         /\ jSample' \cap DOMAIN jModel.tokens \subseteq DOMAIN jModel'.tokens /\ Trained(jModel) =>
           LET before == Odds(jModel, jSample')
               after == Odds(jModel', jSample')
               other == IF jLabel' = "junk" THEN "good" ELSE "junk"
           IN after[jLabel'] * before[other] >= before[jLabel'] * after[other]]_junkVars
=============================================================================
